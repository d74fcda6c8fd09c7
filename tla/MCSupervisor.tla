----------------------------- MODULE MCSupervisor -----------------------------
(***************************************************************************)
(* Constants for the passing runs of Supervisor.                           *)
(***************************************************************************)
EXTENDS Supervisor, TLC

MCBackoff == <<1, 2>>

\* The messages of an instance are those its questions turn on.
Msg(kind, caps) == [kind |-> kind, caps |-> caps]
Ready == Msg("Ready", {"video"})
Metrics == {Msg("Flowing", {}), Msg("Stalled", {})}
StreamsChanged == {Msg("StreamsChanged", {}), Msg("StreamsChanged", {"video"})}

PlayAlphabet == {Ready}
AudioAlphabet == {Msg("Ready", {"audio"})}   \* the frame watchdog passes over it
LifecycleAlphabet == {Ready, Msg("Mismatch", {}), Msg("Error", {})}
TopologyAlphabet == {Ready} \cup StreamsChanged
WatchdogAlphabet == {Ready, Msg("Reconnecting", {}), Msg("StreamsChanged", {})}
                      \cup Metrics

\* Incarnations are interchangeable, and so are sources: no definition orders
\* them or picks one with CHOOSE.
Symmetry == Permutations(Sources) \cup Permutations(Slots)
==============================================================================
