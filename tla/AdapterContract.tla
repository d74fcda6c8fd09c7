---------------------------- MODULE AdapterContract ----------------------------
(***************************************************************************)
(* What an adapter promises the core about its source's streams, in the    *)
(* lines it writes:                                                        *)
(*   - Ready once, with the streams decided on;                            *)
(*   - each recovery of the source runs from the drop to its end before    *)
(*     the next begins, and tells of the drop at most once, and only if    *)
(*     streams had been reported;                                          *)
(*   - every recovery asks for a check before it ends, and but for Ready   *)
(*     and the drop streams are told only by a check that is owed, only    *)
(*     when they differ from the last report, and never before Ready;      *)
(*   - nothing after the adapter has left.                                 *)
(* A report is decided in one step and, Ready and the drop, written in a   *)
(* later one; the two writes may overtake each other.                      *)
(***************************************************************************)
CONSTANTS
  Caps,  \* the sets of streams there may be
  None

VARIABLES
  phase,       \* of the recovery
  owed,        \* is there a check to come?
  reported,    \* the streams decided on last, or None before Ready
  announcing,  \* those of the Ready about to be written, or None
  told,        \* those of the last line written, or None
  gone

vars == <<phase, owed, reported, announcing, told, gone>>

Init ==
  /\ phase = "flowing" /\ owed = FALSE
  /\ reported = None /\ announcing = None /\ told = None
  /\ gone = FALSE

DecideReady ==
  /\ reported = None
  /\ \E caps \in Caps : reported' = caps /\ announcing' = caps
  /\ UNCHANGED <<phase, owed, told, gone>>

SayReady ==
  /\ announcing # None
  /\ told' = announcing
  /\ announcing' = None
  /\ UNCHANGED <<phase, owed, reported, gone>>

\* The source drops, which is said at once.
Drop ==
  /\ phase = "flowing" /\ phase' = "dropped"
  /\ UNCHANGED <<owed, reported, announcing, told, gone>>

ReportDrop ==
  /\ phase = "dropped"
  /\ IF reported \in {None, {}}
     THEN phase' = "connecting" /\ UNCHANGED reported
     ELSE phase' = "telling" /\ reported' = {}
  /\ UNCHANGED <<owed, announcing, told, gone>>

SayDrop ==
  /\ phase = "telling" /\ phase' = "connecting"
  /\ told' = {}
  /\ UNCHANGED <<owed, reported, announcing, gone>>

Connected ==
  /\ phase = "connecting" /\ phase' = "connected"
  /\ owed' = TRUE
  /\ UNCHANGED <<reported, announcing, told, gone>>

Recovered ==
  /\ phase = "connected" /\ phase' = "flowing"
  /\ UNCHANGED <<owed, reported, announcing, told, gone>>

Check ==
  /\ owed /\ owed' = FALSE
  /\ reported # None /\ announcing = None
  /\ \E caps \in Caps : /\ reported' = caps
                        /\ told' = IF caps = reported THEN told ELSE caps
  /\ UNCHANGED <<phase, announcing, gone>>

Leave ==
  /\ gone' = TRUE
  /\ UNCHANGED <<phase, owed, reported, announcing, told>>

Next ==
  /\ ~gone
  /\ \/ DecideReady \/ SayReady
     \/ Drop \/ ReportDrop \/ SayDrop \/ Connected \/ Recovered
     \/ Check
     \/ Leave

Spec == Init /\ [][Next]_vars
=============================================================================
