----------------------------- MODULE AdapterProofs -----------------------------
(***************************************************************************)
(* Theorems about Adapter.  ReportIsTrue is not inductive: it says nothing *)
(* of a thread that has asked for its check and not yet released the flag, *)
(* nor of what a Ready still to come will report.  SettledIsTrue does.     *)
(* At the end Adapter is shown to implement AdapterContract.               *)
(***************************************************************************)
EXTENDS Adapter, TLAPS

\* No thread is between the teardown and the request for a check, and no check
\* is pending.
Settled ==
  /\ post_reconnect_check_at = None
  /\ \A r \in Threads : restart[r] \in {"idle", "sleep", "release"}

\* Ready takes its caps from chains, later reports from linked: in a settled
\* state every chain that Ready may name is linked, and so is every medium
\* reported last.
SettledIsTrue ==
  /\ ready_sent <=> last_reported_caps # None
  /\ Settled => IF ready_sent THEN last_reported_caps \subseteq linked
                ELSE chains \subseteq linked

AdapterIInv == TypeOK /\ OneRestart /\ SettledIsTrue

USE DEF Caps, Timer

-----------------------------------------------------------------------------
(* Types.                                                                  *)

LEMMA TypeInit == Init => TypeOK
<1> SUFFICES ASSUME Init PROVE TypeOK
  OBVIOUS
<1>1. restart \in [Threads -> {"idle", "sleep", "report", "tell", "sync", "mark",
                              "release"}]
  BY DEF Init
<1>2. bus \in Seq({"Error", "Eos"})
  BY DEF Init
<1> QED BY <1>1, <1>2 DEF Init, TypeOK

\* A thread's step, but for what it writes.
LEMMA TypeGoes ==
  ASSUME TypeOK, NEW r \in Threads, NEW from,
         NEW to \in {"idle", "sleep", "report", "tell", "sync", "mark", "release"},
         Goes(r, from, to)
  PROVE  /\ kind' \in Kinds
         /\ pc' \in {"commands", "bus", "ready", "announce", "check", "exited"}
         /\ announcing' \in {None} \cup Caps
         /\ bus' \in Seq({"Error", "Eos"})
         /\ chains' \in Caps
         /\ first_pad_at' \in Timer
         /\ ready_sent' \in BOOLEAN
         /\ reconnect_count' \in Nat
         /\ restart' \in [Threads -> {"idle", "sleep", "report", "tell", "sync",
                                      "mark", "release"}]
         /\ age' \in Nat
  BY DEF TypeOK, Goes, mainVars, padVars

LEMMA TypeStep == TypeOK /\ [Next]_vars => TypeOK'
<1> SUFFICES ASSUME TypeOK, [Next]_vars PROVE TypeOK'
  OBVIOUS
<1> USE AdapterAssumption DEF AdapterAssumption
<1>1. ASSUME NEW m \in Media, PadAdded(m) PROVE TypeOK'
  BY <1>1 DEF PadAdded, TypeOK, mainVars, reportVars, retryVars
<1>2. ASSUME NEW msg \in {"Error", "Eos"}, SourceFails(msg) PROVE TypeOK'
  BY <1>2 DEF SourceFails, TypeOK, mainVars, padVars, reportVars, retryVars
<1>3. CASE MoreErrors
  BY <1>3 DEF MoreErrors, TypeOK, mainVars, sourceVars, padVars, reportVars,
              retryVars
<1>4. CASE PlayOrPause
  BY <1>4 DEF PlayOrPause, TypeOK, mainVars, padVars, reportVars, retryVars
<1>5. CASE Shutdown
  BY <1>5 DEF Shutdown, Exit, TypeOK, sourceVars, padVars, reportVars, retryVars
<1>6. CASE ForceRestart
  <2>1. reconnecting' \in BOOLEAN
    BY <1>6, Zenon DEF ForceRestart, StartRestart, TypeOK
  <2>2. reconnect_count' \in Nat
    BY <1>6 DEF ForceRestart, StartRestart, OneMore, TypeOK
  <2>3. restart' \in [Threads -> {"idle", "sleep", "report", "tell", "sync",
                                  "mark", "release"}]
    BY <1>6 DEF ForceRestart, StartRestart, TypeOK
  <2> QED BY <1>6, <2>1, <2>2, <2>3 DEF ForceRestart, TypeOK, mainVars, sourceVars, padVars,
                            reportVars
<1>7. CASE CommandsDone
  BY <1>7 DEF CommandsDone, TypeOK, sourceVars, padVars, reportVars, retryVars
<1>8. ASSUME NEW msg \in {"Error", "Eos"}, Ignore(msg) PROVE TypeOK'
  BY <1>8 DEF Ignore, Pop, TypeOK, mainVars, sourceVars, padVars, reportVars,
              retryVars
<1>9. ASSUME NEW msg \in {"Error", "Eos"}, Reconnect(msg) PROVE TypeOK'
  BY <1>9 DEF Reconnect, Pop, StartRestart, Gate, OneMore, TypeOK, mainVars,
              sourceVars, padVars, reportVars
<1>10. ASSUME NEW msg \in {"Error", "Eos"}, GiveUp(msg) PROVE TypeOK'
  BY <1>10 DEF GiveUp, Exit, Pop, Gate, OneMore, TypeOK, sourceVars, padVars,
               reportVars
<1>11. CASE BusEmpty
  BY <1>11 DEF BusEmpty, TypeOK, sourceVars, padVars, reportVars, retryVars
<1>12. CASE DecideReady
  BY <1>12 DEF DecideReady, TypeOK, sourceVars, padVars, retryVars
<1>13. CASE AnnounceReady
  BY <1>13 DEF AnnounceReady, TypeOK, sourceVars, padVars, retryVars
<1>14. CASE CheckReconnect
  BY <1>14 DEF CheckReconnect, TypeOK, sourceVars, padVars, retryVars
<1>15. ASSUME NEW r \in Threads, Restart(r) PROVE TypeOK'
  <2>1. CASE TearDown(r)
    BY <2>1, TypeGoes DEF TearDown, TypeOK
  <2>2. CASE ReportDrop(r)
    BY <2>2, TypeGoes DEF ReportDrop, TypeOK, sourceVars
  <2>3. CASE TellDrop(r)
    BY <2>3, TypeGoes DEF TellDrop, TypeOK, sourceVars
  <2>4. CASE SyncState(r)
    BY <2>4, TypeGoes DEF SyncState, TypeOK
  <2>5. CASE Mark(r)
    BY <2>5, TypeGoes DEF Mark, TypeOK, sourceVars
  <2>6. CASE Release(r)
    BY <2>6, TypeGoes DEF Release, TypeOK, sourceVars
  <2> QED BY <1>15, <2>1, <2>2, <2>3, <2>4, <2>5, <2>6 DEF Restart
<1>16. CASE Tick
  BY <1>16 DEF Tick, Older, TypeOK, mainVars, sourceVars, reportVars, retryVars
<1>17. CASE Exited \/ UNCHANGED vars
  BY <1>17 DEF Exited, TypeOK, vars, mainVars, sourceVars, padVars, reportVars,
               retryVars
<1> QED
  BY <1>1, <1>2, <1>3, <1>4, <1>5, <1>6, <1>7, <1>8, <1>9, <1>10, <1>11, <1>12,
     <1>13, <1>14, <1>15, <1>16, <1>17 DEF Next, GStreamer, Loop

-----------------------------------------------------------------------------
(* One reconnect at a time.                                                *)

LEMMA OneRestartInit == Init => OneRestart
  BY DEF Init, OneRestart

LEMMA OneRestartStep == TypeOK /\ OneRestart /\ [Next]_vars => OneRestart'
<1> SUFFICES ASSUME TypeOK, OneRestart, [Next]_vars PROVE OneRestart'
  OBVIOUS
<1>1. ASSUME UNCHANGED <<reconnecting, restart>> PROVE OneRestart'
  BY <1>1 DEF OneRestart
<1>2. ASSUME StartRestart PROVE OneRestart'
  BY <1>2 DEF StartRestart, Gate, OneRestart, TypeOK
<1>3. ASSUME NEW r \in Threads, NEW from \in {"sleep", "report", "tell", "sync", "mark"},
             NEW to \in {"sleep", "report", "tell", "sync", "mark", "release"},
             Goes(r, from, to), UNCHANGED reconnecting
      PROVE  OneRestart'
  BY <1>3 DEF Goes, OneRestart, TypeOK
<1>4. ASSUME NEW r \in Threads, Restart(r) PROVE OneRestart'
  <2>1. CASE TearDown(r)
    BY <2>1, <1>3 DEF TearDown
  <2>2. CASE ReportDrop(r)
    BY <2>2, <1>3 DEF ReportDrop
  <2>3. CASE TellDrop(r)
    BY <2>3, <1>3 DEF TellDrop
  <2>4. CASE SyncState(r)
    BY <2>4, <1>3 DEF SyncState
  <2>5. CASE Mark(r)
    BY <2>5, <1>3 DEF Mark
  <2>6. CASE Release(r)
    BY <2>6 DEF Release, Goes, OneRestart, TypeOK
  <2> QED BY <1>4, <2>1, <2>2, <2>3, <2>4, <2>5, <2>6 DEF Restart
<1>5. CASE GStreamer
  BY <1>5, <1>1 DEF GStreamer, PadAdded, SourceFails, MoreErrors, retryVars
<1>6. CASE PlayOrPause \/ Shutdown
  BY <1>6, <1>1 DEF PlayOrPause, Shutdown, Exit, retryVars
<1>7. CASE ForceRestart
  BY <1>7, <1>1, <1>2 DEF ForceRestart
<1>8. CASE Loop
  BY <1>8, <1>1, <1>2 DEF Loop, CommandsDone, Ignore, Reconnect, GiveUp, Exit,
     BusEmpty, DecideReady, AnnounceReady, CheckReconnect, retryVars
<1>9. CASE Tick
  BY <1>9, <1>1 DEF Tick, retryVars
<1>10. CASE Exited \/ UNCHANGED vars
  BY <1>10, <1>1 DEF Exited, vars, retryVars
<1> QED
  BY <1>4, <1>5, <1>6, <1>7, <1>8, <1>9, <1>10 DEF Next

-----------------------------------------------------------------------------
(* What was reported is there.                                             *)

LEMMA SettledInit == Init => SettledIsTrue
  BY DEF Init, SettledIsTrue

\* A step that touches none of what SettledIsTrue speaks of, but may start a
\* reconnect.
LEMMA SettledKept ==
  ASSUME TypeOK, SettledIsTrue,
         UNCHANGED <<linked, chains, ready_sent, last_reported_caps,
                     post_reconnect_check_at>>,
         \/ UNCHANGED restart
         \/ StartRestart
  PROVE  SettledIsTrue'
  BY DEF SettledIsTrue, Settled, StartRestart, TypeOK

LEMMA SettledStep == TypeOK /\ SettledIsTrue /\ [Next]_vars => SettledIsTrue'
<1> SUFFICES ASSUME TypeOK, SettledIsTrue, [Next]_vars PROVE SettledIsTrue'
  OBVIOUS
<1> USE AdapterAssumption DEF AdapterAssumption
<1>1. ASSUME NEW m \in Media, PadAdded(m) PROVE SettledIsTrue'
  BY <1>1 DEF PadAdded, SettledIsTrue, Settled, TypeOK, reportVars
<1>2. ASSUME NEW msg \in {"Error", "Eos"}, SourceFails(msg) PROVE SettledIsTrue'
  BY <1>2, SettledKept DEF SourceFails, padVars, reportVars
<1>3. CASE MoreErrors
  BY <1>3, SettledKept DEF MoreErrors, sourceVars, padVars, reportVars
<1>4. CASE PlayOrPause \/ Shutdown
  BY <1>4, SettledKept DEF PlayOrPause, Shutdown, Exit, sourceVars, padVars, reportVars
<1>5. CASE ForceRestart
  BY <1>5, SettledKept DEF ForceRestart, sourceVars, padVars, reportVars
<1>6. CASE CommandsDone \/ BusEmpty
  BY <1>6, SettledKept DEF CommandsDone, BusEmpty, sourceVars, padVars, reportVars
<1>7. ASSUME NEW msg \in {"Error", "Eos"},
             Ignore(msg) \/ Reconnect(msg) \/ GiveUp(msg)
      PROVE  SettledIsTrue'
  BY <1>7, SettledKept DEF Ignore, Reconnect, GiveUp, Exit, sourceVars, padVars,
     reportVars
<1>8. CASE DecideReady
  BY <1>8 DEF DecideReady, SettledIsTrue, Settled, TypeOK, sourceVars, padVars
<1>9. CASE AnnounceReady
  BY <1>9, SettledKept DEF AnnounceReady, sourceVars, padVars
<1>10. CASE CheckReconnect
  BY <1>10 DEF CheckReconnect, SettledIsTrue, Settled, TypeOK, sourceVars, padVars
<1>11. ASSUME NEW r \in Threads, Restart(r) PROVE SettledIsTrue'
  <2>1. ASSUME NEW from, NEW to \in {"report", "tell", "sync", "mark"},
               Goes(r, from, to),
               ready_sent <=> last_reported_caps' # None
        PROVE  SettledIsTrue'
    BY <2>1 DEF Goes, SettledIsTrue, Settled, TypeOK
  <2>2. CASE TearDown(r)
    BY <2>2, <2>1 DEF TearDown, SettledIsTrue
  <2>3. CASE ReportDrop(r)
    BY <2>3, <2>1 DEF ReportDrop, SettledIsTrue
  <2>4. CASE TellDrop(r)
    BY <2>4, <2>1 DEF TellDrop, SettledIsTrue
  <2>5. CASE SyncState(r)
    BY <2>5, <2>1 DEF SyncState, SettledIsTrue
  <2>6. CASE Mark(r)
    BY <2>6 DEF Mark, Goes, SettledIsTrue, Settled
  <2>7. CASE Release(r)
    BY <2>7 DEF Release, Goes, SettledIsTrue, Settled, TypeOK, sourceVars, padVars
  <2> QED BY <1>11, <2>2, <2>3, <2>4, <2>5, <2>6, <2>7 DEF Restart
<1>12. CASE Tick
  BY <1>12 DEF Tick, Older, SettledIsTrue, Settled, TypeOK, sourceVars, reportVars
<1>13. CASE Exited \/ UNCHANGED vars
  BY <1>13, SettledKept DEF Exited, vars, sourceVars, padVars, reportVars
<1> QED
  BY <1>1, <1>2, <1>3, <1>4, <1>5, <1>6, <1>7, <1>8, <1>9, <1>10, <1>11, <1>12,
     <1>13 DEF Next, GStreamer, Loop

-----------------------------------------------------------------------------
\* The inductive invariant of the adapters: types, one reconnect at a time, and
\* what Ready or the last report names is linked whenever nothing is pending.
THEOREM AdapterInvariance == Spec => []AdapterIInv
<1>1. Init => AdapterIInv
  BY TypeInit, OneRestartInit, SettledInit DEF AdapterIInv
<1>2. AdapterIInv /\ [Next]_vars => AdapterIInv'
  BY TypeStep, OneRestartStep, SettledStep DEF AdapterIInv
<1> QED BY <1>1, <1>2, PTL DEF Spec

\* Every variable of the adapters keeps its type, and a linked chain has a pad.
THEOREM AdapterTypeCorrect == Spec => []TypeOK
  BY AdapterInvariance, PTL DEF AdapterIInv

\* The reconnecting flag is up exactly while a reconnect thread runs, and two
\* never run at once, however errors, ends of stream and signals fall.
THEOREM OneRestartHolds == Spec => []OneRestart
  BY AdapterInvariance, PTL DEF AdapterIInv

\* With no reconnect and no check under way, every medium the adapter holds for
\* reported is linked: the core is never left with a chain for nothing.
THEOREM ReportIsTrueHolds == Spec => []ReportIsTrue
<1>1. AdapterIInv => ReportIsTrue
  BY DEF AdapterIInv, SettledIsTrue, Settled, ReportIsTrue
<1> QED BY <1>1, AdapterInvariance, PTL

-----------------------------------------------------------------------------
(* The refinement of AdapterContract.  OneRestart makes Phase the place of   *)
(* the one thread there may be; each step of it is a step of the recovery.   *)

\* A Ready is about to be written exactly while the main loop is there.
Announcing == announcing # None <=> pc = "announce"

LEMMA AnnouncingStep == TypeOK /\ Announcing /\ [Next]_vars => Announcing'
<1> SUFFICES ASSUME TypeOK, Announcing, [Next]_vars PROVE Announcing'
  OBVIOUS
<1>1. ASSUME UNCHANGED <<announcing, pc>> PROVE Announcing'
  BY <1>1 DEF Announcing
<1>2. CASE GStreamer \/ PlayOrPause \/ ForceRestart \/ Tick \/ Exited \/ UNCHANGED vars
  BY <1>1, <1>2 DEF GStreamer, PadAdded, SourceFails, MoreErrors, PlayOrPause, ForceRestart,
     Tick, Exited, mainVars, vars
<1>3. CASE Shutdown \/ \E msg \in {"Error", "Eos"} : GiveUp(msg)
  BY <1>3 DEF Shutdown, GiveUp, Pop, Exit, Announcing
<1>4. ASSUME NEW msg \in {"Error", "Eos"}, Ignore(msg) \/ Reconnect(msg)
      PROVE  Announcing'
  BY <1>1, <1>4 DEF Ignore, Reconnect, mainVars
<1>5. CASE CommandsDone \/ BusEmpty \/ CheckReconnect
  BY <1>5 DEF CommandsDone, BusEmpty, CheckReconnect, Announcing
<1>6. CASE DecideReady
  BY <1>6, AdapterAssumption DEF DecideReady, Announcing, TypeOK
<1>7. CASE AnnounceReady
  BY <1>7 DEF AnnounceReady, Announcing
<1>8. ASSUME NEW r \in Threads, Restart(r) PROVE Announcing'
  BY <1>1, <1>8 DEF Restart, TearDown, ReportDrop, TellDrop, SyncState, Mark, Release, Goes,
     mainVars
<1> QED
  BY <1>2, <1>3, <1>4, <1>5, <1>6, <1>7, <1>8 DEF Next, Loop

\* What a recovery is doing while its thread is at a place.
PhaseAt(place) ==
  CASE place \in {"sleep", "report"} -> "dropped"
    [] place = "tell"                -> "telling"
    [] place \in {"sync", "mark"}    -> "connecting"
    [] place = "release"             -> "connected"
    [] OTHER                         -> "flowing"

LEMMA PhaseTable ==
  /\ PhaseAt("sleep") = "dropped" /\ PhaseAt("report") = "dropped"
  /\ PhaseAt("tell") = "telling"
  /\ PhaseAt("sync") = "connecting" /\ PhaseAt("mark") = "connecting"
  /\ PhaseAt("release") = "connected" /\ PhaseAt("idle") = "flowing"
  BY DEF PhaseAt

LEMMA PhaseNow ==
  ASSUME NEW r \in Threads, \A q \in Threads : q # r => restart[q] = "idle"
  PROVE  Phase = PhaseAt(restart[r])
  BY DEF Phase, PhaseAt

LEMMA PhaseNext ==
  ASSUME NEW r \in Threads, \A q \in Threads : q # r => restart'[q] = "idle"
  PROVE  Phase' = PhaseAt(restart'[r])
  BY DEF Phase, PhaseAt

LEMMA GoesPhase ==
  ASSUME TypeOK, OneRestart, NEW r \in Threads,
         NEW from \in {"sleep", "report", "tell", "sync", "mark", "release"}, NEW to,
         Goes(r, from, to)
  PROVE  Phase = PhaseAt(from) /\ Phase' = PhaseAt(to)
<1>1. restart[r] = from /\ \A q \in Threads : q # r => restart[q] = "idle"
  BY DEF Goes, OneRestart
<1>2. restart'[r] = to /\ \A q \in Threads : q # r => restart'[q] = "idle"
  BY <1>1 DEF Goes, TypeOK
<1> QED
  BY <1>1, <1>2, PhaseNow, PhaseNext

LEMMA StartPhase ==
  ASSUME TypeOK, OneRestart, StartRestart
  PROVE  Phase = "flowing" /\ Phase' = "dropped"
<1>1. PICK r \in Threads : restart' = [restart EXCEPT ![r] = "sleep"]
  BY DEF StartRestart
<1>2. \A q \in Threads : restart[q] = "idle"
  BY DEF StartRestart, Gate, OneRestart
<1>3. restart'[r] = "sleep" /\ \A q \in Threads : q # r => restart'[q] = "idle"
  BY <1>1, <1>2 DEF TypeOK
<1> QED
  BY <1>2, <1>3, PhaseNow, PhaseNext DEF PhaseAt

\* A step the contract does not see.
Stutters ==
  /\ Phase' = Phase
  /\ (post_reconnect_check_at # None)' <=> post_reconnect_check_at # None
  /\ UNCHANGED <<last_reported_caps, announcing, told>>
  /\ (pc = "exited")' <=> pc = "exited"

LEMMA ContractStep ==
  ASSUME AdapterIInv, Announcing, Next, pc # "exited"
  PROVE  Stutters \/ Contract!Next
<1>t. TypeOK /\ OneRestart /\ (ready_sent <=> last_reported_caps # None)
  BY DEF AdapterIInv, SettledIsTrue
<1> USE AdapterAssumption DEF AdapterAssumption
<1>0. ASSUME UNCHANGED restart PROVE Phase' = Phase
  BY <1>0 DEF Phase
<1>1. ASSUME StartRestart, UNCHANGED <<mainVars, reportVars, post_reconnect_check_at>>
      PROVE  Contract!Next
  BY <1>1, <1>t, StartPhase DEF Contract!Next, Contract!Drop, mainVars, reportVars
<1>2. CASE GStreamer
  BY <1>0, <1>2, <1>t DEF GStreamer, PadAdded, SourceFails, MoreErrors, mainVars, reportVars,
     Stutters, TypeOK
<1>3. CASE PlayOrPause \/ CommandsDone \/ BusEmpty
  BY <1>0, <1>3 DEF PlayOrPause, CommandsDone, BusEmpty, mainVars, reportVars, Stutters
<1>4. CASE Shutdown \/ \E msg \in {"Error", "Eos"} : GiveUp(msg)
  BY <1>0, <1>4 DEF Shutdown, GiveUp, Exit, reportVars, Contract!Next, Contract!Leave
<1>5. CASE ForceRestart
  BY <1>0, <1>1, <1>5 DEF ForceRestart, mainVars, reportVars, Stutters
<1>6. ASSUME NEW msg \in {"Error", "Eos"}, Ignore(msg) \/ Reconnect(msg)
      PROVE  Stutters \/ Contract!Next
  BY <1>0, <1>1, <1>6 DEF Ignore, Reconnect, mainVars, reportVars, Stutters
<1>7. CASE DecideReady
  <2>1. CASE ~ready_sent /\ Due
    BY <1>0, <1>7, <1>t, <2>1 DEF DecideReady, TypeOK, Contract!Next, Contract!DecideReady
  <2>2. CASE ~(~ready_sent /\ Due)
    BY <1>0, <1>7, <2>2 DEF DecideReady, Stutters
  <2> QED
    BY <2>1, <2>2
<1>8. CASE AnnounceReady
  BY <1>0, <1>8 DEF AnnounceReady, Announcing, Contract!Next, Contract!SayReady
<1>9. CASE CheckReconnect
  <2>1. CASE /\ ready_sent
             /\ post_reconnect_check_at # None
             /\ post_reconnect_check_at >= PadStability
    <3>1. /\ post_reconnect_check_at # None /\ post_reconnect_check_at' = None
          /\ last_reported_caps # None /\ announcing = None
          /\ linked \in Caps /\ last_reported_caps' = linked
          /\ told' = IF linked = last_reported_caps THEN told ELSE linked
          /\ pc # "exited" /\ pc' # "exited" /\ UNCHANGED announcing
      BY <1>9, <1>t, <2>1 DEF CheckReconnect, Announcing, TypeOK
    <3>2. Phase' = Phase
      BY <1>0, <1>9 DEF CheckReconnect
    <3> QED
      BY <3>1, <3>2 DEF Contract!Next, Contract!Check
  <2>2. CASE ~ (/\ ready_sent
                /\ post_reconnect_check_at # None
                /\ post_reconnect_check_at >= PadStability)
    BY <1>0, <1>9, <2>2 DEF CheckReconnect, Stutters
  <2> QED
    BY <2>1, <2>2
<1>10. ASSUME NEW r \in Threads, Restart(r)
       PROVE  Stutters \/ Contract!Next
  <2>1. CASE TearDown(r)
    <3>1. Goes(r, "sleep", "report") /\ UNCHANGED <<last_reported_caps, told, post_reconnect_check_at>>
      BY <2>1 DEF TearDown
    <3>2. Phase = "dropped" /\ Phase' = "dropped"
      BY <1>t, <3>1, GoesPhase, PhaseTable
    <3> QED
      BY <3>1, <3>2 DEF Goes, mainVars, Stutters
  <2>2. CASE ReportDrop(r)
    <3>1. CASE ready_sent /\ last_reported_caps # {}
      <4>1. /\ Goes(r, "report", "tell") /\ last_reported_caps' = {}
            /\ UNCHANGED <<told, post_reconnect_check_at>>
        BY <2>2, <3>1 DEF ReportDrop
      <4>2. Phase = "dropped" /\ Phase' = "telling"
        BY <1>t, <4>1, GoesPhase, PhaseTable
      <4> QED
        BY <1>t, <3>1, <4>1, <4>2 DEF Goes, mainVars, Contract!Next, Contract!ReportDrop
    <3>2. CASE ~(ready_sent /\ last_reported_caps # {})
      <4>1. /\ Goes(r, "report", "sync")
            /\ UNCHANGED <<last_reported_caps, told, post_reconnect_check_at>>
        BY <2>2, <3>2 DEF ReportDrop
      <4>2. Phase = "dropped" /\ Phase' = "connecting"
        BY <1>t, <4>1, GoesPhase, PhaseTable
      <4> QED
        BY <1>t, <3>2, <4>1, <4>2 DEF Goes, mainVars, Contract!Next, Contract!ReportDrop
    <3> QED
      BY <3>1, <3>2
  <2>3. CASE TellDrop(r)
    BY <1>t, <2>3, GoesPhase, PhaseTable DEF TellDrop, Goes, mainVars, Contract!Next,
       Contract!SayDrop
  <2>4. CASE SyncState(r)
    <3>1. Goes(r, "sync", "mark") /\ UNCHANGED <<last_reported_caps, told, post_reconnect_check_at>>
      BY <2>4 DEF SyncState
    <3>2. Phase = "connecting" /\ Phase' = "connecting"
      BY <1>t, <3>1, GoesPhase, PhaseTable
    <3> QED
      BY <3>1, <3>2 DEF Goes, mainVars, Stutters
  <2>5. CASE Mark(r)
    <3>1. Goes(r, "mark", "release") /\ UNCHANGED <<last_reported_caps, told>>
      BY <2>5 DEF Mark
    <3>2. post_reconnect_check_at' # None
      BY <2>5 DEF Mark
    <3>3. Phase = "connecting" /\ Phase' = "connected"
      BY <1>t, <3>1, GoesPhase, PhaseTable
    <3> QED
      BY <3>1, <3>2, <3>3 DEF Goes, mainVars, Contract!Next, Contract!Connected
  <2>6. CASE Release(r)
    <3>1. /\ Goes(r, "release", "idle")
          /\ UNCHANGED <<last_reported_caps, told, post_reconnect_check_at>>
      BY <2>6 DEF Release
    <3>2. Phase = "connected" /\ Phase' = "flowing"
      BY <1>t, <3>1, GoesPhase, PhaseTable
    <3> QED
      BY <3>1, <3>2 DEF Goes, mainVars, Contract!Next, Contract!Recovered
  <2> QED
    BY <1>10, <2>1, <2>2, <2>3, <2>4, <2>5, <2>6 DEF Restart
<1>11. CASE Tick
  BY <1>0, <1>11, <1>t DEF Tick, Older, TypeOK, mainVars, reportVars, Stutters
<1>12. CASE Exited
  BY <1>12 DEF Exited
<1> QED
  BY <1>2, <1>3, <1>4, <1>5, <1>6, <1>7, <1>8, <1>9, <1>10, <1>11, <1>12 DEF Next, Loop

\* An adapter that has left does nothing more.
LEMMA GoneStep ==
  ASSUME Next, pc = "exited"
  PROVE  UNCHANGED vars
<1>1. ~GStreamer /\ ~Tick /\ ~PlayOrPause /\ ~Shutdown /\ ~ForceRestart
  BY DEF GStreamer, PadAdded, SourceFails, MoreErrors, Tick, PlayOrPause, Shutdown, ForceRestart
<1>2. ~Loop
  BY DEF Loop, CommandsDone, Ignore, Reconnect, GiveUp, Pop, BusEmpty, DecideReady,
     AnnounceReady, CheckReconnect
<1>3. \A r \in Threads : ~Restart(r)
  BY DEF Restart, TearDown, ReportDrop, TellDrop, SyncState, Mark, Release, Goes
<1> QED
  BY <1>1, <1>2, <1>3 DEF Next, Exited

\* Both adapters implement the contract, for any number of threads, any limits and
\* timers: one Ready, one recovery at a time from its drop to its owed check, and
\* streams told only as the contract has it, in every order of the threads' steps.
THEOREM ContractImplemented == Spec => ImplementsContract
<1>1. Init => Announcing /\ Contract!Init
  BY DEF Init, Announcing, Contract!Init, Phase
<1>2. AdapterIInv /\ Announcing /\ [Next]_vars => [Contract!Next]_(Contract!vars)
  <2> SUFFICES ASSUME AdapterIInv, Announcing, [Next]_vars
               PROVE  Contract!Next \/ UNCHANGED Contract!vars
    OBVIOUS
  <2>1. CASE UNCHANGED vars
    BY <2>1 DEF vars, mainVars, reportVars, Phase, Contract!vars
  <2>2. CASE Next /\ pc = "exited"
    BY <2>1, <2>2, GoneStep
  <2>3. CASE Next /\ pc # "exited"
    <3>1. Stutters => UNCHANGED Contract!vars
      BY DEF Stutters, Contract!vars
    <3> QED
      BY <2>3, <3>1, ContractStep
  <2> QED
    BY <2>1, <2>2, <2>3
<1>3. AdapterIInv /\ Announcing /\ [Next]_vars => Announcing'
  BY AnnouncingStep DEF AdapterIInv
<1> QED
  BY <1>1, <1>2, <1>3, AdapterInvariance, PTL DEF Spec, ImplementsContract, Contract!Spec
=============================================================================
