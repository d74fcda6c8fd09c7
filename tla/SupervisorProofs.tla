--------------------------- MODULE SupervisorProofs ---------------------------
(***************************************************************************)
(* Proofs about Supervisor, for every value of its constants.              *)
(***************************************************************************)
EXTENDS Supervisor, TLAPS

\* The two kinds of instant stay what they are as time passes.
LEMMA AgedIsAge ==
  ASSUME NEW t \in Age, NEW limit \in Nat
  PROVE  Aged(t, limit) \in Age
  BY SupervisorAssumption DEF Aged, Age

LEMMA NearerIsAge ==
  ASSUME NEW t \in Age
  PROVE  Nearer(t) \in Age
  BY SupervisorAssumption DEF Nearer, Age

LEMMA NearerKeepsNone ==
  ASSUME NEW t \in Age
  PROVE  Nearer(t) = None <=> t = None
  BY SupervisorAssumption DEF Nearer, Age

LEMMA BackoffDelayIsNat ==
  ASSUME NEW attempt \in Nat
  PROVE  BackoffDelay(attempt) \in Nat
  BY SupervisorAssumption DEF BackoffDelay

LEMMA OneMoreRestartIsNat ==
  ASSUME NEW n \in Nat
  PROVE  OneMoreRestart(n) \in Nat
  BY SupervisorAssumption DEF OneMoreRestart

LEMMA ConstantTypes ==
  /\ StreamsGrace \in Nat /\ TeardownWindow \in Nat /\ DeliveryWatchdog \in Nat
  /\ HealthyRun \in Nat /\ SilenceTimeout \in Nat /\ FrameWatchdog \in Nat
  BY SupervisorAssumption

LEMMA NewStatusType ==
  ASSUME NEW st \in State
  PROVE  NewStatus(st) \in Status
  BY DEF NewStatus, Status, Age, State

LEMMA EntryType ==
  ASSUME TypeOK, NEW s \in Sources
  PROVE  Entry(s) \in Status
<1>1. status[s] \in Status
  BY DEF TypeOK
<1>2. 0 \in Age
  BY DEF Age
<1> DEFINE st == IF status[s].state = "Absent" THEN "Starting" ELSE status[s].state
<1>3. st \in State
  BY <1>1 DEF Status, State
<1>4. Entry(s) = [status[s] EXCEPT !.last_any_msg = 0, !.state = st]
  BY DEF Entry
<1> HIDE DEF st
<1> QED
  BY <1>1, <1>2, <1>3, <1>4 DEF Status

LEMMA AtRestType ==
  ASSUME NEW e \in Status, NEW st \in State
  PROVE  /\ AtRest(e, st) \in Status
         /\ AtRest(e, st).state = st
         /\ AtRest(e, st).last_frame = e.last_frame
         /\ AtRest(e, st).last_any_msg = e.last_any_msg
         /\ AtRest(e, st).running_since = e.running_since
  BY DEF AtRest, Status

LEMMA RespawnedType ==
  ASSUME NEW e \in Status
  PROVE  Respawned(e) \in Status
<1>1. e.restart_count \in Nat
  BY DEF Status
<1>2. OneMoreRestart(e.restart_count) \in Nat
  BY <1>1, OneMoreRestartIsNat
<1> QED
  BY <1>2 DEF Respawned, Status, Age, State

LEMMA UpdatedType ==
  ASSUME NEW e \in Status, NEW caps \in SUBSET Media
  PROVE  Updated(e, caps) \in Status
<1> DEFINE dd == IF "video" \in caps THEN None ELSE e.delivery_diverge
<1>1. dd \in Age
  BY DEF Status, Age
<1>2. Updated(e, caps)
        = [e EXCEPT !.has_core_chain = "video" \in caps, !.delivery_diverge = dd]
  BY DEF Updated
<1>3. ("video" \in caps) \in BOOLEAN
  OBVIOUS
<1> HIDE DEF dd
<1> QED
  BY <1>1, <1>2, <1>3 DEF Status

LEMMA InitType == Init => TypeOK
<1> SUFFICES ASSUME Init PROVE TypeOK
  OBVIOUS
<1>1. PICK k \in Slots :
        /\ live  = [s \in Sources |-> IF s \in external THEN k ELSE None]
        /\ alive = external \X {k}
  BY DEF Init
<1>2. /\ live \in [Sources -> Slots \cup {None}]
      /\ alive \subseteq Adapter
      /\ specs \subseteq Sources
      /\ external \subseteq specs
  BY <1>1 DEF Init, Adapter
<1>3. status \in [Sources -> Status]
  BY NewStatusType DEF Init, State
<1>4. /\ deadline \in [Sources -> Age] /\ pending \in [Sources -> Age]
      /\ pending_streams \in [Sources -> Age] /\ ranFor \in [Sources -> Nat]
  BY DEF Init, Age
<1>5. /\ streams_changed \in [Sources -> (SUBSET Media) \cup {None}]
      /\ chain \in [Sources -> SUBSET Media]
  BY DEF Init
<1>6. /\ pipe \in [Adapter -> Seq(Message)]
      /\ gate \in [Adapter -> {"none", "Play", "Pause"}]
  BY DEF Init
<1> QED
  BY <1>2, <1>3, <1>4, <1>5, <1>6 DEF Init, TypeOK

-----------------------------------------------------------------------------
(* Every action keeps the types.  FinishSpawn needs Bookkeeping to know     *)
(* that there is a process being spawned.                                   *)

LEMMA HeadTailType ==
  ASSUME NEW S, NEW q \in Seq(S), q # <<>>
  PROVE  Head(q) \in S /\ Tail(q) \in Seq(S)
  OBVIOUS

LEMMA AppendType ==
  ASSUME NEW S, NEW q \in Seq(S), NEW m \in S
  PROVE  Append(q, m) \in Seq(S)
  OBVIOUS

LEMMA ReceiveType ==
  ASSUME TypeOK, NEW s \in Sources, NEW k \in Slots, NEW kinds, Receive(s, k, kinds)
  PROVE  /\ Head(pipe[s, k]) \in Message
         /\ pipe' \in [Adapter -> Seq(Message)]
         /\ UNCHANGED <<mainVars, handleVars, requestVars, chain, alive, announced>>
<1>1. <<s, k>> \in Adapter /\ pipe[s, k] \in Seq(Message) /\ pipe[s, k] # <<>>
  BY DEF TypeOK, Adapter, Receive
<1>2. Head(pipe[s, k]) \in Message /\ Tail(pipe[s, k]) \in Seq(Message)
  BY <1>1, HeadTailType
<1> QED
  BY <1>1, <1>2 DEF TypeOK, Receive

LEMMA HandleMsgType ==
  ASSUME TypeOK, NEW s \in Sources, NEW k \in Slots, HandleMsg(s, k)
  PROVE  TypeOK'
<1> USE DEF mainVars, handleVars, requestVars, streamVars, adapterVars
<1>e. Entry(s) \in Status
  BY EntryType
<1>1. CASE HandleMismatch(s, k)
  <2>1. [Entry(s) EXCEPT !.state = "Failed"] \in Status
    BY <1>e DEF Status, State
  <2>2. /\ pipe' \in [Adapter -> Seq(Message)]
        /\ UNCHANGED <<mainVars, handleVars, requestVars, chain, alive, announced>>
    BY <1>1, ReceiveType DEF HandleMismatch
  <2> QED
    BY <1>1, <2>1, <2>2 DEF HandleMismatch, TypeOK
<1>2. CASE HandleReady(s, k)
  <2> DEFINE caps == Head(pipe[s, k]).caps
  <2>1. /\ caps \in SUBSET Media
        /\ pipe' \in [Adapter -> Seq(Message)]
        /\ UNCHANGED <<mainVars, handleVars, requestVars, chain, alive, announced>>
    BY <1>2, ReceiveType DEF HandleReady, Message
  <2>2. /\ status' = [status EXCEPT ![s] =
             [Entry(s) EXCEPT !.state = "Running", !.caps = caps,
                              !.is_reconnecting = FALSE, !.running_since = 0]]
        /\ statusLock' = [source |-> s, slot |-> k, caps |-> caps, play |-> playing]
        /\ UNCHANGED <<streamVars, gate>>
    BY <1>2 DEF HandleReady
  <2> HIDE DEF caps
  <2>3. [Entry(s) EXCEPT !.state = "Running", !.caps = caps,
                         !.is_reconnecting = FALSE, !.running_since = 0] \in Status
    BY <1>e, <2>1 DEF Status, State, Age
  <2>4. statusLock' \in Reader
    BY <2>1, <2>2 DEF Reader, TypeOK
  <2> QED
    BY <2>1, <2>2, <2>3, <2>4 DEF TypeOK
<1>3. CASE HandleReconnecting(s, k)
  <2>1. [Entry(s) EXCEPT !.is_reconnecting = TRUE, !.last_frame = None] \in Status
    BY <1>e DEF Status, Age
  <2>2. /\ pipe' \in [Adapter -> Seq(Message)]
        /\ UNCHANGED <<mainVars, handleVars, requestVars, chain, alive, announced>>
    BY <1>3, ReceiveType DEF HandleReconnecting
  <2> QED
    BY <1>3, <2>1, <2>2 DEF HandleReconnecting, TypeOK
<1>4. CASE HandleStreamsChanged(s, k)
  <2> DEFINE caps == Head(pipe[s, k]).caps
  <2>1. /\ caps \in SUBSET Media
        /\ pipe' \in [Adapter -> Seq(Message)]
        /\ UNCHANGED <<mainVars, handleVars, requestVars, chain, alive, announced>>
    BY <1>4, ReceiveType DEF HandleStreamsChanged, Message
  <2>2. /\ status' = [status EXCEPT ![s] =
             [Entry(s) EXCEPT !.is_reconnecting = FALSE, !.caps = caps]]
        /\ IF caps = {}
           THEN /\ pending_streams' = [pending_streams EXCEPT ![s] = 0]
                /\ UNCHANGED streams_changed
           ELSE Announce(s, caps)
        /\ UNCHANGED <<statusLock, gate>>
    BY <1>4 DEF HandleStreamsChanged
  <2> HIDE DEF caps
  <2>3. [Entry(s) EXCEPT !.is_reconnecting = FALSE, !.caps = caps] \in Status
    BY <1>e, <2>1 DEF Status
  <2>4. /\ pending_streams' \in [Sources -> Age]
        /\ streams_changed' \in [Sources -> (SUBSET Media) \cup {None}]
    <3>1. CASE caps = {}
      BY <2>2, <3>1 DEF TypeOK, Age
    <3>2. CASE caps # {}
      BY <2>1, <2>2, <3>2 DEF TypeOK, Announce, Age
    <3> QED
      BY <3>1, <3>2
  <2> QED
    BY <2>1, <2>2, <2>3, <2>4 DEF TypeOK
<1>5. CASE HandleMetrics(s, k)
  <2> DEFINE flowing == Head(pipe[s, k]).kind = "Flowing"
             e == [Entry(s) EXCEPT !.producing = flowing,
                                   !.last_frame = IF flowing THEN 0 ELSE @,
                                   !.is_reconnecting = @ /\ ~flowing]
  <2>1. e \in Status
    <3> DEFINE lf == IF flowing THEN 0 ELSE Entry(s).last_frame
               rec == Entry(s).is_reconnecting /\ ~flowing
    <3>1. lf \in Age
      BY <1>e DEF Status, Age
    <3>2. flowing \in BOOLEAN /\ rec \in BOOLEAN
      OBVIOUS
    <3>3. e = [Entry(s) EXCEPT !.producing = flowing, !.last_frame = lf,
                               !.is_reconnecting = rec]
      OBVIOUS
    <3> HIDE DEF lf, rec, flowing
    <3> QED
      BY <1>e, <3>1, <3>2, <3>3 DEF Status
  <2>2. /\ pipe' \in [Adapter -> Seq(Message)]
        /\ UNCHANGED <<mainVars, handleVars, requestVars, chain, alive, announced>>
    BY <1>5, ReceiveType DEF HandleMetrics
  <2>3. status' = [status EXCEPT ![s] = e] /\ UNCHANGED <<statusLock, streamVars, gate>>
    BY <1>5 DEF HandleMetrics
  <2> HIDE DEF e
  <2> QED
    BY <2>1, <2>2, <2>3 DEF TypeOK
<1>6. CASE HandleError(s, k)
  <2>1. /\ pipe' \in [Adapter -> Seq(Message)]
        /\ UNCHANGED <<mainVars, handleVars, requestVars, chain, alive, announced>>
    BY <1>6, ReceiveType DEF HandleError
  <2> QED
    BY <1>e, <1>6, <2>1 DEF HandleError, TypeOK
<1> QED
  BY <1>1, <1>2, <1>3, <1>4, <1>5, <1>6 DEF HandleMsg

LEMMA FinishReadyType ==
  ASSUME TypeOK, FinishReady
  PROVE  TypeOK'
<1> USE DEF mainVars, handleVars, requestVars, streamVars
<1> DEFINE s == statusLock.source
           k == statusLock.slot
<1>1. s \in Sources /\ k \in Slots /\ statusLock.caps \in SUBSET Media
  BY DEF TypeOK, FinishReady, Reader
<1>2. gate' \in [Adapter -> {"none", "Play", "Pause"}]
  BY DEF TypeOK, FinishReady
<1>3. pending_streams' \in [Sources -> Age]
  BY <1>1 DEF TypeOK, FinishReady, Announce, Age
<1>4. streams_changed' \in [Sources -> (SUBSET Media) \cup {None}]
  BY <1>1 DEF TypeOK, FinishReady, Announce
<1> QED
  BY <1>2, <1>3, <1>4 DEF TypeOK, FinishReady

LEMMA FinishSpawnType ==
  ASSUME TypeOK, Bookkeeping, FinishSpawn
  PROVE  TypeOK'
<1> USE DEF requestVars, adapterVars
<1>1. PICK s \in Sources, k \in Slots : spawning = <<s, k>>
  BY DEF TypeOK, Bookkeeping, FinishSpawn, Adapter
<1>2. status[s] \in Status
  BY DEF TypeOK
<1>3. Respawned(status[s]) \in Status
  BY <1>2, RespawnedType
<1>4. /\ status' = [status EXCEPT ![s] = Respawned(status[s])]
      /\ pending_streams' = [pending_streams EXCEPT ![s] = None]
      /\ live' = [live EXCEPT ![s] = k]
      /\ deadline' = [deadline EXCEPT ![s] = None]
      /\ ranFor' = [ranFor EXCEPT ![s] = 0]
      /\ spawning' = None /\ pc' = "fire"
  BY <1>1 DEF FinishSpawn
<1>5. status' \in [Sources -> Status]
  BY <1>3, <1>4 DEF TypeOK
<1>6. /\ live' \in [Sources -> Slots \cup {None}]
      /\ deadline' \in [Sources -> Age]
      /\ ranFor' \in [Sources -> Nat]
      /\ pending_streams' \in [Sources -> Age]
  BY <1>4 DEF TypeOK, Age
<1> QED
  BY <1>4, <1>5, <1>6 DEF FinishSpawn, TypeOK

LEMMA PollReapType ==
  ASSUME TypeOK, PollReap
  PROVE  TypeOK'
<1> DEFINE reaped  == {s \in Sources : Reapable(s)}
           stopped == {s \in reaped : StoppedAtReap(s)}
           retried == reaped \ stopped
           e(s) == IF s \in stopped
             THEN AtRest(status[s], "Stopped")
             ELSE IF s \in retried
             THEN [AtRest(status[s], "Restarting") EXCEPT
                     !.restart_count = RestartsAtReap(s)]
             ELSE status[s]
<1>1. ASSUME NEW s \in Sources
      PROVE  RestartsAtReap(s) \in Nat /\ e(s) \in Status
  <2>1. status[s] \in Status
    BY DEF TypeOK
  <2>2. RestartsAtReap(s) \in Nat
    BY <2>1 DEF RestartsAtReap, Status
  <2>3. /\ AtRest(status[s], "Stopped") \in Status
        /\ AtRest(status[s], "Restarting") \in Status
    BY <2>1, AtRestType DEF State
  <2> QED
    BY <2>1, <2>2, <2>3 DEF Status
<1>2. status' = [s \in Sources |-> e(s)]
  BY DEF PollReap
<1>3. status' \in [Sources -> Status]
  <2> HIDE DEF e
  <2> QED
    BY <1>1, <1>2
<1>4. pending' \in [Sources -> Age]
  <2>1. ASSUME NEW s \in Sources
        PROVE  BackoffDelay(RestartsAtReap(s)) \in Nat /\ pending[s] \in Age
    BY <1>1, BackoffDelayIsNat DEF TypeOK
  <2> QED
    BY <2>1 DEF PollReap, Age
<1>5. /\ live' \in [Sources -> Slots \cup {None}]
      /\ deadline' \in [Sources -> Age]
      /\ ranFor' \in [Sources -> Nat]
      /\ killed' \subseteq Sources
      /\ alive' \subseteq Adapter
      /\ pc' = "watch"
  BY DEF PollReap, TypeOK, Age
<1>6. UNCHANGED <<due, spawning, playing, specs, external, statusLock, streamVars,
                  chain, announced, pipe, gate>>
  BY DEF PollReap
<1> QED
  BY <1>3, <1>4, <1>5, <1>6 DEF TypeOK, streamVars

LEMMA PollWatchType ==
  ASSUME TypeOK, PollWatch
  PROVE  TypeOK'
<1> USE DEF requestVars, streamVars, adapterVars
<1>1. ASSUME NEW s \in Sources
      PROVE  [status[s] EXCEPT !.delivery_diverge = DivergeAfterWatch(s)] \in Status
  <2>1. status[s] \in Status
    BY DEF TypeOK
  <2>2. DivergeAfterWatch(s) \in Age
    BY <2>1 DEF DivergeAfterWatch, Status, Age
  <2> QED
    BY <2>1, <2>2 DEF Status
<1>2. status' \in [Sources -> Status]
  BY <1>1 DEF PollWatch
<1>3. deadline' \in [Sources -> Age]
  BY ConstantTypes DEF PollWatch, ShutDown, TypeOK, Age
<1> QED
  BY <1>2, <1>3 DEF PollWatch, TypeOK

LEMMA PollDrainType ==
  ASSUME TypeOK, PollDrain
  PROVE  TypeOK'
<1> USE DEF handleVars, requestVars, adapterVars
<1>1. ASSUME NEW s \in Sources
      PROVE  /\ Rebuilt(s) \in SUBSET Media
             /\ status[s] \in Status
             /\ Updated(status[s], Rebuilt(s)) \in Status
  <2>1. Rebuilt(s) \in SUBSET Media /\ status[s] \in Status
    BY DEF TypeOK, Rebuilt
  <2> QED
    BY <2>1, UpdatedType
<1>2. /\ chain' = [s \in Sources |-> Rebuilt(s)]
      /\ status' = [s \in Sources |->
           IF s \in external THEN Updated(status[s], Rebuilt(s)) ELSE status[s]]
  BY DEF PollDrain, ChainSeen
<1>3. chain' \in [Sources -> SUBSET Media] /\ status' \in [Sources -> Status]
  BY <1>1, <1>2
<1> QED
  BY <1>3 DEF PollDrain, TypeOK

LEMMA RebootType ==
  ASSUME TypeOK, NEW s \in Sources, Reboot(s)
  PROVE  TypeOK'
<1> USE DEF mainVars, streamVars, adapterVars
<1>1. status[s] \in Status
  BY DEF TypeOK
<1>2. AtRest(status[s], "Restarting") \in Status
  BY <1>1, AtRestType DEF State
<1>3. status' \in [Sources -> Status]
  BY <1>2 DEF TypeOK, Reboot, RebootLive, RebootFromRest, RebootNothing
<1>4. pending' \in [Sources -> Age]
  <2>1. pending' = pending \/ pending' = [pending EXCEPT ![s] = 0]
    BY DEF Reboot, RebootLive, RebootFromRest, RebootNothing
  <2> QED
    BY <2>1 DEF TypeOK, Age
<1>5. deadline' \in [Sources -> Age]
  BY ConstantTypes
  DEF TypeOK, Reboot, RebootLive, RebootFromRest, RebootNothing, ShutDown, Age
<1> QED
  BY <1>3, <1>4, <1>5 DEF TypeOK, Reboot

LEMMA KillType ==
  ASSUME TypeOK, NEW s \in Sources, Kill(s)
  PROVE  TypeOK'
<1> USE DEF mainVars, streamVars, adapterVars
<1>1. status[s] \in Status
  BY DEF TypeOK
<1>2. AtRest(status[s], "Stopped") \in Status
  BY <1>1, AtRestType DEF State
<1>3. status' \in [Sources -> Status]
  BY <1>2 DEF TypeOK, Kill, KillLive, KillDead
<1>4. pending' \in [Sources -> Age] /\ deadline' \in [Sources -> Age]
  BY ConstantTypes DEF TypeOK, Kill, KillLive, KillDead, ShutDown, Age
<1>5. killed' \subseteq Sources
  BY DEF TypeOK, Kill, KillLive, KillDead
<1> QED
  BY <1>3, <1>4, <1>5 DEF TypeOK, Kill

LEMMA TickType ==
  ASSUME TypeOK, Tick
  PROVE  TypeOK'
<1> USE DEF mainVars, adapterVars
<1> DEFINE e(s) ==
      IF live[s] = None
      THEN [status[s] EXCEPT !.delivery_diverge = Aged(@, DeliveryWatchdog)]
      ELSE [status[s] EXCEPT !.last_frame       = Aged(@, FrameWatchdog),
                             !.last_any_msg     = Aged(@, SilenceTimeout),
                             !.running_since    = Aged(@, FrameWatchdog),
                             !.delivery_diverge = Aged(@, DeliveryWatchdog)]
<1>1. ASSUME NEW s \in Sources
      PROVE  e(s) \in Status
  <2>1. status[s] \in Status
    BY DEF TypeOK
  <2>2. /\ Aged(status[s].last_frame, FrameWatchdog) \in Age
        /\ Aged(status[s].last_any_msg, SilenceTimeout) \in Age
        /\ Aged(status[s].running_since, FrameWatchdog) \in Age
        /\ Aged(status[s].delivery_diverge, DeliveryWatchdog) \in Age
    BY <2>1, AgedIsAge, ConstantTypes DEF Status
  <2> QED
    BY <2>1, <2>2 DEF Status
<1>2. status' \in [Sources -> Status]
  <2>1. status' = [s \in Sources |-> e(s)]
    BY DEF Tick
  <2> HIDE DEF e
  <2> QED
    BY <1>1, <2>1
<1>3. deadline' \in [Sources -> Age] /\ pending' \in [Sources -> Age]
  BY NearerIsAge DEF Tick, TypeOK
<1>4. pending_streams' \in [Sources -> Age]
  BY AgedIsAge, ConstantTypes DEF Tick, TypeOK
<1>5. ranFor' \in [Sources -> Nat]
  <2>1. ASSUME NEW s \in Sources, NEW b \in BOOLEAN
        PROVE  (IF b THEN ranFor[s] ELSE ranFor[s] + 1) \in Nat
    BY DEF TypeOK
  <2> QED
    BY <2>1 DEF Tick
<1> QED
  BY <1>2, <1>3, <1>4, <1>5 DEF Tick, TypeOK

LEMMA TypeStep ==
  ASSUME TypeOK, Bookkeeping, Next
  PROVE  TypeOK'
<1> USE DEF mainVars, handleVars, requestVars, streamVars, adapterVars
<1>1. CASE Launch
  BY <1>1 DEF Launch, TypeOK, Status
<1>2. CASE StartPlay
  BY <1>2 DEF StartPlay, TypeOK
<1>3. CASE Broadcast
  BY <1>3 DEF Broadcast, TypeOK
<1>4. CASE Poll
  <2>1. CASE PollUnwatched
    BY <2>1 DEF PollUnwatched, TypeOK
  <2>2. CASE PollPromote
    BY <2>2 DEF PollPromote, TypeOK, Age
  <2>3. ASSUME NEW s \in Sources, NEW k \in Slots, Respawn(s, k)
        PROVE  TypeOK'
    BY <2>3 DEF Respawn, TypeOK, Adapter, Age
  <2>4. ASSUME NEW s \in Sources, RespawnFails(s)
        PROVE  TypeOK'
    BY <2>4 DEF RespawnFails, TypeOK, Age
  <2> QED
    BY <1>4, <2>1, <2>2, <2>3, <2>4, PollReapType, PollWatchType, FinishSpawnType,
       PollDrainType DEF Poll
<1>5. CASE Operator
  <2>1. CASE TogglePlay
    BY <2>1 DEF TogglePlay, TypeOK
  <2>2. CASE Quit
    BY <2>2 DEF Quit, TypeOK, Age
  <2> QED
    BY <1>5, <2>1, <2>2, RebootType, KillType DEF Operator
<1>6. ASSUME NEW s \in Sources, NEW k \in Slots, NEW m \in Alphabet, Write(s, k, m)
      PROVE  TypeOK'
  <2>1. <<s, k>> \in Adapter /\ m \in Message
    BY SupervisorAssumption DEF Adapter
  <2>2. pipe[s, k] \in Seq(Message)
    BY <2>1 DEF TypeOK
  <2>3. Append(pipe[s, k], m) \in Seq(Message)
    BY <2>1, <2>2, AppendType
  <2> QED
    BY <1>6, <2>1, <2>3 DEF Write, TypeOK
<1>7. ASSUME NEW s \in Sources, NEW k \in Slots, Exit(s, k)
      PROVE  TypeOK'
  BY <1>7 DEF Exit, TypeOK
<1>8. CASE Terminated
  BY <1>8 DEF Terminated, vars, TypeOK
<1> QED
  BY <1>1, <1>2, <1>3, <1>4, <1>5, <1>6, <1>7, <1>8, HandleMsgType,
     FinishReadyType, TickType DEF Next, Main

-----------------------------------------------------------------------------
(* Bookkeeping.  The reader threads, the adapters and the clock leave the   *)
(* maps alone (the clock only counts down what is there); the rest is one   *)
(* step per action of the main thread.                                      *)

LEMMA BookkeepingInit == Init => Bookkeeping
  BY SupervisorAssumption DEF Init, Bookkeeping, Adapter

LEMMA ReadersLeaveMaps ==
  ASSUME NEW s \in Sources, NEW k \in Slots, HandleMsg(s, k)
  PROVE  UNCHANGED <<mainVars, handleVars, requestVars, chain, alive, announced>>
<1>1. ASSUME NEW kinds, Receive(s, k, kinds)
      PROVE  UNCHANGED <<mainVars, handleVars, requestVars, chain, alive, announced>>
  BY <1>1 DEF Receive
<1> QED
  BY <1>1 DEF HandleMsg, HandleMismatch, HandleReady, HandleReconnecting,
              HandleStreamsChanged, HandleMetrics, HandleError

LEMMA BookkeepingStep ==
  ASSUME TypeOK, Bookkeeping, Next
  PROVE  Bookkeeping'
<1>0. ASSUME UNCHANGED <<mainVars, handleVars, requestVars>>
      PROVE  Bookkeeping'
  BY <1>0 DEF Bookkeeping, mainVars, handleVars, requestVars
<1>1. CASE Launch \/ StartPlay \/ Broadcast
  BY <1>1 DEF Launch, StartPlay, Broadcast, Bookkeeping, handleVars, requestVars
<1>2. CASE PollReap
  BY <1>2 DEF PollReap, Reapable, StoppedAtReap, Bookkeeping, TypeOK
<1>3. CASE PollWatch
  BY <1>3 DEF PollWatch, ShutDown, SilenceFires, FrameFires, DeliveryFires, Diverging,
              Watched, Bookkeeping, TypeOK, requestVars
<1>4. CASE PollUnwatched
  BY <1>4 DEF PollUnwatched, Bookkeeping, handleVars, requestVars
<1>5. CASE PollPromote
  BY <1>5 DEF PollPromote, Due, Bookkeeping, handleVars, requestVars
<1>6. ASSUME NEW s \in Sources, NEW k \in Slots, Respawn(s, k)
      PROVE  Bookkeeping'
  BY <1>6, SupervisorAssumption DEF Respawn, Bookkeeping, TypeOK, handleVars
<1>7. ASSUME NEW s \in Sources, RespawnFails(s)
      PROVE  Bookkeeping'
  BY <1>7 DEF RespawnFails, Bookkeeping, TypeOK, handleVars
<1>8. CASE FinishSpawn
  BY <1>8 DEF FinishSpawn, Bookkeeping, TypeOK, Adapter, requestVars
<1>9. CASE PollDrain
  BY <1>9 DEF PollDrain, Bookkeeping, handleVars, requestVars
<1>10. ASSUME NEW s \in Sources, Reboot(s)
       PROVE  Bookkeeping'
  BY <1>10 DEF Reboot, RebootLive, RebootFromRest, RebootNothing, ShutDown,
               Bookkeeping, TypeOK, mainVars
<1>11. ASSUME NEW s \in Sources, Kill(s)
       PROVE  Bookkeeping'
  BY <1>11, SupervisorAssumption
  DEF Kill, KillLive, KillDead, ShutDown, Bookkeeping, TypeOK, mainVars
<1>12. CASE TogglePlay
  BY <1>12 DEF TogglePlay, Bookkeeping, handleVars, requestVars
<1>13. CASE Quit
  BY <1>13 DEF Quit, Bookkeeping
<1>14. CASE FinishReady
  BY <1>0, <1>14 DEF FinishReady
<1>15. CASE Tick
  <2>1. ASSUME NEW s \in Sources
        PROVE  /\ deadline'[s] = None <=> deadline[s] = None
               /\ pending'[s] = None <=> pending[s] = None
    BY <1>15, NearerKeepsNone DEF Tick, TypeOK
  <2>2. due = {} /\ due' = {}
    BY <1>15 DEF Tick, Bookkeeping, mainVars
  <2> QED
    BY <1>15, <2>1, <2>2 DEF Tick, Bookkeeping, TypeOK, mainVars
<1>16. ASSUME NEW s \in Sources, NEW k \in Slots, NEW m \in Alphabet, Write(s, k, m)
       PROVE  Bookkeeping'
  BY <1>0, <1>16 DEF Write
<1>17. ASSUME NEW s \in Sources, NEW k \in Slots, Exit(s, k)
       PROVE  Bookkeeping'
  BY <1>0, <1>17 DEF Exit
<1>18. CASE Terminated
  BY <1>0, <1>18 DEF Terminated, vars
<1> QED
  BY <1>0, <1>1, <1>2, <1>3, <1>4, <1>5, <1>6, <1>7, <1>8, <1>9, <1>10, <1>11, <1>12,
     <1>13, <1>14, <1>15, <1>16, <1>17, <1>18, ReadersLeaveMaps
  DEF Next, Main, Poll, Operator

-----------------------------------------------------------------------------
(* NoOrphan.                                                                *)

LEMMA NoOrphanInit == Init => NoOrphan
  BY DEF Init, NoOrphan

LEMMA NoOrphanStep ==
  ASSUME TypeOK, Bookkeeping, NoOrphan, Next
  PROVE  NoOrphan'
<1>0. ASSUME UNCHANGED <<alive, live, spawning>>
      PROVE  NoOrphan'
  BY <1>0 DEF NoOrphan
<1>1. CASE Launch \/ StartPlay \/ Broadcast \/ PollUnwatched \/ PollPromote \/ PollDrain
           \/ TogglePlay \/ FinishReady \/ Terminated
  BY <1>0, <1>1 DEF Launch, StartPlay, Broadcast, PollUnwatched, PollPromote, PollDrain,
     TogglePlay, FinishReady, Terminated, vars, mainVars, handleVars, adapterVars
<1>2. CASE PollWatch \/ Tick
  BY <1>0, <1>2 DEF PollWatch, Tick, mainVars, adapterVars
<1>3. ASSUME NEW s \in Sources, Reboot(s) \/ Kill(s) \/ RespawnFails(s)
      PROVE  NoOrphan'
  BY <1>0, <1>3 DEF Reboot, Kill, RespawnFails, mainVars, handleVars, adapterVars
<1>4. ASSUME NEW s \in Sources, NEW k \in Slots, HandleMsg(s, k)
      PROVE  NoOrphan'
  BY <1>0, <1>4, ReadersLeaveMaps DEF mainVars, handleVars
<1>5. ASSUME NEW s \in Sources, NEW k \in Slots, NEW m \in Alphabet, Write(s, k, m)
      PROVE  NoOrphan'
  BY <1>0, <1>5 DEF Write, mainVars, handleVars
<1>6. ASSUME NEW s \in Sources, NEW k \in Slots, Exit(s, k)
      PROVE  NoOrphan'
  BY <1>6 DEF Exit, NoOrphan, mainVars, handleVars
<1>7. CASE PollReap
  BY <1>7 DEF PollReap, NoOrphan, TypeOK
<1>8. ASSUME NEW s \in Sources, NEW k \in Slots, Respawn(s, k)
      PROVE  NoOrphan'
  BY <1>8, SupervisorAssumption DEF Respawn, NoOrphan, Bookkeeping, TypeOK, handleVars
<1>9. CASE FinishSpawn
  <2>1. PICK s \in Sources, k \in Slots : spawning = <<s, k>>
    BY <1>9 DEF TypeOK, Bookkeeping, FinishSpawn, Adapter
  <2>2. live' = [live EXCEPT ![s] = k] /\ live[s] = None /\ alive' = alive
    BY <1>9, <2>1 DEF FinishSpawn, Bookkeeping, adapterVars
  <2>3. ASSUME NEW r \in Sources, NEW j \in Slots, <<r, j>> \in alive
        PROVE  live'[r] = j
    <3>1. live[r] = j \/ <<s, k>> = <<r, j>>
      BY <2>1, <2>3 DEF NoOrphan
    <3> QED
      BY <2>2, <3>1, SupervisorAssumption DEF TypeOK
  <2> QED
    BY <2>2, <2>3 DEF NoOrphan
<1>10. CASE Quit
  <2>1. spawning = None /\ spawning' = None
    BY <1>10 DEF Quit, Bookkeeping
  <2>2. ASSUME NEW s \in Sources, NEW k \in Slots, <<s, k>> \in alive'
        PROVE  FALSE
    <3>1. <<s, k>> \in alive /\ live[s] = k /\ live[s] # None
      BY <1>10, <2>1, <2>2, SupervisorAssumption DEF Quit, NoOrphan
    <3> QED
      BY <1>10, <2>2, <3>1 DEF Quit, StoppedByQuit
  <2> QED
    BY <2>2 DEF NoOrphan
<1> QED
  BY <1>1, <1>2, <1>3, <1>4, <1>5, <1>6, <1>7, <1>8, <1>9, <1>10
  DEF Next, Main, Poll, Operator

-----------------------------------------------------------------------------
(* StoppedIsDown.                                                           *)

LEMMA StoppedInit == Init => StoppedIsDown
  BY DEF Init, StoppedIsDown, NewStatus

\* What no step of a reader or of the clock can do: enter Stopped, or move the
\* source's maps.
LEMMA StoppedUnlessEntered ==
  ASSUME TypeOK, StoppedIsDown,
         UNCHANGED <<live, spawning, pending, deadline, killed>>,
         \A s \in Sources :
           status'[s].state = "Stopped" => status[s].state = "Stopped"
  PROVE  StoppedIsDown'
  BY DEF StoppedIsDown, Mode

LEMMA ReadersNeverStop ==
  ASSUME TypeOK, NEW s \in Sources, NEW k \in Slots, HandleMsg(s, k)
  PROVE  \A r \in Sources :
           status'[r].state = "Stopped" => status[r].state = "Stopped"
<1> DEFINE Kept(e) == e.state = "Stopped" => status[s].state = "Stopped"
<1>1. status[s] \in Status /\ Entry(s) \in Status /\ Kept(Entry(s))
  BY EntryType DEF TypeOK, Entry, Status
<1>2. ASSUME NEW e, Kept(e), status' = [status EXCEPT ![s] = e]
      PROVE  \A r \in Sources :
               status'[r].state = "Stopped" => status[r].state = "Stopped"
  BY <1>2 DEF TypeOK
<1>3. CASE HandleMismatch(s, k)
  BY <1>1, <1>2, <1>3 DEF HandleMismatch, Status
<1>4. CASE HandleReady(s, k)
  BY <1>1, <1>2, <1>4 DEF HandleReady, Status
<1>5. CASE HandleReconnecting(s, k)
  BY <1>1, <1>2, <1>5 DEF HandleReconnecting, Status
<1>6. CASE HandleStreamsChanged(s, k)
  BY <1>1, <1>2, <1>6 DEF HandleStreamsChanged, Status
<1>7. CASE HandleMetrics(s, k)
  BY <1>1, <1>2, <1>7 DEF HandleMetrics, Status
<1>8. CASE HandleError(s, k)
  BY <1>1, <1>2, <1>8 DEF HandleError, Status
<1> QED
  BY <1>3, <1>4, <1>5, <1>6, <1>7, <1>8 DEF HandleMsg

LEMMA StoppedStep ==
  ASSUME TypeOK, Bookkeeping, StoppedIsDown, Next
  PROVE  StoppedIsDown'
<1> USE DEF mainVars, handleVars, requestVars, streamVars, adapterVars
<1>0. ASSUME UNCHANGED <<live, spawning, pending, deadline, killed, status>>
      PROVE  StoppedIsDown'
  BY <1>0 DEF StoppedIsDown, Mode
<1>1. CASE Launch \/ StartPlay \/ Broadcast \/ PollUnwatched \/ PollPromote
           \/ TogglePlay \/ FinishReady \/ Terminated
  BY <1>0, <1>1 DEF Launch, StartPlay, Broadcast, PollUnwatched, PollPromote,
     TogglePlay, FinishReady, Terminated, vars
<1>2. CASE PollReap
  <2>1. ASSUME NEW s \in Sources, status'[s].state = "Stopped"
        PROVE  live'[s] = None /\ pending'[s] = None
    <3>1. status[s] \in Status
      BY DEF TypeOK
    <3>2. CASE Reapable(s) /\ StoppedAtReap(s)
      BY <1>2, <3>2 DEF PollReap, Reapable, Bookkeeping
    <3>3. CASE Reapable(s) /\ ~StoppedAtReap(s)
      BY <1>2, <2>1, <3>1, <3>3, AtRestType DEF PollReap, Status, State
    <3>4. CASE ~Reapable(s)
      <4>1. status[s].state = "Stopped" /\ live'[s] = live[s] /\ pending'[s] = pending[s]
        BY <1>2, <2>1, <3>4 DEF PollReap
      <4> QED
        BY <4>1 DEF StoppedIsDown, Mode
    <3> QED
      BY <3>2, <3>3, <3>4
  <2>2. spawning' = None
    BY <1>2 DEF PollReap, Bookkeeping
  <2> QED
    BY <2>1, <2>2 DEF StoppedIsDown, Mode
<1>3. CASE PollWatch
  <2>1. \A s \in Sources : status'[s].state = status[s].state
    BY <1>3 DEF PollWatch, TypeOK, Status
  <2>2. UNCHANGED <<live, spawning, pending, killed>>
    BY <1>3 DEF PollWatch
  <2> QED
    BY <2>1, <2>2 DEF StoppedIsDown, Mode
<1>4. ASSUME NEW s \in Sources, NEW k \in Slots, Respawn(s, k)
      PROVE  StoppedIsDown'
  <2>1. pending[s] = 0 /\ live[s] = None /\ spawning = None
    BY <1>4, SupervisorAssumption DEF Respawn, Bookkeeping
  <2>2. status[s].state # "Stopped"
    BY <2>1, SupervisorAssumption DEF StoppedIsDown, Mode
  <2>3. /\ UNCHANGED <<live, deadline, killed, status>>
        /\ spawning' = <<s, k>> /\ pending' = [pending EXCEPT ![s] = None]
    BY <1>4 DEF Respawn
  <2> QED
    BY <2>1, <2>2, <2>3 DEF StoppedIsDown, Mode, TypeOK
<1>5. ASSUME NEW s \in Sources, RespawnFails(s)
      PROVE  StoppedIsDown'
  BY <1>5 DEF RespawnFails, StoppedIsDown, Mode, TypeOK
<1>6. CASE FinishSpawn
  <2>1. PICK s \in Sources, k \in Slots : spawning = <<s, k>>
    BY <1>6 DEF TypeOK, Bookkeeping, FinishSpawn, Adapter
  <2>2. /\ live' = [live EXCEPT ![s] = k] /\ deadline' = [deadline EXCEPT ![s] = None]
        /\ status' = [status EXCEPT ![s] = Respawned(status[s])]
        /\ spawning' = None /\ UNCHANGED <<pending, killed>>
    BY <1>6, <2>1 DEF FinishSpawn
  <2>3. status'[s].state = "Starting"
    BY <2>2 DEF Respawned, TypeOK, Status
  <2> QED
    BY <2>1, <2>2, <2>3 DEF StoppedIsDown, Mode, TypeOK
<1>7. CASE PollDrain
  <2>1. \A s \in Sources : status'[s].state = status[s].state
    BY <1>7 DEF PollDrain, Updated, TypeOK, Status
  <2> QED
    BY <1>7, <2>1, StoppedUnlessEntered DEF PollDrain
<1>8. ASSUME NEW s \in Sources, Reboot(s)
      PROVE  StoppedIsDown'
  <2>1. status[s] \in Status
    BY DEF TypeOK
  <2>2. CASE RebootFromRest(s)
    <3>1. status'[s].state # "Stopped" /\ \A r \in Sources \ {s} : status'[r] = status[r]
      BY <2>1, <2>2, AtRestType DEF RebootFromRest, TypeOK, State
    <3> QED
      BY <1>8, <2>2, <3>1 DEF Reboot, RebootFromRest, StoppedIsDown, Mode, TypeOK
  <2>3. CASE RebootLive(s)
    BY <1>8, <2>3 DEF Reboot, RebootLive, StoppedIsDown, Mode
  <2>4. CASE RebootNothing(s)
    BY <1>8, <2>4 DEF Reboot, RebootNothing, StoppedIsDown, Mode
  <2> QED
    BY <1>8, <2>2, <2>3, <2>4 DEF Reboot
<1>9. ASSUME NEW s \in Sources, Kill(s)
      PROVE  StoppedIsDown'
  <2>1. spawning = None /\ spawning' = None /\ live' = live
    BY <1>9 DEF Kill, Bookkeeping
  <2>2. pending' = [pending EXCEPT ![s] = None]
    BY <1>9 DEF Kill
  <2>3. ASSUME NEW r \in Sources, status'[r].state = "Stopped"
        PROVE  live[r] = None /\ pending'[r] = None
    <3>1. CASE r = s
      <4>1. CASE KillLive(s)
        BY <2>3, <3>1, <4>1 DEF KillLive, StoppedIsDown, Mode
      <4>2. CASE KillDead(s)
        BY <2>2, <3>1, <4>2 DEF KillDead, TypeOK
      <4> QED
        BY <1>9, <2>2, <3>1, <4>1, <4>2 DEF Kill, TypeOK
    <3>2. CASE r # s
      <4>1. status[r].state = "Stopped"
        BY <1>9, <2>3, <3>2 DEF Kill, KillLive, KillDead, TypeOK
      <4> QED
        BY <2>2, <3>2, <4>1 DEF StoppedIsDown, Mode, TypeOK
    <3> QED
      BY <3>1, <3>2
  <2> QED
    BY <2>1, <2>3 DEF StoppedIsDown, Mode
<1>10. CASE Quit
  BY <1>10 DEF Quit, StoppedIsDown, Mode, Bookkeeping
<1>11. ASSUME NEW s \in Sources, NEW k \in Slots, HandleMsg(s, k)
       PROVE  StoppedIsDown'
  BY <1>11, ReadersLeaveMaps, ReadersNeverStop, StoppedUnlessEntered
<1>12. CASE Tick
  <2>1. \A s \in Sources : status'[s].state = status[s].state
    BY <1>12 DEF Tick, TypeOK, Status
  <2>2. \A s \in Sources : pending[s] = None => pending'[s] = None
    BY <1>12 DEF Tick, Nearer
  <2> QED
    BY <1>12, <2>1, <2>2 DEF Tick, StoppedIsDown, Mode
<1>13. ASSUME NEW s \in Sources, NEW k \in Slots, NEW m \in Alphabet, Write(s, k, m)
       PROVE  StoppedIsDown'
  BY <1>0, <1>13 DEF Write
<1>14. ASSUME NEW s \in Sources, NEW k \in Slots, Exit(s, k)
       PROVE  StoppedIsDown'
  BY <1>0, <1>14 DEF Exit
<1> QED
  BY <1>1, <1>2, <1>3, <1>4, <1>5, <1>6, <1>7, <1>8, <1>9, <1>10, <1>11, <1>12,
     <1>13, <1>14 DEF Next, Main, Poll, Operator

-----------------------------------------------------------------------------
(* The inductive invariant.  None of the parts is inductive alone: a type   *)
(* needs Bookkeeping where do_spawn takes its process apart, NoOrphan needs *)
(* it to know that a source about to be respawned has no live entry, and    *)
(* StoppedIsDown needs it to know that a live source has no restart         *)
(* pending.                                                                 *)

IInv == TypeOK /\ Bookkeeping /\ NoOrphan /\ StoppedIsDown

\* IInv holds at the start and is kept by every step, so it always holds.
THEOREM Invariance == Spec => []IInv
<1>1. Init => IInv
  BY InitType, BookkeepingInit, NoOrphanInit, StoppedInit DEF IInv
<1>2. IInv /\ [Next]_vars => IInv'
  <2> SUFFICES ASSUME IInv, [Next]_vars PROVE IInv'
    OBVIOUS
  <2>1. CASE Next
    BY <2>1, TypeStep, BookkeepingStep, NoOrphanStep, StoppedStep DEF IInv
  <2>2. CASE UNCHANGED vars
    BY <2>2 DEF IInv, TypeOK, Bookkeeping, NoOrphan, StoppedIsDown, Mode, vars,
       mainVars, handleVars, requestVars, streamVars, adapterVars
  <2> QED
    BY <2>1, <2>2
<1> QED
  BY <1>1, <1>2, PTL DEF Spec

\* Every variable of the supervisor has its type, whatever the sources, the
\* timeouts and the order of lines, exits, polls and commands.
THEOREM TypeCorrect == Spec => []TypeOK
  BY Invariance, PTL DEF IInv

\* The maps of the supervisor agree after every step: no source is live and
\* pending at once, and only live sources are marked killed or in teardown.
THEOREM BookkeepingHolds == Spec => []Bookkeeping
  BY Invariance, PTL DEF IInv

\* No adapter process runs that the supervisor does not hold, and no source
\* ever has two.
THEOREM NoOrphanHolds == Spec => []NoOrphan
  BY Invariance, PTL DEF IInv

\* A source shown as killed has no process, and none is scheduled.
THEOREM StoppedIsDownHolds == Spec => []StoppedIsDown
  BY Invariance, PTL DEF IInv

-----------------------------------------------------------------------------
(* The refinement of SourceLifecycle.  Each step moves the mode of each     *)
(* source along one of these arrows, or leaves it.                          *)

Arrow(m, n) ==
  \/ m = n
  \/ m \in {"up", "stopping"} /\ n \in {"stopping", "killing", "backoff"}
  \/ m = "killing" /\ n \in {"stopping", "down"}
  \/ m = "backoff" /\ n \in {"up", "down"}
  \/ m = "down" /\ n = "backoff"

LEMMA ModeType ==
  ASSUME NEW s \in Sources
  PROVE  Mode(s) \in Lifecycle!Modes
  BY DEF Mode, Lifecycle!Modes

LEMMA ModeStep ==
  ASSUME IInv, Next, ~Quit, NEW s \in Sources
  PROVE  Arrow(Mode(s), Mode(s)')
<1> USE DEF mainVars, handleVars, requestVars, streamVars, adapterVars
<1>0. ASSUME UNCHANGED <<live, spawning, pending, deadline, killed>>
      PROVE  Arrow(Mode(s), Mode(s)')
  BY <1>0 DEF Arrow, Mode
<1>1. CASE Launch \/ StartPlay \/ Broadcast \/ PollUnwatched \/ PollPromote \/ PollDrain
           \/ TogglePlay \/ FinishReady \/ Terminated
  BY <1>0, <1>1 DEF Launch, StartPlay, Broadcast, PollUnwatched, PollPromote, PollDrain,
     TogglePlay, FinishReady, Terminated, vars
<1>2. CASE PollReap
  <2>1. spawning = None /\ spawning' = None
    BY <1>2 DEF PollReap, IInv, Bookkeeping
  <2>2. CASE Reapable(s) /\ StoppedAtReap(s)
    <3>1. Mode(s) = "killing"
      BY <2>2 DEF Reapable, StoppedAtReap, IInv, Bookkeeping, Mode
    <3>2. live'[s] = None /\ pending'[s] = pending[s] /\ pending[s] = None
      BY <1>2, <2>2 DEF PollReap, Reapable, IInv, Bookkeeping
    <3> QED
      BY <2>1, <3>1, <3>2 DEF Arrow, Mode
  <2>3. CASE Reapable(s) /\ ~StoppedAtReap(s)
    <3>1. Mode(s) \in {"up", "stopping"}
      BY <2>3 DEF Reapable, StoppedAtReap, Mode
    <3>2. RestartsAtReap(s) \in Nat
      BY DEF RestartsAtReap, IInv, TypeOK, Status
    <3>3. BackoffDelay(RestartsAtReap(s)) # None
      BY <3>2, BackoffDelayIsNat, SupervisorAssumption
    <3>4. live'[s] = None /\ pending'[s] = BackoffDelay(RestartsAtReap(s))
      BY <1>2, <2>3 DEF PollReap, Reapable, IInv, Bookkeeping
    <3> QED
      BY <2>1, <3>1, <3>3, <3>4 DEF Arrow, Mode
  <2>4. CASE ~Reapable(s)
    <3>1. /\ live'[s] = live[s] /\ deadline'[s] = deadline[s] /\ pending'[s] = pending[s]
          /\ s \in killed' <=> s \in killed
      BY <1>2, <2>4 DEF PollReap
    <3> QED
      BY <2>1, <3>1 DEF Arrow, Mode
  <2> QED
    BY <2>2, <2>3, <2>4
<1>3. CASE PollWatch
  <2>1. UNCHANGED <<live, spawning, pending, killed>>
    BY <1>3 DEF PollWatch
  <2>2. CASE SilenceFires(s) \/ FrameFires(s) \/ DeliveryFires(s)
    <3>1. live[s] # None /\ deadline[s] = None
      BY <2>2 DEF SilenceFires, FrameFires, DeliveryFires, Diverging, Watched
    <3>2. deadline'[s] = TeardownWindow
      BY <1>3, <2>2 DEF PollWatch, ShutDown
    <3> QED
      BY <2>1, <3>1, <3>2 DEF Arrow, Mode
  <2>3. CASE ~(SilenceFires(s) \/ FrameFires(s) \/ DeliveryFires(s))
    <3>1. deadline'[s] = deadline[s]
      BY <1>3, <2>3 DEF PollWatch, ShutDown
    <3> QED
      BY <2>1, <3>1 DEF Arrow, Mode
  <2> QED
    BY <2>2, <2>3
<1>4. ASSUME NEW r \in Sources, NEW k \in Slots, Respawn(r, k)
      PROVE  Arrow(Mode(s), Mode(s)')
  <2>1. pending[r] = 0 /\ live[r] = None /\ spawning = None
    BY <1>4, SupervisorAssumption DEF Respawn, IInv, Bookkeeping
  <2>2. /\ UNCHANGED <<live, deadline, killed>>
        /\ spawning' = <<r, k>> /\ pending' = [pending EXCEPT ![r] = None]
    BY <1>4 DEF Respawn
  <2>3. <<r, k>> # None /\ 0 # None
    BY SupervisorAssumption
  <2> QED
    BY <2>1, <2>2, <2>3 DEF Arrow, Mode, IInv, TypeOK
<1>5. ASSUME NEW r \in Sources, RespawnFails(r)
      PROVE  Arrow(Mode(s), Mode(s)')
  <2>1. pending[r] = 0 /\ live[r] = None /\ spawning = None
    BY <1>5, SupervisorAssumption DEF RespawnFails, IInv, Bookkeeping
  <2>2. /\ UNCHANGED <<live, deadline, killed, spawning>>
        /\ pending' = [pending EXCEPT ![r] = None]
    BY <1>5 DEF RespawnFails
  <2> QED
    BY <2>1, <2>2, SupervisorAssumption DEF Arrow, Mode, IInv, TypeOK
<1>6. CASE FinishSpawn
  <2>1. PICK r \in Sources, k \in Slots : spawning = <<r, k>>
    BY <1>6 DEF IInv, TypeOK, Bookkeeping, FinishSpawn, Adapter
  <2>2. /\ live' = [live EXCEPT ![r] = k] /\ deadline' = [deadline EXCEPT ![r] = None]
        /\ spawning' = None /\ UNCHANGED <<pending, killed>>
    BY <1>6, <2>1 DEF FinishSpawn
  <2>3. live[r] = None /\ k # None
    BY <2>1, <1>6, SupervisorAssumption DEF IInv, Bookkeeping, FinishSpawn
  <2>4. spawning # None
    BY <1>6 DEF IInv, Bookkeeping, FinishSpawn
  <2>5. CASE s = r
    <3>1. Mode(s) = "up"
      BY <2>1, <2>3, <2>4, <2>5 DEF Mode
    <3>2. Mode(s)' = "up"
      BY <2>2, <2>3, <2>5 DEF Mode, IInv, TypeOK
    <3> QED
      BY <3>1, <3>2 DEF Arrow
  <2>6. CASE s # r
    BY <2>1, <2>2, <2>6 DEF Arrow, Mode, IInv, TypeOK
  <2> QED
    BY <2>5, <2>6
<1>7. ASSUME NEW r \in Sources, Reboot(r)
      PROVE  Arrow(Mode(s), Mode(s)')
  <2>1. /\ spawning = None /\ spawning' = None /\ live' = live
        /\ killed' = killed \ {r}
    BY <1>7 DEF Reboot, IInv, Bookkeeping
  <2>2. CASE RebootLive(r)
    <3>1. /\ live[r] # None /\ pending' = pending
          /\ \A q \in Sources : deadline'[q] = IF q = r THEN TeardownWindow ELSE deadline[q]
      BY <2>2 DEF RebootLive, ShutDown
    <3>2. TeardownWindow # None
      BY SupervisorAssumption
    <3> QED
      BY <2>1, <3>1, <3>2 DEF Arrow, Mode
  <2>3. CASE RebootFromRest(r)
    <3>1. live[r] = None /\ pending[r] = None /\ pending' = [pending EXCEPT ![r] = 0]
          /\ deadline' = deadline
      BY <2>3 DEF RebootFromRest
    <3> QED
      BY <2>1, <3>1, SupervisorAssumption DEF Arrow, Mode, IInv, TypeOK
  <2>4. CASE RebootNothing(r)
    <3>1. live[r] = None /\ pending' = pending /\ deadline' = deadline
      BY <2>4 DEF RebootNothing
    <3> QED
      BY <2>1, <3>1 DEF Arrow, Mode
  <2> QED
    BY <1>7, <2>2, <2>3, <2>4 DEF Reboot
<1>8. ASSUME NEW r \in Sources, Kill(r)
      PROVE  Arrow(Mode(s), Mode(s)')
  <2>1. /\ spawning = None /\ spawning' = None /\ live' = live
        /\ pending' = [pending EXCEPT ![r] = None]
    BY <1>8 DEF Kill, IInv, Bookkeeping
  <2>2. CASE KillLive(r)
    <3>1. /\ live[r] # None /\ killed' = killed \cup {r}
          /\ \A q \in Sources : deadline'[q] = IF q = r THEN TeardownWindow ELSE deadline[q]
      BY <2>2 DEF KillLive, ShutDown
    <3>2. TeardownWindow # None
      BY SupervisorAssumption
    <3> QED
      BY <2>1, <3>1, <3>2 DEF Arrow, Mode, IInv, TypeOK
  <2>3. CASE KillDead(r)
    <3>1. live[r] = None /\ killed' = killed \ {r} /\ deadline' = deadline
      BY <2>3 DEF KillDead
    <3> QED
      BY <2>1, <3>1 DEF Arrow, Mode, IInv, TypeOK
  <2> QED
    BY <1>8, <2>2, <2>3 DEF Kill
<1>9. ASSUME NEW r \in Sources, NEW k \in Slots, HandleMsg(r, k)
      PROVE  Arrow(Mode(s), Mode(s)')
  BY <1>0, <1>9, ReadersLeaveMaps
<1>10. CASE Tick
  <2>1. /\ deadline'[s] = None <=> deadline[s] = None
        /\ pending'[s] = None <=> pending[s] = None
    BY <1>10, NearerKeepsNone DEF Tick, IInv, TypeOK
  <2>2. UNCHANGED <<live, spawning, killed>>
    BY <1>10 DEF Tick
  <2> QED
    BY <2>1, <2>2 DEF Arrow, Mode
<1>11. ASSUME NEW r \in Sources, NEW k \in Slots, NEW m \in Alphabet, Write(r, k, m)
       PROVE  Arrow(Mode(s), Mode(s)')
  BY <1>0, <1>11 DEF Write
<1>12. ASSUME NEW r \in Sources, NEW k \in Slots, Exit(r, k)
       PROVE  Arrow(Mode(s), Mode(s)')
  BY <1>0, <1>12 DEF Exit
<1> QED
  BY <1>1, <1>2, <1>3, <1>4, <1>5, <1>6, <1>7, <1>8, <1>9, <1>10, <1>11, <1>12
  DEF Next, Main, Poll, Operator

LEMMA QuitStep ==
  ASSUME IInv, Quit
  PROVE  \A s \in Sources : Mode(s)' = "down"
  BY DEF Quit, IInv, Bookkeeping, Mode

LEMMA LifecycleInit ==
  ASSUME Init
  PROVE  Lifecycle!Init
<1>1. ASSUME NEW s \in Sources
      PROVE  Mode(s) \in {"up", "down"}
  BY DEF Init, Mode
<1> QED
  BY <1>1 DEF Lifecycle!Init

\* The supervisor implements the life cycle: for any number of sources, and
\* whatever the poll, the watchdogs, the operator and dying adapters do in any
\* order, each source moves along the arrows of SourceLifecycle only.  In
\* particular nothing but Reboot leads out of a kill.
THEOREM LifecycleImplemented == Spec => ImplementsLifecycle
<1> DEFINE m == [s \in Sources |-> Mode(s)]
<1>1. Init => Lifecycle!Init
  BY LifecycleInit
<1>2. IInv /\ [Next]_vars => [Lifecycle!Next \/ Lifecycle!Quit]_m
  <2> SUFFICES ASSUME IInv, [Next]_vars
               PROVE  Lifecycle!Next \/ Lifecycle!Quit \/ m' = m
    OBVIOUS
  <2>1. CASE Quit
    BY <2>1, QuitStep DEF Lifecycle!Quit
  <2>2. CASE Next /\ ~Quit
    <3>1. \A s \in Sources : Arrow(m[s], m'[s])
      BY <2>2, ModeStep
    <3>2. m' \in [Sources -> Lifecycle!Modes]
      BY DEF Mode, Lifecycle!Modes
    <3>3. ASSUME NEW s \in Sources
          PROVE  m'[s] = m[s] \/ Lifecycle!Move(s)
      BY <3>1 DEF Arrow, Lifecycle!Move, Lifecycle!Stop, Lifecycle!Kill, Lifecycle!Reap,
                  Lifecycle!Reboot, Lifecycle!Respawn
    <3> QED
      BY <3>2, <3>3 DEF Lifecycle!Next
  <2>3. CASE UNCHANGED vars
    BY <2>3 DEF Mode, vars, mainVars, handleVars, requestVars
  <2> QED
    BY <2>1, <2>2, <2>3
<1> QED
  BY <1>1, <1>2, Invariance, PTL DEF Spec, ImplementsLifecycle, Lifecycle!Spec

-----------------------------------------------------------------------------
(* The watchdogs.  A live process is at least as old as every instant the   *)
(* status keeps of it, because do_spawn forgets the instants of the former  *)
(* process and readers only ever write "now".                               *)

AgesOfThisRun ==
  \A s \in Sources : live[s] # None =>
    \A t \in {status[s].last_frame, status[s].last_any_msg, status[s].running_since} :
      t # None => t <= ranFor[s]

LEMMA RanForLimitBound ==
  /\ RanForLimit \in Nat
  /\ RanForLimit >= FrameWatchdog + 1
  /\ RanForLimit >= SilenceTimeout + 1
<1> DEFINE S == {HealthyRun, FrameWatchdog + 1, SilenceTimeout + 1}
           P(n) == n >= HealthyRun /\ n > FrameWatchdog /\ n > SilenceTimeout
<1>1. \E n \in S : P(n)
  BY ConstantTypes
<1>2. RanForLimit \in S /\ P(RanForLimit)
  BY <1>1 DEF RanForLimit
<1> QED
  BY <1>2, ConstantTypes

\* A tick ages an instant no faster than the process itself.
LEMMA AgedWithin ==
  ASSUME NEW t \in Nat, NEW limit \in Nat, NEW r \in Nat,
         t <= r, RanForLimit >= limit + 1
  PROVE  Aged(t, limit) <= (IF r >= RanForLimit THEN r ELSE r + 1)
  BY SupervisorAssumption, RanForLimitBound DEF Aged

LEMMA AgesInit == Init => AgesOfThisRun
  BY DEF Init, AgesOfThisRun, NewStatus

\* The instants of an entry are those of another entry, or "now".
Fresher(d, e) ==
  /\ d.last_frame \in {e.last_frame, 0, None}
  /\ d.last_any_msg \in {e.last_any_msg, 0, None}
  /\ d.running_since \in {e.running_since, 0, None}

LEMMA AgesKept ==
  ASSUME TypeOK, AgesOfThisRun, live' = live, ranFor' = ranFor,
         \A s \in Sources : Fresher(status'[s], status[s])
  PROVE  AgesOfThisRun'
<1> SUFFICES ASSUME NEW s \in Sources, live[s] # None
             PROVE  \A t \in {status'[s].last_frame, status'[s].last_any_msg,
                              status'[s].running_since} : t # None => t <= ranFor[s]
  BY DEF AgesOfThisRun
<1>1. ranFor[s] \in Nat /\ 0 <= ranFor[s]
  BY DEF TypeOK
<1>2. \A t \in {status[s].last_frame, status[s].last_any_msg, status[s].running_since} :
         t # None => t <= ranFor[s]
  BY DEF AgesOfThisRun
<1>3. Fresher(status'[s], status[s])
  OBVIOUS
<1> QED
  BY <1>1, <1>2, <1>3 DEF Fresher

LEMMA FresherAlone ==
  ASSUME TypeOK, NEW s \in Sources, NEW e, Fresher(e, status[s]),
         status' = status \/ status' = [status EXCEPT ![s] = e]
  PROVE  \A r \in Sources : Fresher(status'[r], status[r])
<1>1. \A r \in Sources : Fresher(status[r], status[r])
  BY DEF Fresher
<1>2. CASE status' = status
  BY <1>1, <1>2
<1>3. CASE status' = [status EXCEPT ![s] = e]
  BY <1>1, <1>3 DEF TypeOK
<1> QED
  BY <1>2, <1>3

LEMMA ReadersWriteNow ==
  ASSUME TypeOK, NEW s \in Sources, NEW k \in Slots, HandleMsg(s, k)
  PROVE  \A r \in Sources : Fresher(status'[r], status[r])
<1>1. status[s] \in Status /\ Entry(s) \in Status
  BY EntryType DEF TypeOK
<1>e. /\ Entry(s).last_frame = status[s].last_frame
      /\ Entry(s).last_any_msg = 0
      /\ Entry(s).running_since = status[s].running_since
  BY <1>1 DEF Entry, Status
<1>2. ASSUME NEW e, Fresher(e, status[s]), status' = [status EXCEPT ![s] = e]
      PROVE  \A r \in Sources : Fresher(status'[r], status[r])
  BY <1>2, FresherAlone
<1>3. CASE HandleMismatch(s, k)
  BY <1>1, <1>e, <1>2, <1>3 DEF HandleMismatch, Fresher, Status
<1>4. CASE HandleReady(s, k)
  BY <1>1, <1>e, <1>2, <1>4 DEF HandleReady, Fresher, Status
<1>5. CASE HandleReconnecting(s, k)
  BY <1>1, <1>e, <1>2, <1>5 DEF HandleReconnecting, Fresher, Status
<1>6. CASE HandleStreamsChanged(s, k)
  BY <1>1, <1>e, <1>2, <1>6 DEF HandleStreamsChanged, Fresher, Status
<1>7. CASE HandleMetrics(s, k)
  BY <1>1, <1>e, <1>2, <1>7 DEF HandleMetrics, Fresher, Status
<1>8. CASE HandleError(s, k)
  BY <1>1, <1>e, <1>2, <1>8 DEF HandleError, Fresher, Status
<1> QED
  BY <1>3, <1>4, <1>5, <1>6, <1>7, <1>8 DEF HandleMsg

LEMMA AgesStep ==
  ASSUME IInv, AgesOfThisRun, Next
  PROVE  AgesOfThisRun'
<1> USE DEF mainVars, handleVars, requestVars, streamVars, adapterVars
<1>t. TypeOK /\ Bookkeeping
  BY DEF IInv
<1>0. ASSUME live' = live, ranFor' = ranFor, status' = status
      PROVE  AgesOfThisRun'
  BY <1>0 DEF AgesOfThisRun
<1>1. CASE Launch \/ StartPlay \/ Broadcast \/ PollUnwatched \/ PollPromote
           \/ TogglePlay \/ FinishReady \/ Terminated
  BY <1>0, <1>1 DEF Launch, StartPlay, Broadcast, PollUnwatched, PollPromote,
     TogglePlay, FinishReady, Terminated, vars
<1>2. CASE PollReap
  <2>1. ASSUME NEW s \in Sources, live'[s] # None
        PROVE  live'[s] = live[s] /\ ranFor'[s] = ranFor[s] /\ status'[s] = status[s]
    BY <1>2, <2>1 DEF PollReap
  <2> QED
    BY <2>1 DEF AgesOfThisRun
<1>3. CASE PollWatch
  <2>1. \A s \in Sources : Fresher(status'[s], status[s])
    BY <1>3, <1>t DEF PollWatch, Fresher, TypeOK, Status
  <2> QED
    BY <1>3, <1>t, <2>1, AgesKept DEF PollWatch
<1>4. ASSUME NEW s \in Sources, NEW k \in Slots, Respawn(s, k)
      PROVE  AgesOfThisRun'
  BY <1>0, <1>4 DEF Respawn
<1>5. ASSUME NEW s \in Sources, RespawnFails(s)
      PROVE  AgesOfThisRun'
  BY <1>0, <1>5 DEF RespawnFails
<1>6. CASE FinishSpawn
  <2>1. PICK s \in Sources, k \in Slots : spawning = <<s, k>>
    BY <1>6 DEF IInv, TypeOK, Bookkeeping, FinishSpawn, Adapter
  <2>2. /\ live' = [live EXCEPT ![s] = k] /\ ranFor' = [ranFor EXCEPT ![s] = 0]
        /\ status' = [status EXCEPT ![s] = Respawned(status[s])]
    BY <1>6, <2>1 DEF FinishSpawn
  <2>3. /\ status'[s].last_frame = None /\ status'[s].last_any_msg = None
        /\ status'[s].running_since = None
    BY <1>t, <2>2 DEF Respawned, TypeOK, Status
  <2>4. ASSUME NEW r \in Sources \ {s}
        PROVE  live'[r] = live[r] /\ ranFor'[r] = ranFor[r] /\ status'[r] = status[r]
    BY <1>t, <2>2 DEF TypeOK
  <2> QED
    BY <2>3, <2>4 DEF AgesOfThisRun
<1>7. CASE PollDrain
  <2>1. \A s \in Sources : Fresher(status'[s], status[s])
    BY <1>7, <1>t DEF PollDrain, Updated, Fresher, TypeOK, Status
  <2> QED
    BY <1>7, <1>t, <2>1, AgesKept DEF PollDrain
<1>8. ASSUME NEW s \in Sources, Reboot(s)
      PROVE  AgesOfThisRun'
  <2>0. \/ status' = status
        \/ status' = [status EXCEPT ![s] = AtRest(status[s], "Restarting")]
    BY <1>8 DEF Reboot, RebootLive, RebootFromRest, RebootNothing
  <2>1. \A r \in Sources : Fresher(status'[r], status[r])
    <3>1. status[s] \in Status
      BY <1>t DEF TypeOK
    <3>2. Fresher(AtRest(status[s], "Restarting"), status[s])
      BY <3>1, AtRestType DEF Fresher, State
    <3> QED
      BY <1>t, <2>0, <3>2, FresherAlone
  <2> QED
    BY <1>8, <1>t, <2>1, AgesKept DEF Reboot
<1>9. ASSUME NEW s \in Sources, Kill(s)
      PROVE  AgesOfThisRun'
  <2>0. \/ status' = status
        \/ status' = [status EXCEPT ![s] = AtRest(status[s], "Stopped")]
    BY <1>9 DEF Kill, KillLive, KillDead
  <2>1. \A r \in Sources : Fresher(status'[r], status[r])
    <3>1. status[s] \in Status
      BY <1>t DEF TypeOK
    <3>2. Fresher(AtRest(status[s], "Stopped"), status[s])
      BY <3>1, AtRestType DEF Fresher, State
    <3> QED
      BY <1>t, <2>0, <3>2, FresherAlone
  <2> QED
    BY <1>9, <1>t, <2>1, AgesKept DEF Kill
<1>10. CASE Quit
  BY <1>10 DEF Quit, AgesOfThisRun
<1>11. ASSUME NEW s \in Sources, NEW k \in Slots, HandleMsg(s, k)
       PROVE  AgesOfThisRun'
  BY <1>11, <1>t, ReadersLeaveMaps, ReadersWriteNow, AgesKept
<1>12. CASE Tick
  <2> SUFFICES ASSUME NEW s \in Sources, live[s] # None
               PROVE  \A t \in {status'[s].last_frame, status'[s].last_any_msg,
                                status'[s].running_since} :
                         t # None => t <= ranFor'[s]
    BY <1>12 DEF Tick, AgesOfThisRun
  <2>1. status[s] \in Status /\ ranFor[s] \in Nat
    BY <1>t DEF TypeOK
  <2>2. ranFor'[s] = IF ranFor[s] >= RanForLimit THEN ranFor[s] ELSE ranFor[s] + 1
    BY <1>12 DEF Tick
  <2>3. /\ status'[s].last_frame = Aged(status[s].last_frame, FrameWatchdog)
        /\ status'[s].last_any_msg = Aged(status[s].last_any_msg, SilenceTimeout)
        /\ status'[s].running_since = Aged(status[s].running_since, FrameWatchdog)
    BY <1>12, <2>1 DEF Tick, Status
  <2>4. ASSUME NEW t \in Age, NEW limit \in Nat, t # None => t <= ranFor[s],
               RanForLimit >= limit + 1, Aged(t, limit) # None
        PROVE  Aged(t, limit) <= ranFor'[s]
    <3>1. t \in Nat
      BY <2>4 DEF Aged, Age
    <3> QED
      BY <2>1, <2>2, <2>4, <3>1, AgedWithin, SupervisorAssumption
  <2>5. \A t \in {status[s].last_frame, status[s].last_any_msg, status[s].running_since} :
           t \in Age /\ (t # None => t <= ranFor[s])
    BY <2>1 DEF AgesOfThisRun, Status
  <2> QED
    BY <2>3, <2>4, <2>5, ConstantTypes, RanForLimitBound
<1>13. ASSUME NEW s \in Sources, NEW k \in Slots, NEW m \in Alphabet, Write(s, k, m)
       PROVE  AgesOfThisRun'
  BY <1>0, <1>13 DEF Write
<1>14. ASSUME NEW s \in Sources, NEW k \in Slots, Exit(s, k)
       PROVE  AgesOfThisRun'
  BY <1>0, <1>14 DEF Exit
<1> QED
  BY <1>1, <1>2, <1>3, <1>4, <1>5, <1>6, <1>7, <1>8, <1>9, <1>10, <1>11, <1>12,
     <1>13, <1>14 DEF Next, Main, Poll, Operator

\* No process is shut down by the silence or the frame watchdog before it has
\* itself run longer than the timeout, however long its predecessors ran and
\* however late their readers are.
THEOREM NoInheritedVerdictHolds == Spec => NoInheritedVerdict
<1> DEFINE Verdict ==
      PollWatch => \A s \in Sources :
        /\ SilenceFires(s) => ranFor[s] > SilenceTimeout
        /\ FrameFires(s) => ranFor[s] > FrameWatchdog
<1>1. Init => AgesOfThisRun
  BY AgesInit
<1>2. IInv /\ AgesOfThisRun /\ [Next]_vars => AgesOfThisRun'
  <2>1. CASE UNCHANGED vars
    BY <2>1 DEF AgesOfThisRun, vars, handleVars
  <2> QED
    BY <2>1, AgesStep
<1>3. IInv /\ AgesOfThisRun => Verdict
  <2> SUFFICES ASSUME IInv, AgesOfThisRun, NEW s \in Sources
               PROVE  /\ SilenceFires(s) => ranFor[s] > SilenceTimeout
                      /\ FrameFires(s) => ranFor[s] > FrameWatchdog
    OBVIOUS
  <2>1. status[s] \in Status /\ ranFor[s] \in Nat
    BY DEF IInv, TypeOK
  <2>2. ASSUME SilenceFires(s) PROVE ranFor[s] > SilenceTimeout
    BY <2>1, <2>2, ConstantTypes DEF SilenceFires, Watched, AgesOfThisRun, Status, Age
  <2>3. ASSUME FrameFires(s) PROVE ranFor[s] > FrameWatchdog
    BY <2>1, <2>3, ConstantTypes
    DEF FrameFires, FrameAge, Watched, AgesOfThisRun, Status, Age
  <2> QED
    BY <2>2, <2>3
<1> QED
  BY <1>1, <1>2, <1>3, Invariance, PTL DEF Spec, NoInheritedVerdict

-----------------------------------------------------------------------------
(* The delivery watchdog.  Between PollDrain, which copies the chains into  *)
(* the status, and the next PollWatch no chain changes; so where the core   *)
(* has a divergence on record for a source it follows, there is no chain.   *)

DivergenceIsReal ==
  \A s \in Sources : status[s].delivery_diverge # None =>
    /\ pc \notin {"startup", "play"}
    /\ s \in external /\ pc \in {"broadcast", "idle", "watch"}
         => "video" \notin chain[s]

LEMMA DivergenceInit == Init => DivergenceIsReal
  BY DEF Init, DivergenceIsReal, NewStatus

LEMMA DivergenceKept ==
  ASSUME DivergenceIsReal, UNCHANGED <<external, chain>>,
         pc' = pc \/ pc' \notin {"startup", "play"},
         pc' \in {"broadcast", "idle", "watch"} => pc \in {"play", "broadcast", "idle", "watch"},
         \A s \in Sources : status'[s].delivery_diverge \in {status[s].delivery_diverge, None}
  PROVE  DivergenceIsReal'
  BY DEF DivergenceIsReal

LEMMA DivergenceAlone ==
  ASSUME TypeOK, NEW s \in Sources, NEW e,
         e.delivery_diverge = status[s].delivery_diverge,
         status' = status \/ status' = [status EXCEPT ![s] = e]
  PROVE  \A r \in Sources : status'[r].delivery_diverge = status[r].delivery_diverge
  BY DEF TypeOK

LEMMA ReadersLeaveDivergence ==
  ASSUME TypeOK, NEW s \in Sources, NEW k \in Slots, HandleMsg(s, k)
  PROVE  \A r \in Sources : status'[r].delivery_diverge = status[r].delivery_diverge
<1>1. Entry(s) \in Status /\ Entry(s).delivery_diverge = status[s].delivery_diverge
  BY EntryType DEF Entry, TypeOK, Status
<1>3. CASE HandleMismatch(s, k)
  BY <1>1, <1>3, DivergenceAlone DEF HandleMismatch, Status
<1>4. CASE HandleReady(s, k)
  BY <1>1, <1>4, DivergenceAlone DEF HandleReady, Status
<1>5. CASE HandleReconnecting(s, k)
  BY <1>1, <1>5, DivergenceAlone DEF HandleReconnecting, Status
<1>6. CASE HandleStreamsChanged(s, k)
  BY <1>1, <1>6, DivergenceAlone DEF HandleStreamsChanged, Status
<1>7. CASE HandleMetrics(s, k)
  BY <1>1, <1>7, DivergenceAlone DEF HandleMetrics, Status
<1>8. CASE HandleError(s, k)
  BY <1>1, <1>8, DivergenceAlone DEF HandleError, Status
<1> QED
  BY <1>3, <1>4, <1>5, <1>6, <1>7, <1>8 DEF HandleMsg

LEMMA DivergenceStep ==
  ASSUME IInv, DivergenceIsReal, Next
  PROVE  DivergenceIsReal'
<1> USE DEF mainVars, handleVars, requestVars, streamVars, adapterVars
<1>t. TypeOK /\ Bookkeeping
  BY DEF IInv
<1>0. ASSUME UNCHANGED <<external, chain, pc>>,
             \A s \in Sources : status'[s].delivery_diverge = status[s].delivery_diverge
      PROVE  DivergenceIsReal'
  BY <1>0, DivergenceKept
<1>1. CASE Launch
  BY <1>1 DEF Launch, DivergenceIsReal
<1>2. CASE StartPlay \/ Broadcast \/ PollUnwatched \/ PollPromote \/ TogglePlay
           \/ FinishReady \/ Terminated
  BY <1>2, DivergenceKept DEF StartPlay, Broadcast, PollUnwatched, PollPromote,
     TogglePlay, FinishReady, Terminated, vars
<1>3. CASE PollReap
  <2>1. \A s \in Sources : status'[s].delivery_diverge = status[s].delivery_diverge
    BY <1>3, <1>t DEF PollReap, AtRest, TypeOK, Status
  <2> QED
    BY <1>3, <2>1, DivergenceKept DEF PollReap
<1>4. CASE PollWatch
  BY <1>4 DEF PollWatch, DivergenceIsReal
<1>5. ASSUME NEW s \in Sources, NEW k \in Slots, Respawn(s, k)
      PROVE  DivergenceIsReal'
  BY <1>5, DivergenceKept DEF Respawn
<1>6. ASSUME NEW s \in Sources, RespawnFails(s)
      PROVE  DivergenceIsReal'
  BY <1>6, DivergenceKept DEF RespawnFails
<1>7. CASE FinishSpawn
  <2>1. PICK s \in Sources, k \in Slots : spawning = <<s, k>>
    BY <1>7 DEF IInv, TypeOK, Bookkeeping, FinishSpawn, Adapter
  <2>2. status' = [status EXCEPT ![s] = Respawned(status[s])]
    BY <1>7, <2>1 DEF FinishSpawn
  <2>3. Respawned(status[s]).delivery_diverge = status[s].delivery_diverge
    BY <1>t DEF Respawned, TypeOK, Status
  <2>4. \A r \in Sources : status'[r].delivery_diverge = status[r].delivery_diverge
    BY <1>t, <2>2, <2>3, DivergenceAlone
  <2> QED
    BY <1>7, <2>4, DivergenceKept DEF FinishSpawn
<1>8. CASE PollDrain
  <2> SUFFICES ASSUME NEW s \in Sources, status'[s].delivery_diverge # None, s \in external
               PROVE  "video" \notin chain'[s]
    BY <1>8 DEF PollDrain, DivergenceIsReal
  <2>1. status[s] \in Status
    BY <1>t DEF TypeOK
  <2>2. status'[s] = Updated(status[s], chain'[s])
    BY <1>8 DEF PollDrain, ChainSeen
  <2> QED
    BY <2>1, <2>2 DEF Updated, Status
<1>9. ASSUME NEW s \in Sources, Reboot(s) \/ Kill(s)
      PROVE  DivergenceIsReal'
  <2>1. status[s] \in Status
    BY <1>t DEF TypeOK
  <2>2. PICK st \in State :
           status' = status \/ status' = [status EXCEPT ![s] = AtRest(status[s], st)]
    BY <1>9 DEF Reboot, RebootLive, RebootFromRest, RebootNothing, Kill, KillLive,
                KillDead, State
  <2>3. AtRest(status[s], st).delivery_diverge = status[s].delivery_diverge
    BY <2>1 DEF AtRest, Status
  <2>4. \A r \in Sources : status'[r].delivery_diverge = status[r].delivery_diverge
    BY <1>t, <2>2, <2>3, DivergenceAlone
  <2> QED
    BY <1>0, <1>9, <2>4 DEF Reboot, Kill
<1>10. CASE Quit
  BY <1>10, DivergenceKept DEF Quit
<1>11. ASSUME NEW s \in Sources, NEW k \in Slots, HandleMsg(s, k)
       PROVE  DivergenceIsReal'
  BY <1>0, <1>11, <1>t, ReadersLeaveMaps, ReadersLeaveDivergence
<1>12. CASE Tick
  <2>1. ASSUME NEW s \in Sources
        PROVE  status'[s].delivery_diverge = Aged(status[s].delivery_diverge, DeliveryWatchdog)
    BY <1>12, <1>t DEF Tick, TypeOK, Status
  <2>2. \A s \in Sources :
           status'[s].delivery_diverge # None => status[s].delivery_diverge # None
    BY <2>1 DEF Aged
  <2> QED
    BY <1>12, <2>2 DEF Tick, DivergenceIsReal
<1>13. ASSUME NEW s \in Sources, NEW k \in Slots, NEW m \in Alphabet, Write(s, k, m)
       PROVE  DivergenceIsReal'
  BY <1>0, <1>13 DEF Write
<1>14. ASSUME NEW s \in Sources, NEW k \in Slots, Exit(s, k)
       PROVE  DivergenceIsReal'
  BY <1>0, <1>14 DEF Exit
<1> QED
  BY <1>1, <1>2, <1>3, <1>4, <1>5, <1>6, <1>7, <1>8, <1>9, <1>10, <1>11, <1>12,
     <1>13, <1>14 DEF Next, Main, Poll, Operator

\* No source the core follows is respawned by the delivery watchdog while it
\* has its video chain, although the watchdog looks at a copy of that fact.
THEOREM DeliverySparesChainedHolds == Spec => DeliverySparesChained
<1> DEFINE Spares == PollWatch => \A s \in external : DeliveryFires(s) => "video" \notin chain[s]
<1>1. Init => DivergenceIsReal
  BY DivergenceInit
<1>2. IInv /\ DivergenceIsReal /\ [Next]_vars => DivergenceIsReal'
  <2>1. CASE UNCHANGED vars
    BY <2>1 DEF DivergenceIsReal, vars, mainVars, requestVars
  <2> QED
    BY <2>1, DivergenceStep
<1>3. IInv /\ DivergenceIsReal => Spares
  BY DEF IInv, TypeOK, DivergenceIsReal, PollWatch, DeliveryFires
<1> QED
  BY <1>1, <1>2, <1>3, Invariance, PTL DEF Spec, DeliverySparesChained
===============================================================================
