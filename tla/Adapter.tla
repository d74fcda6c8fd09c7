-------------------------------- MODULE Adapter --------------------------------
(***************************************************************************)
(* The RTSP and the YouTube adapter: one process that feeds one source     *)
(* into the core's sockets and recovers it by itself.  The two programs    *)
(* share their structure and differ in what counts as one failure too      *)
(* many, in what Ready waits for, and in YouTube's SIGUSR1; which of them  *)
(* runs is the variable kind, which no step changes.                       *)
(*                                                                         *)
(* Three kinds of thread interleave:                                       *)
(*   - the main loop, every 50 ms: commands, bus messages, the one Ready,  *)
(*     the check after a reconnect, metrics;                               *)
(*   - GStreamer's streaming threads, which run pad-added and post Error   *)
(*     and EOS messages on the bus;                                        *)
(*   - one thread per reconnect, which tears the source down, tells the    *)
(*     core, and starts the source again.                                  *)
(* They share the struct Shared, under a mutex, and the reconnecting flag, *)
(* an atomic.  A critical section is one step.                             *)
(*                                                                         *)
(* Left out: the length of a reconnect's delay (the thread wakes at any    *)
(* time), metrics, a second pad of the same medium, and YouTube's resolver:*)
(* whether it finds a new address or keeps the old one, for the rest of    *)
(* the process it is a delay before SyncState.                             *)
(***************************************************************************)
EXTENDS Integers, Sequences

CONSTANTS
  Kinds,          \* of adapter that may run: "rtsp", "youtube"
  Threads,        \* reconnect threads that may exist at once
  None,           \* Option::None
  MaxReconnects,  \* MAX_RECONNECTS
  PadStability,   \* PAD_STABILITY_SECS
  HardDeadline,   \* the process age at which Ready no longer waits for pads
  MaxBus,         \* bound on the messages waiting on the bus
  LinkMayFail     \* may building or linking a chain fail?

Media == {"video", "audio"}

ASSUME AdapterAssumption ==
  /\ Kinds \subseteq {"rtsp", "youtube"}
  /\ None \notin Nat
  /\ \A caps \in SUBSET Media : caps # None
  /\ {MaxReconnects, PadStability, HardDeadline, MaxBus} \subseteq Nat
  /\ LinkMayFail \in BOOLEAN

VARIABLES
  kind,             \* which adapter this is
  pc,               \* where the main loop is
  announcing,       \* the caps of the Ready about to be written, or None
  source,           \* the source elements: down, trying, up or failed
  pads,             \* decoded pads the source exposes
  linked,           \* media whose chain's sink is linked to a pad
  bus,              \* messages not yet popped
  chains,           \* Shared.video_chain, Shared.audio_chain
  first_pad_at,     \* age of Shared.first_pad_at, or None
  ready_sent,
  post_reconnect_check_at,   \* its age, or None
  last_reported_caps,        \* what was last meant to be reported, or None
  reconnecting,
  reconnect_count,
  restart,          \* where each reconnect thread is
  age,              \* of the process
  told              \* caps of the last Ready or StreamsChanged written, or None

mainVars   == <<kind, pc, announcing>>
sourceVars == <<source, pads, linked>>
padVars    == <<chains, first_pad_at>>
reportVars == <<ready_sent, last_reported_caps, told>>
retryVars  == <<reconnecting, reconnect_count>>
vars == <<mainVars, sourceVars, bus, padVars, reportVars, retryVars, restart,
          post_reconnect_check_at, age>>

Caps == SUBSET Media
Timer == {None} \cup Nat

TypeOK ==
  /\ kind \in Kinds
  /\ pc \in {"commands", "bus", "ready", "announce", "check", "exited"}
  /\ announcing \in {None} \cup Caps
  /\ source \in {"down", "trying", "up", "failed"}
  /\ pads \in Caps
  /\ linked \subseteq pads
  /\ bus \in Seq({"Error", "Eos"})
  /\ chains \in Caps
  /\ first_pad_at \in Timer
  /\ ready_sent \in BOOLEAN
  /\ post_reconnect_check_at \in Timer
  /\ last_reported_caps \in {None} \cup Caps
  /\ reconnecting \in BOOLEAN
  /\ reconnect_count \in Nat
  /\ restart \in [Threads -> {"idle", "sleep", "report", "tell", "sync", "mark",
                              "release"}]
  /\ age \in Nat
  /\ told \in {None} \cup Caps

\* The pipeline has just been set to Playing.
Init ==
  /\ kind \in Kinds
  /\ pc = "commands" /\ announcing = None
  /\ source = "trying" /\ pads = {} /\ linked = {}
  /\ bus = <<>>
  /\ chains = {} /\ first_pad_at = None
  /\ ready_sent = FALSE /\ last_reported_caps = None /\ told = None
  /\ post_reconnect_check_at = None
  /\ reconnecting = FALSE /\ reconnect_count = 0
  /\ restart = [r \in Threads |-> "idle"]
  /\ age = 0

-----------------------------------------------------------------------------
(* GStreamer, and the pad-added callback it runs.                          *)

\* A pad of media m: link it to its chain, which the first such pad builds.
\* In the window after a reconnect every new pad restarts the timer.
PadAdded(m) ==
  /\ pc # "exited"
  /\ source \in {"trying", "up"}
  /\ m \notin pads
  /\ source' = "up"
  /\ pads' = pads \cup {m}
  /\ post_reconnect_check_at' = IF post_reconnect_check_at = None THEN None ELSE 0
  /\ \/ /\ linked' = linked \cup {m}
        /\ chains' = chains \cup {m}
        /\ first_pad_at' = IF m \notin chains /\ first_pad_at = None
                           THEN 0 ELSE first_pad_at
     \/ LinkMayFail /\ UNCHANGED <<linked, chains, first_pad_at>>
  /\ UNCHANGED <<mainVars, bus, reportVars, retryVars, restart, age>>

\* The source errs or ends: nothing flows until it has been torn down.
SourceFails(msg) ==
  /\ pc # "exited"
  /\ source \in IF msg = "Error" THEN {"trying", "up"} ELSE {"up"}
  /\ Len(bus) < MaxBus
  /\ source' = "failed"
  /\ bus' = Append(bus, msg)
  /\ UNCHANGED <<mainVars, pads, linked, padVars, reportVars, retryVars, restart,
                 post_reconnect_check_at, age>>

\* One failure posts more errors, in its wake and during the teardown.
MoreErrors ==
  /\ pc # "exited"
  /\ source \in {"failed", "down"}
  /\ Len(bus) < MaxBus
  /\ bus' = Append(bus, "Error")
  /\ UNCHANGED <<mainVars, sourceVars, padVars, reportVars, retryVars, restart,
                 post_reconnect_check_at, age>>

-----------------------------------------------------------------------------
(* The main loop.                                                          *)

\* Play and Pause set the state of every element, of a torn-down one too.
PlayOrPause ==
  /\ pc = "commands"
  /\ source' = IF source = "down" THEN "trying" ELSE source
  /\ UNCHANGED <<mainVars, pads, linked, bus, padVars, reportVars, retryVars,
                 restart, post_reconnect_check_at, age>>

Exit ==
  /\ pc' = "exited"
  /\ UNCHANGED <<kind, announcing, sourceVars, bus, padVars, reportVars, restart,
                 post_reconnect_check_at, age>>

Shutdown ==
  /\ pc = "commands"
  /\ Exit
  /\ UNCHANGED retryVars

CommandsDone ==
  /\ pc = "commands"
  /\ pc' = "bus"
  /\ UNCHANGED <<kind, announcing, sourceVars, bus, padVars, reportVars, retryVars,
                 restart, post_reconnect_check_at, age>>

\* The counter, up to the first value past MaxReconnects.
OneMore(n) == IF n > MaxReconnects THEN n ELSE n + 1

\* Mutant: the flag is not looked at.
NoGate == TRUE

\* The compare_exchange on reconnecting: one reconnect at a time.
Gate == ~reconnecting

Pop(msg) ==
  /\ pc = "bus"
  /\ bus # <<>> /\ Head(bus) = msg

\* A message is dropped while a reconnect is under way.
Ignore(msg) ==
  /\ Pop(msg)
  /\ ~Gate
  /\ bus' = Tail(bus)
  /\ UNCHANGED <<mainVars, sourceVars, padVars, reportVars, retryVars, restart,
                 post_reconnect_check_at, age>>

\* Claim the reconnect, say Reconnecting, and start the thread.
StartRestart ==
  /\ Gate
  /\ reconnecting' = TRUE
  /\ reconnect_count' = OneMore(reconnect_count)
  /\ \E r \in Threads : /\ restart[r] = "idle"
                        /\ restart' = [restart EXCEPT ![r] = "sleep"]

\* What counts against MaxReconnects: with RTSP an end of stream does not.
Limited(msg) == msg = "Error" \/ kind = "youtube"

Reconnect(msg) ==
  /\ Pop(msg)
  /\ Limited(msg) => reconnect_count < MaxReconnects
  /\ StartRestart
  /\ bus' = Tail(bus)
  /\ UNCHANGED <<mainVars, sourceVars, padVars, reportVars,
                 post_reconnect_check_at, age>>

\* One failure too many: say Error and leave.
GiveUp(msg) ==
  /\ Pop(msg)
  /\ Gate
  /\ Limited(msg) /\ reconnect_count >= MaxReconnects
  /\ reconnect_count' = OneMore(reconnect_count)
  /\ UNCHANGED reconnecting
  /\ Exit

\* SIGUSR1, looked at after the commands, while no reconnect is under way.  Past
\* MaxReconnects the adapter says Error, and goes on.
ForceRestart ==
  /\ kind = "youtube"
  /\ pc = "commands"
  /\ \/ reconnect_count < MaxReconnects /\ StartRestart
     \/ /\ reconnect_count >= MaxReconnects /\ Gate
        /\ reconnect_count' = OneMore(reconnect_count)
        /\ UNCHANGED <<reconnecting, restart>>
  /\ UNCHANGED <<mainVars, sourceVars, bus, padVars, reportVars,
                 post_reconnect_check_at, age>>

BusEmpty ==
  /\ pc = "bus"
  /\ bus = <<>>
  /\ pc' = "ready"
  /\ UNCHANGED <<kind, announcing, sourceVars, bus, padVars, reportVars, retryVars,
                 restart, post_reconnect_check_at, age>>

\* The first pad is old enough for its siblings to have come; YouTube waits
\* for video besides.
PadsSettled ==
  /\ first_pad_at # None /\ first_pad_at >= PadStability
  /\ kind = "youtube" => "video" \in chains

\* Mutant: the deadline is only for a source that has shown a pad.
DueWithPads == first_pad_at # None /\ (PadsSettled \/ age >= HardDeadline)

Due == PadsSettled \/ age >= HardDeadline

\* Mutant: ready_sent is not looked at.
DecideReadyAgain ==
  /\ pc = "ready"
  /\ IF Due
     THEN /\ ready_sent' = TRUE
          /\ last_reported_caps' = chains
          /\ announcing' = chains
          /\ pc' = "announce"
     ELSE /\ UNCHANGED <<ready_sent, last_reported_caps, announcing>>
          /\ pc' = "check"
  /\ UNCHANGED <<kind, sourceVars, bus, padVars, told, retryVars, restart,
                 post_reconnect_check_at, age>>

\* Decide, under the lock, whether to say Ready, and with which caps.
DecideReady ==
  /\ pc = "ready"
  /\ IF ~ready_sent /\ Due
     THEN /\ ready_sent' = TRUE
          /\ last_reported_caps' = chains
          /\ announcing' = chains
          /\ pc' = "announce"
     ELSE /\ UNCHANGED <<ready_sent, last_reported_caps, announcing>>
          /\ pc' = "check"
  /\ UNCHANGED <<kind, sourceVars, bus, padVars, told, retryVars, restart,
                 post_reconnect_check_at, age>>

\* Write it, the lock released.
AnnounceReady ==
  /\ pc = "announce"
  /\ told' = announcing
  /\ announcing' = None
  /\ pc' = "check"
  /\ UNCHANGED <<kind, sourceVars, bus, padVars, ready_sent, last_reported_caps,
                 retryVars, restart, post_reconnect_check_at, age>>

\* All pads expected after the reconnect have had their time: report what is
\* linked, if it is not what was reported last.
CheckReconnect ==
  /\ pc = "check"
  /\ IF /\ ready_sent
        /\ post_reconnect_check_at # None
        /\ post_reconnect_check_at >= PadStability
     THEN /\ told' = IF linked # last_reported_caps THEN linked ELSE told
          /\ last_reported_caps' = linked
          /\ post_reconnect_check_at' = None
     ELSE UNCHANGED <<told, last_reported_caps, post_reconnect_check_at>>
  /\ pc' = "commands"
  /\ UNCHANGED <<kind, announcing, sourceVars, bus, padVars, ready_sent, retryVars,
                 restart, age>>

-----------------------------------------------------------------------------
(* The reconnect thread r.                                                 *)

Goes(r, from, to) ==
  /\ pc # "exited"
  /\ restart[r] = from
  /\ restart' = [restart EXCEPT ![r] = to]
  /\ UNCHANGED <<mainVars, bus, padVars, ready_sent, reconnect_count, age>>

\* Mutant: the pads are gone, their chains stay linked.
TearDownLinked(r) ==
  /\ Goes(r, "sleep", "report")
  /\ source' = "down" /\ pads' = {}
  /\ UNCHANGED <<linked, last_reported_caps, told, reconnecting,
                 post_reconnect_check_at>>

\* The delay is over: the source goes to Null and loses its pads.
TearDown(r) ==
  /\ Goes(r, "sleep", "report")
  /\ source' = "down" /\ pads' = {} /\ linked' = {}
  /\ UNCHANGED <<last_reported_caps, told, reconnecting, post_reconnect_check_at>>

\* Decide, under the lock, whether the core must be told of the drop.
ReportDrop(r) ==
  /\ LET notify == ready_sent /\ last_reported_caps # {}
     IN /\ Goes(r, "report", IF notify THEN "tell" ELSE "sync")
        /\ last_reported_caps' = IF notify THEN {} ELSE last_reported_caps
  /\ UNCHANGED <<sourceVars, told, reconnecting, post_reconnect_check_at>>

\* Tell it, the lock released.
TellDrop(r) ==
  /\ Goes(r, "tell", "sync")
  /\ told' = {}
  /\ UNCHANGED <<sourceVars, last_reported_caps, reconnecting,
                 post_reconnect_check_at>>

\* sync_state_with_parent: the source connects again.
SyncState(r) ==
  /\ Goes(r, "sync", "mark")
  /\ source' = IF source = "down" THEN "trying" ELSE source
  /\ UNCHANGED <<pads, linked, last_reported_caps, told, reconnecting,
                 post_reconnect_check_at>>

\* Mutant: the check is asked for only when Ready has been sent.
MarkAfterReady(r) ==
  /\ Goes(r, "mark", "release")
  /\ post_reconnect_check_at' = IF ready_sent THEN 0 ELSE post_reconnect_check_at
  /\ UNCHANGED <<sourceVars, last_reported_caps, told, reconnecting>>

\* Ask the main loop for a check.
Mark(r) ==
  /\ Goes(r, "mark", "release")
  /\ post_reconnect_check_at' = 0
  /\ UNCHANGED <<sourceVars, last_reported_caps, told, reconnecting>>

Release(r) ==
  /\ Goes(r, "release", "idle")
  /\ reconnecting' = FALSE
  /\ UNCHANGED <<sourceVars, last_reported_caps, told, post_reconnect_check_at>>

Restart(r) ==
  TearDown(r) \/ ReportDrop(r) \/ TellDrop(r) \/ SyncState(r) \/ Mark(r) \/ Release(r)

-----------------------------------------------------------------------------
\* An age, up to the first value that reaches its limit.
Older(t, limit) == IF t = None THEN None ELSE IF t >= limit THEN t ELSE t + 1

Tick ==
  /\ pc # "exited"
  /\ first_pad_at' = Older(first_pad_at, PadStability)
  /\ post_reconnect_check_at' = Older(post_reconnect_check_at, PadStability)
  /\ age' = Older(age, HardDeadline)
  /\ UNCHANGED <<mainVars, sourceVars, bus, chains, reportVars, retryVars, restart>>

Exited ==
  /\ pc = "exited"
  /\ UNCHANGED vars

GStreamer ==
  \/ \E m \in Media : PadAdded(m)
  \/ \E msg \in {"Error", "Eos"} : SourceFails(msg)
  \/ MoreErrors

Loop ==
  \/ CommandsDone
  \/ \E msg \in {"Error", "Eos"} : Ignore(msg) \/ Reconnect(msg) \/ GiveUp(msg)
  \/ BusEmpty
  \/ DecideReady
  \/ AnnounceReady
  \/ CheckReconnect

Next ==
  \/ GStreamer
  \/ PlayOrPause \/ Shutdown \/ ForceRestart
  \/ Loop
  \/ \E r \in Threads : Restart(r)
  \/ Tick
  \/ Exited

Spec == Init /\ [][Next]_vars

\* The main loop runs on and time passes.  Each turn of the loop ends: it pops
\* messages faster than a source, which a reconnect delays by seconds, posts
\* them, and an operator's commands do not come without end.
FairSpec ==
  /\ Spec
  /\ WF_vars(Loop)
  /\ []<>(pc # "bus")
  /\ WF_vars(Tick)
  /\ \A r \in Threads : WF_vars(Restart(r))

-----------------------------------------------------------------------------
\* A reconnect is under way exactly while the flag says so, and never two at
\* once: two threads would tear down what the other has just started.  The flag
\* is set by the main loop and cleared by the thread, in every error path.
OneRestart ==
  /\ reconnecting <=> \E r \in Threads : restart[r] # "idle"
  /\ \A r, q \in Threads : restart[r] # "idle" /\ restart[q] # "idle" => r = q

\* What the adapter holds for reported is still there: with no reconnect past
\* its teardown and no check to come, every medium reported last is linked.
\* A Ready sent in the middle of a reconnect, pads that come back one by one or
\* not at all, and Play during a teardown all have to leave it so.
ReportIsTrue ==
  /\ last_reported_caps # None
  /\ post_reconnect_check_at = None
  /\ \A r \in Threads : restart[r] \in {"idle", "sleep"}
  => last_reported_caps \subseteq linked

\* Every adapter that keeps running comes to say Ready, a source that never
\* connects, fails over and over or loses its pads included: the core waits
\* for it at start-up, and no watchdog looks at an adapter before.
SaysReady == <>(pc = "exited" \/ told # None)

-----------------------------------------------------------------------------
(* The abstract specification.                                             *)

\* Where the recovery is, whichever thread runs it.
Phase ==
  LET At(places) == \E r \in Threads : restart[r] \in places
  IN  CASE At({"sleep", "report"}) -> "dropped"
        [] At({"tell"})            -> "telling"
        [] At({"sync", "mark"})    -> "connecting"
        [] At({"release"})         -> "connected"
        [] OTHER                   -> "flowing"

Contract == INSTANCE AdapterContract WITH
  phase <- Phase,
  owed <- post_reconnect_check_at # None,
  reported <- last_reported_caps,
  gone <- pc = "exited"

\* Main loop and reconnect threads together implement the contract: one Ready,
\* one recovery after the other, each with its drop told at most once and a
\* check asked for, and no other report, whatever the threads do in between.
ImplementsContract == Contract!Spec
=============================================================================
