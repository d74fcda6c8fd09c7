------------------------------ MODULE Supervisor ------------------------------
(***************************************************************************)
(* The adapter process supervisor of fm-core (supervisor.rs) together with *)
(* the code of fm-app that drives it: the start-up sequence and the 500 ms *)
(* Poll handler (ui.rs).                                                   *)
(*                                                                         *)
(* Three kinds of process interleave:                                      *)
(*   - the main (UI) thread, whose position inside Poll is pc;             *)
(*   - one reader thread per spawned adapter process, which takes one line *)
(*     at a time from the adapter's stdout and runs handle_msg under the   *)
(*     status lock;                                                        *)
(*   - the adapter processes, which write to stdout and may exit whenever  *)
(*     they like.                                                          *)
(*                                                                         *)
(* A process is a pair <<s, k>>: source s, slot k.  A slot is reused once  *)
(* its process is dead and its reader has drained the pipe, so Slots       *)
(* bounds how many incarnations of a source overlap, not how many there    *)
(* are.  Instants become ages (ticks since) or countdowns (ticks until)    *)
(* that stop at the first value the code can no longer tell apart.  Every  *)
(* topology event replaces the source's chain, so of the events queued for *)
(* a source only the last is kept.  Left out: a start-up that ends in an   *)
(* error because the pipeline cannot be built or played.                   *)
(***************************************************************************)
EXTENDS Integers, Sequences

CONSTANTS
  Sources,            \* ids of the external sources of the scene
  Slots,              \* incarnations of a source that may overlap
  None,               \* Option::None, and a HashMap entry that is absent
  StreamsGrace,       \* STREAMS_GRACE_MS
  TeardownWindow,     \* TEARDOWN_WINDOW_SECS
  DeliveryWatchdog,   \* delivery_watchdog_ms, 0 disables it
  HealthyRun,         \* HEALTHY_RUN_SECS
  SilenceTimeout,     \* SILENCE_TIMEOUT_SECS
  FrameWatchdog,      \* WATCHDOG_SECS
  Backoff,            \* BACKOFF_SECS
  Alphabet,           \* the messages the adapters of this instance write
  MaxInFlight,        \* bound on the lines waiting in one stdout pipe
  Commands,           \* the operator's commands of this instance
  SpawnMayFail,       \* may Command::spawn() return Err?
  StartupMayTimeOut   \* may the start-up wait for Ready time out?

Media == {"video", "audio"}
Adapter == Sources \X Slots

\* "Mismatch" is a Ready with a foreign protocol_version, "Flowing" a Metrics
\* with fps_in > 0 and "Stalled" one with fps_in = 0.
Message == [kind : {"Ready", "Mismatch", "Reconnecting", "StreamsChanged",
                    "Flowing", "Stalled", "Error"},
            caps : SUBSET Media]

\* A reader between the two halves of its Ready handler.
Reader == [source : Sources, slot : Slots, caps : SUBSET Media, play : BOOLEAN]

ASSUME SupervisorAssumption ==
  /\ None \notin Slots
  /\ None \notin Nat
  /\ None \notin Sources \X Slots
  /\ \A caps \in SUBSET Media : None # caps
  /\ None \notin Reader
  /\ {StreamsGrace, TeardownWindow, DeliveryWatchdog, HealthyRun,
      SilenceTimeout, FrameWatchdog, MaxInFlight} \subseteq Nat
  /\ Backoff \in Seq(Nat) /\ Len(Backoff) > 0
  /\ Alphabet \subseteq Message
  /\ Commands \subseteq {"Reboot", "Kill", "TogglePlay", "Quit"}
  /\ SpawnMayFail \in BOOLEAN
  /\ StartupMayTimeOut \in BOOLEAN

-----------------------------------------------------------------------------
VARIABLES
  \* main thread
  pc,               \* where the main thread is
  due,              \* phase 5's list of sources to respawn
  spawning,         \* the process do_spawn is about to enter into live
  playing,          \* Supervisor.playing
  \* Supervisor
  specs,            \* sources with a LaunchSpec
  external,         \* external_source_ids: sources whose first spawn succeeded
  live,             \* slot of the LiveHandle, or None
  deadline,         \* ticks to shutdown_deadline, or None
  ranFor,           \* ticks since started_at
  pending,          \* ticks to retry_at, or None
  killed,           \* manually killed, not yet reaped
  \* shared with the reader threads
  status,           \* AdapterStatus per source
  statusLock,       \* the reader that holds the status mutex across a step
  pending_streams,  \* age of the debounced (false,false) event, or None
  streams_changed,  \* last topology event not yet drained, or None
  \* core pipeline
  chain,            \* media with a receive chain in the pipeline
  \* adapter processes
  alive,            \* running processes
  announced,        \* processes that have written their Ready
  pipe,             \* stdout lines not yet read
  gate              \* last Play or Pause written to the process's stdin

mainVars    == <<pc, due, spawning, playing>>
handleVars  == <<live, deadline, ranFor>>
requestVars == <<specs, external, pending, killed>>
streamVars  == <<pending_streams, streams_changed>>
adapterVars == <<alive, announced, pipe, gate>>
vars == <<mainVars, handleVars, requestVars, status, statusLock, streamVars,
          chain, adapterVars>>

State == {"Absent", "Starting", "Running", "Restarting", "Failed", "Stopped"}
Age   == Nat \cup {None}

Status ==
  [state : State, caps : (SUBSET Media) \cup {None}, is_reconnecting : BOOLEAN,
   last_frame : Age, last_any_msg : Age, running_since : Age,
   producing : BOOLEAN, restart_count : Nat,
   has_core_chain : BOOLEAN, delivery_diverge : Age]

\* AdapterStatus::new(), in the state given.
NewStatus(st) ==
  [state |-> st, caps |-> None, is_reconnecting |-> FALSE,
   last_frame |-> None, last_any_msg |-> None, running_since |-> None,
   producing |-> FALSE, restart_count |-> 0,
   has_core_chain |-> FALSE, delivery_diverge |-> None]

TypeOK ==
  /\ pc \in {"startup", "play", "broadcast", "idle", "watch", "promote",
             "fire", "spawn", "down"}
  /\ due \subseteq Sources
  /\ spawning \in Adapter \cup {None}
  /\ playing \in BOOLEAN
  /\ specs \subseteq Sources
  /\ external \subseteq specs
  /\ live \in [Sources -> Slots \cup {None}]
  /\ deadline \in [Sources -> Age]
  /\ ranFor \in [Sources -> Nat]
  /\ pending \in [Sources -> Age]
  /\ killed \subseteq Sources
  /\ status \in [Sources -> Status]
  /\ statusLock \in Reader \cup {None}
  /\ pending_streams \in [Sources -> Age]
  /\ streams_changed \in [Sources -> (SUBSET Media) \cup {None}]
  /\ chain \in [Sources -> SUBSET Media]
  /\ alive \subseteq Adapter
  /\ announced \subseteq Adapter
  /\ pipe \in [Adapter -> Seq(Message)]
  /\ gate \in [Adapter -> {"none", "Play", "Pause"}]

-----------------------------------------------------------------------------
(* Ages and countdowns.                                                    *)

\* One tick older; an age stops at limit + 1, the first value "> limit".
Aged(t, limit) == IF t = None THEN None ELSE IF t > limit THEN t ELSE t + 1

\* Mutant: a remaining time that is not floored at zero.
NearerPastZero(t) == IF t = None THEN None ELSE t - 1

Nearer(t) == IF t = None THEN None ELSE IF t = 0 THEN 0 ELSE t - 1

\* ranFor is compared with HealthyRun, and stays ahead of the watchdogs' ages.
RanForLimit ==
  CHOOSE n \in {HealthyRun, FrameWatchdog + 1, SilenceTimeout + 1} :
    n >= HealthyRun /\ n > FrameWatchdog /\ n > SilenceTimeout

\* BACKOFF_SECS[attempt.min(BACKOFF_SECS.len() - 1)]
BackoffDelay(attempt) ==
  Backoff[IF attempt < Len(Backoff) THEN attempt + 1 ELSE Len(Backoff)]

\* restart_count + 1, up to the count past which no reader of it differs.
OneMoreRestart(n) == IF n < Len(Backoff) THEN n + 1 ELSE n

-----------------------------------------------------------------------------
(* Start-up: try_init has spawned every external source and waits for      *)
(* their Ready.  A source may have no LaunchSpec (its adapter was not      *)
(* found), or a spec but no process (Command::spawn failed).               *)

Init ==
  /\ specs \in SUBSET Sources
  /\ external \in SUBSET specs
  /\ SpawnMayFail \/ external = Sources
  /\ \E k \in Slots :
        /\ live  = [s \in Sources |-> IF s \in external THEN k ELSE None]
        /\ alive = external \X {k}
  /\ pc = "startup" /\ due = {} /\ spawning = None /\ playing = FALSE
  /\ deadline = [s \in Sources |-> None]
  /\ ranFor   = [s \in Sources |-> 0]
  /\ pending  = [s \in Sources |-> None]
  /\ killed = {}
  /\ status = [s \in Sources |-> NewStatus(IF s \in external THEN "Starting"
                                                             ELSE "Absent")]
  /\ statusLock = None
  /\ pending_streams = [s \in Sources |-> None]
  /\ streams_changed = [s \in Sources |-> None]
  /\ chain = [s \in Sources |-> {}]
  /\ announced = {}
  /\ pipe = [p \in Adapter |-> <<>>]
  /\ gate = [p \in Adapter |-> "none"]

\* Every adapter is Running, or the wait has timed out: the pipeline is built
\* from the caps known now, and only these sources get a chain.  A pipeline that
\* cannot be built or played, with which try_init gives up, is left out.
Launch ==
  /\ pc = "startup"
  /\ statusLock = None
  /\ \/ StartupMayTimeOut
     \/ \A s \in external : status[s].state = "Running"
  /\ chain' = [s \in Sources |->
                 IF s \in external /\ status[s].caps # None
                 THEN status[s].caps ELSE {}]
  /\ pc' = "play"
  /\ UNCHANGED <<due, spawning, playing, handleVars, requestVars, status,
                 statusLock, streamVars, adapterVars>>

\* send_play_all, first half: flip the flag new adapters are started by.
StartPlay ==
  /\ pc = "play"
  /\ playing' = TRUE
  /\ pc' = "broadcast"
  /\ UNCHANGED <<due, spawning, handleVars, requestVars, status, statusLock,
                 streamVars, chain, adapterVars>>

\* send_play_all / send_pause_all, second half: write to every live stdin.
Broadcast ==
  /\ pc = "broadcast"
  /\ gate' = [p \in Adapter |->
                IF live[p[1]] = p[2]
                THEN IF playing THEN "Play" ELSE "Pause"
                ELSE gate[p]]
  /\ pc' = "idle"
  /\ UNCHANGED <<due, spawning, playing, handleVars, requestVars, status,
                 statusLock, streamVars, chain, alive, announced, pipe>>

-----------------------------------------------------------------------------
(* Supervisor::poll, phases 1 and 2: reap the dead and the overdue, and    *)
(* schedule their restarts.                                                *)

\* Mutant: only a process in teardown is waited for.
ReapableInTeardown(s) == live[s] # None /\ deadline[s] = 0

Reapable(s) ==
  /\ live[s] # None
  /\ \/ <<s, live[s]>> \notin alive
     \/ deadline[s] = 0

\* Mutant: the reaper never looks at killed.
NeverStopped(s) == FALSE

StoppedAtReap(s) == s \in killed

\* The backoff index resets after a healthy run.
RestartsAtReap(s) ==
  IF ranFor[s] >= HealthyRun THEN 0 ELSE status[s].restart_count

\* The status entry of a source that has no process any more.
AtRest(entry, st) == [entry EXCEPT !.state = st, !.is_reconnecting = FALSE]

PollReap ==
  LET reaped  == {s \in Sources : Reapable(s)}
      stopped == {s \in reaped : StoppedAtReap(s)}
      retried == reaped \ stopped
  IN /\ pc = "idle"
     /\ reaped # {} => statusLock = None
     /\ alive' = alive \ {<<s, live[s]>> : s \in reaped}
     /\ live' = [s \in Sources |-> IF s \in reaped THEN None ELSE live[s]]
     /\ deadline' = [s \in Sources |-> IF s \in reaped THEN None ELSE deadline[s]]
     /\ ranFor' = [s \in Sources |-> IF s \in reaped THEN 0 ELSE ranFor[s]]
     /\ killed' = killed \ reaped
     /\ status' = [s \in Sources |->
          IF s \in stopped
          THEN AtRest(status[s], "Stopped")
          ELSE IF s \in retried
          THEN [AtRest(status[s], "Restarting") EXCEPT
                  !.restart_count = RestartsAtReap(s)]
          ELSE status[s]]
     /\ pending' = [s \in Sources |->
          IF s \in retried \cap specs THEN BackoffDelay(RestartsAtReap(s))
                                      ELSE pending[s]]
     /\ pc' = "watch"
     /\ UNCHANGED <<due, spawning, playing, specs, external, statusLock,
                    streamVars, chain, announced, pipe, gate>>

-----------------------------------------------------------------------------
(* Phase 3: the watchdogs.                                                 *)

Watched(s) ==
  /\ live[s] # None
  /\ deadline[s] = None
  /\ status[s].state = "Running"

\* Mutant: only a source that has shown frames can fall silent.
SilenceFiresAfterFrames(s) ==
  /\ Watched(s)
  /\ status[s].last_frame # None
  /\ status[s].last_any_msg # None
  /\ status[s].last_any_msg > SilenceTimeout

SilenceFires(s) ==
  /\ Watched(s)
  /\ status[s].last_any_msg # None
  /\ status[s].last_any_msg > SilenceTimeout

\* The age the frame watchdog compares: of the last frame, or of Running when
\* there was none.
FrameAge(s) ==
  IF status[s].last_frame # None THEN status[s].last_frame
                                 ELSE status[s].running_since

FrameFires(s) ==
  /\ Watched(s) /\ ~SilenceFires(s)
  /\ ~status[s].is_reconnecting
  /\ status[s].caps # None /\ "video" \in status[s].caps
  /\ FrameAge(s) # None
  /\ FrameAge(s) > FrameWatchdog

\* The adapter says it produces, the core has no chain to receive it.
Diverging(s) ==
  /\ Watched(s)
  /\ ~status[s].is_reconnecting
  /\ status[s].producing
  /\ ~status[s].has_core_chain

DeliveryFires(s) ==
  /\ DeliveryWatchdog > 0
  /\ Diverging(s)
  /\ status[s].delivery_diverge # None
  /\ status[s].delivery_diverge >= DeliveryWatchdog

DivergeAfterWatch(s) ==
  IF DeliveryWatchdog = 0 \/ live[s] = None \/ deadline[s] # None
  THEN status[s].delivery_diverge
  ELSE IF ~Diverging(s) \/ DeliveryFires(s) THEN None
  ELSE IF status[s].delivery_diverge = None THEN 0
  ELSE status[s].delivery_diverge

\* graceful_shutdown_live for every source of S: Shutdown is written and the
\* teardown window (re)starts.
ShutDown(S) ==
  deadline' = [s \in Sources |-> IF s \in S THEN TeardownWindow ELSE deadline[s]]

PollWatch ==
  /\ pc = "watch"
  /\ playing
  /\ statusLock = None
  /\ ShutDown({s \in Sources : SilenceFires(s) \/ FrameFires(s) \/ DeliveryFires(s)})
  /\ status' = [s \in Sources |->
       [status[s] EXCEPT !.delivery_diverge = DivergeAfterWatch(s)]]
  /\ pc' = "promote"
  /\ UNCHANGED <<due, spawning, playing, live, ranFor, requestVars, statusLock,
                 streamVars, chain, adapterVars>>

\* Paused: the watchdogs are skipped.
PollUnwatched ==
  /\ pc = "watch"
  /\ ~playing
  /\ pc' = "promote"
  /\ UNCHANGED <<due, spawning, playing, handleVars, requestVars, status,
                 statusLock, streamVars, chain, adapterVars>>

-----------------------------------------------------------------------------
(* Phases 4 and 5: promote the full-drop events whose grace is over, then  *)
(* respawn what is due.                                                    *)

\* Mutant: restarts wait while the wall is paused.
DueWhilePlaying(s) == pending[s] = 0 /\ playing

Due(s) == pending[s] = 0

PollPromote ==
  LET expired == {s \in Sources : /\ pending_streams[s] # None
                                  /\ pending_streams[s] >= StreamsGrace}
  IN /\ pc = "promote"
     /\ streams_changed' = [s \in Sources |->
          IF s \in expired THEN {} ELSE streams_changed[s]]
     /\ pending_streams' = [s \in Sources |->
          IF s \in expired THEN None ELSE pending_streams[s]]
     /\ due' = {s \in Sources : Due(s)}
     /\ pc' = "fire"
     /\ UNCHANGED <<spawning, playing, handleVars, requestVars, status,
                    statusLock, chain, adapterVars>>

\* A slot whose former process is gone and whose reader has finished.
Free(s, k) ==
  /\ <<s, k>> \notin alive
  /\ live[s] # k
  /\ pipe[s, k] = <<>>
  /\ statusLock # None => statusLock.source # s \/ statusLock.slot # k

\* do_spawn up to thread::spawn: the process runs and its reader reads, but
\* neither live nor the status knows of them yet.
Respawn(s, k) ==
  /\ pc = "fire"
  /\ s \in due
  /\ Free(s, k)
  /\ due' = due \ {s}
  /\ pending' = [pending EXCEPT ![s] = None]
  /\ alive' = alive \cup {<<s, k>>}
  /\ announced' = announced \ {<<s, k>>}
  /\ gate' = [gate EXCEPT ![<<s, k>>] = "none"]
  /\ spawning' = <<s, k>>
  /\ pc' = "spawn"
  /\ UNCHANGED <<playing, handleVars, specs, external, killed, status,
                 statusLock, streamVars, chain, pipe>>

\* Command::spawn fails: poll logs the error and the pending entry is gone.
RespawnFails(s) ==
  /\ pc = "fire"
  /\ SpawnMayFail
  /\ s \in due
  /\ due' = due \ {s}
  /\ pending' = [pending EXCEPT ![s] = None]
  /\ UNCHANGED <<pc, spawning, playing, handleVars, specs, external, killed,
                 status, statusLock, streamVars, chain, adapterVars>>

\* Mutant: do_spawn keeps the age of the former process's last frame.
RespawnedWithLastFrame(entry) ==
  [entry EXCEPT !.state = "Starting", !.caps = None, !.is_reconnecting = FALSE,
                !.last_any_msg = None, !.running_since = None,
                !.restart_count = OneMoreRestart(@)]

\* The status entry as do_spawn leaves it.
Respawned(entry) ==
  [entry EXCEPT !.state = "Starting", !.caps = None, !.is_reconnecting = FALSE,
                !.last_frame = None, !.last_any_msg = None, !.running_since = None,
                !.restart_count = OneMoreRestart(@)]

\* The rest of do_spawn: cancel the debounced drop, reset the status, and
\* enter the process into live.
FinishSpawn ==
  /\ pc = "spawn"
  /\ statusLock = None
  /\ LET s == spawning[1]
         k == spawning[2]
     IN /\ pending_streams' = [pending_streams EXCEPT ![s] = None]
        /\ status' = [status EXCEPT ![s] = Respawned(@)]
        /\ live' = [live EXCEPT ![s] = k]
        /\ deadline' = [deadline EXCEPT ![s] = None]
        /\ ranFor' = [ranFor EXCEPT ![s] = 0]
  /\ spawning' = None
  /\ pc' = "fire"
  /\ UNCHANGED <<due, playing, requestVars, statusLock, streams_changed, chain,
                 adapterVars>>

\* update_chain_state, for a source whose chain carries caps.
Updated(entry, caps) ==
  [entry EXCEPT !.has_core_chain = "video" \in caps,
                !.delivery_diverge = IF "video" \in caps THEN None ELSE @]

\* The source's chain once this Poll's topology events are drained.
Rebuilt(s) == IF streams_changed[s] = None THEN chain[s] ELSE streams_changed[s]

\* Mutant: the chain is looked at before the events are drained.
ChainSeenEarly(s) == chain[s]

\* The chain that source_has_chain tells update_chain_state of.
ChainSeen(s) == Rebuilt(s)

(* The rest of the Poll handler: drain the topology events into the        *)
(* pipeline, each replacing the source's chain, then refresh the           *)
(* supervisor's cached view of the chains of external_source_ids.          *)
PollDrain ==
  /\ pc = "fire"
  /\ due = {}
  /\ statusLock = None
  /\ chain' = [s \in Sources |-> Rebuilt(s)]
  /\ streams_changed' = [s \in Sources |-> None]
  /\ status' = [s \in Sources |->
       IF s \in external THEN Updated(status[s], ChainSeen(s)) ELSE status[s]]
  /\ pc' = "idle"
  /\ UNCHANGED <<due, spawning, playing, handleVars, requestVars, statusLock,
                 pending_streams, adapterVars>>

-----------------------------------------------------------------------------
(* The operator's requests, run on the main thread between two polls.      *)

\* Mutant: a live source is scheduled for a respawn as well.
RebootFromAnywhere(s) ==
  /\ pending[s] = None /\ s \in specs
  /\ statusLock = None
  /\ pending' = [pending EXCEPT ![s] = 0]
  /\ UNCHANGED <<status, deadline>>

\* request_reboot of a source that is neither live nor pending.
RebootFromRest(s) ==
  /\ live[s] = None /\ pending[s] = None /\ s \in specs
  /\ statusLock = None
  /\ pending' = [pending EXCEPT ![s] = 0]
  /\ status' = IF status[s].state = "Absent" THEN status
               ELSE [status EXCEPT ![s] = AtRest(@, "Restarting")]
  /\ UNCHANGED deadline

RebootLive(s) ==
  /\ live[s] # None
  /\ ShutDown({s})
  /\ UNCHANGED <<pending, status>>

\* Nothing to launch, or it respawns by itself at the end of the backoff.
RebootNothing(s) ==
  /\ live[s] = None
  /\ pending[s] # None \/ s \notin specs
  /\ UNCHANGED <<pending, status, deadline>>

Reboot(s) ==
  /\ pc = "idle" /\ "Reboot" \in Commands
  /\ killed' = killed \ {s}
  /\ RebootLive(s) \/ RebootFromRest(s) \/ RebootNothing(s)
  /\ UNCHANGED <<mainVars, live, ranFor, specs, external, statusLock,
                 streamVars, chain, adapterVars>>

KillLive(s) ==
  /\ live[s] # None
  /\ killed' = killed \cup {s}
  /\ ShutDown({s})
  /\ UNCHANGED status

KillDead(s) ==
  /\ live[s] = None
  /\ statusLock = None
  /\ killed' = killed \ {s}
  /\ status' = IF status[s].state = "Absent" THEN status
               ELSE [status EXCEPT ![s] = AtRest(@, "Stopped")]
  /\ UNCHANGED deadline

\* Mutant: a pending restart survives the kill.
KillKeepsPending(s) ==
  /\ pc = "idle" /\ "Kill" \in Commands
  /\ KillLive(s) \/ KillDead(s)
  /\ UNCHANGED <<mainVars, live, ranFor, pending, specs, external, statusLock,
                 streamVars, chain, adapterVars>>

Kill(s) ==
  /\ pc = "idle" /\ "Kill" \in Commands
  /\ pending' = [pending EXCEPT ![s] = None]
  /\ KillLive(s) \/ KillDead(s)
  /\ UNCHANGED <<mainVars, live, ranFor, specs, external, statusLock,
                 streamVars, chain, adapterVars>>

\* send_play_all / send_pause_all, first half; Broadcast is the second.
TogglePlay ==
  /\ pc = "idle" /\ "TogglePlay" \in Commands
  /\ playing' = ~playing
  /\ pc' = "broadcast"
  /\ UNCHANGED <<due, spawning, handleVars, requestVars, status, statusLock,
                 streamVars, chain, adapterVars>>

\* Mutant: shutdown_all does not reach a process already in teardown.
StoppedByQuitUnlessClosing(s) == deadline[s] = None

StoppedByQuit(s) == live[s] # None

\* SIGTERM or Exit: shutdown_all stops or kills every live process and the
\* supervisor is dropped.
Quit ==
  /\ pc = "idle" /\ "Quit" \in Commands
  /\ alive' = alive \ {<<s, live[s]>> : s \in {t \in Sources : StoppedByQuit(t)}}
  /\ live' = [s \in Sources |-> None]
  /\ deadline' = [s \in Sources |-> None]
  /\ ranFor' = [s \in Sources |-> 0]
  /\ pending' = [s \in Sources |-> None]
  /\ killed' = {}
  /\ pc' = "down"
  /\ UNCHANGED <<due, spawning, playing, specs, external, status, statusLock,
                 streamVars, chain, announced, pipe, gate>>

-----------------------------------------------------------------------------
(* handle_msg, run by the reader thread of process <<s, k>>.  The whole    *)
(* handler holds the status lock; it is one step except for Ready, which   *)
(* reads playing and only later acts on what it read.                      *)

\* The reader takes the next line, of the given kind.
Receive(s, k, kinds) ==
  /\ statusLock = None
  /\ pipe[s, k] # <<>>
  /\ Head(pipe[s, k]).kind \in kinds
  /\ pipe' = [pipe EXCEPT ![<<s, k>>] = Tail(@)]
  /\ UNCHANGED <<mainVars, handleVars, requestVars, chain, alive, announced>>

\* The status entry as every handler finds it: created if absent, and with
\* last_any_msg_at refreshed.
Entry(s) ==
  [status[s] EXCEPT !.last_any_msg = 0,
                    !.state = IF @ = "Absent" THEN "Starting" ELSE @]

HandleMismatch(s, k) ==
  /\ Receive(s, k, {"Mismatch"})
  /\ status' = [status EXCEPT ![s] = [Entry(s) EXCEPT !.state = "Failed"]]
  /\ UNCHANGED <<statusLock, streamVars, gate>>

\* Mutant: only a source's first adapter is started by its Ready.
HandleFirstReady(s, k) ==
  LET caps == Head(pipe[s, k]).caps
  IN /\ Receive(s, k, {"Ready"})
     /\ status' = [status EXCEPT ![s] =
          [Entry(s) EXCEPT !.state = "Running", !.caps = caps,
                           !.is_reconnecting = FALSE, !.running_since = 0]]
     /\ statusLock' = [source |-> s, slot |-> k, caps |-> caps,
                       play |-> playing /\ status[s].restart_count = 0]
     /\ UNCHANGED <<streamVars, gate>>

HandleReady(s, k) ==
  LET caps == Head(pipe[s, k]).caps
  IN /\ Receive(s, k, {"Ready"})
     /\ status' = [status EXCEPT ![s] =
          [Entry(s) EXCEPT !.state = "Running", !.caps = caps,
                           !.is_reconnecting = FALSE, !.running_since = 0]]
     /\ statusLock' = [source |-> s, slot |-> k, caps |-> caps, play |-> playing]
     /\ UNCHANGED <<streamVars, gate>>

\* Mutant: an announced topology does not cancel the drop being held.
AnnounceOverDrop(s, caps) ==
  /\ streams_changed' = [streams_changed EXCEPT ![s] = caps]
  /\ UNCHANGED pending_streams

\* Queue a topology for Poll and cancel the full drop being held, if any.
Announce(s, caps) ==
  /\ streams_changed' = [streams_changed EXCEPT ![s] = caps]
  /\ pending_streams' = [pending_streams EXCEPT ![s] = None]

\* Play goes out if playing was set when it was read; after a restart the
\* topology is announced again.
FinishReady ==
  /\ statusLock # None
  /\ LET s == statusLock.source
         k == statusLock.slot
     IN /\ gate' = IF statusLock.play THEN [gate EXCEPT ![<<s, k>>] = "Play"] ELSE gate
        /\ IF status[s].restart_count > 0
           THEN Announce(s, statusLock.caps)
           ELSE UNCHANGED streamVars
  /\ statusLock' = None
  /\ UNCHANGED <<mainVars, handleVars, requestVars, status, chain, alive,
                 announced, pipe>>

HandleReconnecting(s, k) ==
  /\ Receive(s, k, {"Reconnecting"})
  /\ status' = [status EXCEPT ![s] =
       [Entry(s) EXCEPT !.is_reconnecting = TRUE, !.last_frame = None]]
  /\ UNCHANGED <<statusLock, streamVars, gate>>

\* A full drop is held for the grace period, anything else applies at once
\* and cancels a drop being held.
HandleStreamsChanged(s, k) ==
  LET caps == Head(pipe[s, k]).caps
  IN /\ Receive(s, k, {"StreamsChanged"})
     /\ status' = [status EXCEPT ![s] =
          [Entry(s) EXCEPT !.is_reconnecting = FALSE, !.caps = caps]]
     /\ IF caps = {}
        THEN /\ pending_streams' = [pending_streams EXCEPT ![s] = 0]
             /\ UNCHANGED streams_changed
        ELSE Announce(s, caps)
     /\ UNCHANGED <<statusLock, gate>>

HandleMetrics(s, k) ==
  LET flowing == Head(pipe[s, k]).kind = "Flowing"
  IN /\ Receive(s, k, {"Flowing", "Stalled"})
     /\ status' = [status EXCEPT ![s] =
          [Entry(s) EXCEPT !.producing = flowing,
                           !.last_frame = IF flowing THEN 0 ELSE @,
                           !.is_reconnecting = @ /\ ~flowing]]
     /\ UNCHANGED <<statusLock, streamVars, gate>>

HandleError(s, k) ==
  /\ Receive(s, k, {"Error"})
  /\ status' = [status EXCEPT ![s] = Entry(s)]
  /\ UNCHANGED <<statusLock, streamVars, gate>>

HandleMsg(s, k) ==
  \/ HandleMismatch(s, k)
  \/ HandleReady(s, k)
  \/ HandleReconnecting(s, k)
  \/ HandleStreamsChanged(s, k)
  \/ HandleMetrics(s, k)
  \/ HandleError(s, k)

-----------------------------------------------------------------------------
(* The environment: adapter processes and the clock.                       *)

\* A process writes one line: Ready once, StreamsChanged only after it.
Write(s, k, m) ==
  /\ <<s, k>> \in alive
  /\ Len(pipe[s, k]) < MaxInFlight
  /\ m.kind \in {"Ready", "Mismatch"} => <<s, k>> \notin announced
  /\ m.kind = "StreamsChanged" => <<s, k>> \in announced
  /\ announced' = IF m.kind \in {"Ready", "Mismatch"}
                  THEN announced \cup {<<s, k>>} ELSE announced
  /\ pipe' = [pipe EXCEPT ![<<s, k>>] = Append(@, m)]
  /\ UNCHANGED <<mainVars, handleVars, requestVars, status, statusLock,
                 streamVars, chain, alive, gate>>

\* A process exits: it crashed, gave up, or obeyed Shutdown.
Exit(s, k) ==
  /\ <<s, k>> \in alive
  /\ alive' = alive \ {<<s, k>>}
  /\ UNCHANGED <<mainVars, handleVars, requestVars, status, statusLock,
                 streamVars, chain, announced, pipe, gate>>

\* Time passes between two steps of the main thread; a poll takes less than
\* a tick.  The watchdogs read the ages of live sources only and do_spawn
\* forgets them, so those of a source that is not live stand still.
Tick ==
  /\ pc \in {"startup", "play", "idle"}
  /\ deadline' = [s \in Sources |-> Nearer(deadline[s])]
  /\ pending'  = [s \in Sources |-> Nearer(pending[s])]
  /\ ranFor'   = [s \in Sources |-> IF live[s] = None \/ ranFor[s] >= RanForLimit
                                    THEN ranFor[s] ELSE ranFor[s] + 1]
  /\ pending_streams' = [s \in Sources |-> Aged(pending_streams[s], StreamsGrace)]
  /\ status' = [s \in Sources |->
       IF live[s] = None
       THEN [status[s] EXCEPT !.delivery_diverge = Aged(@, DeliveryWatchdog)]
       ELSE [status[s] EXCEPT !.last_frame       = Aged(@, FrameWatchdog),
                              !.last_any_msg     = Aged(@, SilenceTimeout),
                              !.running_since    = Aged(@, FrameWatchdog),
                              !.delivery_diverge = Aged(@, DeliveryWatchdog)]]
  /\ UNCHANGED <<mainVars, live, specs, external, killed, statusLock,
                 streams_changed, chain, adapterVars>>

\* The program has ended; only the pipes' last lines are left to read.
Terminated ==
  /\ pc = "down"
  /\ UNCHANGED vars

-----------------------------------------------------------------------------
Poll ==
  \/ PollReap
  \/ PollWatch
  \/ PollUnwatched
  \/ PollPromote
  \/ \E s \in Sources, k \in Slots : Respawn(s, k)
  \/ \E s \in Sources : RespawnFails(s)
  \/ FinishSpawn
  \/ PollDrain

Main ==
  \/ Launch
  \/ StartPlay
  \/ Broadcast
  \/ Poll

Operator ==
  \/ \E s \in Sources : Reboot(s) \/ Kill(s)
  \/ TogglePlay
  \/ Quit

Next ==
  \/ Main
  \/ Operator
  \/ \E s \in Sources, k \in Slots : HandleMsg(s, k)
  \/ FinishReady
  \/ \E s \in Sources, k \in Slots, m \in Alphabet : Write(s, k, m)
  \/ \E s \in Sources, k \in Slots : Exit(s, k)
  \/ Tick
  \/ Terminated

Spec == Init /\ [][Next]_vars

\* The UI timer keeps polling, a poll once begun is finished, time keeps
\* passing between polls, and a reader whose pipe has a line reads it.
\* PollReap and Tick need strong fairness: they are enabled only between two
\* handlers of the main thread, and no stream of commands keeps the timer's
\* event or the clock from its turn.  Nothing is asked of adapters or of the
\* operator.
Fairness ==
  /\ WF_vars(Main)
  /\ SF_vars(PollReap)
  /\ SF_vars(Tick)
  /\ WF_vars(FinishReady)
  /\ \A s \in Sources, k \in Slots : WF_vars(HandleMsg(s, k))

FairSpec == Spec /\ Fairness

-----------------------------------------------------------------------------
(* Safety.                                                                 *)

\* The supervisor's maps agree with each other: a source is live, pending or
\* being spawned, never two of them (do_spawn, request_kill and request_reboot
\* each rely on it); only a live source has a deadline, and one marked killed
\* has been told to stop; a source due for a respawn is still pending when its
\* turn comes; and none of this is ever true of a source without a LaunchSpec.
Bookkeeping ==
  /\ pc = "spawn" <=> spawning # None
  /\ due # {} => pc \in {"fire", "spawn"}
  /\ \A s \in due : pending[s] = 0
  /\ \A s \in Sources :
       /\ live[s] # None => pending[s] = None
       /\ deadline[s] # None => live[s] # None
       /\ s \in killed => deadline[s] # None
       /\ live[s] # None \/ pending[s] # None => s \in specs
       /\ spawning # None /\ spawning[1] = s
            => live[s] = None /\ pending[s] = None /\ s \in specs

\* Every adapter process that runs is the one its source's live entry holds,
\* or the one do_spawn is about to enter there.  So a source never has two
\* processes (they would fight over the sockets do_spawn removed and over the
\* camera's session), and none outlives the supervisor: reaping, killing by
\* force, respawning and shutdown_all each have to get this right.
NoOrphan ==
  \A s \in Sources, k \in Slots :
    <<s, k>> \in alive => live[s] = k \/ spawning = <<s, k>>

\* The life of a source as the operator knows it (SourceLifecycle).
Mode(s) ==
  IF live[s] # None
  THEN IF deadline[s] = None THEN "up"
       ELSE IF s \in killed THEN "killing" ELSE "stopping"
  ELSE IF spawning # None /\ spawning[1] = s THEN "up"
  ELSE IF pending[s] # None THEN "backoff"
  ELSE "down"

\* A source the wall shows as killed has no process and none on the way: the
\* kill reached the process, cancelled the restart a watchdog had scheduled,
\* and was not overtaken by the reaper or by a spawn under way.
StoppedIsDown ==
  \A s \in Sources : status[s].state = "Stopped" => Mode(s) = "down"

Lifecycle == INSTANCE SourceLifecycle WITH mode <- [s \in Sources |-> Mode(s)]

\* poll, request_reboot, request_kill and shutdown_all implement the life
\* cycle: a killed source comes back only after Reboot, whatever the reaper,
\* the watchdogs and the pending restarts do in between.
ImplementsLifecycle == Lifecycle!Spec

\* Once the topology events have been drained and no drop is being held, a
\* running source's chain carries exactly the media its adapter reported
\* last: across the grace period, restarts, the cancelled drop of do_spawn,
\* late lines of a dead process, and Ready messages that race with Poll.
ChainFollowsAdapter ==
  \A s \in Sources :
    /\ pc = "idle" /\ statusLock = None
    /\ live[s] # None /\ status[s].state = "Running"
    /\ streams_changed[s] = None /\ pending_streams[s] = None
    => chain[s] = status[s].caps

\* The frame and silence watchdogs judge a process by what it did itself: none
\* is shut down before it has run longer than the timeout, whatever ages its
\* predecessor left in the status entry or its predecessor's reader still
\* writes there.
NoInheritedVerdict ==
  [][PollWatch => \A s \in Sources :
        /\ SilenceFires(s) => ranFor[s] > SilenceTimeout
        /\ FrameFires(s) => ranFor[s] > FrameWatchdog]_vars

\* The delivery watchdog reads has_core_chain, a copy refreshed at the end of
\* each Poll.  For the sources it is refreshed for, those in external_source_ids,
\* whose first spawn succeeded, the copy is never so stale that a source with a video
\* chain is respawned for having none.
DeliverySparesChained ==
  [][PollWatch => \A s \in external :
        DeliveryFires(s) => "video" \notin chain[s]]_vars

\* Playing is a promise to every adapter: one whose Ready has been handled has
\* Play as its last command once the broadcast is over, whichever of the two,
\* broadcast or Ready, came first.
PlayReachesReady ==
  \A s \in Sources :
    /\ playing /\ pc \notin {"play", "broadcast"} /\ statusLock = None
    /\ live[s] # None
    /\ <<s, live[s]>> \in announced /\ pipe[s, live[s]] = <<>>
    /\ status[s].state = "Running"
    => gate[s, live[s]] = "Play"

-----------------------------------------------------------------------------
(* Liveness.                                                               *)

\* A process that has died, or ignores Shutdown, is eventually replaced or
\* written off: its live entry does not stay.
DeadIsReaped ==
  \A s \in Sources, k \in Slots :
    (live[s] = k /\ (<<s, k>> \notin alive \/ deadline[s] # None))
      ~> (live[s] # k \/ (<<s, k>> \in alive /\ deadline[s] = None))

\* A source waiting for its backoff gets a process again, unless the operator
\* kills it or the program ends.
BackoffEnds ==
  \A s \in Sources :
    pending[s] # None ~> (live[s] # None \/ status[s].state = "Stopped" \/ pc = "down")

\* While playing, a Running adapter from which nothing more is read does not
\* stay live.
SilentIsStopped ==
  \A s \in Sources :
    ~<>[](/\ playing /\ live[s] # None /\ status[s].state = "Running"
          /\ status[s].last_any_msg # None
          /\ status[s].last_any_msg > SilenceTimeout)
=============================================================================
