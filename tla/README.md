# Final Multiplex in TLA+

Final Multiplex is a video wall: a GStreamer pipeline in one process composes
many sources, and every external source (an RTSP camera, a YouTube stream, a
test pattern) is produced by an *adapter*, a separate process that hands frames
over through a socket and talks to the core in JSON lines on stdin and stdout.

This directory holds TLA+ models of the program, TLC configurations that check
them on small instances, and proofs, checked by TLAPS, that the central
properties hold for every value of the constants. The source is the reference:
every definition that stands for code names its lines in `PROJECT.json`, under
`map`.

## The system

| component | where | state it keeps | operations |
|---|---|---|---|
| supervisor | `fm-core/src/supervisor.rs` | live handles, pending restarts, launch specs, status per source, debounced and queued topology events, killed set, play flag | spawn, poll (reap, schedule, watch, promote, respawn), handle_msg on reader threads, reboot, kill, play, pause, shutdown |
| application | `fm-app/src/ui.rs`, `main.rs` | tiles, transport, play flag, offsets | start-up sequence, vsync Frame, 500 ms Poll, the operator's commands |
| adapters | `fm-rtsp-adapter`, `fm-youtube-adapter`, `fm-dummy-adapter` | chains, reconnect flag and counters, last reported caps | connect, report Ready, reconnect, report StreamsChanged, metrics, obey commands |
| contract | `fm-adapter-sdk/src/contract.rs` | none | commands and messages |
| pipeline and transport | `fm-core/src/pipeline.rs`, `transport.rs`, `metrics.rs` | chains, layouts (offset, mute), bounds, frame counters, ratchet and settle timers | build, rebuild and remove chains, offset, mute, play, pause, ratchet |
| config and persistence | `fm-core/src/config.rs`, `persist.rs` | scene document, dirty flag | load, set fields, flush |
| runtime directory | `fm-core/src/runtime.rs`, `fm-app/src/main.rs` | one directory per pid | single-instance check, reap orphans, cleanup |
| frame hand-over and rendering | `fm-app/src/gpu_path.rs`, `wayland_sub.rs`, `video.rs`, `bridge.rs` | ring of timed frames, render slots, newest composed frame | push on streaming threads, select and present on vsync |
| net clock, adapter resolution | `net_clock.rs`, `adapter_resolver.rs` | GStreamer's, the file system's | |

They interact as follows. The UI thread runs start-up, then a `Poll` every
500 ms: it calls `Supervisor::poll`, drains the queued topology events into the
pipeline, writes the pipeline's state back into the supervisor's status map, runs
the ratchet and saves the scene when an edit has settled. Each adapter has a
reader thread in the core that applies one message at a time to the shared status
map, under its lock. The lock, the two event queues and the play flag are all the
UI thread and the readers share. GStreamer's streaming threads run the probes: a
one-shot on each audio chain's first buffer, frame counters, and the copy of each
video frame to a capture thread, which pushes it into a ring that the UI and
the render thread select from. Adapters run on their own, crash, hang and exit as
they like. Instances of the application share the runtime root and the scene file.

What is hard: a reader may still hold lines of a process that has been reaped
and replaced; the poll works in phases and releases the lock between them; Play
may race with Ready; a drop of all streams is held for a grace period in which
anything may happen; a shutdown may be ignored; a spawn may fail, and so may any
step of building a chain; the operator may press Kill and Reboot in any order at
any time, and move an offset between two rebuilds; the render thread holds a mutex
the UI only tries for; a save is four system calls, and a process may die between
any two.

What makes each component correct:

- *supervisor*: one process per source at most and none orphaned; the maps never
  contradict each other; a killed source stays down until Reboot; a crashed one
  comes back; watchdogs judge a process by what it did itself;
- *supervisor and pipeline*: the chain of a running source carries what its
  adapter last reported; a source whose chain the supervisor is told of is not
  respawned for having none;
- *application*: playing reaches every adapter;
- *adapters*: what the core believes of the streams becomes true again after every
  reconnect, which never runs twice at once; Ready is said in the end;
- *pipeline and transport*: offset and mute survive every rebuild, which corrects the
  chain for the time that has passed once; failed builds leave nothing that blocks the
  next; the output rate rises only after its windows, and never falls back;
- *persistence*: the file on disk always parses; what the operator saw last is in it
  after a clean exit;
- *runtime directory*: a running instance keeps later ones out and crashes are cleaned
  up, as long as the directories can be read;
- *frame hand-over*: while the wall plays, the frame shown is the one the offset asks
  for, in order, and the old stream's leave after a reconnect.

`PROJECT.json` lists, under `hazards`, each place in the code where one of these
could go wrong and a test would hardly notice, with the property that covers it.

## Modules

| module | what it is |
|---|---|
| `SourceLifecycle` | abstract: a source is up, stopping, killing, in backoff or down, and moves along fixed arrows |
| `Supervisor` | the supervisor with start-up, Poll and the operator's commands; implements `SourceLifecycle` |
| `SupervisorProofs` | theorems about `Supervisor` and their proofs |
| `TopologyProofs` | the same for what the readers, Poll and the play broadcast agree on |
| `Adapter` | the RTSP and the YouTube adapter: main loop, GStreamer's threads, reconnect threads |
| `AdapterContract` | abstract: what an adapter promises the core in the lines it writes |
| `AdapterProofs` | theorems about `Adapter` and their proofs, among them that it implements the contract |
| `Chains` | pipeline and transport: chains, offsets, bounds and mutes of all sources |
| `Ratchet` | frame counters and the output framerate ratchet |
| `ChainsProofs`, `RatchetProofs`, `WallProofs`, `SessionsProofs` | theorems about `Chains`, `Ratchet`, `Wall` and `Sessions` and their proofs |
| `Wall` | one source's frames from its chain to the screen |
| `Sessions` | instances of the application on one runtime root and one scene file |
| `SupervisorClaims`, `AdapterClaims`, `ChainsClaims` | sentences of the repository that the code does not keep |
| `MCSupervisor`, `MCChains`, `MCSessions` | constants for TLC |

`Supervisor` composes the UI thread, the readers and the adapters' processes; what
goes on inside an adapter is `Adapter`, and what a topology event does inside the
pipeline is `Chains`. `Chains`, `Ratchet`, `Wall` and `Sessions` share no state but the
row's offset and the running time, which each takes as any value.

### How `Supervisor` corresponds to the code

*Main thread.* `pc` is the position of the UI thread. `startup`, `play`,
`broadcast`: try_init's wait, its launch, and the two halves of send_play_all.
`idle`: between two messages of the UI. `watch`, `promote`, `fire`, `spawn`: inside
`poll`, after phase 2, 3, 4, and inside do_spawn. `down`: after shutdown_all.

| action | code |
|---|---|
| `Launch`, `StartPlay`, `Broadcast` | try_init from the wait for Ready to send_play_all; `Broadcast` also ends TogglePlay |
| `PollReap` | poll phases 1 and 2 |
| `PollWatch`, `PollUnwatched` | poll phase 3, playing or paused |
| `PollPromote` | poll phase 4, and the list of due restarts of phase 5 |
| `Respawn`, `RespawnFails`, `FinishSpawn` | phase 5 and do_spawn, cut where the reader thread starts |
| `PollDrain` | the rest of the Poll handler: topology events into the pipeline, update_chain_state |
| `Reboot`, `Kill`, `TogglePlay`, `Quit` | request_reboot, request_kill, send_play_all or send_pause_all, shutdown_all |
| `HandleMismatch` ... `HandleError`, `FinishReady` | handle_msg, one action per message; Ready is cut between reading `playing` and acting on it |
| `Write`, `Exit`, `Tick` | the adapters and the clock |

*Granularity.* A step of the main thread that touches the status map needs the
map's lock, so it waits for `statusLock = None`; a handler holds that lock from
beginning to end. A handler whose effects lie all under the lock is one step. The
Ready handler is two, because `playing` is under another lock which it does not
keep. Phase 2 takes the lock several times for one source and phase 3 twice; each
is one step of the model. What that merges: a late Ready of the process being
reaped that falls between the reset of `restart_count` and the write of Restarting
(its topology is then not announced), and a message between the frame check and the
delivery check. In `do_spawn` the reader exists before the status is reset
and before the handle is live, and the model has that window (`pc = "spawn"`).

*Processes.* A process is a pair of source and slot. A slot is free again when
the process has gone, the live map does not hold it and its reader has drained
the pipe. Two slots let a dead process's lines mix with its successor's.

*Time.* Instants become ages and countdowns that `Tick` moves, each stopping at the
first value the code can no longer tell from later ones. `Tick` is enabled between
two UI messages; a poll takes less than a tick. Ages of a source that is not live
stand still: nobody reads them before do_spawn clears them.

*Abstractions.* A Metrics message is `Flowing` or `Stalled` (`fps_in > 0` or not), a
Ready with another protocol version is `Mismatch`. Of the events queued for a
source only the last is kept, since each replaces the chain that was there.
`restart_count` stops at the length of the backoff table: it is read only as the
table's index and as `> 0`. The offset capability a Ready declares and a chain
that the code fails to build are in `Chains`. A start-up that ends in an error, because
`Pipeline::build` or `Transport::play` fails in `Launch` (`ui.rs:1263`, `ui.rs:1293`), is
left out: try_init returns, the supervisor is dropped, and there is nothing left to run.

### How `Adapter` corresponds to the code

The two programs are one state machine with three differences, and the variable
`kind`, which never changes, says which one runs: YouTube counts ends of stream
against the limit (`Limited`), waits for video before it says Ready (`PadsSettled`),
and restarts on SIGUSR1 (`ForceRestart`).

| action | code |
|---|---|
| `PadAdded` | the pad-added callback, under the lock of `Shared` |
| `SourceFails`, `MoreErrors` | GStreamer posting Error and EOS on the bus |
| `PlayOrPause`, `Shutdown`, `CommandsDone` | the loop over stdin commands |
| `Ignore`, `Reconnect`, `GiveUp`, `BusEmpty` | the loop over bus messages |
| `DecideReady`, `AnnounceReady` | Ready: decided under the lock, written after it |
| `CheckReconnect` | the check after a reconnect, which writes under the lock |
| `TearDown` ... `Release` | a reconnect thread, from the end of its delay to the cleared flag |

`pc` is the main loop's place in its turn, `restart` that of each thread. A thread
may wake at any time: the table of delays only spaces attempts. `chains` are the
chains built, `linked` those with a pad, `told` what the core has last read. The
source element is down, trying, up or failed; a failed one stays so until a teardown,
and Play starts one that is down, since it sets every element's state. The counter
stops one past `MaxReconnects`, where it is only compared. In `adapters` the limit
is one and the second failure gives up, pads settle after one tick and the deadline is
two, so that Ready may come of either; two messages on the bus let an error of a
teardown and one of the new source meet.

### How `Chains` corresponds to the code

An offset exists three times: in the UI's `SourceRow` (`row`), in
`Pipeline.source_layouts` (`layout`), which the next rebuild reads, and on the pads of
the running chains (`chains[m].pads`). A mute likewise. `Chains` is about their
agreement, and about what failing builds leave behind.

| action | code |
|---|---|
| `Init` | config's clamp, `build` with its three ways to the streams of a source (file discovered, Ready, never spawned), bounds from the adapter's declaration, frame counters and GPU probes |
| `OffsetEdit`, `OffsetStep` | the UI's messages down to `Transport::set_source_offset` |
| `ToggleMute` | to `set_source_mute` |
| `StreamsChanged` | one entry of Poll's loop over topology events, of any adapter, one whose first spawn failed and that a reboot brought up included: `build_shmsrc_chain` for video, then audio, then `attach_source` and `install_probe` |
| `FirstAudioBuffer` | the one-shot probe of a start-up audio chain, on its streaming thread |
| `Tick` | running time |

Per medium, `bin` are the sources whose named elements are in the pipeline (what
`source_has_chain` looks for), `mapped` those whose sink pad a map holds, `sinks` the
pads requested from compositor or mixer. A builder ends in one of four ways
(`Added`): done; failed before anything was added; failed with elements added; failed
with a sink pad requested, which nothing will release (`lost`). Adding and linking one
element after another is not interleaved with anything, so only where it stops
matters. The running time is read twice in one handler, and may move in between.
In `chains` an adapter and a file source meet; the correction floor is zero, so that
one tick already asks for a correction; two ticks let a source be rebuilt twice at
different times; one typed value below the bounds of an adapter and a step that
reaches above them exercise both clamps. `MaxLost` stops the leak of pads, which nothing
else bounds.

### How `Ratchet` corresponds to the code

A tick is the interval of two polls. `OnBuffer` and `Stall` are the streaming
thread's frame counter, `FpsIn` what a snapshot reads; `Poll` is check_and_ratchet:
`Timed` and `Settled` the per-source timers, `MaxFps` the maximum over the plausible,
settled sources, `Check` the two-poll hysteresis with the caps change; `ResetRatchet`
the operator's reset. A window may read any of four rates: one below the mark plus
the delta, one above, one higher, and one beyond the cap. A window is two polls, as
in the code (1 s against 500 ms), so both polls of the hysteresis may read one window.
Settling is two polls instead of six: the code compares a timer only with its end.

### How `Wall` corresponds to the code

A frame is known by its epoch (the chain it came through) and the running time it was
delivered at. There are two clocks, as in the code. `now` is Instant::now, by which the ring
evicts (`gpu_path.rs:60-72`); it never stops. The running time, by which frames are chosen
(`ui.rs:208-213`), is `played + ahead`: `played` is how far the streams have got, and
`ahead` what GStreamer's clock adds to it while the pipeline is paused, which it may or may not
do at each tick. A resume resets the base time: `ahead` is zero again, and the time
published next is lower than the last one. `run` counts the resumes, `resumed` is where
the streams stood at the last one, `height` is the window's own height and `overtaken` says
that its last resize fell between SpikeInit and SpikeHandles: the program keeps none of
the four, the properties need them. The steps are the critical sections and
the atomic accesses:

| action | code |
|---|---|
| `Tick`, `TogglePlay` | the clocks; play and pause as they reach the pipeline |
| `Deliver` | the probe of `gpu_path::install_probe` with its bounded channel |
| `Capture` | the capture thread's `FrameRing::push`, which evicts by age |
| `Reconnect` | a new chain with a new channel into the same store, time stamps starting again |
| `Frame` | the UI's vsync message: time published, offset under try_lock; the panel's own upload until a subsurface exists |
| `SetOffset`, `Resized`, `SpikeInit`, `SpikeHandles` | the UI's handlers, and `render_loop`'s set-up |
| `Acquire`, `Lock`, `CopySlots`, `Present` | one turn of the render thread's loop, which may end it |

Left out are a set_state that fails and what streams still deliver while a state change
takes effect; Play and Pause to the adapters are in `Supervisor`.

Ceiling and slack of one tick each and a channel of one are enough for a ring that evicts
and a channel that fills. Four ticks of play let one stream, old or new, go on for longer
than the ring and one tick more, with the one pause or the one reconnect before it. The one edit is
an offset or a resize, before there is a render thread or after. Of the two heights one is
below the chrome's, where a surface is one pixel high. `OnTime` and `OldPictureLeaves`
speak of a source that delivers, so the run has no tick without a frame and no frame that is
dropped (`MaxMissed`), which keeps it small enough for liveness; the theorems have any number.

### How `Sessions` corresponds to the code

`pc` is where an instance is: `reap`, `check`, `make` in main; `load`, `open` in
try_init; `reap again`, `make again` in `Supervisor::new`; `up`; `write`, `rename`
inside a flush; `error` without a scene; `drop` after the event loop; `gone`.

A crash may come anywhere, and so may a failing call, of three kinds that end differently:

| fault | where | what the code makes of it |
|---|---|---|
| `ScanFault` | `Reap`, `Check`: read_dir, is_dir, /proc | reap_orphans leaves or removes any part of what is there; another_instance_running says that nobody runs (`runtime.rs:108`), and the launch goes on |
| `DirFault` | `MakeDir`, `Exit`: create_dir_all, remove_dir_all | logged or dropped; the directory is not made, or stays |
| `Fault` | `LoadScene`, `OpenDoc`, `Flush`, `Write`, `Rename` | no scene: an error is shown; no document: nothing is saved; a failed save is dirty still |

`Truncate` and `Write` are the halves of `fs::write`, and an open file keeps its identity
through a rename (`Renamed`), which is how two instances on one temporary name may hurt
each other. `RowOf` is what the row makes of the scene's offset: clamped to a file's
bounds (`ui.rs:1119`) and, with an external source, to those its Ready led to
(`ui.rs:1252-1260`), which `LoadScene` takes as any of `Bounds`. The document keeps the raw
value. `older`, `orphans`, `company`, `scan_failed`, `file_failed` and `raw` (the scene's
offset as long as the operator has set none) are history and read by the properties only.

In `sessions` three launches let a crash be cleaned up by one and refused by another, with
one mishap, crash or failing call, anywhere, and two edits, of which one may fall into a save.
The scene's offset may be the one value the row admits or one below it, so a row may
show what the file does not hold.

## What the runs check

The supervisor's runs use time-outs of one or two ticks, a backoff table of two entries and
one line in flight per pipe. A time-out of one tick already has the three phases
the code can tell apart: not started, running, expired. One line in flight is
enough for a reader to lag behind its process by a message, and the table of two
to see the index rise, stop and reset.

| run | instance | checks |
|---|---|---|
| `lifecycle` | one source, two slots, Ready, Mismatch, Error, all commands, failing spawns, start-up time-out | `TypeOK`, `Bookkeeping`, `NoOrphan`, `StoppedIsDown`, `ImplementsLifecycle` |
| `topology` | one source, two slots, Ready and StreamsChanged, TogglePlay, Reboot and Kill, failing spawns | `ChainFollowsAdapter`, `PlayReachesReady` |
| `watchdogs` | one source, two slots, metrics, Reconnecting, full drops, all three watchdogs | `NoInheritedVerdict`, `DeliverySparesChained` |
| `liveness` | one source without video (so that only the silence watchdog can help), two slots, Ready, TogglePlay, fairness | `DeadIsReaped`, `BackoffEnds`, `SilentIsStopped` |
| `adapters` | both kinds of adapter, two threads, failing links, fairness | `TypeOK`, `OneRestart`, `ReportIsTrue`, `ImplementsContract`, `SaysReady` |
| `chains` | an adapter and a file, four ways for a build to end, two ticks | `TypeOK`, `MuteFollowsRow`, `OffsetSticks`, `CorrectedOnce`, `InStep`, `Observed`, `NoLeak`, `ChainsFollowStreams` |
| `ratchet` | two sources, four rates, one reset, fairness | `TypeOK`, `NeverFallsBack`, `BothWindowsPass`, `SteadySourceRaises` |
| `wall` | one source, one reconnect, one pause, four ticks, one offset edit or resize, fairness | `TypeOK`, `NeverStepsBack`, `OnTime`, `OldPictureLeaves`, `WallCatchesUp` |
| `sessions` | three launches, two edits, one mishap, an offset out of bounds | `TypeOK`, `LaterOneStaysOut`, `OrphansGo`, `EditsAreDue`, `SceneStaysWhole`, `CleanExitPersists` |

Supervisor and adapters:

- `Bookkeeping`: a source is live, pending or being spawned, never two of them; a
  deadline or a kill mark only for a live one; due restarts are still pending.
- `NoOrphan`: every running process is the one its source's handle holds, or the one
  being spawned.
- `StoppedIsDown`: a source shown as killed has no process and none on the way.
- `ImplementsLifecycle`: refinement of `SourceLifecycle`. `Mode` is the mapping: live
  handle with or without deadline and kill mark, spawn under way, pending, or none.
- `ChainFollowsAdapter`: with nothing queued and nothing held, the chain of a running
  source carries the media its adapter reported last.
- `PlayReachesReady`: an adapter whose Ready was handled has Play as its last command
  while the wall plays.
- `NoInheritedVerdict`: silence and frame watchdogs stop no process that has not itself
  run longer than the time-out.
- `DeliverySparesChained`: the delivery watchdog, which reads a copy, stops no source
  that has a video chain, if it is one of `external_source_ids`, for which the copy is
  refreshed. A source whose first spawn failed is not among them (below).
- `DeadIsReaped`, `BackoffEnds`, `SilentIsStopped`: dead or unresponsive processes leave
  the live map, backoffs end, a silent running adapter is stopped.
- `OneRestart`: the flag is set exactly while a reconnect thread runs, and never two.
- `ReportIsTrue`: with no reconnect past its teardown and no check to come, every
  medium the adapter holds for reported is linked.
- `ImplementsContract`: refinement of `AdapterContract`: Ready once; one recovery after the
  other, each with its drop told at most once, only over streams reported before, and
  with a check asked for; no other report but by such a check. `Phase` is the
  mapping: where the one reconnect thread is.
- `SaysReady`: an adapter that runs on comes to say Ready, whatever its source does.

Pipeline and ratchet:

- `MuteFollowsRow`: a source is heard exactly when its row says so, through any
  sequence of edits, failed builds and rebuilds.
- `OffsetSticks`: an offset transport accepted is the one every later rebuild applies.
- `CorrectedOnce`: a rebuilt chain is moved by at most the time that has passed.
- `InStep`: a source's two chains come of the same rebuild and carry the same shift,
  but for the time between the two clock reads.
- `Observed`: a rebuilt video chain has one frame counter, and the GPU probe where
  there is a store.
- `NoLeak`: no sink pad is left on an aggregator but those a failed build has lost.
- `ChainsFollowStreams`: the chains are those of the streams last announced, less those
  whose last build failed; a half-built one does not stop the next.
- `NeverFallsBack`: the output rate falls only by the first commit after a reset, and not
  below the grid's rate.
- `BothWindowsPass`: the rate changes only when both settle windows have passed since
  start-up or reset.
- `SteadySourceRaises`: a source that keeps delivering a plausible rate raises the mark
  to within the delta of it, whatever the others do.

Frames and sessions:

- `NeverStepsBack`: under one offset, and between one resume and the next, the wall shows a
  stream's pictures in order.
- `OnTime`: the picture shown is the one of the moment the offset asks for, or its
  neighbour, as long as the renderer is late by no more than the ring's slack. It speaks of
  the first stream, since the time stamps of later ones start again, of time in play,
  and of a stream that has played for the ring's length since the last resume.
- `OldPictureLeaves`: pictures of the old stream leave once the new one has played for a
  ring's length.
- `WallCatchesUp`: an edit of the offset reaches the render thread, though the UI only
  tries for its mutex, and the surface gets the height of the window, unless its last resize
  fell between SpikeInit and SpikeHandles (below).
- `LaterOneStaysOut`: an instance that had its directory at another's launch and has not
  been told to exit keeps the other out, unless a scan of the directories fails.
- `OrphansGo`: the directories of those dead at the launch are gone once it is up, unless
  a scan fails.
- `SceneStaysWhole`: the scene file always parses, unless two instances ran together.
- `CleanExitPersists`: after a clean exit of an instance that ran alone, with no failing read
  or save, the file holds what the operator set, and the offset he did not set as it
  stood there, though the row may have shown another.
- `EditsAreDue`: an offset the operator of an instance that runs alone has set is in the
  scene file, or the timer of a save runs, as long as no save has failed: one that
  fails clears the timer and is not tried again before the next edit or the exit.

The start-up time-out is on in every run whose property allows for it. It is off
in `topology`: a source that becomes Ready after the launch has no chain until its
next restart (see below). Only `sessions` disables the deadlock check: its program
ends. A supervisor that has shut down, and everything else, goes on stuttering
through a step of its own.

### Fairness

`FairSpec` of `Supervisor` asks weak fairness of the main thread's own steps (a handler
once begun is finished), of each reader whose pipe has a line, and strong fairness of
`PollReap` and of `Tick`: both are enabled only between two UI messages, and the
500 ms timer's message and the clock get their turn however many commands are
queued. Nothing is asked of adapters (they may hang, or ignore Shutdown) nor of
the operator. `DeadIsReaped` is checked without Reboot and Kill, because each
repeat of them starts the teardown window again (below).

`FairSpec` of `Adapter` asks weak fairness of the main loop, of time and of each
reconnect thread, and that every turn of the loop over bus messages ends: it pops a
message in microseconds, and a source that fails again does so a second or more later.
Nothing is asked of the source.

`FairSpec` of `Ratchet` asks weak fairness of `Poll`, a timer. `FairSpec` of `Wall` asks it of `Frame`
and of the render thread, which the display's refresh drives (a thread that ended
stays ended, and the property says so), and strong fairness of a `Frame` that finds the
mutex free: the render thread holds it for a copy of a few words out of 16 ms.
`Sessions` asks none: `EditsAreDue` says that a save is scheduled, and that a timer fires is
the toolkit's.

### Where code and documentation disagree

Each of these runs checks one sentence of the repository and ends in a
counterexample; `PROJECT.json` quotes the sentences under `findings`.

| run | sentence | what happens |
|---|---|---|
| `restart_lost` | Restarting is "waiting for the backoff delay" | a failed `Command::spawn` in phase 5 is logged and forgotten: Restarting for good, until the operator presses Reboot |
| `lost_error` | the adapter is the sole owner of source recovery | errors are dropped while a reconnect is under way, and the flag falls only after the new connect has returned: if that fails first, nothing restarts the source and the adapter lives on without it |
| `offset_jump` | set_source_offset shifts audio and video together | it overwrites the correction a rebuilt chain carries: the pads move by the edit less all the time the wall had played when they were rebuilt |

Further differences seen while modelling, for which no run is kept.

Supervisor and application:

- The watchdogs look at Running sources only: an adapter that never says Ready is
  watched by nobody, though the silence watchdog is to kill one that emits nothing.
- After a recovery the frame watchdog, without a last frame, compares `running_since`,
  which the recovery leaves alone, and fires at the first poll after a long one;
  `supervisor.rs:824` says the opposite.
- A Ready still in the dead process's pipe turns Stopped into Running, though
  `supervisor.rs:56` says Stopped lasts until Reboot.
- `contract.rs:128` says the core "will not send Play if the version mismatches", but
  the broadcast of play goes to every live stdin, that of a Failed source too.
- An adapter whose first Ready comes after the start-up wait has timed out gets no
  chain: its `restart_count` is 0, so no topology event is queued, although
  `ui.rs:1234` says the chain "arrives later via StreamsChanged". If it produces, the
  delivery watchdog respawns it. (`ChainFollowsAdapter` with `StartupMayTimeOut`.)
- Reboot and Kill of a process in teardown move its deadline. The tile's lock that
  should prevent the repeat is cleared by the next Frame, since the state is
  still Running.
- A Ready handler that has read `playing = TRUE` may write its Play after a pause
  broadcast.
- A Ready handled between the start of the reader and the status reset in do_spawn is
  overwritten by Starting; the adapter will not repeat it.
- A stale Ready over a Failed successor shows it as Running, without a Play.
- A source whose first spawn failed is not in `external_source_ids` (`ui.rs:1175`), but has a
  launch spec and may be rebooted. Its `has_core_chain` is never refreshed (`ui.rs:354`),
  so the delivery watchdog respawns it again and again, chain or not.
- `delivery_diverge_since` and `latest_metrics` survive a respawn. If the successor is Running
  before a poll has seen it otherwise, the divergence of its predecessor is charged to it;
  `DeliverySparesChained` only has that it has no chain then.

Adapters:

- A pad that comes with no check pending (late audio, or a connect longer than the
  window) is linked and never reported; ADR-0013:47 has StreamsChanged resolve it.
- Ready is written after the lock is released: a reconnect thread that passes
  `ReportDrop` and `TellDrop` in between has its StreamsChanged read before the Ready
  that names the lost streams. The same window lets a StreamsChanged precede Ready,
  which `Supervisor`'s adapters never do.
- With RTSP an end of stream never gives up; with either the count of reconnects is
  never reset. YouTube's SIGUSR1 past the limit writes an Error and goes on, where
  `contract.rs:164` says of Error that the adapter "will exit".
- `main.rs:241` of the RTSP adapter says the main loop never needs `shared`; it locks it
  in every turn.

Pipeline, transport and ratchet:

- An offset edited while the source has no pads is shown in the row and lost:
  set_source_offset returns before it writes the layout (`transport.rs:191-195`).
- An offset edited before the first audio buffer is overwritten by the one-shot
  probe, which adds to the offset at build time (`pipeline.rs:694-722`). That is why
  `CorrectedOnce` speaks of rebuilt chains and of video.
- An offset of the scene outside the bounds is clamped in the row only; the pads take
  it as it stands.
- A source whose adapter could not be spawned at start gets both chains and a file's
  bounds, which stay when a reboot brings it up.
- A source that is offline at start gets no GPU store and no render slot for as long as the
  application runs, though `CHANGELOG.md:507` has its tile populated
  on reconnect.
- reset_ratchet lowers the mark and leaves the output rate where it was.
- The two polls of the hysteresis may read one and the same window, so that one burst
  commits; and a poll without any candidate leaves the pending one in place.

Frames:

- The ring holds the live ceiling plus 500 ms, for files too, whose offset may be a
  minute: their GPU picture cannot lag so far.
- In a pause Frame goes on publishing a running time that grows, and the resume sets it
  back. With an offset the pictures move on while the wall stands, and step back after;
  the ring ages meanwhile, and the first frame after a long pause evicts all it held, so
  that a source with an offset shows its newest picture until the ring is full again.
- `wayland_sub.rs:132` has the window's size written "on every `Message::Resized`". One between
  SpikeInit and SpikeHandles finds nothing to write to, and SpikeHandles (`ui.rs:516`) puts
  the size that travelled over the window's: the surface keeps it until the next resize.
- When the render thread dies the handle stays, so the panel is not drawn either.
- The time stamps of a rebuilt chain start again near zero and the tap is upstream of
  the corrected pad, so after a reconnect the newest frame is the closest to any target.

Sessions:

- The check for another instance and the making of one's own directory are two steps:
  two launched together both run, share `scene.toml.tmp` and overwrite each other's
  edits. `runtime.rs:7` says that concurrent instances coexist; `main.rs` refuses them.
- A failing ensure_dirs is only logged, and leaves an instance no other can see.
- Only shutdown_all cleans up, and there is none without external sources.
- When the runtime root cannot be read, another_instance_running answers that nobody runs
  (`runtime.rs:108`), and reap_orphans removes what it cannot see alive: a later launch
  then runs beside a live instance, on the same temporary file.
- An offset of the scene outside the row's bounds stays in the file as it is until the
  operator edits it, while the row shows it clamped.
- The directory goes before the last flush: a quick restart may load the old scene.
- A failed flush clears the timer, and is tried again at the next edit or at the exit.
- ToggleMute marks the document dirty without starting the timer, where
  `CHANGELOG.md:345` speaks of the same debounced path; it is saved by the next offset
  edit or at the exit, which is what `CleanExitPersists` covers.
- A dead instance's pid that another program has got refuses every launch.

## What is proved

`SupervisorProofs` holds, for any sets of sources and slots, any time-outs, backoff
table, alphabet and commands that satisfy `SupervisorAssumption`:

| theorem | says |
|---|---|
| `Invariance` | `Spec => []IInv` |
| `TypeCorrect`, `BookkeepingHolds`, `NoOrphanHolds`, `StoppedIsDownHolds` | the invariants of run `lifecycle` |
| `LifecycleImplemented` | `Spec => ImplementsLifecycle` |
| `NoInheritedVerdictHolds` | invariant `AgesOfThisRun` and the action property of run `watchdogs` |
| `DeliverySparesChainedHolds` | invariant `DivergenceIsReal` and the action property of run `watchdogs`, for the sources of `external_source_ids` |

`TopologyProofs` holds under the same assumption:

| theorem | says | needs |
|---|---|---|
| `PipesOrdered` | in every pipe the announcement comes before what is said of the streams | |
| `ChainFollowsAdapterHolds` | invariant `ChainFollowsAdapter` of run `topology` | the start-up wait does not time out |
| `PlayReachesReadyHolds` | its invariant `PlayReachesReady` | no adapter speaks another protocol version |

Without the first hypothesis a source that is Ready late has no chain; without the second a
stale Ready over a Failed successor shows it as Running without a Play (both above). The run
has the same two restrictions.

`AdapterProofs` holds, for any threads, limits and times that satisfy
`AdapterAssumption`, for both kinds of adapter:

| theorem | says |
|---|---|
| `AdapterInvariance` | `Spec => []AdapterIInv` |
| `AdapterTypeCorrect`, `OneRestartHolds`, `ReportIsTrueHolds` | the invariants of run `adapters` |
| `ContractImplemented` | `Spec => ImplementsContract` |

`ChainsProofs` and `RatchetProofs` hold, for any finite set of sources, any offsets, bounds,
streams and outcomes, any rates and window lengths that satisfy `ChainsAssumption` and
`RatchetAssumption`:

| theorem | says |
|---|---|
| `ChainsInvariance` | `Spec => []ChainsIInv` |
| `ChainsTypeCorrect`, `MuteFollowsRowHolds`, `OffsetSticksHolds`, `CorrectedOnceHolds`, `InStepHolds`, `ObservedHolds`, `NoLeakHolds`, `ChainsFollowStreamsHolds` | the invariants of run `chains`, all of them |
| `RatchetInvariance` | `Spec => []RatchetIInv` |
| `RatchetTypeCorrect` | the invariant of run `ratchet` |
| `OutputAtMarkHolds` | the output rate is the mark, but between a reset and the next commit |
| `NeverFallsBackHolds`, `BothWindowsPassHolds` | its action properties |

`WallProofs` holds, for any offsets, heights, channel capacity, ceiling, slack and number of pauses
that satisfy `WallAssumption`:

| theorem | says |
|---|---|
| `WallInvariance` | `Spec => []WallIInv` |
| `WallTypeCorrect` | the invariant of run `wall` |
| `NeverStepsBackHolds`, `OldPictureLeavesHolds` | the action properties of run `wall` |
| `OnTimeHolds` | that of the picture of the moment, for offsets between zero and the ceiling |

A live source's row admits no other offsets; under a negative one the newest frame is
shown, which is of the past.

`SessionsProofs` holds, for any number of launches, edits and mishaps and any offsets that
satisfy `SessionsAssumption`:

| theorem | says |
|---|---|
| `SessionsInvariance` | `Spec => []SessionsIInv` |
| `SessionsTypeCorrect`, `LaterOneStaysOutHolds`, `OrphansGoHolds`, `EditsAreDueHolds` | the invariants of run `sessions` |
| `SceneStaysWholeHolds`, `CleanExitPersistsHolds` | its action properties |

The argument for the supervisor. `Bookkeeping` is inductive given `TypeOK`; it says which of the
supervisor's maps may hold a source together. `NoOrphan` needs it: a respawn
starts a process in a free slot, and only bookkeeping tells that no other process of
the source is live then. `StoppedIsDown` needs it to know that a source leaving
`live` or `pending` has its state rewritten in the same step. The
refinement is one step lemma per action of the main thread, each saying along which
arrow a source's mode moves; the readers, the adapters and the clock stutter.

`AgesOfThisRun`: no age in the status entry of a live source exceeds the age of its
process. It survives stale lines because a handler only ever makes an age zero, and
it survives the respawn because do_spawn clears every age before it enters the
handle. `DivergenceIsReal`: if a divergence is being measured for one of
`external_source_ids`, then between two polls, and up to the watchdogs of the next,
the source's chain carries no video, for the Poll that could give it one also clears
the measurement. Both rest on `IInv`, the conjunction of the four invariants.

`ChainFollowsAdapter` and `PlayReachesReady` hold between events only; what holds in between
is a story told per source or process. For a running source whose entry no reader holds,
`FollowsStreams` says that what was reported last is a drop Poll is holding back, or the
queued topology event, or the chain. It needs that a reader between the two halves of its Ready
finds the entry as it wrote it (`LockTrue`), that nothing is Running without caps
(`RunningHasCaps`), and two facts about the first run, whose Ready queues no event: the
process in it is the only one that ever wrote, and nothing is queued or held before it has been heard
(`FirstRun`), and while the application starts up, what is live is external, so that
its chain is built from the entry (`StartupLive`). A respawn breaks none of this, because the
new pipe is empty and a line about streams comes after the announcement (`PipesOrdered`): the
first thing heard of a new process is its Ready. `PlayKept` says that a process that is
held and has been heard was sent Play last, or its reader is about to write it, unless the
broadcast is still under way.

The argument for the adapters. `ReportIsTrue` says nothing of the caps a Ready still to
come will report, which are the chains built, linked or not, nor of a thread between its
request for a check and the release of the flag. `SettledIsTrue` adds both: as long as
nothing is pending, the chains are linked before Ready, and what was reported last is
linked after it. A teardown unsettles the state until the check; pads only add.

The contract follows from `AdapterIInv` and from `announcing` being set exactly while the main
loop is about to write its Ready. By `OneRestart` the recovery is where its one thread
is, so each step of a thread is one of the recovery's (`GoesPhase`) and one can only start where
none is under way (`StartPhase`); everything else the loop, GStreamer and the clock do
leaves the contract's state alone. That Ready's write may overtake, or be overtaken by, the
drop's is in the contract, for it is in the code.

The argument for the chains. The invariants are inductive together with two facts: a
layout's mute is its row's, and an offset counts as accepted only for a source with an
entry (`SettingsAgree`); a pad that waits for its one-shot probe was built at start-up
(`ProbeIsOfStart`). Everything about single pads follows, since a pad only keeps what it was
built with or was last set to. What makes a rebuild safe after any failure is that
a source's name in the pipeline finds every pad a map holds for it (`ChainsFollowStreams`),
so the removal that precedes a build releases it, and what is left is counted (`NoLeak`).
`ReconciledIs` states this once, for any outcome; the rest of the proof uses it alone.

The argument for the ratchet. `WindowsFromQuiet` bounds everything the hysteresis
reads by `quiet`, the polls since start-up or reset: the global window ends after `Settle`
of them, a source's timer starts only then and is no older than the polls since, and a
candidate needs a timer that has run out. A commit therefore comes after both.
The mark never exceeds the cap, since no plausible reading does; that their maximum
exists follows from the cap, however many sources there are (`MaximumExists`).

The argument for the wall. `WallIInv` is about clocks and order. `Clocks` has the streams, and
the running time that outruns them in a pause, never ahead of the Instants, and the two
running times equal while the wall plays. `Timely` has the epochs start one after the other, `Born`
puts every frame after its stream's start and before the present one's if it is of another,
and `Flow` says that in a channel, in the ring, and from the ring to the channel frames of
one epoch come in the order they were delivered; eviction keeps it because captures are
stamped by one clock (`PushEffect`), whatever the other does. `Reading` has the published
time no later than the one to be published, and the time read no later than that, where a
time of an earlier run is earlier whatever its value (`NoLater`).

`NeverStepsBack` is about two choices with any number of steps between them. `Chosen` is what
the first leaves behind: every earlier frame of the stream that is still in the ring is
farther from the target than the one shown, which is then in the ring itself, for
eviction takes the earlier one first. Within a run the target of the next choice is no
smaller (`BasisGrows`), and then the earlier frame stays the farther one (`CloserAgain`).
Nothing is assumed of missed frames, reconnects or the channel's capacity.

`OldPictureLeaves` and `OnTime` are about real time and speak of a chain that misses nothing.
Then a channel holds frames of this tick of play only, and a ring whose last capture is a
tick of play ago reaches back by no more than `Window` (`Regular`): a pause makes the
frames older by the Instants than by the running time, never younger. In the first
stream, while it plays, the frames since the last resume (`Whole`) have the same age by
either clock, and the ring holds every one of them that is within its length (`Steady`). A
target within the ceiling and the slack is one of them, or the tick being captured
(`TargetInReach`), once the stream has played for the ring's length since the resume
(`Settled`), and the closest is at the distance the property allows (`PictureOfTheMoment`).

The argument for the sessions. What is shared is written only by an instance that is past
the check, and two that are past it at once both have company (`CompanyKnown`), so a step
of another leaves alone everything `Own` says of an instance without company: at each place
of a save, the file it has open, the temporary file or the scene is its document, and its
document is its row, but for an offset not yet edited, which is the scene's (`Expected`);
without a document a read has failed. A rename then publishes a whole document, and a drop
with nothing to save finds it there. `EditsAreDue` is inductive from where the rows are made
(`Due`): the timer is cleared only by a save that has nothing to write, has written, or
fails, and in the first two the scene is the document. `LaterOneStaysOut` needs that an instance found at a
launch keeps its directory until it is told to exit (`OlderKeepsDir`), and `OrphansGo` that a
directory found without an owner never gets one again (`OrphansStayDead`); both only as
long as no scan has failed.

The constants' assumptions are types only, plus: `None` is not a slot, a number, a
process, a set of media or a reader, the backoff table is not empty, there are finitely many sources, the live ceiling
is no greater than a file's bound, `None` is no pad,
document or name of a file, and there is some offset to set.

Only model-checked: the liveness properties (`DeadIsReaped`, `BackoffEnds`, `SilentIsStopped`,
`SaysReady`, `SteadySourceRaises`, `WallCatchesUp`), which rest on
fairness and so on ENABLED, out of the prover's reach; and the refuted claims, which are
counterexamples.

## Plan

Done, in this order: the supervisor, since everything else hangs on it; the adapters,
the other half of every one of its races; the pipeline's chains, the ratchet, the frames'
way to the screen, and the instances' shared files. What is left:

The tiles' display flags (signal lost, transitioning, kill cooldown) over `Supervisor`'s
status map.

Bounds will stay as above: two of everything that can overlap, time-outs of one or
two ticks.

## Not modelled

- *Rendering's internals, Wayland calls, shaders*: the state is the driver's and the
  compositor's; `Wall` keeps the loop, its failures and what it reads.
- *`bridge.rs`*: the newest composed frame is one cell under a lock with a generation.
- *GStreamer's internals*: elements are external and may fail. Play, pause and seek are
  state changes of theirs. The bus loop's seek at the end of all streams is left out:
  the floors that keep the aggregators going never end, so the pipeline's EOS does not come.
- *Audio meter, sync metrics, offset canary*: read by the display only.
- *Net clock*: a wrapper over NetTimeProvider.
- *Adapter resolution*: a sequential, stateless search; the supervisor has its outcome,
  a source without a launch spec.
- *Dummy adapter*: a timed script; what `Supervisor` allows an adapter covers it.
- *The tiles' flags and the view*, command line parsing, JSON encoding, logging.

## Running

    tlc -config lifecycle.cfg MCSupervisor.tla
    tlc -config adapters.cfg Adapter.tla
    tlc -config chains.cfg MCChains.tla
    tlc -config ratchet.cfg Ratchet.tla
    tlc -config wall.cfg Wall.tla
    tlc -config sessions.cfg MCSessions.tla
    tlapm SupervisorProofs.tla
    tlapm TopologyProofs.tla
    tlapm AdapterProofs.tla
    tlapm ChainsProofs.tla
    tlapm RatchetProofs.tla
    tlapm WallProofs.tla
    tlapm SessionsProofs.tla
