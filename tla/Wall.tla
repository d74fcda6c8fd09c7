---------------------------------- MODULE Wall ---------------------------------
(***************************************************************************)
(* One source's way to the screen past the compositor: the probe on its    *)
(* chain, the capture thread, the ring of timed frames, and whoever draws  *)
(* it: the render thread on the Wayland subsurface once there is one, the  *)
(* side panel of the window until then.  Sources share nothing on the way  *)
(* but the clocks and the slots' mutex.                                    *)
(*                                                                         *)
(* Four threads interleave: GStreamer's streaming thread, one capture      *)
(* thread per chain, the event loop and the render thread.  A critical     *)
(* section, an atomic access or one handler of the event loop is a step.   *)
(*                                                                         *)
(* There are two clocks, in ticks of one frame: the Instants by which the  *)
(* ring evicts, which never stop, and the pipeline's running time, by      *)
(* which pictures are chosen.  In a pause the streams stand, while the     *)
(* running time GStreamer answers with runs on as far as the pipeline's    *)
(* clock does; a resume resets the base time, and it falls back to where   *)
(* the streams stand.  A frame is known by the chain it came through, its  *)
(* epoch, and the running time it was delivered at; the time stamps of an  *)
(* epoch count from its start.  Left out: pixels, textures and their       *)
(* sizes, the rectangles they are drawn in, a state change of the pipeline *)
(* that fails, and what the streams still deliver while it takes effect.   *)
(***************************************************************************)
EXTENDS Integers, Sequences

CONSTANTS
  None,        \* Option::None, u64::MAX
  Offsets,     \* the operator may set, within the row's bounds
  FirstOffset, \* offset_ms at the start
  Heights,     \* of the window
  FirstHeight, \* win_h at the start
  Chrome,      \* CHROME_H
  Ceiling,     \* live_offset_ceiling_ms, in ticks
  Slack,       \* the 500 ms a ring holds beyond it
  Channel,     \* capacity of a capture thread's channel
  LastEpoch,   \* bound on the reconnects
  MaxTime,     \* bound on the clock
  MaxPauses,   \* bound on the pauses
  MaxMissed,   \* bound on the ticks and frames missed
  MaxEdits     \* bound on offset edits and resizes together

ASSUME WallAssumption ==
  /\ {Chrome, Ceiling, Slack, Channel, LastEpoch, MaxTime, MaxPauses, MaxMissed,
      MaxEdits} \subseteq Nat
  /\ Offsets \subseteq Int
  /\ FirstOffset \in Offsets
  /\ Heights \subseteq Nat
  /\ FirstHeight \in Heights
  /\ None \notin Int

VARIABLES
  now,          \* Instant::now
  playing,      \* is the pipeline playing, or paused?
  played,       \* running time the streams have reached
  ahead,        \* by what the running time has outrun them in a pause
  started,      \* per epoch: the running time of its start, or None
  delivered,    \* that of the last frame that reached the probe, or None
  channels,     \* per epoch: frames not yet captured
  ring,         \* the GPU frame store
  missed,       \* ticks without a frame in the ring, and frames dropped
  win,          \* win_h
  opened,       \* has the window opened?
  handles,      \* window height a pending SpikeHandles carries, or None
  row_offset,   \* offset_ms of the row
  edits,        \* made so far
  shared,       \* render_shared: offset of the slot, or None before there is one
  locked,       \* does the render thread hold its mutex?
  running,      \* render_running_time
  window_size,  \* the height the event loop last published
  pc,           \* where the render thread is
  config,       \* the height its surface is configured for
  read,         \* the time and the offset it has read
  slot          \* its texture: the frame it shows and the offset it was chosen for, or None

\* What the program does not keep, for the properties.
VARIABLES
  run,          \* resumes so far
  resumed,      \* where the streams stood at the last one, 0 before there is one
  height,       \* of the window itself
  overtaken     \* has its last resize fallen between SpikeInit and SpikeHandles?

clockVars  == <<now, playing, played, ahead, run, resumed>>
chainVars  == <<clockVars, started, delivered, channels, ring, missed>>
windowVars == <<win, opened, handles, row_offset, edits, height, overtaken>>
sharedVars == <<shared, locked, running, window_size>>
renderVars == <<pc, config, read, slot>>
vars == <<chainVars, windowVars, sharedVars, renderVars>>

Epochs == 0 .. LastEpoch

\* mutant of Window: the slack forgotten
WindowNoSlack == Ceiling

Window == Ceiling + Slack   \* FrameRing.window

Frames == [epoch : Epochs, at : 0 .. MaxTime]

\* A running time, and the run it was published in.
Times == [time : 0 .. MaxTime, run : 0 .. MaxPauses]

\* What a present leaves behind: the frame in the texture, the offset it was chosen
\* for, and the run of the time it was chosen for.
Slots == [frame : Frames, offset : Int, run : 0 .. MaxPauses]

Unread == [time |-> 0, run |-> 0, offset |-> 0]

TypeOK ==
  /\ {now, played, ahead, resumed} \subseteq 0 .. MaxTime
  /\ playing \in BOOLEAN
  /\ run \in 0 .. MaxPauses
  /\ started \in [Epochs -> {None} \cup 0 .. MaxTime]
  /\ delivered \in {None} \cup 0 .. MaxTime
  /\ \A c \in Epochs : channels[c] \in Seq(Frames) /\ Len(channels[c]) <= Channel
  /\ \A i \in DOMAIN ring : ring[i] \in [frame : Frames, captured_at : 0 .. MaxTime]
  /\ missed \in 0 .. MaxMissed
  /\ {win, height} \subseteq Heights
  /\ opened \in BOOLEAN /\ overtaken \in BOOLEAN
  /\ handles \in {None} \cup Heights
  /\ row_offset \in Offsets
  /\ edits \in 0 .. MaxEdits
  /\ shared \in {None} \cup Offsets
  /\ locked \in BOOLEAN
  /\ running \in Times
  /\ window_size \in {None} \cup Nat
  /\ pc \in {"none", "acquire", "lock", "copy", "present", "dead"}
  /\ config \in Nat
  /\ read \in [time : 0 .. MaxTime, run : 0 .. MaxPauses, offset : Int]
  /\ slot \in {None} \cup Slots

Init ==
  /\ now = 0
  /\ playing = TRUE
  /\ played = 0
  /\ ahead = 0
  /\ run = 0
  /\ resumed = 0
  /\ started = [c \in Epochs |-> IF c = 0 THEN 0 ELSE None]
  /\ delivered = None
  /\ channels = [c \in Epochs |-> <<>>]
  /\ ring = <<>>
  /\ missed = 0
  /\ win = FirstHeight
  /\ height = FirstHeight
  /\ overtaken = FALSE
  /\ opened = FALSE
  /\ handles = None
  /\ row_offset = FirstOffset
  /\ edits = 0
  /\ shared = None
  /\ locked = FALSE
  /\ running = [time |-> 0, run |-> 0]
  /\ window_size = None
  /\ pc = "none"
  /\ config = 0
  /\ read = Unread
  /\ slot = None

----------------------------------------------------------------------------
\* The pipeline's clock

Idle == \A c \in Epochs : channels[c] = <<>>

Misses(one) ==
  /\ one => missed < MaxMissed
  /\ missed' = missed + IF one THEN 1 ELSE 0

\* Time passes; a tick of play without a frame in the ring is a frame missed.
Tick ==
  /\ now < MaxTime
  /\ now' = now + 1
  /\ \/ playing /\ played' = played + 1 /\ UNCHANGED ahead
     \/ ~ playing /\ ahead' \in {ahead, ahead + 1} /\ UNCHANGED played
  /\ Misses(~ Idle \/ (playing /\ delivered # played))
  /\ UNCHANGED <<playing, run, resumed, started, delivered, channels, ring, windowVars,
                 sharedVars, renderVars>>

\* Message::TogglePlay
TogglePlay ==
  /\ run < MaxPauses
  /\ playing' = ~ playing
  /\ IF playing
     THEN UNCHANGED <<ahead, run, resumed>>
     ELSE ahead' = 0 /\ run' = run + 1 /\ resumed' = played
  /\ UNCHANGED <<now, played, started, delivered, channels, ring, missed, windowVars,
                 sharedVars, renderVars>>

\* Pipeline::current_running_time_ns
current_running_time == [time |-> played + ahead, run |-> run]

----------------------------------------------------------------------------
\* The chain and its capture thread

Current == CHOOSE c \in Epochs :
             /\ started[c] # None
             /\ \A d \in Epochs : started[d] # None => d <= c

\* install_probe's probe: try_send, which drops the frame when the channel is full.
Deliver ==
  /\ playing
  /\ delivered # played
  /\ delivered' = played
  /\ channels' = IF Len(channels[Current]) < Channel
                 THEN [channels EXCEPT ![Current] = Append(@, [epoch |-> Current, at |-> played])]
                 ELSE channels
  /\ Misses(Len(channels[Current]) >= Channel)
  /\ UNCHANGED <<clockVars, started, ring, windowVars, sharedVars, renderVars>>

\* mutant of Push: nothing is evicted
PushKept(frame) == Append(ring, [frame |-> frame, captured_at |-> now])

\* FrameRing::push: evicted from the front by the age of their capture.
Push(frame) ==
  LET longer == Append(ring, [frame |-> frame, captured_at |-> now])
      fresh == {i \in DOMAIN longer : now - longer[i].captured_at <= Window}
      first == CHOOSE i \in fresh : \A j \in fresh : i <= j
  IN  SubSeq(longer, first, Len(longer))

\* The thread of a chain that was torn down drains its channel too.
Capture(c) ==
  /\ channels[c] # <<>>
  /\ ring' = Push(Head(channels[c]))
  /\ channels' = [channels EXCEPT ![c] = Tail(@)]
  /\ UNCHANGED <<clockVars, started, delivered, missed, windowVars, sharedVars, renderVars>>

\* Poll after a StreamsChanged: a new chain, with a probe and a channel of its own
\* into the same store.
Reconnect ==
  /\ Current < LastEpoch
  /\ started' = [started EXCEPT ![Current + 1] = played]
  /\ delivered' = None
  /\ UNCHANGED <<clockVars, channels, ring, missed, windowVars, sharedVars, renderVars>>

----------------------------------------------------------------------------
\* Selection

Pts(frame) == frame.at - started[frame.epoch]

\* mutant of Target: an absolute difference for the saturating one
TargetAbsolute(time, offset) == IF time > offset THEN time - offset ELSE offset - time

Target(time, offset) == IF time > offset THEN time - offset ELSE 0

Distance(a, b) == IF a < b THEN b - a ELSE a - b

\* FrameRing::select: the first of those closest to the target.
Select(target) ==
  LET away(i) == Distance(Pts(ring[i].frame), target)
      best == CHOOSE i \in DOMAIN ring :
                \A j \in DOMAIN ring : away(i) < away(j) \/ (away(i) = away(j) /\ i <= j)
  IN  IF ring = <<>> THEN None ELSE ring[best].frame

\* The texture after a choice: kept while the ring is empty, else uploaded when the
\* time stamp or the size is another than the texture's.  Stamps are nanoseconds,
\* so two epochs never share one.
Shown(basis, offset) ==
  IF ring = <<>> THEN slot
  ELSE [frame |-> Select(Target(basis.time, offset)), offset |-> offset, run |-> basis.run]

----------------------------------------------------------------------------
\* The event loop

SubActive == shared # None

\* mutant of Frame: the time alone
FrameTimeOnly ==
  /\ IF SubActive
     THEN running' = current_running_time /\ UNCHANGED slot
     ELSE slot' = Shown(current_running_time, row_offset) /\ UNCHANGED running
  /\ UNCHANGED <<chainVars, windowVars, shared, locked, window_size, pc, config, read>>

\* Message::Frame: the time to the render thread, or the panel's own choice for its
\* texture; then the offset into the slot, unless the render thread is at it.
Frame ==
  /\ \/ /\ SubActive
        /\ running' = current_running_time
        /\ shared' = IF locked THEN shared ELSE row_offset
        /\ UNCHANGED slot
     \/ /\ ~ SubActive
        /\ slot' = Shown(current_running_time, row_offset)
        /\ UNCHANGED <<running, shared>>
  /\ UNCHANGED <<chainVars, windowVars, locked, window_size, pc, config, read>>

\* Offset edits and steps, and their value within the row's bounds.
SetOffset(offset) ==
  /\ edits < MaxEdits
  /\ row_offset # offset
  /\ row_offset' = offset
  /\ edits' = edits + 1
  /\ UNCHANGED <<chainVars, win, opened, handles, height, overtaken, sharedVars, renderVars>>

\* mutant of SubHeight: a window no higher than the chrome forgotten
SubHeightBare(h) == h - Chrome

\* The content below the chrome, one pixel at least.
SubHeight(h) == IF h > Chrome + 1 THEN h - Chrome ELSE 1

\* Message::Resized: published only once there is a subsurface.
Resized(h) ==
  /\ edits < MaxEdits
  /\ height # h
  /\ height' = h
  /\ overtaken' = (handles # None)
  /\ win' = h
  /\ window_size' = IF window_size = None THEN None ELSE SubHeight(h)
  /\ edits' = edits + 1
  /\ UNCHANGED <<chainVars, opened, handles, row_offset, shared, locked, running, renderVars>>

\* Message::SpikeInit: the window has opened; its height travels with the request.
SpikeInit ==
  /\ ~ opened
  /\ opened' = TRUE
  /\ win' = height
  /\ handles' = height
  /\ UNCHANGED <<chainVars, row_offset, edits, height, overtaken, sharedVars, renderVars>>

build_render_slots == shared' = row_offset

\* render_loop before it loops: a surface of the height it was given, or a panic of
\* the thread where there is none to be had.
SetUp(h) ==
  /\ config' = SubHeight(h)
  /\ pc' \in {"acquire", "dead"}
  /\ slot' = None

\* Message::SpikeHandles: the height that travelled replaces the window's; on
\* Wayland the slots are built and the render thread starts.
SpikeHandles ==
  /\ handles # None
  /\ win' = handles
  /\ handles' = None
  /\ \/ /\ build_render_slots
        /\ window_size' = SubHeight(handles)
        /\ SetUp(handles)
     \/ UNCHANGED <<shared, window_size, pc, config, slot>>
  /\ UNCHANGED <<chainVars, opened, row_offset, edits, height, overtaken, locked, running, read>>

----------------------------------------------------------------------------
\* The render thread, once round its loop

\* Reconfigure for the published size, then acquire: again when the surface is
\* lost or times out, never again on another error; then read the time.
Acquire ==
  /\ pc = "acquire"
  /\ config' = window_size
  /\ \/ /\ read' = [read EXCEPT !.time = running.time, !.run = running.run]
        /\ pc' = "lock"
     \/ /\ pc' \in {"acquire", "dead"}
        /\ UNCHANGED read
  /\ UNCHANGED <<chainVars, windowVars, sharedVars, slot>>

Lock ==
  /\ pc = "lock"
  /\ locked' = TRUE
  /\ pc' = "copy"
  /\ UNCHANGED <<chainVars, windowVars, shared, running, window_size, config, read, slot>>

CopySlots ==
  /\ pc = "copy"
  /\ read' = [read EXCEPT !.offset = shared]
  /\ locked' = FALSE
  /\ pc' = "present"
  /\ UNCHANGED <<chainVars, windowVars, shared, running, window_size, config, slot>>

Present ==
  /\ pc = "present"
  /\ slot' = Shown(read, read.offset)
  /\ read' = Unread
  /\ pc' = "acquire"
  /\ UNCHANGED <<chainVars, windowVars, sharedVars, config>>

Render == Acquire \/ Lock \/ CopySlots \/ Present

Next ==
  \/ Tick
  \/ TogglePlay
  \/ Deliver
  \/ \E c \in Epochs : Capture(c)
  \/ Reconnect
  \/ Frame
  \/ \E offset \in Offsets : SetOffset(offset)
  \/ \E h \in Heights : Resized(h)
  \/ SpikeInit
  \/ SpikeHandles
  \/ Render

Spec == Init /\ [][Next]_vars

\* The display's refresh drives the event loop and the render thread.  The
\* render thread holds the mutex for a copy of a few words, so try_lock does not
\* fail for ever.
FairSpec ==
  /\ Spec
  /\ WF_vars(Frame)
  /\ SF_vars(Frame /\ ~ locked)
  /\ WF_vars(Render)
----------------------------------------------------------------------------
\* Properties

\* While the offset stays and until the next resume, the wall never shows an earlier
\* picture of a stream after a later one: for all the threads in between, frames are
\* captured in order, the oldest leave first, and the published time only grows.  A
\* resume sets that time back by the pause, and then an earlier picture may follow.
NeverStepsBack ==
  [][slot # None /\ slot' \notin {slot, None} =>
       \/ slot'.offset # slot.offset
       \/ slot'.frame.epoch # slot.frame.epoch
       \/ slot'.run # slot.run
       \/ slot'.frame.at >= slot.frame.at]_vars

\* The running time the next picture is chosen for.
ShownFor == IF SubActive THEN [time |-> read.time, run |-> read.run] ELSE current_running_time

\* Has the stream played on, since the last resume, for as long as the ring is?
Settled == run = 0 \/ played - resumed > Window

\* The ring reaches back far enough: whatever offset up to the ceiling is in
\* force, and with the event loop late by up to the slack, the picture shown is
\* the one of that moment, or the one before when that is just being captured.  It
\* speaks of the first stream, for later ones have time stamps that start again, and
\* of play: in a pause the published time runs ahead of the frames, and after it the
\* ring, which evicts by another clock, may have lost what the offset asks for.
OnTime ==
  [][slot' \notin {slot, None} =>
       \/ missed > 0
       \/ Current > 0
       \/ ~ playing \/ ~ Settled
       \/ ShownFor.run # run \/ played - ShownFor.time > Slack
       \/ Target(ShownFor.time, slot'.offset) - slot'.frame.at \in {0, 1}]_vars

\* After a reconnect the picture of the old stream stays while the new one plays for
\* the length of the ring, whose entries leave when the next frame comes, and no longer.
OldPictureLeaves ==
  [][slot' \notin {slot, None} =>
       missed > 0 \/ slot'.frame.epoch = Current \/ played - started[Current] <= Window + 1]_vars

\* The wall catches up with the operator: after every offset edit and every resize
\* there comes a moment when what is shown was chosen for the row's offset, though
\* the event loop only tries for the mutex, and the surface has the height of the
\* window.  A resize between SpikeInit and SpikeHandles is the exception: the height
\* on its way is put over the new one, and the surface has it until the next resize.
WallCatchesUp ==
  SubActive /\ ring # <<>>
  ~> \/ pc = "dead"
     \/ /\ slot # None /\ slot.offset = row_offset
        /\ overtaken \/ config = SubHeight(height)
===============================================================================
