-------------------------------- MODULE Ratchet --------------------------------
(***************************************************************************)
(* The output framerate ratchet: frame counters that streaming threads     *)
(* fill, the poll of the user interface that reads them and raises the     *)
(* output rate to the fastest settled source, and the operator's reset.    *)
(*                                                                         *)
(* One unit of time is the interval between two polls, 500 ms.  A counter  *)
(* closes a window when a buffer arrives a second or more after the last   *)
(* one; what it then reads is the environment's choice, bursts included.   *)
(* Left out: the other counters of MetricsCollector, which nothing but the *)
(* display reads.                                                          *)
(***************************************************************************)
EXTENDS Integers, FiniteSetsExt

CONSTANTS
  Sources,
  None,            \* Option::None
  Rates,           \* what a window may read, rounded
  GridFps,         \* the configured rate
  MinDelta,        \* RATCHET_MIN_DELTA
  MaxSourceFps,    \* MAX_RATCHET_SOURCE_FPS
  Window,          \* a counter's window, in polls
  Settle,          \* SETTLE_WINDOW, in polls
  MaxResets        \* bound on the operator's resets

ASSUME RatchetAssumption ==
  /\ Rates \subseteq Nat
  /\ {GridFps, MinDelta, MaxSourceFps, Window, Settle, MaxResets} \subseteq Nat \ {0}
  /\ None \notin Nat

VARIABLES
  counter,         \* per source: fps, age of its window, stalled; or None
  high_water_fps,
  pending_candidate,
  settle_timers,   \* per source: age in polls, or None
  suppress,        \* polls left of suppress_until
  output,          \* framerate in the output caps
  resets,          \* made so far
  quiet,           \* polls since start-up or the last reset
  lowered          \* has a reset lowered the mark and nothing been committed since?

ratchetVars == <<high_water_fps, pending_candidate, settle_timers, suppress, output>>
vars == <<counter, ratchetVars, resets, quiet, lowered>>

Counters == [fps : Nat, age : 0 .. Window, stalled : BOOLEAN]

Marks == {GridFps} \cup GridFps .. MaxSourceFps

TypeOK ==
  /\ counter \in [Sources -> {None} \cup Counters]
  /\ high_water_fps \in Marks
  /\ pending_candidate \in {None} \cup Nat
  /\ settle_timers \in [Sources -> {None} \cup 0 .. Settle]
  /\ suppress \in 0 .. Settle
  /\ output \in Marks
  /\ resets \in 0 .. MaxResets
  /\ quiet \in 0 .. 2 * Settle + 1
  /\ lowered \in BOOLEAN

Init ==
  /\ counter = [s \in Sources |-> None]
  /\ high_water_fps = GridFps
  /\ pending_candidate = None
  /\ settle_timers = [s \in Sources |-> None]
  /\ suppress = Settle
  /\ output = GridFps
  /\ resets = 0
  /\ quiet = 0
  /\ lowered = FALSE

----------------------------------------------------------------------------
\* Streaming threads

NewCounter == [fps |-> 0, age |-> 0, stalled |-> FALSE]

\* on_buffer: the first buffer makes the counter; later ones keep it fresh, and
\* the first of them past the window stores a new rate.
OnBuffer(s, rate) ==
  /\ counter' = [counter EXCEPT ![s] =
       IF @ = None THEN NewCounter
       ELSE IF @.age = Window THEN [NewCounter EXCEPT !.fps = rate]
       ELSE [@ EXCEPT !.stalled = FALSE]]
  /\ UNCHANGED <<ratchetVars, resets, quiet, lowered>>

\* No buffer for longer than snapshot's fast window; the stored rate stays.
Stall(s) ==
  /\ counter[s] # None
  /\ counter' = [counter EXCEPT ![s].stalled = TRUE]
  /\ UNCHANGED <<ratchetVars, resets, quiet, lowered>>

----------------------------------------------------------------------------
\* Poll

\* snapshot: a stalled source reads zero.
FpsIn(s) == IF counter[s] = None \/ counter[s].stalled THEN 0 ELSE counter[s].fps

\* The timers after the loop: started by a first non-zero reading, removed by a
\* zero one.
Timed(s) ==
  IF FpsIn(s) = 0 THEN None ELSE IF settle_timers[s] = None THEN 0 ELSE settle_timers[s]

Settled(s) == Timed(s) = Settle

\* mutant of Plausible
AnyRate(s) == TRUE

\* A reading above the cap is passed over, the others compete.
Plausible(s) == FpsIn(s) <= MaxSourceFps

\* mutant of MaxFps: the cap is applied to the maximum
CappedMax ==
  LET most == Max({0} \cup {FpsIn(s) : s \in {q \in Sources : Settled(q)}})
  IN  IF most > MaxSourceFps THEN 0 ELSE most

MaxFps == Max({0} \cup {FpsIn(s) : s \in {q \in Sources : Settled(q) /\ Plausible(q)}})

\* mutant of AtLeastDelta: any other rate
OtherRate(fps) == fps # high_water_fps

AtLeastDelta(fps) == fps > high_water_fps /\ fps >= high_water_fps + MinDelta

\* set_output_fps: the rate in the caps, a no-op where it is already there.
SetOutputFps(fps) == output' = fps

\* FramerateRatchet::check: below the mark plus the delta, the first sight of a
\* rate, and the second, which commits.
Check(fps) ==
  \/ /\ ~ AtLeastDelta(fps)
     /\ pending_candidate' = None
     /\ UNCHANGED <<high_water_fps, output, lowered>>
  \/ /\ AtLeastDelta(fps)
     /\ pending_candidate # fps
     /\ pending_candidate' = fps
     /\ UNCHANGED <<high_water_fps, output, lowered>>
  \/ /\ AtLeastDelta(fps)
     /\ pending_candidate = fps
     /\ pending_candidate' = None
     /\ high_water_fps' = fps
     /\ SetOutputFps(fps)
     /\ lowered' = FALSE

Suppressed ==
  /\ suppress > 0
  /\ UNCHANGED <<high_water_fps, pending_candidate, settle_timers, output, lowered>>

CheckAndRatchet ==
  /\ suppress = 0
  /\ settle_timers' = [s \in Sources |-> IF Timed(s) \in {None, Settle} THEN Timed(s)
                                         ELSE Timed(s) + 1]
  /\ \/ /\ MaxFps = 0
        /\ UNCHANGED <<high_water_fps, pending_candidate, output, lowered>>
     \/ /\ MaxFps > 0
        /\ Check(MaxFps)

Older(c) == IF c = None \/ c.age = Window THEN c ELSE [c EXCEPT !.age = @ + 1]

Poll ==
  /\ Suppressed \/ CheckAndRatchet
  /\ suppress' = IF suppress = 0 THEN 0 ELSE suppress - 1
  /\ counter' = [s \in Sources |-> Older(counter[s])]
  /\ quiet' = IF quiet > 2 * Settle THEN quiet ELSE quiet + 1
  /\ UNCHANGED resets

\* mutant of ResetRatchet: rediscovery starts at once
ResetMarkOnly ==
  /\ resets < MaxResets
  /\ high_water_fps' = GridFps
  /\ resets' = resets + 1
  /\ quiet' = 0
  /\ lowered' = (output # GridFps)
  /\ UNCHANGED <<counter, pending_candidate, settle_timers, suppress, output>>

\* reset_ratchet: the mark goes back to the grid's rate, the caps do not.
ResetRatchet ==
  /\ resets < MaxResets
  /\ high_water_fps' = GridFps
  /\ pending_candidate' = None
  /\ settle_timers' = [s \in Sources |-> None]
  /\ suppress' = Settle
  /\ resets' = resets + 1
  /\ quiet' = 0
  /\ lowered' = (output # GridFps)
  /\ UNCHANGED <<counter, output>>

Next ==
  \/ \E s \in Sources :
       \/ \E rate \in Rates : OnBuffer(s, rate)
       \/ Stall(s)
  \/ Poll
  \/ ResetRatchet

Spec == Init /\ [][Next]_vars

\* The poll is a timer of the event loop; what sources deliver is their affair.
FairSpec == Spec /\ WF_vars(Poll)

----------------------------------------------------------------------------
\* Properties

\* The compositor never runs below the mark, and off the mark only between a
\* reset and the next commit.
OutputAtMark == output >= high_water_fps /\ (output # high_water_fps => lowered)

\* "Never falls back within a session": the output falls only by the first
\* commit after a reset, and then not below the grid's rate.
NeverFallsBack ==
  [][output' < output => lowered /\ output' > GridFps]_vars

\* After start-up and after every reset no source counts until both windows have
\* passed, the global one and its own, and one poll more, whatever it read
\* meanwhile: a burst that was locked in cannot be locked in again at once.
BothWindowsPass == [][output' # output => quiet > 2 * Settle]_vars

\* A source that keeps delivering a plausible rate well above the mark raises
\* it for good, whatever the other sources do meanwhile.
SteadySourceRaises ==
  \A s \in Sources, rate \in {r \in Rates : r <= MaxSourceFps} :
    <>[](FpsIn(s) = rate) => <>[](rate < high_water_fps + MinDelta)
================================================================================
