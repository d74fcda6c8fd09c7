----------------------------- MODULE RatchetProofs -----------------------------
(***************************************************************************)
(* Theorems about Ratchet.  The windows follow from quiet, which counts    *)
(* the polls since start-up or the last reset: the global window ends      *)
(* after Settle of them, no source's timer is older than the polls since,  *)
(* and a candidate needs one settled source.                               *)
(***************************************************************************)
EXTENDS Ratchet, WellFoundedInduction, TLAPS

WindowsFromQuiet ==
  /\ suppress = IF quiet < Settle THEN Settle - quiet ELSE 0
  /\ \A s \in Sources : settle_timers[s] # None => settle_timers[s] <= quiet - Settle
  /\ pending_candidate # None => quiet > 2 * Settle

RatchetIInv == TypeOK /\ OutputAtMark /\ WindowsFromQuiet

-----------------------------------------------------------------------------
\* A bounded, non-empty set of naturals has its maximum.
LEMMA MaximumExists ==
  ASSUME NEW S \in SUBSET Nat, S # {}, NEW b \in Nat, \A x \in S : x <= b
  PROVE  Max(S) \in S /\ \A x \in S : x <= Max(S)
<1> DEFINE T == {b - x : x \in S}
<1>1. \A x \in S : x \in Nat /\ b - x \in Nat /\ b - x \in T
  OBVIOUS
<1>2. T \subseteq Nat /\ T # {}
  BY <1>1
<1>3. PICK y \in T : \A z \in T : <<z, y>> \notin OpToRel(<, Nat)
  BY <1>2, NatLessThanWellFounded, WFMin
<1>4. \A z \in T : ~ (z < y)
  BY <1>2, <1>3 DEF OpToRel
<1>5. PICK x \in S : y = b - x
  OBVIOUS
<1>6. \A z \in S : x >= z
  <2> TAKE z \in S
  <2>1. ~ (b - z < y)
    BY <1>1, <1>4
  <2> QED
    BY <1>1, <1>5, <2>1
<1> QED
  BY <1>1, <1>5, <1>6 DEF Max

-----------------------------------------------------------------------------
(* Readings.                                                               *)

LEMMA FpsIsNat == ASSUME TypeOK, NEW s \in Sources PROVE FpsIn(s) \in Nat
<1>1. counter[s] = None \/ counter[s] \in Counters
  BY DEF TypeOK
<1> QED
  BY <1>1, RatchetAssumption DEF FpsIn, Counters

\* What the poll compares is a plausible rate, and non-zero only if some source
\* has settled.
LEMMA MaxFpsIsSettled ==
  ASSUME TypeOK
  PROVE  /\ MaxFps \in 0 .. MaxSourceFps
         /\ MaxFps > 0 => \E s \in Sources : Settled(s)
<1> DEFINE counts == {q \in Sources : Settled(q) /\ Plausible(q)}
           read == {0} \cup {FpsIn(s) : s \in counts}
<1>1. \A x \in read : x \in 0 .. MaxSourceFps /\ (x > 0 => \E s \in Sources : Settled(s))
  <2> TAKE x \in read
  <2>1. CASE x = 0
    BY <2>1, RatchetAssumption
  <2>2. CASE x # 0
    <3>1. PICK s \in counts : x = FpsIn(s)
      BY <2>2
    <3> QED
      BY <3>1, FpsIsNat, RatchetAssumption DEF Plausible
  <2> QED
    BY <2>1, <2>2
<1>2. Max(read) \in read
  <2>1. 0 \in read
    OBVIOUS
  <2> HIDE DEF read
  <2>2. MaxSourceFps \in Nat /\ \A x \in read : x \in Nat /\ x <= MaxSourceFps
    BY <1>1, RatchetAssumption
  <2>3. read \in SUBSET Nat /\ read # {}
    BY <2>1, <2>2
  <2> QED
    BY <2>2, <2>3, MaximumExists
<1>3. MaxFps = Max(read)
  BY DEF MaxFps
<1> HIDE DEF read
<1> QED
  BY <1>1, <1>2, <1>3

LEMMA MarksAreBounded ==
  Marks \subseteq Nat /\ \A mark \in Marks : mark >= GridFps
  BY RatchetAssumption DEF Marks

-----------------------------------------------------------------------------
(* The poll, in terms of the rate it compares.                             *)

\* A commit takes a rate that was compared before, at least the delta above
\* the mark.
Commits ==
  /\ pending_candidate # None
  /\ high_water_fps' \in GridFps .. MaxSourceFps
  /\ high_water_fps' >= high_water_fps + MinDelta
  /\ output' = high_water_fps'
  /\ lowered' = FALSE
  /\ pending_candidate' = None

\* Any other poll leaves the rate and the mark, and takes a candidate only from a
\* settled source.
Waits ==
  /\ UNCHANGED <<high_water_fps, output, lowered>>
  /\ \/ UNCHANGED pending_candidate
     \/ pending_candidate' = None
     \/ pending_candidate' \in Nat /\ quiet >= 2 * Settle

LEMMA PollCommits ==
  ASSUME TypeOK, WindowsFromQuiet, Poll
  PROVE  Commits \/ Waits
<1> USE DEF Commits, Waits
<1>1. CASE Suppressed
  BY <1>1 DEF Suppressed
<1>2. CASE CheckAndRatchet
  <2>1. CASE MaxFps = 0
    BY <1>2, <2>1 DEF CheckAndRatchet
  <2>2. CASE MaxFps > 0
    <3>1. MaxFps \in Nat /\ MaxFps <= MaxSourceFps
      BY MaxFpsIsSettled, RatchetAssumption
    <3>2. quiet >= 2 * Settle
      <4>1. PICK s \in Sources : Settled(s)
        BY <2>2, MaxFpsIsSettled
      <4>2. settle_timers[s] = Settle
        BY <4>1, RatchetAssumption DEF Settled, Timed
      <4> QED
        BY <4>2, RatchetAssumption DEF WindowsFromQuiet, TypeOK
    <3>3. high_water_fps \in Nat /\ high_water_fps >= GridFps
      BY MarksAreBounded DEF TypeOK
    <3>4. Check(MaxFps)
      BY <1>2, <2>2 DEF CheckAndRatchet
    <3> HIDE DEF MaxFps
    <3> QED
      BY <3>1, <3>2, <3>3, <3>4, RatchetAssumption
      DEF Check, AtLeastDelta, SetOutputFps
  <2> QED
    BY <1>2, <2>1, <2>2 DEF CheckAndRatchet
<1> QED
  BY <1>1, <1>2 DEF Poll

-----------------------------------------------------------------------------
(* The invariant.                                                          *)

LEMMA RatchetInit == Init => RatchetIInv
<1> SUFFICES ASSUME Init PROVE RatchetIInv
  OBVIOUS
<1>1. TypeOK
  <2>1. counter \in [Sources -> {None} \cup Counters]
    BY DEF Init
  <2>2. settle_timers \in [Sources -> {None} \cup 0 .. Settle]
    BY DEF Init
  <2>3. high_water_fps \in Marks /\ output \in Marks
    BY DEF Init, Marks
  <2>4. suppress \in 0 .. Settle /\ resets \in 0 .. MaxResets /\ quiet \in 0 .. 2 * Settle + 1
    BY RatchetAssumption DEF Init
  <2>5. pending_candidate = None /\ lowered = FALSE
    BY DEF Init
  <2> QED
    BY <2>1, <2>2, <2>3, <2>4, <2>5 DEF TypeOK
<1>2. OutputAtMark
  BY RatchetAssumption DEF Init, OutputAtMark
<1>3. WindowsFromQuiet
  BY RatchetAssumption DEF Init, WindowsFromQuiet
<1> QED
  BY <1>1, <1>2, <1>3 DEF RatchetIInv

\* A buffer or its absence changes one counter only.
LEMMA CounterSteps ==
  ASSUME RatchetIInv,
         \/ \E s \in Sources, rate \in Rates : OnBuffer(s, rate)
         \/ \E s \in Sources : Stall(s)
  PROVE  RatchetIInv'
<1>1. UNCHANGED <<ratchetVars, resets, quiet, lowered>>
  BY DEF OnBuffer, Stall
<1>2. counter' \in [Sources -> {None} \cup Counters]
  <2> USE RatchetAssumption DEF RatchetIInv, TypeOK, Counters
  <2>1. ASSUME NEW s \in Sources, NEW rate \in Rates, OnBuffer(s, rate)
        PROVE  counter' \in [Sources -> {None} \cup Counters]
    <3>1. counter[s] # None => [counter[s] EXCEPT !.stalled = FALSE] \in Counters
      OBVIOUS
    <3>2. NewCounter \in Counters /\ [NewCounter EXCEPT !.fps = rate] \in Counters
      <4>1. 0 \in 0 .. Window /\ rate \in Nat
        OBVIOUS
      <4> QED
        BY <4>1 DEF NewCounter
    <3> QED
      BY <2>1, <3>1, <3>2 DEF OnBuffer
  <2>2. ASSUME NEW s \in Sources, Stall(s)
        PROVE  counter' \in [Sources -> {None} \cup Counters]
    <3>1. [counter[s] EXCEPT !.stalled = TRUE] \in Counters
      BY <2>2 DEF Stall
    <3> QED
      BY <2>2, <3>1 DEF Stall
  <2> QED
    BY <2>1, <2>2
<1> QED
  BY <1>1, <1>2
  DEF RatchetIInv, TypeOK, OutputAtMark, WindowsFromQuiet, ratchetVars

LEMMA PollStep == ASSUME RatchetIInv, Poll PROVE RatchetIInv'
<1> USE DEF RatchetIInv
<1>1. settle_timers' \in [Sources -> {None} \cup 0 .. Settle]
      /\ \A s \in Sources : settle_timers'[s] # None =>
           settle_timers'[s] <= quiet' - Settle
  <2>1. CASE Suppressed
    BY <2>1, RatchetAssumption
    DEF Suppressed, Poll, TypeOK, WindowsFromQuiet
  <2>2. CASE CheckAndRatchet
    <3>1. quiet >= Settle
      BY <2>2, RatchetAssumption DEF CheckAndRatchet, WindowsFromQuiet, TypeOK
    <3>2. \A s \in Sources : Timed(s) \in {None} \cup 0 .. Settle
          /\ (Timed(s) # None => Timed(s) <= quiet - Settle)
      BY <3>1, RatchetAssumption DEF Timed, WindowsFromQuiet, TypeOK
    <3> HIDE DEF Timed
    <3>3. settle_timers' = [s \in Sources |-> IF Timed(s) \in {None, Settle} THEN Timed(s)
                                              ELSE Timed(s) + 1]
      BY <2>2 DEF CheckAndRatchet
    <3>4. quiet' = IF quiet > 2 * Settle THEN quiet ELSE quiet + 1
      BY DEF Poll
    <3> QED
      BY <3>1, <3>2, <3>3, <3>4, RatchetAssumption DEF TypeOK
  <2> QED
    BY <2>1, <2>2 DEF Poll
<1>2. TypeOK'
  <2>1. counter' \in [Sources -> {None} \cup Counters]
    <3>1. \A s \in Sources : Older(counter[s]) \in {None} \cup Counters
      BY RatchetAssumption DEF TypeOK, Older, Counters
    <3> QED
      BY <3>1 DEF Poll
  <2>2. suppress' \in 0 .. Settle /\ quiet' \in 0 .. 2 * Settle + 1 /\ UNCHANGED resets
    BY RatchetAssumption DEF Poll, TypeOK
  <2>3. high_water_fps' \in Marks /\ output' \in Marks /\ lowered' \in BOOLEAN
        /\ pending_candidate' \in {None} \cup Nat
    BY PollCommits DEF Commits, Waits, TypeOK, Marks
  <2> QED
    BY <1>1, <2>1, <2>2, <2>3 DEF TypeOK
<1>3. OutputAtMark'
  <2>1. high_water_fps \in Nat /\ output \in Nat /\ high_water_fps' \in Nat
        /\ MinDelta \in Nat
    BY <1>2, MarksAreBounded, RatchetAssumption DEF TypeOK
  <2>2. CASE Commits
    BY <2>1, <2>2 DEF Commits, OutputAtMark
  <2>3. CASE Waits
    BY <2>3 DEF Waits, OutputAtMark
  <2> QED
    BY <2>2, <2>3, PollCommits
<1>4. WindowsFromQuiet'
  <2>1. suppress' = IF quiet' < Settle THEN Settle - quiet' ELSE 0
    BY RatchetAssumption DEF Poll, WindowsFromQuiet, TypeOK
  <2>2. pending_candidate' # None => quiet' > 2 * Settle
    <3>1. quiet' = (IF quiet > 2 * Settle THEN quiet ELSE quiet + 1)
          /\ quiet \in Nat /\ 2 * Settle \in Nat
      BY RatchetAssumption DEF Poll, TypeOK
    <3>2. pending_candidate # None => quiet > 2 * Settle
      BY DEF WindowsFromQuiet
    <3>3. CASE Commits
      BY <3>3 DEF Commits
    <3>4. CASE Waits
      BY <3>1, <3>2, <3>4 DEF Waits
    <3> QED
      BY <3>3, <3>4, PollCommits
  <2> QED
    BY <1>1, <2>1, <2>2 DEF WindowsFromQuiet
<1> QED
  BY <1>2, <1>3, <1>4

LEMMA ResetStep == ASSUME RatchetIInv, ResetRatchet PROVE RatchetIInv'
<1>1. TypeOK'
  BY RatchetAssumption DEF RatchetIInv, ResetRatchet, TypeOK, Marks
<1>2. OutputAtMark'
  BY MarksAreBounded DEF RatchetIInv, ResetRatchet, TypeOK, OutputAtMark
<1>3. WindowsFromQuiet'
  BY RatchetAssumption DEF ResetRatchet, WindowsFromQuiet
<1> QED
  BY <1>1, <1>2, <1>3 DEF RatchetIInv

LEMMA RatchetStep == RatchetIInv /\ [Next]_vars => RatchetIInv'
<1> SUFFICES ASSUME RatchetIInv, [Next]_vars PROVE RatchetIInv'
  OBVIOUS
<1>1. CASE UNCHANGED vars
  BY <1>1 DEF RatchetIInv, TypeOK, OutputAtMark, WindowsFromQuiet, vars, ratchetVars
<1> QED
  BY <1>1, CounterSteps, PollStep, ResetStep DEF Next

-----------------------------------------------------------------------------
(* The theorems.                                                           *)

\* Every state of the ratchet satisfies the inductive invariant.
THEOREM RatchetInvariance == Spec => []RatchetIInv
  BY RatchetInit, RatchetStep, PTL DEF Spec

\* The variables of FramerateRatchet keep their types; the mark and the output
\* rate lie between the grid's rate and the cap.
THEOREM RatchetTypeCorrect == Spec => []TypeOK
<1>1. RatchetIInv => TypeOK
  BY DEF RatchetIInv
<1> QED
  BY <1>1, RatchetInvariance, PTL

\* For any number of sources and any rates they read, check_and_ratchet keeps the
\* output caps at the mark, but between a reset and the next commit.
THEOREM OutputAtMarkHolds == Spec => []OutputAtMark
<1>1. RatchetIInv => OutputAtMark
  BY DEF RatchetIInv
<1> QED
  BY <1>1, RatchetInvariance, PTL

\* check_and_ratchet never lowers the output rate, but for the first commit after
\* a reset, and then not to the grid's rate.
THEOREM NeverFallsBackHolds == Spec => NeverFallsBack
<1>1. RatchetIInv /\ [Next]_vars => [output' < output => lowered /\ output' > GridFps]_vars
  <2> SUFFICES ASSUME RatchetIInv, Next, output' < output
               PROVE  lowered /\ output' > GridFps
    OBVIOUS
  <2>1. output \in Nat
    BY MarksAreBounded DEF RatchetIInv, TypeOK
  <2>2. Poll
    BY <2>1 DEF Next, OnBuffer, Stall, ResetRatchet, ratchetVars
  <2>3. high_water_fps \in Nat /\ high_water_fps >= GridFps
        /\ {GridFps, MinDelta, MaxSourceFps} \subseteq Nat \ {0}
    BY MarksAreBounded, RatchetAssumption DEF RatchetIInv, TypeOK
  <2>4. CASE Commits
    BY <2>1, <2>3, <2>4 DEF Commits, RatchetIInv, OutputAtMark
  <2>5. CASE Waits
    BY <2>1, <2>5 DEF Waits
  <2> QED
    BY <2>2, <2>4, <2>5, PollCommits DEF RatchetIInv
<1> QED
  BY <1>1, RatchetInvariance, PTL DEF Spec, NeverFallsBack

\* The output rate changes only when suppress_until and a settle timer have both
\* run out since start-up or the last reset, and one more poll has passed.
THEOREM BothWindowsPassHolds == Spec => BothWindowsPass
<1>1. RatchetIInv /\ [Next]_vars => [output' # output => quiet > 2 * Settle]_vars
  <2> SUFFICES ASSUME RatchetIInv, Next, output' # output
               PROVE  quiet > 2 * Settle
    OBVIOUS
  <2>1. Poll
    BY DEF Next, OnBuffer, Stall, ResetRatchet, ratchetVars
  <2> QED
    BY <2>1, PollCommits DEF Commits, Waits, RatchetIInv, WindowsFromQuiet
<1> QED
  BY <1>1, RatchetInvariance, PTL DEF Spec, BothWindowsPass
=============================================================================
