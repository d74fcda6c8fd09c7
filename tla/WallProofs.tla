------------------------------ MODULE WallProofs ------------------------------
(***************************************************************************)
(* Proofs about Wall, for every value of its constants: the order in which *)
(* frames pass through the channels and the ring, what the ring still      *)
(* holds when a picture is chosen from it, and what is chosen.             *)
(***************************************************************************)
EXTENDS Wall, WellFoundedInduction, TLAPS

Entries == [frame : Frames, captured_at : 0 .. MaxTime]

USE DEF clockVars

-----------------------------------------------------------------------------
(* The choices.                                                            *)

LEMMA ConstantTypes ==
  /\ Chrome \in Nat /\ Ceiling \in Nat /\ Slack \in Nat /\ Channel \in Nat
  /\ LastEpoch \in Nat /\ MaxTime \in Nat /\ MaxMissed \in Nat /\ MaxEdits \in Nat
  /\ MaxPauses \in Nat
  /\ Window \in Nat /\ 0 \in Epochs
  BY WallAssumption DEF Window, Epochs

LEMMA SumIsNat ==
  ASSUME NEW a \in Nat, NEW b \in Nat
  PROVE  a + b \in Nat
  OBVIOUS

LEMMA SumsInOrder ==
  ASSUME NEW t \in Nat, NEW a \in Nat, NEW b \in Nat, NEW c \in Nat, NEW d \in Nat,
         t <= a + b, a + b <= c + d
  PROVE  t <= c + d
  OBVIOUS

LEMMA LeastExists ==
  ASSUME NEW S \in SUBSET Nat, S # {}
  PROVE  \E x \in S : \A y \in S : x <= y
<1>1. PICK x \in S : \A y \in S : <<y, x>> \notin OpToRel(<, Nat)
  BY NatLessThanWellFounded, WFMin
<1>2. \A y \in S : ~ (y < x)
  BY <1>1 DEF OpToRel
<1> QED
  BY <1>2

\* Push drops from the front what is older than the window, and nothing else.
LEMMA PushEffect ==
  ASSUME now \in 0 .. MaxTime, ring \in Seq(Entries), NEW frame \in Frames,
         \A i \in 1 .. Len(ring) : ring[i].captured_at <= now,
         \A i, j \in 1 .. Len(ring) :
           i < j => ring[i].captured_at <= ring[j].captured_at
  PROVE  /\ Push(frame) \in Seq(Entries)
         /\ \E d \in 0 .. Len(ring) :
              /\ Len(Push(frame)) = Len(ring) + 1 - d
              /\ Push(frame)[Len(ring) + 1 - d] = [frame |-> frame, captured_at |-> now]
              /\ \A i \in 1 .. Len(ring) - d : Push(frame)[i] = ring[i + d]
              /\ \A i \in 1 .. Len(ring) - d : now - ring[i + d].captured_at <= Window
              /\ \A i \in 1 .. d : now - ring[i].captured_at > Window
<1> DEFINE e == [frame |-> frame, captured_at |-> now]
           n == Len(ring) + 1
           longer == Append(ring, e)
           fresh == {i \in DOMAIN longer : now - longer[i].captured_at <= Window}
           first == CHOOSE i \in fresh : \A j \in fresh : i <= j
<1>1. /\ n \in Nat /\ n >= 1 /\ Len(ring) = n - 1 /\ e \in Entries
      /\ longer \in Seq(Entries) /\ Len(longer) = n /\ DOMAIN longer = 1 .. n
      /\ longer[n] = e
      /\ \A i \in 1 .. n - 1 : longer[i] = ring[i]
  BY DEF Entries
<1>2. Push(frame) = SubSeq(longer, first, n)
  BY <1>1 DEF Push
<1>3. Window \in Nat /\ now \in Nat /\ e.captured_at = now
  BY ConstantTypes
<1>4. \A i \in 1 .. n : longer[i].captured_at \in Nat /\ longer[i].captured_at <= now
  <2>1. \A i \in 1 .. n - 1 : ring[i] \in Entries
    BY <1>1
  <2>2. \A i \in 1 .. n : i = n \/ i \in 1 .. n - 1
    BY <1>1
  <2> HIDE DEF longer, e
  <2>3. \A i \in 1 .. n - 1 : ring[i].captured_at \in Nat
    BY <2>1 DEF Entries
  <2> QED
    BY <1>1, <1>3, <2>2, <2>3
<1> HIDE DEF longer, e
<1>5. \A i, j \in 1 .. n : i < j => longer[i].captured_at <= longer[j].captured_at
  <2> SUFFICES ASSUME NEW i \in 1 .. n, NEW j \in 1 .. n, i < j
               PROVE  longer[i].captured_at <= longer[j].captured_at
    OBVIOUS
  <2>1. CASE j = n
    BY <1>1, <1>3, <1>4, <2>1
  <2>2. CASE j # n
    <3>1. i \in 1 .. n - 1 /\ j \in 1 .. n - 1
      BY <1>1, <2>2
    <3> QED
      BY <1>1, <3>1
  <2> QED
    BY <2>1, <2>2
<1>6. fresh \in SUBSET Nat /\ n \in fresh
  BY <1>1, <1>3
<1>7. first \in fresh /\ \A j \in fresh : first <= j
  <2> HIDE DEF fresh
  <2> QED
    BY <1>6, LeastExists
<1> HIDE DEF first
<1>8. first \in 1 .. n /\ \A i \in 1 .. n : i < first => now - longer[i].captured_at > Window
  <2>1. first \in 1 .. n
    BY <1>1, <1>7
  <2>2. ASSUME NEW i \in 1 .. n, i < first
        PROVE  now - longer[i].captured_at > Window
    <3>1. i \notin fresh
      BY <1>7, <2>1, <2>2 DEF fresh
    <3> QED
      BY <1>1, <1>3, <1>4, <3>1
  <2> QED
    BY <2>1, <2>2
<1>9. \A i \in 1 .. n : i >= first => now - longer[i].captured_at <= Window
  BY <1>1, <1>3, <1>4, <1>5, <1>7
<1> HIDE DEF fresh
<1>10. /\ SubSeq(longer, first, n) \in Seq(Entries)
       /\ Len(SubSeq(longer, first, n)) = n - first + 1
       /\ \A i \in 1 .. n - first + 1 : SubSeq(longer, first, n)[i] = longer[first + i - 1]
  BY <1>1, <1>8
<1> DEFINE d == first - 1
           q == Push(frame)
<1>11. d \in 0 .. n - 1
  BY <1>1, <1>8
<1>12. q \in Seq(Entries) /\ Len(q) = n - d /\ \A i \in 1 .. n - d : q[i] = longer[i + d]
  BY <1>1, <1>2, <1>8, <1>10
<1>13. \A i \in 1 .. n - 1 - d : i + d \in 1 .. n - 1 /\ i + d >= first /\ i \in 1 .. n - d
  BY <1>1, <1>8
<1>14. \A i \in 1 .. d : i \in 1 .. n - 1 /\ i < first
  BY <1>1, <1>8
<1>15. n - d \in 1 .. n - d /\ n - d + d = n
  BY <1>1, <1>11
<1> HIDE DEF d, q
<1>16. q[n - d] = e
  BY <1>1, <1>12, <1>15
<1>17. \A i \in 1 .. n - 1 - d : q[i] = ring[i + d] /\ now - ring[i + d].captured_at <= Window
  BY <1>1, <1>9, <1>12, <1>13
<1>18. \A i \in 1 .. d : now - ring[i].captured_at > Window
  BY <1>1, <1>8, <1>14
<1>19. /\ Len(ring) + 1 - d = n - d /\ Len(ring) - d = n - 1 - d
       /\ d \in 0 .. Len(ring)
  BY <1>1, <1>11
<1> HIDE DEF n
<1> QED
  BY <1>11, <1>12, <1>16, <1>17, <1>18, <1>19 DEF q, e

\* The time stamps of the frames are numbers.
Stamped == \A i \in 1 .. Len(ring) : started[ring[i].frame.epoch] \in Int

LEMMA PtsIsInt ==
  ASSUME ring \in Seq(Entries), Stamped, NEW i \in 1 .. Len(ring)
  PROVE  ring[i].frame \in Frames /\ Pts(ring[i].frame) \in Int
<1>1. ring[i] \in Entries
  OBVIOUS
<1>2. ring[i].frame \in Frames /\ ring[i].frame.at \in Int
  BY <1>1, ConstantTypes DEF Entries, Frames
<1> QED
  BY <1>2 DEF Pts, Stamped

LEMMA DistanceIsNat ==
  ASSUME NEW a \in Int, NEW b \in Int
  PROVE  Distance(a, b) \in Nat
  BY DEF Distance

\* Select finds the first of the closest.
LEMMA SelectEffect ==
  ASSUME ring \in Seq(Entries), ring # <<>>, Stamped, NEW target \in Int
  PROVE  \E i \in 1 .. Len(ring) :
           /\ Select(target) = ring[i].frame
           /\ \A j \in 1 .. Len(ring) :
                /\ Distance(Pts(ring[i].frame), target) <= Distance(Pts(ring[j].frame), target)
                /\ j < i => Distance(Pts(ring[i].frame), target)
                              < Distance(Pts(ring[j].frame), target)
<1> DEFINE n == Len(ring)
           away(i) == Distance(Pts(ring[i].frame), target)
           Best(i) == \A j \in 1 .. n : away(i) < away(j) \/ (away(i) = away(j) /\ i <= j)
           best == CHOOSE i \in DOMAIN ring :
                     \A j \in DOMAIN ring : away(i) < away(j) \/ (away(i) = away(j) /\ i <= j)
<1>1. n \in Nat /\ n >= 1 /\ DOMAIN ring = 1 .. n
  OBVIOUS
<1>2. \A i \in 1 .. n : away(i) \in Nat
  BY PtsIsInt, DistanceIsNat
<1>3. Select(target) = ring[best].frame
  BY DEF Select
<1>4. best = CHOOSE i \in 1 .. n : Best(i)
  BY <1>1
<1> HIDE DEF n, best, away
<1>5. \E i \in 1 .. n : Best(i)
  <2> DEFINE D == {away(i) : i \in 1 .. n}
  <2>1. D \in SUBSET Nat /\ D # {}
    BY <1>1, <1>2
  <2>2. PICK m \in D : \A y \in D : m <= y
    <3> HIDE DEF D
    <3> QED
      BY <2>1, LeastExists
  <2> DEFINE I == {i \in 1 .. n : away(i) = m}
  <2>3. I \in SUBSET Nat /\ I # {}
    BY <2>1, <2>2
  <2>4. PICK i \in I : \A j \in I : i <= j
    <3> HIDE DEF I
    <3> QED
      BY <2>3, LeastExists
  <2>5. i \in 1 .. n /\ away(i) = m
    OBVIOUS
  <2>6. ASSUME NEW j \in 1 .. n
        PROVE  away(i) < away(j) \/ (away(i) = away(j) /\ i <= j)
    <3>1. m <= away(j)
      BY <2>2
    <3>2. CASE away(j) = m
      BY <2>4, <2>5, <3>2
    <3>3. CASE away(j) # m
      BY <1>2, <2>5, <3>1, <3>3
    <3> QED
      BY <3>2, <3>3
  <2> QED
    BY <2>5, <2>6
<1>6. best \in 1 .. n /\ Best(best)
  <2> HIDE DEF Best
  <2> QED
    BY <1>4, <1>5
<1>7. \A j \in 1 .. n : /\ away(best) <= away(j)
                        /\ j < best => away(best) < away(j)
  BY <1>1, <1>2, <1>6
<1> QED
  BY <1>3, <1>6, <1>7 DEF n, away
-----------------------------------------------------------------------------
(* Epochs and the times of frames.                                         *)

Typed ==
  /\ TypeOK
  /\ channels \in [Epochs -> Seq(Frames)]
  /\ ring \in Seq(Entries)

LatestIn(st, c) == \A d \in Epochs : st[d] # None <=> d <= c

\* The streams stand where the running time does, but for a pause, and the Instants
\* have come at least as far.
Clocks ==
  /\ played + ahead <= now
  /\ resumed <= played
  /\ playing => ahead = 0

\* The epochs up to the current one have started, one after the other.
Timely ==
  /\ Clocks
  /\ Current \in Epochs /\ LatestIn(started, Current)
  /\ started[0] = 0
  /\ \A d \in Epochs : d <= Current =>
       started[d] \in 0 .. played /\ started[d] <= started[Current]
  /\ delivered # None => started[Current] <= delivered /\ delivered <= played

\* A frame of the current stream is one the probe has seen, a frame of an
\* earlier stream is no younger than the reconnect.
Born(f) ==
  /\ f \in Frames
  /\ f.epoch <= Current
  /\ started[f.epoch] <= f.at /\ f.at <= played
  /\ f.epoch = Current => delivered # None /\ f.at <= delivered
  /\ f.epoch < Current => f.at <= started[Current]

LEMMA LatestIs ==
  ASSUME NEW st, NEW c \in Epochs, LatestIn(st, c)
  PROVE  c = CHOOSE e \in Epochs :
               /\ st[e] # None
               /\ \A d \in Epochs : st[d] # None => d <= e
<1> DEFINE Is(e) == st[e] # None /\ \A d \in Epochs : st[d] # None => d <= e
<1>1. Is(c)
  BY DEF LatestIn, Epochs
<1>2. \A e \in Epochs : Is(e) => e = c
  BY <1>1 DEF Epochs
<1>3. c = CHOOSE e \in Epochs : Is(e)
  <2> HIDE DEF Is
  <2> QED
    BY <1>1, <1>2
<1> QED
  BY <1>3

LEMMA FrameType ==
  ASSUME NEW f \in Frames
  PROVE  f.epoch \in Epochs /\ f.epoch \in Nat /\ f.at \in 0 .. MaxTime /\ f.at \in Nat
  BY ConstantTypes DEF Frames, Epochs

LEMMA TimelyInit == Init => Timely
<1> SUFFICES ASSUME Init PROVE Timely
  OBVIOUS
<1>1. /\ played = 0 /\ delivered = None /\ started[0] = 0 /\ Clocks
      /\ \A d \in Epochs : started[d] # None <=> d <= 0
      /\ 0 \in Epochs
  BY WallAssumption, ConstantTypes DEF Init, Epochs, Clocks
<1>2. Current = 0
  BY <1>1, LatestIs DEF Current, LatestIn
<1>3. \A d \in Epochs : d <= 0 => d = 0
  BY ConstantTypes DEF Epochs
<1> QED
  BY <1>1, <1>2, <1>3 DEF Timely, LatestIn

\* The running time only grows, but for a resume.
Advances ==
  /\ {now', played', ahead', resumed'} \subseteq 0 .. MaxTime
  /\ run' \in 0 .. MaxPauses /\ playing' \in BOOLEAN
  /\ now <= now' /\ played <= played' /\ now - played <= now' - played'
  /\ \/ run' = run /\ resumed' = resumed /\ played + ahead <= played' + ahead'
     \/ run' = run + 1 /\ resumed' = played

\* What is true of a frame stays true, and so does what the clocks and the
\* probe have said.
Onwards ==
  /\ Timely'
  /\ Advances
  /\ Current <= Current'
  /\ \A d \in Epochs : d <= Current => started'[d] = started[d]
  /\ \A f \in Frames : Born(f) => Born(f)'

LEMMA ClockTypes ==
  ASSUME Typed, Timely
  PROVE  /\ now \in Nat /\ played \in Nat /\ ahead \in Nat /\ resumed \in Nat /\ run \in Nat
         /\ now \in 0 .. MaxTime /\ played \in 0 .. MaxTime /\ ahead \in 0 .. MaxTime
         /\ resumed \in 0 .. MaxTime /\ run \in 0 .. MaxPauses /\ playing \in BOOLEAN
         /\ played + ahead \in 0 .. MaxTime /\ played + ahead \in Nat
         /\ Clocks /\ MaxTime \in Nat
<1>1. /\ now \in 0 .. MaxTime /\ played \in 0 .. MaxTime /\ ahead \in 0 .. MaxTime
      /\ resumed \in 0 .. MaxTime /\ run \in 0 .. MaxPauses /\ playing \in BOOLEAN
  BY DEF Typed, TypeOK
<1>2. MaxTime \in Nat /\ MaxPauses \in Nat /\ Clocks
  BY ConstantTypes DEF Timely
<1> QED
  BY <1>1, <1>2 DEF Clocks

LEMMA Resting ==
  ASSUME Typed, Timely, UNCHANGED <<clockVars, started, delivered>>
  PROVE  Onwards /\ Current' = Current
<1>1. Current' = Current
  BY LatestIs DEF Timely, Current
<1>2. Current \in Nat
  BY DEF Timely, Epochs
<1>3. Advances
  BY ClockTypes DEF Advances
<1> QED
  BY <1>1, <1>2, <1>3 DEF Onwards, Timely, Clocks, Born

LEMMA ClockStep ==
  ASSUME Typed, Timely, Next
  PROVE  Onwards
<1> USE DEF windowVars, sharedVars, renderVars, chainVars
<1>t. /\ played \in 0 .. MaxTime /\ played \in Nat /\ Current \in Nat /\ Current \in Epochs
      /\ None \notin Int /\ started \in [Epochs -> {None} \cup 0 .. MaxTime]
      /\ delivered = None \/ delivered \in Nat
      /\ started[Current] \in Nat /\ started[Current] <= played
  <2>1. started \in [Epochs -> {None} \cup 0 .. MaxTime] /\ delivered \in {None} \cup 0 .. MaxTime
    BY DEF Typed, TypeOK
  <2>2. played \in 0 .. MaxTime /\ played \in Nat /\ None \notin Int
    BY ClockTypes, WallAssumption
  <2> QED
    BY <2>1, <2>2, ConstantTypes DEF Timely, Epochs
<1>f. ASSUME NEW f \in Frames
      PROVE  /\ f.epoch \in Epochs /\ f.epoch \in Nat /\ f.at \in Nat
             /\ f.epoch <= Current => started[f.epoch] \in Nat
  BY FrameType DEF Timely
<1>1. CASE Tick
  <2>1. /\ now' = now + 1 /\ now' \in 0 .. MaxTime
        /\ UNCHANGED <<playing, run, resumed, started, delivered>>
        /\ \/ playing /\ played' = played + 1 /\ ahead' = ahead
           \/ ~ playing /\ ahead' \in {ahead, ahead + 1} /\ played' = played
    <3>1. now \in Nat /\ now < MaxTime /\ now' = now + 1 /\ MaxTime \in Nat
      BY <1>1, ClockTypes DEF Tick
    <3> QED
      BY <1>1, <3>1 DEF Tick
  <2>2. Current' = Current
    BY <2>1, LatestIs DEF Timely, Current
  <2>3. Advances /\ Clocks'
    BY <2>1, ClockTypes DEF Advances, Clocks
  <2>4. Timely'
    BY <1>t, <2>1, <2>2, <2>3 DEF Timely
  <2>5. \A f \in Frames : Born(f) => Born(f)'
    BY <1>t, <1>f, <2>1, <2>2 DEF Born
  <2> QED
    BY <1>t, <2>1, <2>2, <2>3, <2>4, <2>5 DEF Onwards
<1>7. CASE TogglePlay
  <2>1. /\ UNCHANGED <<now, played, started, delivered>>
        /\ run < MaxPauses /\ playing' = ~ playing
        /\ IF playing
           THEN UNCHANGED <<ahead, run, resumed>>
           ELSE ahead' = 0 /\ run' = run + 1 /\ resumed' = played
    BY <1>7 DEF TogglePlay
  <2>2. Current' = Current
    BY <2>1, LatestIs DEF Timely, Current
  <2>3. Advances /\ Clocks'
    <3>1. run + 1 \in 0 .. MaxPauses
      BY <2>1, ClockTypes, ConstantTypes
    <3> QED
      BY <2>1, <3>1, ClockTypes DEF Advances, Clocks
  <2>4. Timely'
    BY <1>t, <2>1, <2>2, <2>3 DEF Timely
  <2>5. \A f \in Frames : Born(f) => Born(f)'
    BY <1>t, <1>f, <2>1, <2>2 DEF Born
  <2> QED
    BY <1>t, <2>1, <2>2, <2>3, <2>4, <2>5 DEF Onwards
<1>2. CASE Deliver
  <2>1. delivered' = played /\ UNCHANGED <<clockVars, started>>
    BY <1>2 DEF Deliver
  <2>c. Advances /\ Clocks'
    BY <2>1, ClockTypes DEF Advances, Clocks
  <2>2. Current' = Current
    BY <2>1, LatestIs DEF Timely, Current
  <2>3. Timely'
    BY <1>t, <2>1, <2>2, <2>c DEF Timely
  <2>4. \A f \in Frames : Born(f) => Born(f)'
    BY <1>t, <1>f, <2>1, <2>2 DEF Born
  <2> QED
    BY <1>t, <2>1, <2>2, <2>3, <2>4, <2>c DEF Onwards
<1>3. CASE Reconnect
  <2> DEFINE c == Current + 1
  <2>1. /\ c \in Epochs /\ c \in Nat
        /\ started' = [started EXCEPT ![c] = played] /\ delivered' = None
        /\ UNCHANGED clockVars
    BY <1>3, <1>t, ConstantTypes DEF Reconnect, Epochs
  <2>c. Advances /\ Clocks'
    BY <2>1, ClockTypes DEF Advances, Clocks
  <2>2. started'[c] = played /\ \A d \in Epochs : d # c => started'[d] = started[d]
    BY <1>t, <2>1
  <2>3. LatestIn(started', c)
    BY <1>t, <2>1, <2>2 DEF LatestIn, Timely, Epochs
  <2>4. Current' = c
    BY <2>1, <2>3, LatestIs DEF Current
  <2>5. \A d \in Epochs : d <= c => d = c \/ d <= Current
    BY <1>t DEF Epochs
  <2>6. \A d \in Epochs : d <= Current => started'[d] = started[d]
    BY <1>t, <2>2 DEF Epochs
  <2>7. started'[0] = 0
    BY <1>t, <2>6, ConstantTypes DEF Timely
  <2>8. Timely'
    <3>1. ASSUME NEW d \in Epochs, d <= c
          PROVE  started'[d] \in 0 .. played /\ started'[d] <= played
      BY <1>t, <2>2, <2>5, <2>6, <3>1 DEF Timely
    <3> QED
      BY <2>1, <2>2, <2>3, <2>4, <2>7, <2>c, <3>1 DEF Timely
  <2>9. \A f \in Frames : Born(f) => Born(f)'
    <3> SUFFICES ASSUME NEW f \in Frames, Born(f) PROVE Born(f)'
      OBVIOUS
    <3>1. /\ f.epoch \in Epochs /\ f.epoch \in Nat /\ f.at \in Nat
          /\ f.epoch <= Current /\ started[f.epoch] <= f.at /\ f.at <= played
      BY <1>f DEF Born
    <3>2. f.epoch < c /\ started'[f.epoch] = started[f.epoch]
      BY <1>t, <2>6, <3>1
    <3> QED
      BY <1>t, <2>1, <2>2, <2>4, <3>1, <3>2 DEF Born
  <2> QED
    BY <1>t, <2>1, <2>4, <2>6, <2>8, <2>9, <2>c DEF Onwards
<1>4. CASE UNCHANGED <<clockVars, started, delivered>>
  BY <1>4, Resting
<1>5. CASE \/ \E c \in Epochs : Capture(c)
           \/ Frame
           \/ \E offset \in Offsets : SetOffset(offset)
           \/ \E h \in Heights : Resized(h)
           \/ SpikeInit
           \/ SpikeHandles
           \/ Render
  BY <1>4, <1>5 DEF Capture, Frame, SetOffset, Resized, SpikeInit, SpikeHandles, Render,
     Acquire, Lock, CopySlots, Present
<1> QED
  BY <1>1, <1>2, <1>3, <1>5, <1>7 DEF Next
-----------------------------------------------------------------------------
(* The way of the frames: through one channel per epoch into the ring.     *)

\* What waits in the channel of an epoch is younger.
Later(c, at) == \A i \in 1 .. Len(channels[c]) : at < channels[c][i].at

Queued(c) ==
  /\ \A i \in 1 .. Len(channels[c]) : Born(channels[c][i]) /\ channels[c][i].epoch = c
  /\ \A i, j \in 1 .. Len(channels[c]) : i < j => channels[c][i].at < channels[c][j].at

RingBorn ==
  \A i \in 1 .. Len(ring) :
    /\ Born(ring[i].frame)
    /\ Later(ring[i].frame.epoch, ring[i].frame.at)
    /\ ring[i].captured_at <= now

RingSorted ==
  \A i, j \in 1 .. Len(ring) : i < j =>
    /\ ring[i].captured_at <= ring[j].captured_at
    /\ ring[i].frame.epoch = ring[j].frame.epoch => ring[i].frame.at < ring[j].frame.at

Flow == (\A c \in Epochs : Queued(c)) /\ RingBorn /\ RingSorted

LEMMA AppendAt ==
  ASSUME NEW S, NEW q \in Seq(S), NEW m \in S
  PROVE  /\ Append(q, m) \in Seq(S) /\ Len(Append(q, m)) = Len(q) + 1
         /\ \A i \in 1 .. Len(q) : Append(q, m)[i] = q[i]
         /\ Append(q, m)[Len(q) + 1] = m
  OBVIOUS

LEMMA TailAt ==
  ASSUME NEW S, NEW q \in Seq(S), q # <<>>
  PROVE  /\ Head(q) \in S /\ Head(q) = q[1] /\ 1 \in 1 .. Len(q)
         /\ Tail(q) \in Seq(S) /\ Len(Tail(q)) = Len(q) - 1
         /\ \A i \in 1 .. Len(q) - 1 : Tail(q)[i] = q[i + 1]
  OBVIOUS

LEMMA EntryType ==
  ASSUME Typed, NEW i \in 1 .. Len(ring)
  PROVE  /\ ring[i] \in Entries /\ ring[i].frame \in Frames
         /\ ring[i].frame.at \in Nat /\ ring[i].captured_at \in Nat
         /\ ring[i].frame.epoch \in Epochs
<1>1. ring[i] \in Entries
  BY DEF Typed
<1>2. ring[i].frame \in Frames /\ ring[i].captured_at \in Nat
  BY <1>1, ConstantTypes DEF Entries
<1> QED
  BY <1>1, <1>2, FrameType

\* Three things can happen to a channel.
Delivered(c) ==
  /\ c = Current /\ delivered # played
  /\ UNCHANGED <<clockVars, started, ring>>
  /\ delivered' = played
  /\ channels'[c] = Append(channels[c], [epoch |-> c, at |-> played])

Captured(c) ==
  /\ channels[c] # <<>>
  /\ channels'[c] = Tail(channels[c])
  /\ ring' = Push(Head(channels[c]))
  /\ UNCHANGED <<clockVars, started, delivered, missed>>

LEMMA ChannelStep ==
  ASSUME Typed, Timely, Next
  PROVE  /\ channels' \in [Epochs -> Seq(Frames)]
         /\ \A c \in Epochs : Len(channels'[c]) <= Channel
         /\ \A c \in Epochs : channels'[c] = channels[c] \/ Delivered(c) \/ Captured(c)
<1> USE DEF windowVars, sharedVars, renderVars, chainVars
<1>t. /\ channels \in [Epochs -> Seq(Frames)]
      /\ \A c \in Epochs : Len(channels[c]) <= Channel
      /\ Channel \in Nat
  BY ConstantTypes DEF Typed, TypeOK
<1>1. CASE Deliver
  <2> DEFINE f == [epoch |-> Current, at |-> played]
  <2>1. Current \in Epochs /\ f \in Frames
    BY DEF Timely, Typed, TypeOK, Frames
  <2>2. CASE Len(channels[Current]) < Channel
    <3>1. channels' = [channels EXCEPT ![Current] = Append(channels[Current], f)]
      BY <1>1, <2>2 DEF Deliver
    <3>2. /\ Append(channels[Current], f) \in Seq(Frames)
          /\ Len(Append(channels[Current], f)) = Len(channels[Current]) + 1
      BY <1>t, <2>1, AppendAt
    <3>3. Len(channels[Current]) + 1 <= Channel
      BY <1>t, <2>1, <2>2
    <3>4. \A c \in Epochs : channels'[c] = channels[c] \/ Delivered(c)
      BY <1>1, <1>t, <2>1, <3>1 DEF Deliver, Delivered
    <3> HIDE DEF f
    <3> QED
      BY <1>t, <2>1, <3>1, <3>2, <3>3, <3>4
  <2>3. CASE ~ (Len(channels[Current]) < Channel)
    BY <1>1, <1>t, <2>3 DEF Deliver
  <2> QED
    BY <2>2, <2>3
<1>2. ASSUME NEW e \in Epochs, Capture(e)
      PROVE  /\ channels' \in [Epochs -> Seq(Frames)]
             /\ \A c \in Epochs : Len(channels'[c]) <= Channel
             /\ \A c \in Epochs : channels'[c] = channels[c] \/ Captured(c)
  <2>1. /\ channels[e] # <<>>
        /\ channels' = [channels EXCEPT ![e] = Tail(channels[e])]
        /\ ring' = Push(Head(channels[e]))
        /\ UNCHANGED <<clockVars, started, delivered, missed>>
    BY <1>2 DEF Capture
  <2>2. /\ Tail(channels[e]) \in Seq(Frames)
        /\ Len(Tail(channels[e])) = Len(channels[e]) - 1
        /\ channels[e] \in Seq(Frames)
    BY <1>t, <2>1, TailAt
  <2>3. Len(channels[e]) - 1 <= Channel
    BY <1>t, <2>2
  <2> QED
    BY <1>t, <2>1, <2>2, <2>3 DEF Captured
<1>3. CASE channels' = channels
  BY <1>t, <1>3
<1>4. CASE \/ Tick \/ TogglePlay
           \/ Reconnect
           \/ Frame
           \/ \E offset \in Offsets : SetOffset(offset)
           \/ \E h \in Heights : Resized(h)
           \/ SpikeInit
           \/ SpikeHandles
           \/ Render
  BY <1>3, <1>4 DEF Tick, TogglePlay, Reconnect, Frame, SetOffset, Resized, SpikeInit, SpikeHandles,
     Render, Acquire, Lock, CopySlots, Present
<1> QED
  BY <1>1, <1>2, <1>4 DEF Next

\* A frame of the current stream is older than the one being delivered.
LEMMA Younger ==
  ASSUME Typed, Timely, NEW f \in Frames, Born(f), f.epoch = Current, delivered # played
  PROVE  f.at < played
  BY FrameType, ClockTypes, ConstantTypes DEF Born, Typed, TypeOK, Timely

LEMMA LaterStep ==
  ASSUME Typed, Timely, Next, NEW f \in Frames, Born(f), Later(f.epoch, f.at)
  PROVE  Later(f.epoch, f.at)'
<1> DEFINE c == f.epoch
           a == f.at
<1>1. c \in Epochs /\ a \in Nat /\ channels[c] \in Seq(Frames)
      /\ \A i \in 1 .. Len(channels[c]) : a < channels[c][i].at
  BY FrameType DEF Typed, Later
<1>2. channels'[c] = channels[c] \/ Delivered(c) \/ Captured(c)
  BY <1>1, ChannelStep
<1>3. CASE channels'[c] = channels[c]
  BY <1>3 DEF Later
<1>4. CASE Delivered(c)
  <2>1. a < played /\ played \in Nat
    BY <1>4, Younger, ClockTypes DEF Delivered
  <2> DEFINE g == [epoch |-> c, at |-> played]
  <2>2. g \in Frames /\ g.at = played
    BY <1>1, ClockTypes DEF Frames
  <2> HIDE DEF g, c, a
  <2>3. /\ channels'[c] = Append(channels[c], g)
        /\ Len(channels'[c]) = Len(channels[c]) + 1
        /\ \A i \in 1 .. Len(channels[c]) : channels'[c][i] = channels[c][i]
        /\ channels'[c][Len(channels[c]) + 1] = g
    BY <1>1, <1>4, <2>2, AppendAt DEF Delivered, g
  <2>4. \A i \in 1 .. Len(channels[c]) + 1 :
          i \in 1 .. Len(channels[c]) \/ i = Len(channels[c]) + 1
    BY <1>1
  <2>5. \A i \in 1 .. Len(channels'[c]) : a < channels'[c][i].at
    BY <1>1, <2>1, <2>2, <2>3, <2>4
  <2> QED
    BY <2>5 DEF Later, c, a
<1>5. CASE Captured(c)
  <2> HIDE DEF c, a
  <2>1. /\ Len(channels'[c]) = Len(channels[c]) - 1
        /\ \A i \in 1 .. Len(channels[c]) - 1 : channels'[c][i] = channels[c][i + 1]
    BY <1>1, <1>5, TailAt DEF Captured
  <2>2. \A i \in 1 .. Len(channels[c]) - 1 : i + 1 \in 1 .. Len(channels[c])
    BY <1>1
  <2>3. \A i \in 1 .. Len(channels'[c]) : a < channels'[c][i].at
    BY <1>1, <2>1, <2>2
  <2> QED
    BY <2>3 DEF Later, c, a
<1> QED
  BY <1>2, <1>3, <1>4, <1>5

\* A state in which every frame waiting is born, and they are sorted.
LEMMA QueuedNext ==
  ASSUME NEW c, NEW n, n = Len(channels'[c]),
         \A i \in 1 .. n : \E f \in Frames :
           f = channels'[c][i] /\ f.epoch = c /\ Born(f)',
         \A i, j \in 1 .. n : i < j => channels'[c][i].at < channels'[c][j].at
  PROVE  Queued(c)'
<1>1. ASSUME NEW i \in 1 .. n
      PROVE  Born(channels[c][i])' /\ channels'[c][i].epoch = c
  <2>1. PICK f \in Frames : f = channels'[c][i] /\ f.epoch = c /\ Born(f)'
    OBVIOUS
  <2> QED
    BY <2>1 DEF Born
<1> QED
  BY <1>1 DEF Queued

LEMMA QueuedStep ==
  ASSUME Typed, Timely, Onwards, Next, NEW c \in Epochs, Queued(c)
  PROVE  Queued(c)'
<1> DEFINE n == Len(channels[c])
           Passes(x) == \E f \in Frames : f = x /\ f.epoch = c /\ Born(f)'
<1>1. /\ channels[c] \in Seq(Frames) /\ n \in Nat /\ played \in Nat /\ played \in 0 .. MaxTime
      /\ \A i \in 1 .. n : /\ channels[c][i] \in Frames /\ channels[c][i].at \in Nat
                           /\ Born(channels[c][i]) /\ channels[c][i].epoch = c
      /\ \A i, j \in 1 .. n : i < j => channels[c][i].at < channels[c][j].at
  BY FrameType, ClockTypes DEF Typed, Queued
<1>2. ASSUME NEW i \in 1 .. n PROVE Passes(channels[c][i])
  <2>1. PICK f \in Frames : f = channels[c][i] /\ Born(f) /\ f.epoch = c
    BY <1>1
  <2>2. Born(f)'
    BY <2>1 DEF Onwards
  <2> QED
    BY <2>1, <2>2
<1>3. channels'[c] = channels[c] \/ Delivered(c) \/ Captured(c)
  BY ChannelStep
<1>4. CASE channels'[c] = channels[c]
  <2> HIDE DEF Passes
  <2>1. n = Len(channels'[c]) /\ \A i \in 1 .. n : Passes(channels'[c][i])
    BY <1>2, <1>4
  <2>2. \A i, j \in 1 .. n : i < j => channels'[c][i].at < channels'[c][j].at
    BY <1>1, <1>4
  <2> HIDE DEF n
  <2> QED
    BY <2>1, <2>2, QueuedNext DEF Passes
<1>5. CASE Delivered(c)
  <2> DEFINE g == [epoch |-> c, at |-> played]
  <2>1. g \in Frames /\ g.at = played /\ g.epoch = c
    BY <1>1 DEF Frames
  <2>2. PICK h \in Frames : h = g
    BY <2>1
  <2>3. Current' = Current
    BY <1>5, LatestIs DEF Delivered, Timely, Current
  <2>4. Born(h)'
    <3>1. h.epoch = Current /\ h.at = played
      BY <1>5, <2>1, <2>2 DEF Delivered
    <3>2. /\ Current' = Current /\ Current \in Nat
          /\ played' = played /\ started' = started /\ delivered' = played /\ played # None
          /\ started[Current] <= played
      BY <1>1, <1>5, <2>3, WallAssumption DEF Delivered, Timely, Epochs
    <3> QED
      BY <1>1, <3>1, <3>2 DEF Born
  <2> HIDE DEF g
  <2>5. /\ Len(channels'[c]) = n + 1
        /\ \A i \in 1 .. n : channels'[c][i] = channels[c][i]
        /\ channels'[c][n + 1] = g
    BY <1>1, <1>5, <2>1, AppendAt DEF Delivered, g
  <2>6. \A i \in 1 .. n : channels[c][i].at < played
    BY <1>1, <1>5, Younger DEF Delivered
  <2>7. \A i \in 1 .. n + 1 : i \in 1 .. n \/ i = n + 1
    BY <1>1
  <2> HIDE DEF n
  <2>8. \A i \in 1 .. n + 1 : Passes(channels'[c][i])
    <3>1. Passes(g)
      BY <2>1, <2>2, <2>4
    <3> HIDE DEF Passes
    <3> QED
      BY <1>2, <2>5, <2>7, <3>1
  <2>9. \A i, j \in 1 .. n + 1 : i < j => channels'[c][i].at < channels'[c][j].at
    <3> SUFFICES ASSUME NEW i \in 1 .. n + 1, NEW j \in 1 .. n + 1, i < j
                 PROVE  channels'[c][i].at < channels'[c][j].at
      OBVIOUS
    <3>1. i \in 1 .. n
      BY <1>1
    <3>2. CASE j = n + 1
      BY <2>1, <2>5, <2>6, <3>1, <3>2
    <3>3. CASE j \in 1 .. n
      BY <1>1, <2>5, <3>1, <3>3
    <3> QED
      BY <2>7, <3>2, <3>3
  <2> QED
    BY <2>5, <2>8, <2>9, QueuedNext
<1>6. CASE Captured(c)
  <2>1. /\ Len(channels'[c]) = n - 1
        /\ \A i \in 1 .. n - 1 : channels'[c][i] = channels[c][i + 1]
    BY <1>1, <1>6, TailAt DEF Captured
  <2>2. \A i \in 1 .. n - 1 : i + 1 \in 1 .. n
    BY <1>1
  <2> HIDE DEF n
  <2>3. \A i \in 1 .. n - 1 : Passes(channels'[c][i])
    <3> HIDE DEF Passes
    <3> QED
      BY <1>2, <2>1, <2>2
  <2>4. \A i, j \in 1 .. n - 1 : i < j => channels'[c][i].at < channels'[c][j].at
    <3> SUFFICES ASSUME NEW i \in 1 .. n - 1, NEW j \in 1 .. n - 1, i < j
                 PROVE  channels'[c][i].at < channels'[c][j].at
      OBVIOUS
    <3>1. i + 1 \in 1 .. n /\ j + 1 \in 1 .. n /\ i + 1 < j + 1
      BY <1>1
    <3> QED
      BY <1>1, <2>1, <3>1
  <2> QED
    BY <2>1, <2>3, <2>4, QueuedNext
<1> QED
  BY <1>3, <1>4, <1>5, <1>6
\* The ring changes by a capture only: the front goes, the head of a channel
\* comes.
LEMMA RingStep ==
  ASSUME Typed, Next, ring' # ring
  PROVE  \E c \in Epochs : Captured(c)
<1>1. PICK c \in Epochs : Capture(c)
  <2>1. ~ (Tick \/ TogglePlay \/ Deliver \/ Reconnect \/ SpikeInit \/ SpikeHandles \/ Render \/ Frame)
    BY DEF Tick, TogglePlay, Deliver, Reconnect, Frame, SpikeInit, SpikeHandles, Render,
       Acquire, Lock, CopySlots, Present, chainVars
  <2>2. /\ \A offset \in Offsets : ~ SetOffset(offset)
        /\ \A h \in Heights : ~ Resized(h)
    BY DEF SetOffset, Resized, chainVars
  <2> QED
    BY <2>1, <2>2 DEF Next
<1> QED
  BY <1>1 DEF Capture, Captured, Typed

\* The ring after a capture of f from the channel of c: d entries have gone.
Shifted(f, d) ==
  /\ d \in 0 .. Len(ring)
  /\ Len(ring') = Len(ring) + 1 - d
  /\ ring'[Len(ring) + 1 - d] = [frame |-> f, captured_at |-> now]
  /\ \A i \in 1 .. Len(ring) - d : ring'[i] = ring[i + d]
  /\ \A i \in 1 .. Len(ring) - d : now - ring[i + d].captured_at <= Window
  /\ \A i \in 1 .. d : now - ring[i].captured_at > Window

LEMMA CaptureEffect ==
  ASSUME Typed, Timely, Flow, NEW c \in Epochs, Captured(c),
         channels' \in [Epochs -> Seq(Frames)]
  PROVE  \E f \in Frames, d \in Nat :
           /\ f = channels[c][1] /\ channels[c] # <<>>
           /\ f.epoch = c /\ Born(f)
           /\ Later(c, f.at)'
           /\ ring' \in Seq(Entries)
           /\ Shifted(f, d)
<1> DEFINE n == Len(channels[c])
<1>1. /\ channels[c] \in Seq(Frames) /\ channels[c] # <<>> /\ n \in Nat
      /\ Head(channels[c]) \in Frames /\ Head(channels[c]) = channels[c][1]
      /\ 1 \in 1 .. n
      /\ Len(channels'[c]) = n - 1
      /\ \A i \in 1 .. n - 1 : channels'[c][i] = channels[c][i + 1]
      /\ ring' = Push(Head(channels[c]))
  BY TailAt DEF Captured, Typed
<1>2. PICK f \in Frames : f = Head(channels[c])
  BY <1>1
<1>3. /\ Born(f) /\ f.epoch = c
      /\ \A j \in 1 .. n : 1 < j => f.at < channels[c][j].at
  BY <1>1, <1>2 DEF Flow, Queued
<1>4. \A i \in 1 .. n - 1 : i + 1 \in 1 .. n /\ 1 < i + 1
  BY <1>1
<1> HIDE DEF n
<1>5. Later(c, f.at)'
  <2>1. \A i \in 1 .. n - 1 : f.at < channels'[c][i].at
    BY <1>1, <1>3, <1>4
  <2> QED
    BY <1>1, <2>1 DEF Later
<1>6. /\ Push(f) \in Seq(Entries)
      /\ \E d \in 0 .. Len(ring) :
           /\ Len(Push(f)) = Len(ring) + 1 - d
           /\ Push(f)[Len(ring) + 1 - d] = [frame |-> f, captured_at |-> now]
           /\ \A i \in 1 .. Len(ring) - d : Push(f)[i] = ring[i + d]
           /\ \A i \in 1 .. Len(ring) - d : now - ring[i + d].captured_at <= Window
           /\ \A i \in 1 .. d : now - ring[i].captured_at > Window
  <2>1. /\ now \in 0 .. MaxTime /\ ring \in Seq(Entries)
        /\ \A i \in 1 .. Len(ring) : ring[i].captured_at <= now
        /\ \A i, j \in 1 .. Len(ring) :
             i < j => ring[i].captured_at <= ring[j].captured_at
    BY ClockTypes DEF Typed, Flow, RingBorn, RingSorted
  <2> QED
    BY <2>1, PushEffect
<1>7. ring' = Push(f)
  BY <1>1, <1>2
<1>8. PICK d \in 0 .. Len(ring) : Shifted(f, d)
  BY <1>6, <1>7 DEF Shifted
<1>9. d \in Nat /\ ring' \in Seq(Entries)
  BY <1>6, <1>7
<1> QED
  BY <1>1, <1>2, <1>3, <1>5, <1>8, <1>9

\* Each entry of the ring after the capture is an old one, or the new one.
LEMMA ShiftedEntries ==
  ASSUME Typed, NEW f \in Frames, NEW d \in Nat, Shifted(f, d)
  PROVE  \A i \in 1 .. Len(ring') :
           \/ /\ i < Len(ring') /\ i + d \in 1 .. Len(ring)
              /\ ring'[i] = ring[i + d] /\ now - ring'[i].captured_at <= Window
           \/ /\ i = Len(ring')
              /\ ring'[i] = [frame |-> f, captured_at |-> now]
<1> SUFFICES ASSUME NEW i \in 1 .. Len(ring')
             PROVE  \/ /\ i < Len(ring') /\ i + d \in 1 .. Len(ring)
                       /\ ring'[i] = ring[i + d] /\ now - ring'[i].captured_at <= Window
                    \/ /\ i = Len(ring')
                       /\ ring'[i] = [frame |-> f, captured_at |-> now]
  OBVIOUS
<1>1. Len(ring) \in Nat /\ d <= Len(ring) /\ Len(ring') = Len(ring) + 1 - d
  BY DEF Typed, Shifted
<1>2. CASE i = Len(ring')
  BY <1>1, <1>2 DEF Shifted
<1>3. CASE i # Len(ring')
  <2>1. i \in 1 .. Len(ring) - d /\ i + d \in 1 .. Len(ring) /\ i < Len(ring')
    BY <1>1, <1>3
  <2> QED
    BY <2>1 DEF Shifted
<1> QED
  BY <1>2, <1>3

\* The invariants of an entry of the ring, said of a state that is to come.
LEMMA RingBornNext ==
  ASSUME \A i \in 1 .. Len(ring') : \E f \in Frames :
           /\ f = ring'[i].frame /\ Born(f)' /\ Later(f.epoch, f.at)'
           /\ ring'[i].captured_at <= now'
  PROVE  RingBorn'
<1> SUFFICES ASSUME NEW i \in 1 .. Len(ring')
             PROVE  /\ Born(ring[i].frame)'
                    /\ Later(ring[i].frame.epoch, ring[i].frame.at)'
                    /\ ring'[i].captured_at <= now'
  BY DEF RingBorn
<1>1. PICK f \in Frames :
        /\ f = ring'[i].frame /\ Born(f)' /\ Later(f.epoch, f.at)'
        /\ ring'[i].captured_at <= now'
  OBVIOUS
<1> QED
  BY <1>1 DEF Born, Later

LEMMA FlowStep ==
  ASSUME Typed, Timely, Flow, Next
  PROVE  Flow' /\ ring' \in Seq(Entries)
<1>1. Onwards /\ now \in Nat /\ now' \in Int /\ now' >= now
  BY ClockStep, ClockTypes DEF Onwards, Advances
<1>2. \A c \in Epochs : Queued(c)'
  <2> SUFFICES ASSUME NEW c \in Epochs PROVE Queued(c)'
    OBVIOUS
  <2> QED
    BY <1>1, QueuedStep DEF Flow
<1> DEFINE Holds(e) == \E f \in Frames :
             /\ f = e.frame /\ Born(f)' /\ Later(f.epoch, f.at)'
             /\ e.captured_at <= now'
<1>3. ASSUME NEW i \in 1 .. Len(ring)
      PROVE  Holds(ring[i])
  <2>1. PICK f \in Frames : f = ring[i].frame
    BY EntryType
  <2>2. /\ Born(f) /\ Later(f.epoch, f.at)
        /\ ring[i].captured_at <= now
        /\ ring[i].captured_at \in Nat
    BY <2>1, EntryType DEF Flow, RingBorn
  <2>3. Born(f)' /\ Later(f.epoch, f.at)'
    BY <1>1, <2>2, LaterStep DEF Onwards
  <2> QED
    BY <1>1, <2>1, <2>2, <2>3
<1>4. CASE ring' = ring
  <2>1. \A i \in 1 .. Len(ring') : Holds(ring'[i])
    <3> HIDE DEF Holds
    <3> QED
      BY <1>3, <1>4
  <2>2. RingBorn'
    BY <2>1, RingBornNext
  <2>3. RingSorted'
    BY <1>4 DEF Flow, RingSorted
  <2> QED
    BY <1>2, <1>4, <2>2, <2>3 DEF Flow, Typed
<1>5. CASE ring' # ring
  <2>1. PICK c \in Epochs : Captured(c)
    BY <1>5, RingStep
  <2>2. PICK f \in Frames, d \in Nat :
          /\ f = channels[c][1] /\ channels[c] # <<>>
          /\ f.epoch = c /\ Born(f)
          /\ Later(c, f.at)'
          /\ ring' \in Seq(Entries)
          /\ Shifted(f, d)
    BY <2>1, ChannelStep, CaptureEffect
  <2> DEFINE g == [frame |-> f, captured_at |-> now]
  <2>3. \A i \in 1 .. Len(ring') :
          \/ /\ i < Len(ring') /\ i + d \in 1 .. Len(ring)
             /\ ring'[i] = ring[i + d] /\ now - ring'[i].captured_at <= Window
          \/ /\ i = Len(ring') /\ ring'[i] = g
    BY <2>2, ShiftedEntries
  <2>4. Holds(g)
    <3>1. Born(f)'
      BY <1>1, <2>2 DEF Onwards, Born
    <3> QED
      BY <1>1, <2>2, <3>1
  <2>5. RingBorn'
    <3>1. \A i \in 1 .. Len(ring') : Holds(ring'[i])
      <4> HIDE DEF Holds, g
      <4> QED
        BY <1>3, <2>3, <2>4
    <3> QED
      BY <3>1, RingBornNext
  <2>6. RingSorted'
    <3> SUFFICES ASSUME NEW i \in 1 .. Len(ring'), NEW j \in 1 .. Len(ring'), i < j
                 PROVE  /\ ring'[i].captured_at <= ring'[j].captured_at
                        /\ ring'[i].frame.epoch = ring'[j].frame.epoch
                             => ring'[i].frame.at < ring'[j].frame.at
      BY DEF RingSorted
    <3>0. Len(ring') \in Nat
      BY <2>2
    <3>1. i + d \in 1 .. Len(ring) /\ ring'[i] = ring[i + d]
      BY <2>3, <3>0
    <3>2. CASE j = Len(ring')
      <4>1. ring'[j].frame = f /\ ring'[j].captured_at = now
        BY <2>3, <3>0, <3>2
      <4>2. Later(ring[i + d].frame.epoch, ring[i + d].frame.at)
            /\ ring[i + d].captured_at <= now
        BY <3>1 DEF Flow, RingBorn
      <4>3. 1 \in 1 .. Len(channels[c])
        BY <2>2, TailAt DEF Typed
      <4>4. ring[i + d].frame.epoch = c => ring[i + d].frame.at < f.at
        BY <2>2, <4>2, <4>3 DEF Later
      <4> QED
        BY <2>2, <3>1, <4>1, <4>2, <4>4
    <3>3. CASE j # Len(ring')
      <4>1. j + d \in 1 .. Len(ring) /\ ring'[j] = ring[j + d] /\ i + d < j + d
        BY <2>3, <3>3
      <4> QED
        BY <3>1, <4>1 DEF Flow, RingSorted
    <3> QED
      BY <3>2, <3>3
  <2> QED
    BY <1>2, <2>2, <2>5, <2>6 DEF Flow
<1> QED
  BY <1>4, <1>5
-----------------------------------------------------------------------------
(* What is shown.                                                          *)

LEMMA StampedFrames == ASSUME Typed, Timely, Flow PROVE Stamped
<1> SUFFICES ASSUME NEW i \in 1 .. Len(ring)
             PROVE  started[ring[i].frame.epoch] \in Int
  BY DEF Stamped
<1>1. Born(ring[i].frame) /\ ring[i].frame.epoch \in Epochs
  BY EntryType DEF Flow, RingBorn
<1> QED
  BY <1>1 DEF Born, Timely

LEMMA TargetIsNat ==
  ASSUME NEW time \in Nat, NEW offset \in Int
  PROVE  Target(time, offset) \in Int
  BY DEF Target

\* The i-th entry is the first of those closest to the target.
Closest(i, target) ==
  /\ i \in 1 .. Len(ring)
  /\ \A j \in 1 .. Len(ring) :
       /\ Distance(Pts(ring[i].frame), target) <= Distance(Pts(ring[j].frame), target)
       /\ j < i => Distance(Pts(ring[i].frame), target)
                     < Distance(Pts(ring[j].frame), target)

LEMMA ShownEffect ==
  ASSUME Typed, Timely, Flow, NEW basis, basis.time \in Nat, NEW offset \in Int
  PROVE  /\ ring = <<>> => Shown(basis, offset) = slot
         /\ ring # <<>> => \E i \in 1 .. Len(ring) :
              /\ Shown(basis, offset)
                   = [frame |-> ring[i].frame, offset |-> offset, run |-> basis.run]
              /\ Closest(i, Target(basis.time, offset))
<1>1. CASE ring = <<>>
  BY <1>1 DEF Shown
<1>2. CASE ring # <<>>
  <2> DEFINE t == Target(basis.time, offset)
  <2>1. PICK i \in 1 .. Len(ring) : Select(t) = ring[i].frame /\ Closest(i, t)
    <3>1. t \in Int /\ ring \in Seq(Entries)
      BY TargetIsNat DEF Typed
    <3> HIDE DEF t
    <3> QED
      BY <1>2, <3>1, SelectEffect, StampedFrames DEF Closest
  <2>2. Shown(basis, offset)
          = [frame |-> ring[i].frame, offset |-> offset, run |-> basis.run]
    BY <1>2, <2>1 DEF Shown
  <2> QED
    BY <1>2, <2>1, <2>2
<1> QED
  BY <1>1, <1>2

LEMMA ShownType ==
  ASSUME Typed, Timely, Flow, NEW basis, basis.time \in Nat, basis.run \in 0 .. MaxPauses,
         NEW offset \in Int
  PROVE  Shown(basis, offset) \in {None} \cup Slots
<1>1. CASE ring = <<>>
  BY <1>1, ShownEffect DEF Typed, TypeOK
<1>2. CASE ring # <<>>
  <2>1. PICK i \in 1 .. Len(ring) :
          Shown(basis, offset)
            = [frame |-> ring[i].frame, offset |-> offset, run |-> basis.run]
    BY <1>2, ShownEffect
  <2> QED
    BY <2>1, EntryType DEF Slots
<1> QED
  BY <1>1, <1>2

\* Two running times: the one was published no later than the other.
NoLater(a, b) == a.run <= b.run /\ (a.run = b.run => a.time <= b.time)

\* What the render thread has read, and what there is to be read.
Reading ==
  /\ shared # None <=> window_size # None
  /\ pc # "none" => shared # None
  /\ NoLater(running, current_running_time)
  /\ pc \in {"lock", "copy", "present"} => NoLater(read, running)
  /\ pc = "present" => read.offset \in Offsets

\* The running time as it is read now, and after the step.
LEMMA ClockReads ==
  ASSUME Typed, Timely
  PROVE  /\ current_running_time \in Times
         /\ current_running_time.time = played + ahead /\ current_running_time.run = run
         /\ running \in Times /\ running.time \in Nat /\ running.run \in Nat
         /\ read.time \in Nat /\ read.run \in Nat
         /\ read.time \in 0 .. MaxTime /\ read.run \in 0 .. MaxPauses /\ read.offset \in Int
<1>1. running \in Times /\ read \in [time : 0 .. MaxTime, run : 0 .. MaxPauses, offset : Int]
  BY DEF Typed, TypeOK
<1>2. MaxTime \in Nat /\ MaxPauses \in Nat
  BY ConstantTypes
<1> QED
  BY <1>1, <1>2, ClockTypes DEF Times, current_running_time

\* What was published no later stays so, for the clock never moves back in a run.
LEMMA ClockAfter ==
  ASSUME Typed, Timely, Next, NEW a, a.time \in Nat, a.run \in Nat,
         NoLater(a, current_running_time)
  PROVE  NoLater(a, current_running_time')
<1>1. /\ played \in Nat /\ ahead \in Nat /\ run \in Nat
      /\ a.run <= run /\ (a.run = run => a.time <= played + ahead)
  BY ClockTypes DEF NoLater, current_running_time
<1>2. /\ played' \in Nat /\ ahead' \in Nat /\ run' \in Nat
      /\ \/ run' = run /\ played + ahead <= played' + ahead'
         \/ run' = run + 1
  BY ClockStep, ConstantTypes DEF Onwards, Advances
<1>3. current_running_time' = [time |-> played' + ahead', run |-> run']
  BY DEF current_running_time
<1>4. PICK b : b = current_running_time'
  OBVIOUS
<1>5. b.time = played' + ahead' /\ b.run = run'
  BY <1>3, <1>4
<1>6. a.run <= run' /\ (a.run = run' => a.time <= played' + ahead')
  <2>1. CASE run' = run
    <3>1. run' # run + 1
      BY <1>1, <2>1
    <3>2. played + ahead <= played' + ahead'
      BY <1>2, <3>1, Zenon
    <3>3. ASSUME a.run = run'
          PROVE  a.time <= played' + ahead'
      <4>1. a.time <= played + ahead
        BY <1>1, <2>1, <3>3
      <4> QED
        BY <1>1, <1>2, <3>2, <4>1, SumsInOrder
    <3>4. a.run <= run'
      BY <1>1, <2>1
    <3> QED
      BY <3>3, <3>4
  <2>2. CASE run' = run + 1
    BY <1>1, <2>2
  <2> QED
    BY <1>2, <2>1, <2>2
<1>7. NoLater(a, b)
  BY <1>5, <1>6 DEF NoLater
<1> QED
  BY <1>4, <1>7

LEMMA SubHeightIsNat ==
  ASSUME NEW h \in Heights
  PROVE  SubHeight(h) \in Nat
  BY WallAssumption DEF SubHeight

LEMMA ReadingStep ==
  ASSUME Typed, Timely, Reading, Next
  PROVE  Reading'
<1> USE DEF windowVars, sharedVars, renderVars, chainVars
<1>t. /\ None \notin Int /\ running \in Times
      /\ read \in [time : 0 .. MaxTime, run : 0 .. MaxPauses, offset : Int]
      /\ shared \in {None} \cup Offsets /\ Offsets \subseteq Int
  BY WallAssumption DEF Typed, TypeOK
<1>p. NoLater(running, current_running_time')
  BY ClockReads, ClockAfter DEF Reading
<1>0. ASSUME UNCHANGED <<sharedVars, renderVars>>
      PROVE  Reading'
  BY <1>0, <1>p DEF Reading
<1>c. UNCHANGED clockVars => current_running_time' = current_running_time
  BY DEF current_running_time
<1>1. CASE Tick \/ TogglePlay \/ Deliver \/ Reconnect \/ SpikeInit
  BY <1>0, <1>1 DEF Tick, TogglePlay, Deliver, Reconnect, SpikeInit
<1>2. ASSUME NEW c \in Epochs, Capture(c)
      PROVE  Reading'
  BY <1>0, <1>2 DEF Capture
<1>3. CASE Frame
  <2>1. CASE SubActive
    <3>1. /\ running' = current_running_time /\ UNCHANGED <<clockVars, pc, read, window_size>>
          /\ shared # None /\ shared' # None
      BY <1>3, <1>t, <2>1, WallAssumption DEF Frame, SubActive, Typed, TypeOK
    <3>2. NoLater(running', current_running_time')
      BY <1>c, <3>1, ClockReads DEF NoLater, Times
    <3>3. pc \in {"lock", "copy", "present"} => NoLater(read, running')
      <4>1. /\ running.run <= run /\ (running.run = run => running.time <= played + ahead)
            /\ running.time \in Nat /\ running.run \in Nat /\ run \in Nat
            /\ read.time \in Nat /\ read.run \in Nat /\ played + ahead \in Nat
            /\ running'.time = played + ahead /\ running'.run = run
        BY <3>1, ClockReads, ClockTypes DEF Reading, NoLater
      <4> QED
        BY <4>1 DEF Reading, NoLater
    <3> QED
      BY <3>1, <3>2, <3>3 DEF Reading
  <2>2. CASE ~ SubActive
    BY <1>3, <1>p, <2>2 DEF Frame, SubActive, Reading
  <2> QED
    BY <2>1, <2>2
<1>4. ASSUME NEW offset \in Offsets, SetOffset(offset)
      PROVE  Reading'
  BY <1>0, <1>4 DEF SetOffset
<1>5. ASSUME NEW h \in Heights, Resized(h)
      PROVE  Reading'
  BY <1>5, <1>t, <1>p, SubHeightIsNat, WallAssumption DEF Resized, Reading
<1>6. CASE SpikeHandles
  <2>1. CASE build_render_slots /\ window_size' = SubHeight(handles) /\ SetUp(handles)
    <3>1. SubHeight(handles) \in Nat
      BY <1>6, SubHeightIsNat DEF SpikeHandles, Typed, TypeOK
    <3>2. shared' # None /\ window_size' # None /\ UNCHANGED <<running, read>>
      BY <1>6, <1>t, <2>1, <3>1, WallAssumption
         DEF SpikeHandles, build_render_slots, Typed, TypeOK
    <3>3. pc' \in {"acquire", "dead"}
      BY <2>1 DEF SetUp
    <3> QED
      BY <1>p, <3>2, <3>3 DEF Reading
  <2>2. CASE UNCHANGED <<shared, window_size, pc, config, slot>>
    BY <1>0, <1>6, <2>2 DEF SpikeHandles
  <2> QED
    BY <1>6, <2>1, <2>2 DEF SpikeHandles
<1>7. CASE Acquire
  <2>1. /\ UNCHANGED <<shared, window_size, running>> /\ pc = "acquire"
        /\ \/ read' = [read EXCEPT !.time = running.time, !.run = running.run] /\ pc' = "lock"
           \/ pc' \in {"acquire", "dead"}
    BY <1>7 DEF Acquire
  <2>2. pc' = "lock" => NoLater(read', running)
    <3> SUFFICES ASSUME pc' = "lock" PROVE NoLater(read', running)
      OBVIOUS
    <3>1. read'.time = running.time /\ read'.run = running.run
      BY <1>t, <2>1
    <3> QED
      BY <3>1, ClockReads DEF NoLater
  <2> QED
    BY <1>p, <2>1, <2>2 DEF Reading
<1>8. CASE Lock
  BY <1>8, <1>p, <1>t DEF Lock, Reading
<1>9. CASE CopySlots
  <2>1. /\ UNCHANGED <<shared, window_size, running>> /\ pc = "copy" /\ pc' = "present"
        /\ read' = [read EXCEPT !.offset = shared]
    BY <1>9 DEF CopySlots
  <2>2. read'.time = read.time /\ read'.run = read.run /\ read'.offset = shared
    BY <1>t, <2>1
  <2>3. NoLater(read', running) /\ shared \in Offsets
    BY <1>t, <2>1, <2>2 DEF Reading, NoLater
  <2> QED
    BY <1>p, <2>1, <2>2, <2>3 DEF Reading
<1>10. CASE Present
  BY <1>10, <1>p, <1>t DEF Present, Reading
<1> QED
  BY <1>1, <1>2, <1>3, <1>4, <1>5, <1>6, <1>7, <1>8, <1>9, <1>10 DEF Next, Render

LEMMA TypeStep ==
  ASSUME Typed, Timely, Flow, Reading, Next
  PROVE  Typed'
<1> USE DEF windowVars, sharedVars, renderVars, chainVars
<1>t. TypeOK /\ Offsets \subseteq Int /\ Heights \subseteq Nat
      /\ MaxEdits \in Nat /\ MaxMissed \in Nat /\ None \notin Int
  BY WallAssumption, ConstantTypes DEF Typed
<1>1. /\ channels' \in [Epochs -> Seq(Frames)]
      /\ \A c \in Epochs : Len(channels'[c]) <= Channel
  BY ChannelStep
<1>2. ring' \in Seq(Entries)
  BY FlowStep
<1>3. \A i \in DOMAIN ring' : ring'[i] \in [frame : Frames, captured_at : 0 .. MaxTime]
  <2>1. \A i \in DOMAIN ring' : ring'[i] \in Entries
    BY <1>2
  <2> QED
    BY <2>1 DEF Entries
<1>4. /\ {now', played', ahead', resumed'} \subseteq 0 .. MaxTime
      /\ run' \in 0 .. MaxPauses /\ playing' \in BOOLEAN
  BY ClockStep DEF Onwards, Advances
<1>5. /\ current_running_time \in Times
      /\ current_running_time.time \in Nat /\ current_running_time.run \in 0 .. MaxPauses
  BY ClockReads, ClockTypes
<1>6. /\ read.time \in Nat /\ read.time \in 0 .. MaxTime
      /\ read.run \in 0 .. MaxPauses /\ read.offset \in Int
      /\ running.time \in 0 .. MaxTime /\ running.run \in 0 .. MaxPauses
  BY ClockReads DEF Times
<1> DEFINE OthersTyped ==
      /\ started' \in [Epochs -> {None} \cup 0 .. MaxTime]
      /\ delivered' \in {None} \cup 0 .. MaxTime
      /\ missed' \in 0 .. MaxMissed
      /\ win' \in Heights
      /\ height' \in Heights
      /\ opened' \in BOOLEAN /\ overtaken' \in BOOLEAN
      /\ handles' \in {None} \cup Heights
      /\ row_offset' \in Offsets
      /\ edits' \in 0 .. MaxEdits
      /\ shared' \in {None} \cup Offsets
      /\ locked' \in BOOLEAN
      /\ running' \in Times
      /\ window_size' \in {None} \cup Nat
      /\ pc' \in {"none", "acquire", "lock", "copy", "present", "dead"}
      /\ config' \in Nat
      /\ read' \in [time : 0 .. MaxTime, run : 0 .. MaxPauses, offset : Int]
      /\ slot' \in {None} \cup Slots
<1> SUFFICES OthersTyped
  BY <1>1, <1>2, <1>3, <1>4 DEF Typed, TypeOK
<1>m. ASSUME NEW one, Misses(one) PROVE missed' \in 0 .. MaxMissed
  BY <1>m, <1>t DEF Misses, TypeOK
<1>h. win \in Heights /\ height \in Heights /\ overtaken \in BOOLEAN
  BY <1>t DEF TypeOK
<1>7. CASE Tick \/ TogglePlay \/ Deliver
  BY <1>7, <1>h, <1>m, <1>t DEF Tick, TogglePlay, Deliver, TypeOK
<1>8. CASE Reconnect
  <2>1. played \in 0 .. MaxTime
    BY ClockTypes
  <2> QED
    BY <1>8, <1>h, <1>t, <2>1 DEF Reconnect, TypeOK
<1>9. ASSUME NEW c \in Epochs, Capture(c)
      PROVE  OthersTyped
  BY <1>9, <1>h, <1>t DEF Capture, TypeOK
<1>10. CASE Frame
  <2>1. Shown(current_running_time, row_offset) \in {None} \cup Slots
    BY <1>t, <1>5, ShownType DEF TypeOK
  <2> HIDE DEF current_running_time
  <2> QED
    BY <1>10, <1>h, <1>t, <1>5, <2>1 DEF Frame, TypeOK
<1>11. ASSUME NEW offset \in Offsets, SetOffset(offset)
      PROVE  OthersTyped
  BY <1>11, <1>h, <1>t DEF SetOffset, TypeOK
<1>12. ASSUME NEW h \in Heights, Resized(h)
       PROVE  OthersTyped
  BY <1>12, <1>h, <1>t, SubHeightIsNat DEF Resized, TypeOK
<1>13. CASE SpikeInit
  BY <1>13, <1>h, <1>t DEF SpikeInit, TypeOK
<1>14. CASE SpikeHandles
  <2>1. handles \in Heights /\ SubHeight(handles) \in Nat
    BY <1>14, <1>t, SubHeightIsNat DEF SpikeHandles, TypeOK
  <2> QED
    BY <1>14, <1>h, <1>t, <2>1 DEF SpikeHandles, build_render_slots, SetUp, TypeOK
<1>15. CASE Acquire
  BY <1>15, <1>h, <1>t, <1>6 DEF Acquire, Reading, TypeOK
<1>16. CASE Lock \/ CopySlots
  BY <1>16, <1>h, <1>t DEF Lock, CopySlots, Reading, TypeOK
<1>17. CASE Present
  <2>1. Shown(read, read.offset) \in {None} \cup Slots
    BY <1>6, ShownType
  <2>2. Unread \in [time : 0 .. MaxTime, run : 0 .. MaxPauses, offset : Int]
    BY ConstantTypes DEF Unread
  <2> QED
    BY <1>17, <1>h, <1>t, <2>1, <2>2 DEF Present, TypeOK
<1> QED
  BY <1>7, <1>8, <1>9, <1>10, <1>11, <1>12, <1>13, <1>14, <1>15, <1>16, <1>17
  DEF Next, Render

LEMMA TypeInit == Init => Typed /\ Flow /\ Reading
<1> SUFFICES ASSUME Init PROVE Typed /\ Flow /\ Reading
  OBVIOUS
<1>1. TypeOK
  <2>1. /\ {now, played, ahead, resumed} \subseteq 0 .. MaxTime /\ playing \in BOOLEAN
        /\ run \in 0 .. MaxPauses /\ missed \in 0 .. MaxMissed /\ edits \in 0 .. MaxEdits
        /\ started \in [Epochs -> {None} \cup 0 .. MaxTime]
        /\ delivered \in {None} \cup 0 .. MaxTime
    BY ConstantTypes, WallAssumption DEF Init
  <2>2. /\ \A c \in Epochs : channels[c] \in Seq(Frames) /\ Len(channels[c]) <= Channel
        /\ \A i \in DOMAIN ring : ring[i] \in [frame : Frames, captured_at : 0 .. MaxTime]
    BY WallAssumption DEF Init
  <2>3. /\ {win, height} \subseteq Heights /\ handles \in {None} \cup Heights
        /\ opened \in BOOLEAN /\ overtaken \in BOOLEAN
        /\ row_offset \in Offsets /\ shared \in {None} \cup Offsets /\ locked \in BOOLEAN
    BY WallAssumption DEF Init
  <2>4. /\ running \in Times
        /\ read \in [time : 0 .. MaxTime, run : 0 .. MaxPauses, offset : Int]
        /\ window_size \in {None} \cup Nat /\ config \in Nat /\ slot \in {None} \cup Slots
        /\ pc \in {"none", "acquire", "lock", "copy", "present", "dead"}
    BY ConstantTypes DEF Init, Unread, Times
  <2> QED
    BY <2>1, <2>2, <2>3, <2>4 DEF TypeOK
<1>2. channels \in [Epochs -> Seq(Frames)] /\ ring \in Seq(Entries)
  BY DEF Init
<1>3. Flow
  BY DEF Init, Flow, Queued, RingBorn, RingSorted
<1>4. Reading
  BY WallAssumption DEF Init, Reading, NoLater, current_running_time
<1> QED
  BY <1>1, <1>2, <1>3, <1>4 DEF Typed

\* The invariant the rest is built on.
WallIInv == Typed /\ Timely /\ Flow /\ Reading

LEMMA Stuttering ==
  ASSUME WallIInv, UNCHANGED vars
  PROVE  WallIInv'
<1>1. Onwards /\ Current' = Current
  BY Resting DEF WallIInv, vars, chainVars
<1>2. Typed' /\ Reading'
  BY DEF WallIInv, Typed, TypeOK, Reading, current_running_time, vars, chainVars, windowVars,
     sharedVars, renderVars
<1>3. Flow'
  BY <1>1 DEF WallIInv, Flow, Queued, RingBorn, RingSorted, Later, Born, vars, chainVars
<1> QED
  BY <1>1, <1>2, <1>3 DEF WallIInv, Onwards

\* Frames stay in order on their way: in every channel, in the ring, and from
\* the one to the other; and what the threads read is no younger than played.
THEOREM WallInvariance == Spec => []WallIInv
<1>1. Init => WallIInv
  BY TypeInit, TimelyInit DEF WallIInv
<1>2. WallIInv /\ [Next]_vars => WallIInv'
  <2>1. ASSUME WallIInv, Next PROVE WallIInv'
    BY <2>1, ClockStep, FlowStep, ReadingStep, TypeStep DEF WallIInv, Onwards
  <2> QED
    BY <2>1, Stuttering
<1> QED
  BY <1>1, <1>2, PTL DEF Spec

\* Every variable keeps its type.
THEOREM WallTypeCorrect == Spec => []TypeOK
  BY WallInvariance, PTL DEF WallIInv, Typed
-----------------------------------------------------------------------------
(* The wall does not step back: what a choice has passed over stays farther *)
(* from every later target than what it chose.                              *)

LEMMA CloserAgain ==
  ASSUME NEW p \in Int, NEW q \in Int, NEW t \in Int, p < q
  PROVE  Distance(q, t) < Distance(p, t) <=> p + q < 2 * t
  BY DEF Distance

LEMMA TargetGrows ==
  ASSUME NEW t \in Nat, NEW u \in Nat, NEW offset \in Int, t <= u
  PROVE  Target(t, offset) <= Target(u, offset)
  BY DEF Target

\* The running time of the next choice.
Basis ==
  IF SubActive
  THEN IF pc \in {"lock", "copy", "present"}
       THEN [time |-> read.time, run |-> read.run] ELSE running
  ELSE current_running_time

\* f stands where the first choice for that time would put it, as far as the
\* frames of its stream before it are concerned.
Chosen(f, offset, time) ==
  /\ Born(f) /\ Later(f.epoch, f.at)
  /\ \A i \in 1 .. Len(ring) :
       ring[i].frame.epoch = f.epoch /\ ring[i].frame.at < f.at =>
         /\ \E j \in 1 .. Len(ring) : ring[j].frame = f
         /\ Pts(ring[i].frame) + Pts(f) < 2 * Target(time, offset)

LEMMA BornPts ==
  ASSUME Typed, Timely, NEW f \in Frames, Born(f)
  PROVE  /\ f.epoch \in Epochs /\ f.epoch <= Current
         /\ started[f.epoch] \in Int /\ f.at \in Int /\ Pts(f) = f.at - started[f.epoch]
         /\ Pts(f) \in Int
  BY FrameType DEF Born, Timely, Pts

LEMMA ChosenNow ==
  ASSUME WallIInv, NEW time \in Nat, NEW offset \in Int, NEW i \in 1 .. Len(ring),
         Closest(i, Target(time, offset))
  PROVE  Chosen(ring[i].frame, offset, time)
<1> DEFINE T == Target(time, offset)
<1>1. T \in Int /\ Typed /\ Timely
  BY TargetIsNat DEF WallIInv
<1>2. \A k \in 1 .. Len(ring) :
        /\ Born(ring[k].frame) /\ ring[k].frame \in Frames
        /\ Later(ring[k].frame.epoch, ring[k].frame.at)
  BY <1>1, EntryType DEF WallIInv, Flow, RingBorn
<1>3. ASSUME NEW k \in 1 .. Len(ring), ring[k].frame.epoch = ring[i].frame.epoch,
             ring[k].frame.at < ring[i].frame.at
      PROVE  Pts(ring[k].frame) + Pts(ring[i].frame) < 2 * T
  <2>1. /\ ring[k].frame.at \in Nat /\ ring[i].frame.at \in Nat
        /\ i < k => ring[i].frame.at < ring[k].frame.at
    BY <1>1, <1>3, EntryType DEF WallIInv, Flow, RingSorted
  <2>2. k < i
    BY <1>3, <2>1
  <2>3. Distance(Pts(ring[i].frame), T) < Distance(Pts(ring[k].frame), T)
    BY <2>2 DEF Closest
  <2>4. /\ Pts(ring[k].frame) \in Int /\ Pts(ring[i].frame) \in Int
        /\ Pts(ring[k].frame) < Pts(ring[i].frame)
    <3>1. /\ Pts(ring[k].frame) = ring[k].frame.at - started[ring[i].frame.epoch]
          /\ Pts(ring[i].frame) = ring[i].frame.at - started[ring[i].frame.epoch]
          /\ started[ring[i].frame.epoch] \in Int
          /\ Pts(ring[k].frame) \in Int /\ Pts(ring[i].frame) \in Int
      BY <1>1, <1>2, <1>3, BornPts
    <3> QED
      BY <1>3, <2>1, <3>1
  <2> HIDE DEF T
  <2> QED
    BY <1>1, <2>3, <2>4, CloserAgain
<1> QED
  BY <1>2, <1>3 DEF Chosen

LEMMA ChosenStep ==
  ASSUME WallIInv, Next, NEW f \in Frames, NEW offset \in Int,
         NEW t \in Nat, NEW u \in Nat, t <= u, Chosen(f, offset, t)
  PROVE  Chosen(f, offset, u)'
<1>t. Typed /\ Timely /\ Flow /\ Onwards /\ Born(f) /\ Later(f.epoch, f.at)
  BY ClockStep DEF WallIInv, Chosen
<1>1. Born(f)' /\ Later(f.epoch, f.at)'
  BY <1>t, LaterStep DEF Onwards
<1> DEFINE T == Target(t, offset)
           U == Target(u, offset)
<1>2. T \in Int /\ U \in Int /\ T <= U
  BY TargetIsNat, TargetGrows
<1>3. ASSUME NEW g \in Frames, Born(g)
      PROVE  Pts(g)' = Pts(g) /\ Pts(g) \in Int
  <2>1. started'[g.epoch] = started[g.epoch]
    BY <1>t, <1>3, BornPts DEF Onwards
  <2> QED
    BY <1>t, <1>3, <2>1, BornPts DEF Pts
<1> HIDE DEF T, U
<1>4. ASSUME NEW i \in 1 .. Len(ring'), NEW g \in Frames, g = ring'[i].frame,
             g.epoch = f.epoch, g.at < f.at
      PROVE  /\ \E j \in 1 .. Len(ring') : ring'[j].frame = f
             /\ Pts(g)' + Pts(f)' < 2 * U
  <2>1. ASSUME NEW k \in 1 .. Len(ring), g = ring[k].frame
        PROVE  /\ \E j \in 1 .. Len(ring) : ring[j].frame = f /\ k < j
               /\ Pts(g)' + Pts(f)' < 2 * U
    <3>1. PICK j \in 1 .. Len(ring) : ring[j].frame = f
      BY <1>4, <2>1 DEF Chosen
    <3>2. Pts(g) + Pts(f) < 2 * T
      BY <1>4, <2>1 DEF Chosen, T
    <3>3. /\ Born(g)
          /\ g.at \in Nat /\ f.at \in Nat
          /\ j < k => f.at < g.at
      BY <1>4, <1>t, <2>1, <3>1, EntryType DEF Flow, RingBorn, RingSorted
    <3>4. k < j
      BY <1>4, <2>1, <3>1, <3>3
    <3>5. /\ Pts(g)' = Pts(g) /\ Pts(g) \in Int
          /\ Pts(f)' = Pts(f) /\ Pts(f) \in Int
      BY <1>3, <1>t, <3>3
    <3> QED
      BY <1>2, <3>1, <3>2, <3>4, <3>5
  <2>2. CASE ring' = ring
    BY <1>4, <2>1, <2>2
  <2>3. CASE ring' # ring
    <3>1. PICK c \in Epochs : Captured(c)
      BY <1>t, <2>3, RingStep
    <3>2. PICK h \in Frames, d \in Nat :
            /\ h = channels[c][1] /\ channels[c] # <<>>
            /\ h.epoch = c /\ Born(h)
            /\ ring' \in Seq(Entries)
            /\ Shifted(h, d)
      BY <1>t, <3>1, ChannelStep, CaptureEffect
    <3>3. g # h
      <4>1. 1 \in 1 .. Len(channels[c])
        BY <1>t, <3>2, TailAt DEF Typed
      <4>2. c = f.epoch => f.at < h.at
        BY <1>t, <3>2, <4>1 DEF Later
      <4>3. f.at \in Nat /\ h.at \in Nat
        BY FrameType
      <4> QED
        BY <1>4, <3>2, <4>2, <4>3
    <3>4. i + d \in 1 .. Len(ring) /\ g = ring[i + d].frame
      <4>1. \/ i + d \in 1 .. Len(ring) /\ ring'[i] = ring[i + d]
            \/ ring'[i] = [frame |-> h, captured_at |-> now]
        BY <1>4, <1>t, <3>2, ShiftedEntries
      <4>2. ring'[i].frame # h
        BY <1>4, <3>3
      <4> QED
        BY <1>4, <4>1, <4>2
    <3>5. /\ Pts(g)' + Pts(f)' < 2 * U
          /\ \E j \in 1 .. Len(ring) : ring[j].frame = f /\ i + d < j
      BY <2>1, <3>4
    <3>6. PICK j \in 1 .. Len(ring) : ring[j].frame = f /\ i + d < j
      BY <3>5
    <3>7. j - d \in 1 .. Len(ring) - d /\ j - d \in 1 .. Len(ring') /\ (j - d) + d = j
      BY <3>2, <3>4, <3>6 DEF Shifted
    <3>8. ring'[j - d] = ring[j]
      BY <3>2, <3>7 DEF Shifted
    <3> QED
      BY <3>5, <3>6, <3>7, <3>8
  <2> QED
    BY <2>2, <2>3
<1>5. \A i \in 1 .. Len(ring') : ring'[i].frame \in Frames
  <2>1. ring' \in Seq(Entries)
    BY <1>t, FlowStep
  <2>2. \A i \in 1 .. Len(ring') : ring'[i] \in Entries
    BY <2>1
  <2> QED
    BY <2>2 DEF Entries
<1>6. ASSUME NEW i \in 1 .. Len(ring'), ring'[i].frame.epoch = f.epoch,
             ring'[i].frame.at < f.at
      PROVE  /\ \E j \in 1 .. Len(ring') : ring'[j].frame = f
             /\ Pts(ring[i].frame)' + Pts(f)' < 2 * U
  <2>1. PICK g \in Frames : g = ring'[i].frame
    BY <1>5
  <2>2. /\ \E j \in 1 .. Len(ring') : ring'[j].frame = f
        /\ Pts(g)' + Pts(f)' < 2 * U
    BY <1>4, <1>6, <2>1
  <2>3. Pts(ring[i].frame)' = Pts(g)'
    BY <2>1 DEF Pts
  <2> QED
    BY <2>2, <2>3
<1> QED
  BY <1>1, <1>6 DEF Chosen, U, Target

\* A picture changes when one who draws chooses from the ring, for a time that
\* the next choice will not be before.
LEMMA ShowStep ==
  ASSUME WallIInv, Next, slot' \notin {slot, None}
  PROVE  /\ UNCHANGED chainVars /\ ring # <<>>
         /\ ShownFor = Basis /\ Basis.time \in Nat /\ Basis.run \in Nat
         /\ NoLater(Basis, Basis') /\ NoLater(Basis, current_running_time)
         /\ \E offset \in Offsets, i \in 1 .. Len(ring) :
              /\ slot' = [frame |-> ring[i].frame, offset |-> offset, run |-> Basis.run]
              /\ Closest(i, Target(Basis.time, offset))
<1> USE DEF windowVars, sharedVars, renderVars
<1>t. /\ Typed /\ Timely /\ Flow /\ Reading /\ None \notin Int
      /\ row_offset \in Offsets /\ Offsets \subseteq Int
  BY WallAssumption DEF WallIInv, Typed, TypeOK
<1>c. /\ current_running_time.time \in Nat /\ current_running_time.run \in Nat
      /\ running.time \in Nat /\ running.run \in Nat /\ read.time \in Nat /\ read.run \in Nat
  BY <1>t, ClockReads, ClockTypes
<1>1. \/ Frame /\ ~ SubActive /\ slot' = Shown(current_running_time, row_offset)
      \/ Present
  <2>1. ~ Tick /\ ~ TogglePlay /\ ~ Deliver /\ ~ Reconnect /\ ~ SpikeInit /\ ~ Acquire /\ ~ Lock
        /\ ~ CopySlots
    BY DEF Tick, TogglePlay, Deliver, Reconnect, SpikeInit, Acquire, Lock, CopySlots
  <2>2. /\ \A c \in Epochs : ~ Capture(c)
        /\ \A offset \in Offsets : ~ SetOffset(offset)
        /\ \A h \in Heights : ~ Resized(h)
    BY DEF Capture, SetOffset, Resized
  <2>3. ~ SpikeHandles
    BY DEF SpikeHandles, SetUp
  <2>4. Frame \/ Present
    BY <2>1, <2>2, <2>3 DEF Next, Render
  <2> QED
    BY <2>4 DEF Frame
<1>2. ASSUME NEW basis, basis.time \in Nat, NEW offset \in Offsets, slot' = Shown(basis, offset)
      PROVE  /\ ring # <<>>
             /\ \E i \in 1 .. Len(ring) :
                  /\ slot' = [frame |-> ring[i].frame, offset |-> offset, run |-> basis.run]
                  /\ Closest(i, Target(basis.time, offset))
  BY <1>2, <1>t, ShownEffect
<1>3. CASE Frame /\ ~ SubActive /\ slot' = Shown(current_running_time, row_offset)
  <2>1. UNCHANGED chainVars /\ UNCHANGED shared
    BY <1>3 DEF Frame, SubActive
  <2>2. current_running_time' = current_running_time
    BY <2>1 DEF chainVars, current_running_time
  <2>3. /\ ShownFor = current_running_time /\ Basis = current_running_time
        /\ Basis' = current_running_time
    BY <1>3, <2>1, <2>2 DEF SubActive, ShownFor, Basis
  <2>4. NoLater(current_running_time, current_running_time)
    BY <1>c DEF NoLater
  <2> HIDE DEF current_running_time
  <2> QED
    BY <1>2, <1>3, <1>t, <1>c, <2>1, <2>3, <2>4
<1>4. CASE Present
  <2>1. /\ pc = "present" /\ shared # None /\ read.offset \in Offsets
        /\ NoLater(read, running) /\ NoLater(running, current_running_time)
    BY <1>4, <1>t DEF Present, Reading
  <2>2. /\ ShownFor = [time |-> read.time, run |-> read.run] /\ Basis = ShownFor
        /\ Basis' = running /\ UNCHANGED chainVars
    BY <1>4, <2>1 DEF Present, SubActive, ShownFor, Basis
  <2>3. slot' = Shown(read, read.offset)
    BY <1>4 DEF Present
  <2>4. \E i \in 1 .. Len(ring) :
          /\ slot' = [frame |-> ring[i].frame, offset |-> read.offset, run |-> read.run]
          /\ Closest(i, Target(read.time, read.offset))
    BY <1>2, <1>c, <2>1, <2>3
  <2>5. Basis.time = read.time /\ Basis.run = read.run
    BY <2>2
  <2>6. NoLater(Basis, running) /\ NoLater(Basis, current_running_time)
    BY <1>c, <2>1, <2>5 DEF NoLater
  <2>7. ring # <<>>
    BY <1>2, <1>c, <2>1, <2>3
  <2> QED
    BY <1>c, <2>1, <2>2, <2>4, <2>5, <2>6, <2>7
<1> QED
  BY <1>1, <1>3, <1>4

LEMMA BasisGrows ==
  ASSUME WallIInv, Next
  PROVE  /\ Basis.time \in Nat /\ Basis.run \in Nat
         /\ Basis'.time \in Nat /\ Basis'.run \in Nat
         /\ slot' = None \/ NoLater(Basis, Basis')
<1> USE DEF windowVars, sharedVars, renderVars, chainVars
<1>t. /\ Typed /\ Timely /\ Reading /\ None \notin Int
      /\ read \in [time : 0 .. MaxTime, run : 0 .. MaxPauses, offset : Int]
  BY WallAssumption DEF WallIInv, Typed, TypeOK
<1>c. /\ current_running_time.time \in Nat /\ current_running_time.run \in Nat
      /\ running.time \in Nat /\ running.run \in Nat /\ read.time \in Nat /\ read.run \in Nat
  BY <1>t, ClockReads, ClockTypes
<1>d. Typed' /\ Timely'
  BY TypeStep, ClockStep DEF WallIInv, Onwards
<1>e. /\ current_running_time'.time \in Nat /\ current_running_time'.run \in Nat
      /\ running'.time \in Nat /\ running'.run \in Nat /\ read'.time \in Nat /\ read'.run \in Nat
  <2>1. running' \in Times /\ read' \in [time : 0 .. MaxTime, run : 0 .. MaxPauses, offset : Int]
    BY <1>d DEF Typed, TypeOK
  <2>2. played' \in Nat /\ ahead' \in Nat /\ run' \in Nat
    <3>1. {played', ahead'} \subseteq 0 .. MaxTime /\ run' \in 0 .. MaxPauses
      BY <1>d DEF Typed, TypeOK
    <3> QED
      BY <3>1, ConstantTypes
  <2>3. current_running_time' = [time |-> played' + ahead', run |-> run']
    BY DEF current_running_time
  <2>4. current_running_time'.time \in Nat /\ current_running_time'.run \in Nat
    <3>1. played' + ahead' \in Nat
      BY <2>2, SumIsNat
    <3> QED
      BY <2>2, <2>3, <3>1
  <2> QED
    BY <2>1, <2>4, ConstantTypes DEF Times
<1>b. /\ Basis.time \in Nat /\ Basis.run \in Nat
      /\ Basis'.time \in Nat /\ Basis'.run \in Nat
  BY <1>c, <1>e DEF Basis
<1>n. NoLater(Basis, current_running_time')
  <2>1. NoLater(Basis, current_running_time)
    BY <1>t, <1>c DEF Basis, Reading, NoLater, SubActive
  <2>2. PICK a : a = Basis
    OBVIOUS
  <2> HIDE DEF Basis
  <2> QED
    BY <1>b, <1>t, <2>1, ClockAfter
<1>s. SubActive => NoLater(Basis, running)
  BY <1>t, <1>c DEF Basis, Reading, NoLater
<1>0. ASSUME UNCHANGED <<shared, locked, running, renderVars>>
      PROVE  NoLater(Basis, Basis')
  <2>1. CASE SubActive
    BY <1>0, <1>c, <2>1 DEF Basis, SubActive, NoLater
  <2>2. CASE ~ SubActive
    BY <1>0, <1>n, <2>2 DEF Basis, SubActive
  <2> QED
    BY <2>1, <2>2
<1>1. CASE Tick \/ TogglePlay \/ Deliver \/ Reconnect \/ SpikeInit
  BY <1>b, <1>0, <1>1 DEF Tick, TogglePlay, Deliver, Reconnect, SpikeInit
<1>2. ASSUME NEW c \in Epochs, Capture(c)
      PROVE  NoLater(Basis, Basis')
  BY <1>0, <1>2 DEF Capture
<1>3. CASE Frame
  <2>1. CASE SubActive
    <3>1. /\ shared' # None /\ running' = current_running_time /\ UNCHANGED <<pc, read>>
      BY <1>3, <1>t, <2>1, WallAssumption DEF Frame, SubActive, Typed, TypeOK
    <3>2. current_running_time' = current_running_time
      BY <1>3 DEF Frame, current_running_time
    <3>3. CASE pc \in {"lock", "copy", "present"}
      BY <1>b, <1>c, <2>1, <3>1, <3>3 DEF Basis, SubActive, NoLater
    <3>4. CASE pc \notin {"lock", "copy", "present"}
      <4>1. Basis' = current_running_time'
        BY <3>1, <3>2, <3>4 DEF Basis, SubActive
      <4> QED
        BY <1>b, <1>n, <4>1
    <3> QED
      BY <3>3, <3>4
  <2>2. CASE ~ SubActive
    <3>1. Basis' = current_running_time'
      BY <1>3, <2>2 DEF Frame, SubActive, Basis
    <3> QED
      BY <1>b, <1>n, <3>1
  <2> QED
    BY <2>1, <2>2
<1>4. ASSUME NEW offset \in Offsets, SetOffset(offset)
      PROVE  NoLater(Basis, Basis')
  BY <1>0, <1>4 DEF SetOffset
<1>5. ASSUME NEW h \in Heights, Resized(h)
      PROVE  NoLater(Basis, Basis')
  BY <1>0, <1>5 DEF Resized
<1>6. CASE SpikeHandles
  <2>1. CASE SetUp(handles)
    BY <1>b, <2>1 DEF SetUp
  <2>2. CASE UNCHANGED <<shared, window_size, pc, config, slot>>
    BY <1>b, <1>0, <1>6, <2>2 DEF SpikeHandles
  <2> QED
    BY <1>6, <2>1, <2>2 DEF SpikeHandles
<1>7. CASE Acquire
  <2>1. pc = "acquire" /\ UNCHANGED <<shared, running>>
        /\ \/ read' = [read EXCEPT !.time = running.time, !.run = running.run] /\ pc' = "lock"
           \/ pc' \in {"acquire", "dead"}
    BY <1>7 DEF Acquire
  <2>2. shared # None
    BY <1>t, <2>1 DEF Reading
  <2>3. Basis = running
    BY <2>1, <2>2 DEF Basis, SubActive
  <2>4. pc' = "lock" => read'.time = running.time /\ read'.run = running.run
    BY <1>t, <2>1
  <2>5. Basis'.time = running.time /\ Basis'.run = running.run
    BY <2>1, <2>2, <2>4 DEF Basis, SubActive
  <2> QED
    BY <1>c, <2>3, <2>5 DEF NoLater
<1>8. CASE Lock
  <2>1. Basis'.time = Basis.time /\ Basis'.run = Basis.run
    BY <1>8, <1>c DEF Lock, Basis, SubActive, current_running_time
  <2> QED
    BY <1>b, <2>1 DEF NoLater
<1>9. CASE CopySlots
  <2>1. read'.time = read.time /\ read'.run = read.run /\ pc = "copy" /\ pc' = "present"
        /\ UNCHANGED <<shared, running, chainVars>>
    BY <1>9, <1>t DEF CopySlots
  <2>2. Basis'.time = Basis.time /\ Basis'.run = Basis.run
    BY <2>1 DEF Basis, SubActive, current_running_time
  <2> QED
    BY <1>b, <2>2 DEF NoLater
<1>10. CASE Present
  <2>1. SubActive /\ Basis' = running
    BY <1>10, <1>t DEF Present, Basis, SubActive, Reading
  <2> QED
    BY <1>b, <1>s, <2>1
<1> QED
  BY <1>b, <1>1, <1>2, <1>3, <1>4, <1>5, <1>6, <1>7, <1>8, <1>9, <1>10 DEF Next, Render

\* The picture shown is one a choice for the same offset would not step back from,
\* until there is a resume.
SlotOrder ==
  slot # None => /\ slot.run <= Basis.run
                 /\ slot.run = Basis.run => Chosen(slot.frame, slot.offset, Basis.time)

LEMMA SlotOrderStep ==
  ASSUME WallIInv, Next, SlotOrder
  PROVE  SlotOrder'
<1> SUFFICES ASSUME slot' # None
             PROVE  /\ slot'.run <= Basis'.run
                    /\ slot'.run = Basis'.run => Chosen(slot.frame, slot.offset, Basis.time)'
  BY DEF SlotOrder
<1>b. /\ Basis.time \in Nat /\ Basis.run \in Nat /\ Basis'.time \in Nat /\ Basis'.run \in Nat
      /\ NoLater(Basis, Basis')
  BY BasisGrows
<1>1. PICK u \in Nat : u = Basis'.time
  BY <1>b
<1>2. ASSUME NEW f \in Frames, NEW offset \in Int, Chosen(f, offset, u)',
             slot'.frame = f, slot'.offset = offset
      PROVE  Chosen(slot.frame, slot.offset, Basis.time)'
  BY <1>1, <1>2 DEF Chosen
<1>3. CASE slot' = slot
  <2>1. slot.run \in Nat /\ slot.frame \in Frames /\ slot.offset \in Int
    BY <1>3, ConstantTypes DEF WallIInv, Typed, TypeOK, Slots
  <2>2. PICK f \in Frames, offset \in Int : f = slot.frame /\ offset = slot.offset
    BY <2>1
  <2>3. slot.run <= Basis.run /\ Basis.run <= Basis'.run
    BY <1>3, <1>b DEF SlotOrder, NoLater
  <2>4. ASSUME slot.run = Basis'.run
        PROVE  Chosen(slot.frame, slot.offset, Basis.time)'
    <3>1. slot.run = Basis.run /\ Basis.run = Basis'.run
      BY <1>b, <2>1, <2>3, <2>4
    <3>2. PICK t \in Nat : t = Basis.time /\ t <= u
      BY <1>b, <1>1, <3>1 DEF NoLater
    <3>3. Chosen(f, offset, t)
      BY <1>3, <2>2, <3>1, <3>2 DEF SlotOrder
    <3>4. Chosen(f, offset, u)'
      BY <3>2, <3>3, ChosenStep
    <3> QED
      BY <1>2, <1>3, <2>2, <3>4
  <2> QED
    BY <1>3, <1>b, <2>1, <2>3, <2>4
<1>4. CASE slot' # slot
  <2>1. PICK offset \in Offsets, i \in 1 .. Len(ring) :
          /\ slot' = [frame |-> ring[i].frame, offset |-> offset, run |-> Basis.run]
          /\ Closest(i, Target(Basis.time, offset))
    BY <1>4, ShowStep
  <2>2. slot'.run = Basis.run /\ slot'.frame = ring[i].frame /\ slot'.offset = offset
    BY <2>1
  <2>3. offset \in Int
    BY WallAssumption
  <2>4. PICK f \in Frames : f = ring[i].frame
    BY EntryType DEF WallIInv
  <2>5. ASSUME slot'.run = Basis'.run
        PROVE  Chosen(slot.frame, slot.offset, Basis.time)'
    <3>1. PICK t \in Nat : t = Basis.time /\ t <= u
      BY <1>b, <1>1, <2>2, <2>5 DEF NoLater
    <3>2. Chosen(f, offset, t)
      BY <2>1, <2>3, <2>4, <3>1, ChosenNow
    <3>3. Chosen(f, offset, u)'
      BY <2>3, <3>1, <3>2, ChosenStep
    <3> QED
      BY <1>2, <2>2, <2>3, <2>4, <3>3
  <2> QED
    BY <1>b, <2>2, <2>5 DEF NoLater
<1> QED
  BY <1>3, <1>4

StepsBack ==
  /\ slot # None /\ slot' \notin {slot, None}
  /\ slot'.offset = slot.offset
  /\ slot'.frame.epoch = slot.frame.epoch
  /\ slot'.run = slot.run
  /\ slot'.frame.at < slot.frame.at

LEMMA NoStepBack ==
  ASSUME WallIInv, Next, SlotOrder
  PROVE  ~ StepsBack
<1> SUFFICES ASSUME StepsBack PROVE FALSE
  OBVIOUS
<1>1. PICK offset \in Offsets, i \in 1 .. Len(ring) :
        /\ slot' = [frame |-> ring[i].frame, offset |-> offset, run |-> Basis.run]
        /\ Closest(i, Target(Basis.time, offset))
  BY ShowStep DEF StepsBack
<1>2. PICK t \in Nat : t = Basis.time
  BY ShowStep DEF StepsBack
<1>3. PICK f \in Frames : f = slot.frame
  BY DEF StepsBack, WallIInv, Typed, TypeOK, Slots
<1>4. Chosen(f, offset, t)
  BY <1>1, <1>2, <1>3 DEF StepsBack, SlotOrder
<1> DEFINE g == ring[i].frame
           T == Target(t, offset)
<1>5. g \in Frames /\ g.epoch = f.epoch /\ g.at < f.at
  BY <1>1, <1>3, EntryType DEF StepsBack, WallIInv
<1>6. PICK j \in 1 .. Len(ring) : ring[j].frame = f /\ Pts(g) + Pts(f) < 2 * T
  BY <1>4, <1>5 DEF Chosen
<1>7. T \in Int /\ Born(f) /\ Born(g)
  BY <1>4, WallAssumption, TargetIsNat DEF Chosen, WallIInv, Flow, RingBorn
<1>8. /\ Pts(f) \in Int /\ Pts(g) \in Int /\ started[f.epoch] \in Int
      /\ Pts(f) = f.at - started[f.epoch] /\ Pts(g) = g.at - started[f.epoch]
      /\ f.at \in Int /\ g.at \in Int
  BY <1>3, <1>5, <1>7, BornPts DEF WallIInv
<1>9. Pts(g) < Pts(f)
  BY <1>5, <1>8
<1>10. Distance(Pts(g), T) <= Distance(Pts(f), T)
  BY <1>1, <1>2, <1>6 DEF Closest
<1> HIDE DEF g, T
<1>11. Distance(Pts(f), T) < Distance(Pts(g), T)
  BY <1>6, <1>7, <1>8, <1>9, CloserAgain
<1>12. Distance(Pts(f), T) \in Nat /\ Distance(Pts(g), T) \in Nat
  BY <1>7, <1>8, DistanceIsNat
<1> QED
  BY <1>10, <1>11, <1>12

\* What is shown, for as long as the offset stays and nobody resumes after a pause,
\* never goes back to an earlier picture of the same stream: whoever draws, whichever
\* thread ran in between.
THEOREM NeverStepsBackHolds == Spec => NeverStepsBack
<1>1. Init => SlotOrder
  BY DEF Init, SlotOrder
<1>2. WallIInv /\ SlotOrder /\ [Next]_vars => SlotOrder'
  <2>1. ASSUME WallIInv, SlotOrder, UNCHANGED vars
        PROVE  SlotOrder'
    BY <2>1, Resting DEF WallIInv, SlotOrder, Chosen, Born, Later, Basis, SubActive,
       current_running_time, vars, chainVars, sharedVars, renderVars, Pts
  <2> QED
    BY <2>1, SlotOrderStep
<1>3. WallIInv /\ SlotOrder /\ [Next]_vars =>
        [slot # None /\ slot' \notin {slot, None} =>
           \/ slot'.offset # slot.offset
           \/ slot'.frame.epoch # slot.frame.epoch
           \/ slot'.run # slot.run
           \/ slot'.frame.at >= slot.frame.at]_vars
  <2> SUFFICES ASSUME WallIInv, SlotOrder, Next,
                      slot # None, slot' \notin {slot, None},
                      slot'.offset = slot.offset,
                      slot'.frame.epoch = slot.frame.epoch,
                      slot'.run = slot.run
               PROVE  slot'.frame.at >= slot.frame.at
    BY DEF vars, renderVars
  <2>1. ~ (slot'.frame.at < slot.frame.at)
    BY NoStepBack DEF StepsBack
  <2>2. slot.frame.at \in Nat /\ slot'.frame.at \in Nat
    <3>1. slot' \in Slots /\ slot \in Slots
      BY TypeStep DEF WallIInv, Typed, TypeOK
    <3> QED
      BY <3>1, FrameType DEF Slots
  <2> QED
    BY <2>1, <2>2
<1> QED
  BY <1>1, <1>2, <1>3, WallInvariance, PTL DEF Spec, NeverStepsBack
-----------------------------------------------------------------------------
(* While no frame has been missed, one is delivered and captured in every   *)
(* tick of play: what that says of the channels and the ring.               *)

\* A frame waits for less than a tick, and nothing in the ring is older than the
\* window was when the last frame came: by the Instants, and so by the running time,
\* which has come less far.
Regular ==
  /\ \A c \in Epochs : \A i \in 1 .. Len(channels[c]) : channels[c][i].at = played
  /\ \A i \in 1 .. Len(ring) :
       /\ ring[i].captured_at - ring[i].frame.at <= now - played
       /\ played > 0 => played - 1 - ring[i].frame.at <= Window
       /\ delivered = played /\ Idle => played - ring[i].frame.at <= Window

\* What a step does to the chain and the clocks.
Delivers ==
  /\ playing /\ delivered # played /\ delivered' = played
  /\ Len(channels[Current]) < Channel
  /\ channels' = [channels EXCEPT ![Current] = Append(@, [epoch |-> Current, at |-> played])]
  /\ UNCHANGED <<clockVars, started, ring>>

Passes ==
  /\ playing /\ delivered = played /\ Idle
  /\ now' = now + 1 /\ played' = played + 1
  /\ UNCHANGED <<playing, run, resumed, started, delivered, channels, ring>>

Waits ==
  /\ ~ playing
  /\ now' = now + 1
  /\ UNCHANGED <<playing, played, run, resumed, started, delivered, channels, ring>>

Toggles ==
  /\ playing' = ~ playing
  /\ playing \/ (run' = run + 1 /\ resumed' = played)
  /\ UNCHANGED <<now, played, started, delivered, channels, ring>>

LEMMA ChainStep ==
  ASSUME Typed, Timely, Next, missed' = 0
  PROVE  /\ missed = 0
         /\ \/ Passes
            \/ Delivers
            \/ \E c \in Epochs : Capture(c)
            \/ Waits
            \/ Toggles
            \/ Reconnect
            \/ UNCHANGED <<clockVars, started, delivered, channels, ring>>
<1> USE DEF chainVars
<1>t. missed \in Nat
  BY ConstantTypes DEF Typed, TypeOK
<1>1. CASE Tick
  <2>1. CASE playing
    BY <1>1, <1>t, <2>1 DEF Tick, Misses, Passes
  <2>2. CASE ~ playing
    BY <1>1, <1>t, <2>2 DEF Tick, Misses, Waits
  <2> QED
    BY <2>1, <2>2
<1>7. CASE TogglePlay
  BY <1>7 DEF TogglePlay, Toggles
<1>2. CASE Deliver
  <2>1. missed = 0 /\ Len(channels[Current]) < Channel
    <3>1. Len(channels[Current]) \in Nat /\ Channel \in Nat
      BY ConstantTypes DEF Typed, Timely
    <3> QED
      BY <1>2, <1>t, <3>1 DEF Deliver, Misses
  <2> QED
    BY <1>2, <2>1 DEF Deliver, Delivers
<1>3. CASE Reconnect \/ (\E c \in Epochs : Capture(c))
  BY <1>3 DEF Reconnect, Capture
<1>4. CASE UNCHANGED chainVars
  BY <1>4
<1>5. Frame \/ SpikeInit \/ SpikeHandles \/ Render => UNCHANGED chainVars
  BY DEF Frame, SpikeInit, SpikeHandles, Render, Acquire, Lock, CopySlots, Present
<1>6. /\ \A offset \in Offsets : SetOffset(offset) => UNCHANGED chainVars
      /\ \A h \in Heights : Resized(h) => UNCHANGED chainVars
  BY DEF SetOffset, Resized
<1> QED
  BY <1>1, <1>2, <1>3, <1>4, <1>5, <1>6, <1>7 DEF Next

\* What a capture does to its channel and to the ring.
LEMMA CaptureStep ==
  ASSUME Typed, Timely, Flow, NEW c \in Epochs, Capture(c)
  PROVE  \E f \in Frames, d \in Nat :
           /\ f = channels[c][1] /\ 1 \in 1 .. Len(channels[c])
           /\ f.epoch = c /\ Born(f)
           /\ channels' = [channels EXCEPT ![c] = Tail(@)]
           /\ channels' \in [Epochs -> Seq(Frames)]
           /\ UNCHANGED <<clockVars, started, delivered, missed>>
           /\ Shifted(f, d)
<1>1. /\ channels[c] # <<>>
      /\ channels' = [channels EXCEPT ![c] = Tail(@)]
      /\ ring' = Push(Head(channels[c]))
      /\ UNCHANGED <<clockVars, started, delivered, missed>>
  BY DEF Capture
<1>2. /\ channels \in [Epochs -> Seq(Frames)] /\ channels[c] \in Seq(Frames)
      /\ Tail(channels[c]) \in Seq(Frames) /\ 1 \in 1 .. Len(channels[c])
  BY <1>1, TailAt DEF Typed
<1>3. channels' \in [Epochs -> Seq(Frames)] /\ channels'[c] = Tail(channels[c])
  BY <1>1, <1>2
<1>4. Captured(c)
  BY <1>1, <1>3 DEF Captured
<1> QED
  BY <1>1, <1>2, <1>3, <1>4, CaptureEffect

\* After a delivery something waits.
LEMMA NotIdle ==
  ASSUME Typed, Timely, Delivers
  PROVE  /\ ~ Idle'
         /\ channels'[Current] = Append(channels[Current], [epoch |-> Current, at |-> played])
         /\ \A c \in Epochs : c # Current => channels'[c] = channels[c]
<1>1. /\ Current \in Epochs /\ channels[Current] \in Seq(Frames)
      /\ [epoch |-> Current, at |-> played] \in Frames
  BY ClockTypes DEF Typed, Timely, Frames
<1>2. channels'[Current] = Append(channels[Current], [epoch |-> Current, at |-> played])
  BY <1>1 DEF Delivers, Typed
<1>3. channels'[Current] # <<>>
  <2>1. PICK f \in Frames : f = [epoch |-> Current, at |-> played]
    BY <1>1
  <2>2. Append(channels[Current], f) # <<>>
    <3>1. /\ Len(channels[Current]) \in Nat
          /\ Len(Append(channels[Current], f)) = Len(channels[Current]) + 1
      BY <1>1, AppendAt
    <3>2. Len(Append(channels[Current], f)) # 0
      BY <3>1
    <3> QED
      BY <3>2
  <2> QED
    BY <1>2, <2>1, <2>2
<1> QED
  BY <1>1, <1>2, <1>3 DEF Idle, Delivers, Typed

LEMMA RegularStep ==
  ASSUME WallIInv, Next, missed' = 0, Regular
  PROVE  Regular'
<1>t. /\ Typed /\ Timely /\ Flow
      /\ played \in Nat /\ now \in Nat /\ None \notin Int /\ Window \in Nat
      /\ delivered = None \/ delivered \in Nat
      /\ \A c \in Epochs : channels[c] \in Seq(Frames)
  <2>1. Typed /\ Timely /\ Flow
    BY DEF WallIInv
  <2>2. played \in Nat /\ now \in Nat /\ None \notin Int /\ Window \in Nat
    BY <2>1, ConstantTypes, ClockTypes, WallAssumption
  <2>3. delivered = None \/ delivered \in Nat
    BY <2>1, ConstantTypes DEF Typed, TypeOK
  <2> QED
    BY <2>1, <2>2, <2>3 DEF Typed, TypeOK
<1>r. /\ \A i \in 1 .. Len(ring) :
           /\ ring[i].captured_at \in Nat /\ ring[i].frame.at \in Nat
           /\ ring[i].captured_at - ring[i].frame.at <= now - played
           /\ played > 0 => played - 1 - ring[i].frame.at <= Window
           /\ delivered = played /\ Idle => played - ring[i].frame.at <= Window
      /\ \A c \in Epochs : \A i \in 1 .. Len(channels[c]) : channels[c][i].at = played
  BY <1>t, EntryType DEF Regular
<1>6. CASE Waits
  <2>1. now' = now + 1 /\ UNCHANGED <<played, delivered, channels, ring>>
    BY <1>6 DEF Waits
  <2>2. \A i \in 1 .. Len(ring) : ring[i].captured_at - ring[i].frame.at <= now' - played
    BY <1>r, <1>t, <2>1
  <2> QED
    BY <1>r, <2>1, <2>2 DEF Regular, Idle
<1>7. CASE Toggles
  BY <1>7 DEF Toggles, Regular, Idle
<1>1. CASE Passes
  <2>1. \A c \in Epochs : Len(channels'[c]) = 0
    BY <1>1 DEF Passes, Idle
  <2>2. /\ played' = played + 1 /\ delivered' = played /\ delivered' # played'
        /\ played' - 1 = played /\ now' - played' = now - played
    BY <1>1, <1>t DEF Passes
  <2>3. ring' = ring /\ \A i \in 1 .. Len(ring) : played - ring[i].frame.at <= Window
    BY <1>1, <1>r DEF Passes
  <2> QED
    BY <1>r, <2>1, <2>2, <2>3 DEF Regular
<1>2. CASE Delivers
  <2>1. UNCHANGED <<clockVars, ring>> /\ ~ Idle'
    BY <1>2, <1>t, NotIdle DEF Delivers
  <2>2. ASSUME NEW c \in Epochs, NEW i \in 1 .. Len(channels'[c])
        PROVE  channels'[c][i].at = played
    <3>1. CASE c # Current
      BY <1>2, <1>r, <1>t, <2>2, <3>1, NotIdle
    <3>2. CASE c = Current
      <4>1. PICK f \in Frames : f = [epoch |-> Current, at |-> played]
        BY <1>t, ClockTypes DEF Timely, Frames
      <4>2. channels'[c] = Append(channels[c], f)
        BY <1>2, <1>t, <3>2, <4>1, NotIdle
      <4>3. Len(channels[c]) \in Nat /\ Len(channels'[c]) = Len(channels[c]) + 1
        BY <1>t, <4>2, AppendAt
      <4>4. i \in 1 .. Len(channels[c]) \/ i = Len(channels[c]) + 1
        BY <2>2, <4>3
      <4>5. i \in 1 .. Len(channels[c]) => channels'[c][i] = channels[c][i]
        BY <1>t, <4>2, AppendAt
      <4>6. i = Len(channels[c]) + 1 => channels'[c][i] = f
        BY <1>t, <4>2, AppendAt
      <4> QED
        BY <1>r, <4>1, <4>4, <4>5, <4>6
    <3> QED
      BY <3>1, <3>2
  <2> QED
    BY <1>r, <2>1, <2>2 DEF Regular
<1>3. ASSUME NEW c \in Epochs, Capture(c)
      PROVE  Regular'
  <2>1. PICK f \in Frames, d \in Nat :
           /\ f = channels[c][1] /\ 1 \in 1 .. Len(channels[c])
           /\ channels' = [channels EXCEPT ![c] = Tail(@)]
           /\ UNCHANGED <<clockVars, started, delivered, missed>>
           /\ Shifted(f, d)
    BY <1>3, <1>t, CaptureStep
  <2>2. f.at = played
    BY <1>r, <2>1
  <2>3. ASSUME NEW e \in Epochs, NEW i \in 1 .. Len(channels'[e])
        PROVE  channels'[e][i].at = played
    <3>1. CASE e # c
      BY <1>r, <1>t, <2>1, <2>3, <3>1 DEF Typed
    <3>2. CASE e = c
      <4>1. channels[c] # <<>> /\ channels'[c] = Tail(channels[c])
        BY <1>t, <2>1 DEF Typed
      <4>2. /\ Len(channels'[c]) = Len(channels[c]) - 1 /\ Len(channels[c]) \in Nat
            /\ \A k \in 1 .. Len(channels[c]) - 1 : channels'[c][k] = channels[c][k + 1]
        BY <1>t, <4>1, TailAt
      <4>3. i \in 1 .. Len(channels[c]) - 1 /\ i + 1 \in 1 .. Len(channels[c])
        BY <2>3, <3>2, <4>2
      <4> QED
        BY <1>r, <3>2, <4>2, <4>3
    <3> QED
      BY <3>1, <3>2
  <2>4. ASSUME NEW i \in 1 .. Len(ring')
        PROVE  /\ ring'[i].captured_at - ring'[i].frame.at <= now - played
               /\ played - ring'[i].frame.at <= Window
               /\ ring'[i].frame.at \in Nat
    <3>1. \/ /\ i + d \in 1 .. Len(ring)
             /\ ring'[i] = ring[i + d] /\ now - ring'[i].captured_at <= Window
          \/ ring'[i] = [frame |-> f, captured_at |-> now]
      BY <1>t, <2>1, ShiftedEntries
    <3>2. CASE ring'[i] = [frame |-> f, captured_at |-> now]
      BY <1>t, <2>2, <3>2
    <3>3. CASE /\ i + d \in 1 .. Len(ring)
               /\ ring'[i] = ring[i + d] /\ now - ring'[i].captured_at <= Window
      <4>1. /\ ring'[i].captured_at \in Nat /\ ring'[i].frame.at \in Nat
            /\ ring'[i].captured_at - ring'[i].frame.at <= now - played
        BY <1>r, <3>3
      <4> QED
        BY <1>t, <3>3, <4>1
    <3> QED
      BY <3>1, <3>2, <3>3
  <2>5. \A i \in 1 .. Len(ring') : played - 1 - ring'[i].frame.at <= Window
    BY <1>t, <2>4
  <2> QED
    BY <2>1, <2>3, <2>4, <2>5 DEF Regular
<1>4. CASE Reconnect
  <2>1. UNCHANGED <<clockVars, channels, ring>> /\ delivered' = None /\ delivered' # played'
    BY <1>4, <1>t DEF Reconnect
  <2> QED
    BY <1>r, <2>1 DEF Regular
<1>5. CASE UNCHANGED <<clockVars, started, delivered, channels, ring>>
  BY <1>5 DEF Regular, Idle
<1> QED
  BY <1>1, <1>2, <1>3, <1>4, <1>5, <1>6, <1>7, <1>t, ChainStep

\* A frame of an earlier stream that is still in the ring says how old that is.
LEMMA OldFrames ==
  ASSUME WallIInv, Regular, NEW i \in 1 .. Len(ring), ring[i].frame.epoch # Current
  PROVE  played - started[Current] <= Window + 1
<1>1. /\ Born(ring[i].frame) /\ ring[i].frame.epoch \in Nat /\ ring[i].frame.at \in Nat
      /\ Current \in Nat /\ played \in Nat /\ Window \in Nat
      /\ started[Current] \in Nat /\ started[Current] <= played
  BY EntryType, FrameType, ConstantTypes, ClockTypes
     DEF WallIInv, Flow, RingBorn, Timely, Epochs
<1>2. ring[i].frame.at <= started[Current]
  BY <1>1 DEF Born
<1>3. played > 0 => played - 1 - ring[i].frame.at <= Window
  BY DEF Regular
<1> QED
  BY <1>1, <1>2, <1>3

\* A reconnect replaces the picture: while no frame is missed, the old stream's
\* last ones leave the wall when the ring has been filled again.
THEOREM OldPictureLeavesHolds == Spec => OldPictureLeaves
<1> DEFINE I == missed = 0 => Regular
<1>1. Init => I
  <2> SUFFICES ASSUME Init PROVE Regular
    OBVIOUS
  <2>1. (\A c \in Epochs : Len(channels[c]) = 0) /\ Len(ring) = 0
    BY DEF Init
  <2> QED
    BY <2>1 DEF Regular
<1>2. WallIInv /\ I /\ [Next]_vars => I'
  <2>1. CASE UNCHANGED vars
    BY <2>1 DEF Regular, Idle, vars, chainVars
  <2>2. ASSUME WallIInv, I, Next, missed' = 0
        PROVE  Regular'
    BY <2>2, ChainStep, RegularStep DEF WallIInv
  <2> QED
    BY <2>1, <2>2
<1>3. WallIInv /\ I /\ [Next]_vars =>
        [slot' \notin {slot, None} =>
           missed > 0 \/ slot'.frame.epoch = Current
             \/ played - started[Current] <= Window + 1]_vars
  <2> SUFFICES ASSUME WallIInv, I, Next, slot' \notin {slot, None}, ~ (missed > 0),
                      slot'.frame.epoch # Current
               PROVE  played - started[Current] <= Window + 1
    BY DEF vars, renderVars
  <2>1. Regular
    BY ConstantTypes DEF WallIInv, Typed, TypeOK
  <2>2. PICK i \in 1 .. Len(ring) : slot'.frame = ring[i].frame
    BY ShowStep
  <2> QED
    BY <2>1, <2>2, OldFrames
<1> HIDE DEF I
<1> QED
  BY <1>1, <1>2, <1>3, WallInvariance, PTL DEF Spec, OldPictureLeaves
-----------------------------------------------------------------------------
(* The first stream without a gap: the ring holds the last ticks of play,   *)
(* one frame each, as far back as it reaches or to the last resume.         *)

\* The tick of the last frame in the ring, or -1.
Newest == IF delivered = played /\ Idle THEN played ELSE played - 1

\* The first tick that no pause has torn.
Whole == IF run = 0 THEN 0 ELSE resumed + 1

InRing(t) == \E i \in 1 .. Len(ring) : ring[i].frame.at = t

\* While the stream plays, the age of such a frame is the same by either clock.
Steady ==
  /\ \A i \in 1 .. Len(ring) : ring[i].frame.at <= Newest
  /\ Newest >= 0 => InRing(Newest)
  /\ playing =>
       /\ \A i \in 1 .. Len(ring) : ring[i].frame.at >= Whole =>
            ring[i].captured_at - ring[i].frame.at = now - played
       /\ \A t \in 0 .. Newest : t >= Whole /\ Newest - t <= Window => InRing(t)

LEMMA FirstStream ==
  ASSUME Typed, Timely, Next, Current' = 0
  PROVE  Current = 0 /\ ~ Reconnect
<1>1. Current \in Nat /\ Current' \in Nat /\ Current <= Current' /\ LatestIn(started', Current')
  BY ClockStep DEF Onwards, Timely, Epochs
<1>2. Current = 0
  BY <1>1
<1>3. ASSUME Reconnect PROVE FALSE
  <2>1. 1 \in Epochs /\ started'[1] = played /\ played # None
    BY <1>2, <1>3, ConstantTypes, ClockTypes, WallAssumption DEF Reconnect, Epochs, Typed, TypeOK
  <2> QED
    BY <1>1, <2>1 DEF LatestIn
<1> QED
  BY <1>2, <1>3

\* What is captured came in this tick, and nothing waits behind it.
LEMMA CapturedNow ==
  ASSUME WallIInv, Regular, Current = 0, NEW c \in Epochs, Capture(c)
  PROVE  /\ Idle' /\ ~ Idle
         /\ delivered = played
         /\ \E f \in Frames, d \in Nat :
              f.at = played /\ Shifted(f, d) /\ UNCHANGED <<clockVars, delivered>>
<1>t. /\ Typed /\ Timely /\ Flow /\ played \in Nat /\ None \notin Int
      /\ \A e \in Epochs : channels[e] \in Seq(Frames) /\ Queued(e)
      /\ \A e \in Epochs : e \in Nat
  <2>1. Typed /\ Timely /\ Flow
    BY DEF WallIInv
  <2>2. played \in Nat /\ None \notin Int
    BY <2>1, ClockTypes, WallAssumption
  <2>3. \A e \in Epochs : channels[e] \in Seq(Frames) /\ Queued(e)
    BY <2>1 DEF Typed, Flow
  <2>4. \A e \in Epochs : e \in Nat
    BY ConstantTypes DEF Epochs
  <2> QED
    BY <2>1, <2>2, <2>3, <2>4
<1>1. PICK f \in Frames, d \in Nat :
         /\ f = channels[c][1] /\ 1 \in 1 .. Len(channels[c])
         /\ f.epoch = c /\ Born(f)
         /\ channels' = [channels EXCEPT ![c] = Tail(@)]
         /\ UNCHANGED <<clockVars, started, delivered, missed>>
         /\ Shifted(f, d)
  BY <1>t, CaptureStep
<1>2. f.at = played
  BY <1>1 DEF Regular
<1>3. delivered = played
  <2>1. delivered # None /\ f.at <= delivered
    BY <1>1, <1>t DEF Born
  <2>2. delivered <= played /\ delivered \in Nat
    BY <1>t, <2>1, ConstantTypes DEF Timely, Typed, TypeOK
  <2> QED
    BY <1>2, <1>t, <2>1, <2>2
<1>4. ASSUME NEW e \in Epochs
      PROVE  Len(channels[e]) <= 1 /\ (Len(channels[e]) = 1 => e = c)
  <2>1. Len(channels[e]) \in Nat
    BY <1>t
  <2>2. ASSUME Len(channels[e]) > 1 PROVE FALSE
    <3>1. 1 \in 1 .. Len(channels[e]) /\ 2 \in 1 .. Len(channels[e])
      BY <2>1, <2>2
    <3>2. channels[e][1].at < channels[e][2].at
      BY <1>t, <3>1 DEF Queued
    <3>3. channels[e][1].at = played /\ channels[e][2].at = played
      BY <3>1 DEF Regular
    <3> QED
      BY <1>t, <3>2, <3>3
  <2>3. ASSUME Len(channels[e]) = 1 PROVE e = c
    <3>1. 1 \in 1 .. Len(channels[e])
      BY <2>3
    <3>2. Born(channels[e][1]) /\ channels[e][1].epoch = e
      BY <1>t, <3>1 DEF Queued
    <3>3. e <= 0 /\ c <= 0
      BY <1>1, <3>2 DEF Born
    <3> QED
      BY <1>t, <3>3
  <2> QED
    BY <2>1, <2>2, <2>3
<1>5. Idle'
  <2>1. ASSUME NEW e \in Epochs
        PROVE  channels'[e] = <<>>
    <3>1. CASE e = c
      <4>1. channels[c] # <<>> /\ channels'[c] = Tail(channels[c])
        BY <1>1, <1>t DEF Typed
      <4>2. Len(channels'[c]) = Len(channels[c]) - 1 /\ channels'[c] \in Seq(Frames)
        BY <1>t, <4>1, TailAt
      <4>3. PICK k \in Nat : k = Len(channels[c])
        BY <1>t
      <4>4. k <= 1 /\ 1 \in 1 .. k
        BY <1>1, <1>4, <4>3
      <4>5. k - 1 = 0
        BY <4>4
      <4>6. Len(channels'[c]) = k - 1
        BY <4>2, <4>3
      <4>7. Len(channels'[c]) = 0
        BY <4>5, <4>6
      <4> QED
        BY <3>1, <4>2, <4>7
    <3>2. CASE e # c
      <4>1. PICK k \in Nat : k = Len(channels[e])
        BY <1>t
      <4>2. k <= 1 /\ k # 1
        BY <1>4, <3>2, <4>1
      <4>3. k = 0
        BY <4>2
      <4>4. Len(channels[e]) = 0 /\ channels[e] \in Seq(Frames)
        BY <1>t, <4>1, <4>3
      <4>5. channels'[e] = channels[e]
        BY <1>1, <1>t, <3>2 DEF Typed
      <4> QED
        BY <4>4, <4>5
    <3> QED
      BY <3>1, <3>2
  <2> QED
    BY <2>1 DEF Idle
<1>6. ~ Idle
  BY <1>1, <1>t DEF Idle
<1> QED
  BY <1>1, <1>2, <1>3, <1>5, <1>6

\* What the eviction drops has grown too old by either clock, or is from before the
\* last resume.
LEMMA SteadyCapture ==
  ASSUME WallIInv, Regular, Steady, Current = 0, NEW c \in Epochs, Capture(c)
  PROVE  Steady'
<1>1. /\ Idle' /\ ~ Idle /\ delivered = played
      /\ played \in Nat /\ now \in Nat /\ Window \in Nat /\ Len(ring) \in Nat
      /\ Typed /\ run \in Nat /\ resumed \in Nat /\ Whole \in Nat
  BY CapturedNow, ConstantTypes, ClockTypes DEF WallIInv, Typed, Whole
<1>2. PICK f \in Frames, d \in Nat :
        f.at = played /\ Shifted(f, d) /\ UNCHANGED <<clockVars, delivered>>
  BY CapturedNow
<1>3. Newest = played - 1 /\ Newest' = played /\ Whole' = Whole
  BY <1>1, <1>2 DEF Newest, Whole
<1>4. /\ \A i \in 1 .. Len(ring) : /\ ring[i].frame.at <= played - 1
                                    /\ ring[i].frame.at \in Nat /\ ring[i].captured_at \in Nat
      /\ playing =>
           /\ \A i \in 1 .. Len(ring) : ring[i].frame.at >= Whole =>
                ring[i].captured_at - ring[i].frame.at = now - played
           /\ \A t \in 0 .. played - 1 : t >= Whole /\ played - 1 - t <= Window => InRing(t)
  BY <1>1, <1>3, EntryType DEF Steady
<1>5. /\ d \in 0 .. Len(ring) /\ Len(ring') = Len(ring) + 1 - d
      /\ ring'[Len(ring) + 1 - d] = [frame |-> f, captured_at |-> now]
      /\ \A i \in 1 .. Len(ring) - d : ring'[i] = ring[i + d]
      /\ \A i \in 1 .. d : now - ring[i].captured_at > Window
  BY <1>2 DEF Shifted
<1>6. ASSUME NEW i \in 1 .. Len(ring')
      PROVE  \/ i + d \in 1 .. Len(ring) /\ ring'[i] = ring[i + d]
             \/ ring'[i].frame.at = played /\ ring'[i].captured_at = now
  <2>1. \/ i + d \in 1 .. Len(ring) /\ ring'[i] = ring[i + d]
        \/ ring'[i] = [frame |-> f, captured_at |-> now]
    BY <1>1, <1>2, ShiftedEntries
  <2>2. ASSUME ring'[i] = [frame |-> f, captured_at |-> now]
        PROVE  ring'[i].frame.at = played /\ ring'[i].captured_at = now
    BY <1>2, <2>2
  <2> QED
    BY <2>1, <2>2
<1>7. \A i \in 1 .. Len(ring') : ring'[i].frame.at <= played
  BY <1>1, <1>4, <1>6
<1>8. \E i \in 1 .. Len(ring') : ring'[i].frame.at = played
  BY <1>1, <1>2, <1>5
<1>9. ASSUME playing, NEW i \in 1 .. Len(ring'), ring'[i].frame.at >= Whole
      PROVE  ring'[i].captured_at - ring'[i].frame.at = now - played
  BY <1>1, <1>4, <1>6, <1>9
<1>10. ASSUME playing, NEW t \in 0 .. played, t >= Whole, played - t <= Window
       PROVE  \E i \in 1 .. Len(ring') : ring'[i].frame.at = t
  <2>1. CASE t = played
    BY <1>8, <2>1
  <2>2. CASE t # played
    <3>1. t \in 0 .. played - 1 /\ played - 1 - t <= Window
      BY <1>1, <1>10, <2>2
    <3>2. PICK i \in 1 .. Len(ring) : ring[i].frame.at = t
      BY <1>4, <1>10, <3>1 DEF InRing
    <3>3. now - ring[i].captured_at = played - t
      <4>1. /\ ring[i].captured_at - t = now - played /\ ring[i].captured_at \in Nat
            /\ t \in Nat
        BY <1>4, <1>10, <3>1, <3>2
      <4> QED
        BY <1>1, <4>1
    <3>4. i \notin 1 .. d
      BY <1>1, <1>5, <1>10, <3>3
    <3>5. i - d \in 1 .. Len(ring) - d /\ i - d \in 1 .. Len(ring') /\ (i - d) + d = i
      BY <1>1, <1>5, <3>4
    <3> QED
      BY <1>5, <3>2, <3>5
  <2> QED
    BY <2>1, <2>2
<1>11. UNCHANGED <<playing, now, played>>
  BY <1>2
<1> QED
  BY <1>3, <1>7, <1>8, <1>9, <1>10, <1>11 DEF Steady, InRing

LEMMA SteadyStep ==
  ASSUME WallIInv, Next, Regular, missed' = 0, Current' = 0, Steady
  PROVE  Steady'
<1>t. /\ Typed /\ Timely /\ Current = 0 /\ ~ Reconnect
      /\ played \in Nat /\ now \in Nat /\ resumed \in Nat /\ run \in Nat /\ None \notin Int
  BY FirstStream, ClockTypes, WallAssumption DEF WallIInv
<1>1. CASE Passes
  <2>1. Newest = played
    BY <1>1 DEF Passes, Newest
  <2>2. delivered' # played' /\ Newest' = played /\ now' - played' = now - played
    BY <1>1, <1>t DEF Passes, Newest
  <2> QED
    BY <1>1, <2>1, <2>2 DEF Passes, Steady, InRing, Whole
<1>2. CASE Delivers
  <2>1. Newest = played - 1 /\ Newest' = played - 1
    BY <1>2, <1>t, NotIdle DEF Delivers, Newest
  <2> QED
    BY <1>2, <2>1 DEF Delivers, Steady, InRing, Whole
<1>3. CASE UNCHANGED <<clockVars, started, delivered, channels, ring>>
  BY <1>3 DEF Steady, Newest, Idle, InRing, Whole
<1>4. CASE Waits
  BY <1>4 DEF Waits, Steady, Newest, Idle, InRing
<1>5. CASE Toggles
  <2>1. UNCHANGED <<played, ring>> /\ Newest' = Newest /\ Newest \in {played - 1, played}
    BY <1>5 DEF Toggles, Newest, Idle
  <2>2. playing' => run' # 0 /\ Whole' = played + 1
    <3> SUFFICES ASSUME playing' PROVE run' # 0 /\ Whole' = played + 1
      OBVIOUS
    <3>1. ~ playing
      BY <1>5 DEF Toggles
    <3>2. run' = run + 1 /\ resumed' = played
      BY <1>5, <3>1 DEF Toggles
    <3>3. run' # 0
      BY <1>t, <3>2
    <3> QED
      BY <3>2, <3>3 DEF Whole
  <2>3. \A i \in 1 .. Len(ring) : ring[i].frame.at \in Nat /\ ring[i].frame.at <= played
    BY <1>t, <2>1, EntryType DEF Steady
  <2> QED
    BY <1>t, <2>1, <2>2, <2>3 DEF Steady, InRing
<1> QED
  BY <1>1, <1>2, <1>3, <1>4, <1>5, <1>t, ChainStep, SteadyCapture

\* A target is within reach of the ring, or the tick that is just being captured.
LEMMA TargetInReach ==
  ASSUME NEW time \in Nat, NEW offset \in 0 .. Ceiling, played \in Nat,
         time <= played, played - time <= Slack
  PROVE  /\ Target(time, offset) \in Nat
         /\ Target(time, offset) <= played /\ played - Target(time, offset) <= Window
  BY ConstantTypes DEF Target, Window

LEMMA PictureOfTheMoment ==
  ASSUME WallIInv, Steady, Current = 0, playing, Settled,
         NEW time \in Nat, NEW offset \in 0 .. Ceiling, time <= played, played - time <= Slack,
         NEW i \in 1 .. Len(ring), Closest(i, Target(time, offset))
  PROVE  Target(time, offset) - ring[i].frame.at \in {0, 1}
<1>t. /\ Typed /\ Timely /\ Flow /\ played \in Nat /\ resumed \in Nat /\ run \in Nat
      /\ Window \in Nat /\ started[0] = 0
  BY ConstantTypes, ClockTypes DEF WallIInv, Timely
<1>1. ASSUME NEW j \in 1 .. Len(ring)
      PROVE  /\ Pts(ring[j].frame) = ring[j].frame.at
             /\ ring[j].frame.at \in Nat /\ ring[j].frame.at <= Newest
  <2>1. /\ Born(ring[j].frame) /\ ring[j].frame.epoch \in Nat /\ ring[j].frame.at \in Nat
    BY <1>t, EntryType, FrameType DEF Flow, RingBorn
  <2>2. ring[j].frame.epoch = 0
    BY <2>1 DEF Born
  <2> QED
    BY <1>t, <2>1, <2>2 DEF Pts, Steady
<1>2. PICK N \in Int : N = Newest /\ N \in {played - 1, played}
  BY <1>t DEF Newest
<1>3. PICK T \in Nat : T = Target(time, offset) /\ T <= played /\ played - T <= Window
  BY <1>t, TargetInReach
<1>4. PICK p \in Nat : p = ring[i].frame.at /\ p <= N
  BY <1>1, <1>2
<1>5. ASSUME NEW j \in 1 .. Len(ring)
      PROVE  Distance(p, T) <= Distance(ring[j].frame.at, T)
  <2>1. Distance(Pts(ring[i].frame), T) <= Distance(Pts(ring[j].frame), T)
    BY <1>3 DEF Closest
  <2> QED
    BY <1>1, <1>4, <2>1
<1>6. CASE T <= N
  <2>1. T >= Whole /\ N - T <= Window /\ T \in 0 .. N
    BY <1>t, <1>2, <1>3, <1>6 DEF Whole, Settled
  <2>2. PICK j \in 1 .. Len(ring) : ring[j].frame.at = T
    BY <1>2, <2>1 DEF Steady, InRing
  <2>3. Distance(p, T) <= Distance(T, T)
    BY <1>5, <2>2
  <2>4. T - p = 0
    BY <2>3 DEF Distance
  <2> QED
    BY <1>3, <1>4, <2>4
<1>7. CASE T > N
  <2>1. N >= 0 /\ T = N + 1
    BY <1>t, <1>2, <1>3, <1>4, <1>7
  <2>2. PICK j \in 1 .. Len(ring) : ring[j].frame.at = N
    BY <1>2, <2>1 DEF Steady, InRing
  <2>3. Distance(p, T) <= Distance(N, T)
    BY <1>5, <2>2
  <2>4. T - p \in {0, 1}
    BY <1>4, <2>1, <2>3 DEF Distance
  <2> QED
    BY <1>3, <1>4, <2>4
<1> QED
  BY <1>2, <1>3, <1>6, <1>7

\* With no frame missed since the start and no reconnect, and while the stream plays,
\* from the start or for longer than the ring is since the last resume, whoever draws,
\* late by no more than the slack, shows the picture of the moment the offset asks for,
\* or the one before while that is being captured, for every offset up to the ceiling.
THEOREM OnTimeHolds ==
  ASSUME Offsets \subseteq 0 .. Ceiling
  PROVE  Spec => OnTime
<1> DEFINE I == /\ missed = 0 => Regular
                /\ missed = 0 /\ Current = 0 => Steady
<1>1. Init => I
  <2> SUFFICES ASSUME Init PROVE Regular /\ Steady
    OBVIOUS
  <2>1. /\ \A c \in Epochs : Len(channels[c]) = 0
        /\ Len(ring) = 0
        /\ delivered # played /\ played = 0
    BY WallAssumption DEF Init
  <2>2. Newest = 0 - 1
    BY <2>1 DEF Newest
  <2> QED
    BY <2>1, <2>2, ConstantTypes DEF Regular, Steady
<1>2. WallIInv /\ I /\ [Next]_vars => I'
  <2>1. CASE UNCHANGED vars
    BY <2>1 DEF Regular, Steady, Newest, Whole, InRing, Idle, Current, vars, chainVars
  <2>2. ASSUME WallIInv, I, Next, missed' = 0
        PROVE  Regular' /\ (Current' = 0 => Steady')
    <3>1. Typed /\ Timely /\ Regular
      BY <2>2, ChainStep DEF WallIInv
    <3>2. ASSUME Current' = 0
          PROVE  Steady'
      <4>1. Steady
        BY <2>2, <3>1, <3>2, ChainStep, FirstStream
      <4> QED
        BY <2>2, <3>1, <3>2, <4>1, SteadyStep
    <3> QED
      BY <2>2, <3>1, <3>2, RegularStep
  <2> QED
    BY <2>1, <2>2
<1>3. WallIInv /\ I /\ [Next]_vars =>
        [slot' \notin {slot, None} =>
           \/ missed > 0
           \/ Current > 0
           \/ ~ playing \/ ~ Settled
           \/ ShownFor.run # run \/ played - ShownFor.time > Slack
           \/ Target(ShownFor.time, slot'.offset) - slot'.frame.at \in {0, 1}]_vars
  <2> SUFFICES ASSUME WallIInv, I, Next, slot' \notin {slot, None}, ~ (missed > 0),
                      ~ (Current > 0), playing, Settled,
                      ShownFor.run = run, ~ (played - ShownFor.time > Slack)
               PROVE  Target(ShownFor.time, slot'.offset) - slot'.frame.at \in {0, 1}
    BY DEF vars, renderVars
  <2>1. missed = 0 /\ Current = 0 /\ played \in Nat /\ Slack \in Nat
    BY ConstantTypes, ClockTypes DEF WallIInv, Typed, TypeOK, Timely, Epochs
  <2>2. Steady
    BY <2>1
  <2>3. PICK offset \in Offsets, i \in 1 .. Len(ring) :
          /\ slot' = [frame |-> ring[i].frame, offset |-> offset, run |-> Basis.run]
          /\ Closest(i, Target(Basis.time, offset))
    BY ShowStep
  <2>4. PICK t \in Nat : t = ShownFor.time /\ t = Basis.time /\ t <= played
    <3>1. /\ ShownFor = Basis /\ Basis.time \in Nat /\ NoLater(Basis, current_running_time)
      BY ShowStep
    <3>2. ahead = 0 /\ played + ahead = played
      BY <2>1 DEF WallIInv, Timely, Clocks
    <3> QED
      BY <3>1, <3>2 DEF NoLater, current_running_time
  <2>5. played - t <= Slack
    BY <2>1, <2>4
  <2>6. Closest(i, Target(t, offset))
    BY <2>3, <2>4
  <2>7. Target(t, offset) - ring[i].frame.at \in {0, 1}
    BY <2>1, <2>2, <2>4, <2>5, <2>6, PictureOfTheMoment
  <2>8. slot'.frame = ring[i].frame /\ slot'.offset = offset
    BY <2>3
  <2> QED
    BY <2>4, <2>7, <2>8
<1> HIDE DEF I
<1> QED
  BY <1>1, <1>2, <1>3, WallInvariance, PTL DEF Spec, OnTime
=============================================================================
