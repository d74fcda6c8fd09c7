------------------------------ MODULE ChainsProofs -----------------------------
(***************************************************************************)
(* Theorems about Chains.  The properties of single pads hold because      *)
(* layout and row agree, of which pads only keep what they were built or   *)
(* last set with, and because a rebuild finds whatever pad there is by the *)
(* name in the pipeline (ChainsFollowStreams) and releases it (NoLeak).    *)
(***************************************************************************)
EXTENDS Chains, FiniteSetTheorems, TLAPS

\* The copies of a source's settings: mutes always, offsets once transport has
\* taken one, which needs an entry.
SettingsAgree ==
  /\ \A s \in Sources : layout[s].muted = row[s].muted
  /\ edited \subseteq entries

\* The one-shot probe is on chains built at start-up only.
ProbeIsOfStart ==
  \A s \in PadsOf("audio") :
    chains["audio"].pads[s].rebuilt => chains["audio"].pads[s].base = None

ChainsIInv ==
  /\ TypeOK /\ NoLeak /\ ChainsFollowStreams
  /\ SettingsAgree /\ OffsetSticks /\ MuteFollowsRow
  /\ ProbeIsOfStart /\ CorrectedOnce /\ InStep /\ Observed

Records == [bin : SUBSET Sources, mapped : SUBSET Sources, sinks : Nat, lost : Nat,
            pads : [Sources -> {None} \cup Pads]]

\* What NoLeak says of one aggregator's chains.
Tidy(m, c) ==
  /\ c.sinks = StartSinks(m) + Cardinality(c.mapped) + c.lost
  /\ c.mapped = {s \in Sources : c.pads[s] # None}

\* new has this pad for s, and those of old for the others.
OnlyAt(new, old, s, pad) ==
  new.pads[s] = pad /\ \A q \in Sources \ {s} : new.pads[q] = old.pads[q]

USE ChainsAssumption

-----------------------------------------------------------------------------
(* Helpers.                                                                *)

\* A value brought within bounds is within them, and what is within stays.
LEMMA WithinClamps ==
  ASSUME NEW b \in [min : Int, max : Int], b.min <= b.max, NEW ms \in Int
  PROVE  /\ Within(b, ms) \in b.min .. b.max
         /\ ms \in b.min .. b.max => Within(b, ms) = ms
  BY DEF Within, Least

LEMMA CorrectionIsNat ==
  ASSUME NEW t \in Nat
  PROVE  Correction(t) \in 0 .. t
  BY DEF Correction

LEMMA StartSinksIsNat == \A m \in Media : StartSinks(m) \in Nat
  BY FS_CardinalityType DEF StartSinks, Floor, Insets

LEMMA TidyIsNoLeak == NoLeak <=> \A m \in Media : Tidy(m, chains[m])
  BY DEF NoLeak, Tidy, PadsOf

LEMMA RecordsType == TypeOK => chains \in [Media -> Records]
  BY DEF TypeOK, Records

\* Removing a chain leaves the aggregator tidy and the other sources alone.
LEMMA RemovedIsTidy ==
  ASSUME NEW m \in Media, NEW c \in Records, Tidy(m, c), NEW s \in Sources
  PROVE  LET r == Removed(c, s)
         IN  /\ r \in Records /\ Tidy(m, r)
             /\ r.bin = c.bin \ {s}
             /\ OnlyAt(r, c, s, None)
<1> DEFINE r == Removed(c, s)
<1>1. /\ r.bin = c.bin \ {s} /\ r.mapped = c.mapped \ {s} /\ r.lost = c.lost
      /\ r.pads = [c.pads EXCEPT ![s] = None]
      /\ r.sinks = c.sinks - (IF s \in c.mapped THEN 1 ELSE 0)
  BY DEF Removed, Dismantled, Released, Records
<1>2. IsFiniteSet(c.mapped)
  BY FS_Subset DEF Records
<1>3. /\ Cardinality(c.mapped) \in Nat /\ Cardinality(c.mapped \ {s}) \in Nat
      /\ Cardinality(c.mapped \ {s}) =
           Cardinality(c.mapped) - (IF s \in c.mapped THEN 1 ELSE 0)
  <2>1. Cardinality(c.mapped) \in Nat
    BY <1>2, FS_CardinalityType
  <2>2. IsFiniteSet(c.mapped \ {s})
        /\ Cardinality(c.mapped \ {s}) =
             IF s \in c.mapped THEN Cardinality(c.mapped) - 1 ELSE Cardinality(c.mapped)
    BY <1>2, FS_RemoveElement
  <2>3. Cardinality(c.mapped \ {s}) \in Nat
    BY <2>2, FS_CardinalityType
  <2> QED
    BY <2>1, <2>2, <2>3
<1>4. c.sinks = StartSinks(m) + Cardinality(c.mapped) + c.lost
      /\ c.sinks \in Nat /\ c.lost \in Nat /\ StartSinks(m) \in Nat
  BY StartSinksIsNat DEF Tidy, Records
<1>5. r.sinks = StartSinks(m) + Cardinality(c.mapped \ {s}) + c.lost /\ r.sinks \in Nat
  BY <1>1, <1>3, <1>4
<1>6. r \in Records
  BY <1>5 DEF Removed, Dismantled, Released, Records
<1>7. r.mapped = {q \in Sources : r.pads[q] # None}
  BY <1>1 DEF Tidy, Records
<1>8. OnlyAt(r, c, s, None)
  BY <1>1 DEF OnlyAt, Records
<1> HIDE DEF r
<1> QED
  BY <1>1, <1>5, <1>6, <1>7, <1>8 DEF r, Tidy

\* A builder, however far it comes, leaves the aggregator tidy but for the pad it
\* may lose.
LEMMA AddedIsTidy ==
  ASSUME NEW m \in Media, NEW c \in Records, Tidy(m, c), NEW s \in Sources \ c.mapped,
         NEW pad \in Pads, NEW how \in Outcomes
  PROVE  LET a == Added(c, s, pad, how)
         IN  /\ a \in Records /\ Tidy(m, a)
             /\ a.bin \in {c.bin, c.bin \cup {s}}
             /\ how = "built" => a.bin = c.bin \cup {s}
             /\ OnlyAt(a, c, s, IF how = "built" THEN pad ELSE c.pads[s])
<1> DEFINE a == Added(c, s, pad, how)
<1>1. IsFiniteSet(c.mapped)
  BY FS_Subset DEF Records
<1>2. /\ Cardinality(c.mapped) \in Nat
      /\ Cardinality(c.mapped \cup {s}) = Cardinality(c.mapped) + 1
  BY <1>1, FS_AddElement, FS_CardinalityType
<1>3. c.sinks = StartSinks(m) + Cardinality(c.mapped) + c.lost
      /\ c.sinks \in Nat /\ c.lost \in Nat /\ StartSinks(m) \in Nat
  BY StartSinksIsNat DEF Tidy, Records
<1>4. CASE how = "built"
  <2>1. a = [bin |-> c.bin \cup {s}, mapped |-> c.mapped \cup {s}, sinks |-> c.sinks + 1,
             lost |-> c.lost, pads |-> [c.pads EXCEPT ![s] = pad]]
    BY <1>4 DEF Added, Records
  <2>2. a.mapped = {q \in Sources : a.pads[q] # None}
    BY <2>1 DEF Tidy, Records
  <2>3. a \in Records
    BY <2>1, <1>3 DEF Records
  <2>4. a.sinks = StartSinks(m) + Cardinality(a.mapped) + a.lost
    BY <2>1, <1>2, <1>3
  <2>5. OnlyAt(a, c, s, pad)
    BY <2>1 DEF OnlyAt, Records
  <2> QED
    BY <1>4, <2>1, <2>2, <2>3, <2>4, <2>5 DEF Tidy
<1>5. CASE how \in {"absent", "loose", "leaked"}
  <2>1. CASE how = "absent"
    BY <1>5, <2>1 DEF Added, Tidy, OnlyAt
  <2>2. CASE how \in {"loose", "leaked"}
    <3> DEFINE more == IF how = "leaked" THEN 1 ELSE 0
    <3>1. /\ a.bin = c.bin \cup {s} /\ a.mapped = c.mapped /\ a.pads = c.pads
          /\ a.sinks = c.sinks + more /\ a.lost = c.lost + more
      BY <1>3, <2>2 DEF Added, Records
    <3>2. a \in Records
      <4>1. c.sinks + 1 \in Nat /\ c.lost + 1 \in Nat
        BY <1>3
      <4>2. CASE how = "loose"
        BY <4>2 DEF Added, Records
      <4>3. CASE how = "leaked"
        BY <4>1, <4>3 DEF Added, Records
      <4> QED
        BY <2>2, <4>2, <4>3
    <3>3. a.sinks = StartSinks(m) + Cardinality(a.mapped) + a.lost
      BY <3>1, <1>2, <1>3
    <3> QED
      BY <1>5, <3>1, <3>2, <3>3 DEF Tidy, OnlyAt
  <2> QED
    BY <1>5, <2>1, <2>2
<1> QED
  BY <1>4, <1>5

-----------------------------------------------------------------------------
(* What a StreamsChanged does to one aggregator.                           *)

\* No pad, or one that its source's name finds.
LEMMA NamesFindPads ==
  ASSUME ChainsFollowStreams, NEW m \in Media, NEW s \in External,
         chains[m].pads[s] # None
  PROVE  HasChain(chains[m], s)
  BY DEF ChainsFollowStreams, PadsOf, HasChain

\* The pad a builder gives a source that is rebuilt at time t.
RebuiltPad(m, s, t) == IF m = "video" THEN RebuiltVideo(s, t) ELSE RebuiltAudio(s, t)

LEMMA RebuiltPadType ==
  ASSUME TypeOK, NEW m \in Media, NEW s \in Sources, NEW t \in Nat
  PROVE  /\ RebuiltPad(m, s, t) \in Pads
         /\ RebuiltPad(m, s, t).rebuilt /\ RebuiltPad(m, s, t).base = None
         /\ RebuiltPad(m, s, t).offset = layout[s].offset + Correction(t)
         /\ m = "audio" => RebuiltPad(m, s, t).muted = layout[s].muted
         /\ RebuiltPad(m, s, t).probes = 0 /\ RebuiltPad(m, s, t).taps = 0
<1>1. layout[s].offset \in Int /\ layout[s].muted \in BOOLEAN
  BY DEF TypeOK
<1>2. layout[s].offset + Correction(t) \in Int
  BY <1>1, CorrectionIsNat
<1>3. "audio" # "video"
  OBVIOUS
<1> HIDE DEF Correction
<1> QED
  BY <1>1, <1>2, <1>3 DEF RebuiltPad, RebuiltVideo, RebuiltAudio, Pad, Pads

\* Whatever was there before, a source ends with the new chain if it is wanted and
\* the builder is done, else with none; and its name is in the pipeline if the
\* builder is done, and only if it was wanted.
LEMMA ReconciledIs ==
  ASSUME ChainsIInv, NEW m \in Media, NEW s \in External, NEW caps \in SUBSET Media,
         NEW t \in Nat, NEW how \in [caps -> Outcomes]
  PROVE  LET r == Reconciled(m, s, m \in caps, t, how[m])
             done == m \in caps /\ how[m] = "built"
         IN  /\ r \in Records /\ Tidy(m, r)
             /\ OnlyAt(r, chains[m], s, IF done THEN RebuiltPad(m, s, t) ELSE None)
             /\ \A q \in Sources \ {s} : q \in r.bin <=> q \in chains[m].bin
             /\ done => s \in r.bin
             /\ m \notin caps => s \notin r.bin
<1> DEFINE c == chains[m]
           bare == IF HasChain(c, s) THEN Removed(c, s) ELSE c
           pad == RebuiltPad(m, s, t)
           r == Reconciled(m, s, m \in caps, t, how[m])
<1>1. c \in Records /\ Tidy(m, c)
  BY RecordsType, TidyIsNoLeak DEF ChainsIInv
<1>2. /\ bare \in Records /\ Tidy(m, bare)
      /\ bare.bin = c.bin \ {s}
      /\ OnlyAt(bare, c, s, None)
  <2>1. CASE HasChain(c, s)
    BY <1>1, <2>1, RemovedIsTidy
  <2>2. CASE ~ HasChain(c, s)
    <3>1. c.pads[s] = None
      BY <2>2, NamesFindPads DEF ChainsIInv
    <3> QED
      BY <1>1, <2>2, <3>1 DEF HasChain, Records, OnlyAt
  <2> QED
    BY <2>1, <2>2
<1>3. m \in caps => r = Added(bare, s, pad, how[m])
  BY DEF Reconciled, Rebuilt, AddedVideo, AddedAudio, RebuiltPad
<1>4. m \notin caps => r = bare
  BY DEF Reconciled
<1> HIDE DEF bare, r
<1>5. s \in Sources \ bare.mapped
  BY <1>1, <1>2 DEF Tidy, Records, OnlyAt
<1>6. pad \in Pads
  BY RebuiltPadType DEF ChainsIInv
<1> HIDE DEF pad
<1>7. CASE m \in caps
  <2>1. how[m] \in Outcomes
    BY <1>7
  <2> DEFINE a == Added(bare, s, pad, how[m])
  <2>2. /\ a \in Records /\ Tidy(m, a)
        /\ a.bin \in {bare.bin, bare.bin \cup {s}}
        /\ how[m] = "built" => a.bin = bare.bin \cup {s}
        /\ OnlyAt(a, bare, s, IF how[m] = "built" THEN pad ELSE bare.pads[s])
    BY <1>2, <1>5, <1>6, <2>1, AddedIsTidy
  <2> HIDE DEF a
  <2>3. OnlyAt(a, c, s, IF how[m] = "built" THEN pad ELSE None)
    BY <1>2, <2>2 DEF OnlyAt
  <2>4. \A q \in Sources \ {s} : q \in a.bin <=> q \in c.bin
    BY <1>2, <2>2
  <2>5. how[m] = "built" => s \in a.bin
    BY <2>2
  <2>6. r = a
    BY <1>3, <1>7 DEF a
  <2> QED
    BY <1>7, <2>2, <2>3, <2>4, <2>5, <2>6 DEF pad, r
<1>8. CASE m \notin caps
  BY <1>2, <1>4, <1>8 DEF r
<1> QED
  BY <1>7, <1>8

WithPad(c, s, pad) == [c EXCEPT !.pads[s] = pad]

\* A pad may be set to another without disturbing the aggregator.
LEMMA PadIsSet ==
  ASSUME NEW m \in Media, NEW c \in Records, Tidy(m, c), NEW s \in Sources,
         c.pads[s] # None, NEW pad \in Pads
  PROVE  /\ WithPad(c, s, pad) \in Records /\ Tidy(m, WithPad(c, s, pad))
         /\ WithPad(c, s, pad).bin = c.bin
         /\ OnlyAt(WithPad(c, s, pad), c, s, pad)
<1> DEFINE n == WithPad(c, s, pad)
<1>1. /\ n.bin = c.bin /\ n.mapped = c.mapped /\ n.sinks = c.sinks /\ n.lost = c.lost
      /\ n.pads = [c.pads EXCEPT ![s] = pad]
  BY DEF Records, WithPad
<1>2. n \in Records
  BY DEF Records, WithPad
<1>3. n.mapped = {q \in Sources : n.pads[q] # None}
  BY <1>1 DEF Tidy, Records
<1>4. OnlyAt(n, c, s, pad)
  BY <1>1 DEF OnlyAt, Records
<1> HIDE DEF n
<1> QED
  BY <1>1, <1>2, <1>3, <1>4 DEF n, Tidy

\* The pad in the running chain after a StreamsChanged for s with these streams.
NewPad(m, s, t) ==
  IF m = "video" THEN Watched(RebuiltPad(m, s, rt), s \in stores) ELSE RebuiltPad(m, s, t)

LEMMA WatchedIs ==
  ASSUME NEW pad \in Pads, pad.probes = 0, pad.taps = 0, NEW tapped
  PROVE  LET new == Watched(pad, tapped)
         IN  /\ new \in Pads
             /\ new.rebuilt = pad.rebuilt /\ new.base = pad.base /\ new.offset = pad.offset
             /\ new.probes = 1 /\ new.taps = IF tapped THEN 1 ELSE 0
<1> DEFINE new == Watched(pad, tapped)
           tap == IF tapped THEN 1 ELSE 0
<1>1. new = [pad EXCEPT !.probes = pad.probes + 1, !.taps = pad.taps + tap]
  BY DEF Watched
<1>2. tap \in Nat /\ 0 + 1 = 1 /\ 0 + tap = tap
  OBVIOUS
<1>3. new = [pad EXCEPT !.probes = 1, !.taps = tap]
  BY <1>1, <1>2
<1> HIDE DEF new, tap
<1>4. new \in Pads
  BY <1>2, <1>3 DEF Pads
<1>5. /\ new.rebuilt = pad.rebuilt /\ new.base = pad.base /\ new.offset = pad.offset
      /\ new.probes = 1 /\ new.taps = tap
  BY <1>3 DEF Pads
<1> QED
  BY <1>4, <1>5 DEF new, tap

LEMMA NewPadType ==
  ASSUME TypeOK, NEW m \in Media, NEW s \in Sources, NEW t \in Nat
  PROVE  /\ NewPad(m, s, t) \in Pads
         /\ NewPad(m, s, t).rebuilt /\ NewPad(m, s, t).base = None
         /\ NewPad(m, s, t).offset =
              layout[s].offset + Correction(IF m = "video" THEN rt ELSE t)
         /\ m = "audio" => NewPad(m, s, t).muted = layout[s].muted
         /\ m = "video" => /\ NewPad(m, s, t).probes = 1
                           /\ NewPad(m, s, t).taps = IF s \in stores THEN 1 ELSE 0
<1>1. rt \in Nat /\ "audio" # "video"
  BY DEF TypeOK
<1>2. CASE m = "video"
  <2> DEFINE pad == RebuiltPad(m, s, rt)
  <2>1. pad \in Pads /\ pad.rebuilt /\ pad.base = None /\ pad.probes = 0 /\ pad.taps = 0
        /\ pad.offset = layout[s].offset + Correction(rt)
    BY <1>1, RebuiltPadType
  <2> HIDE DEF pad
  <2>2. NewPad(m, s, t) = Watched(pad, s \in stores)
    BY <1>2 DEF NewPad, pad
  <2>3. LET new == Watched(pad, s \in stores)
        IN  /\ new \in Pads
            /\ new.rebuilt = pad.rebuilt /\ new.base = pad.base /\ new.offset = pad.offset
            /\ new.probes = 1 /\ new.taps = IF s \in stores THEN 1 ELSE 0
    BY <2>1, WatchedIs
  <2> QED
    BY <1>1, <1>2, <2>1, <2>2, <2>3
<1>3. CASE m = "audio"
  <2>1. NewPad(m, s, t) = RebuiltPad(m, s, t)
    BY <1>1, <1>3 DEF NewPad
  <2> QED
    BY <1>1, <1>3, <2>1, RebuiltPadType
<1> QED
  BY <1>2, <1>3 DEF Media

LEMMA StreamsChangedIs ==
  ASSUME ChainsIInv, NEW s \in Sources, NEW caps \in SUBSET Media,
         NEW how \in [caps -> Outcomes], NEW t \in Nat,
         StreamsChanged(s, caps, how, t)
  PROVE  /\ s \in External
         /\ chains' \in [Media -> Records]
         /\ \A m \in Media :
              LET done == m \in caps /\ how[m] = "built"
              IN  /\ Tidy(m, chains'[m])
                  /\ OnlyAt(chains'[m], chains[m], s, IF done THEN NewPad(m, s, t) ELSE None)
                  /\ \A q \in Sources \ {s} : q \in chains'[m].bin <=> q \in chains[m].bin
                  /\ done => s \in chains'[m].bin
                  /\ m \notin caps => s \notin chains'[m].bin
<1> DEFINE read == [video |-> rt, audio |-> t]
           r(m) == Reconciled(m, s, m \in caps, read[m], how[m])
           done(m) == m \in caps /\ how[m] = "built"
<1>1. s \in External
  BY DEF StreamsChanged, ChainsIInv, TypeOK
<1>2. chains' = [[m \in Media |-> r(m)] EXCEPT !["video"] = Attached(@, s)]
  BY DEF StreamsChanged
<1>3. \A m \in Media :
        /\ r(m) \in Records /\ Tidy(m, r(m))
        /\ OnlyAt(r(m), chains[m], s, IF done(m) THEN RebuiltPad(m, s, read[m]) ELSE None)
        /\ \A q \in Sources \ {s} : q \in r(m).bin <=> q \in chains[m].bin
        /\ done(m) => s \in r(m).bin
        /\ m \notin caps => s \notin r(m).bin
  <2> TAKE m \in Media
  <2>1. read[m] \in Nat
    BY DEF ChainsIInv, TypeOK, Media
  <2> HIDE DEF read
  <2> QED
    BY <1>1, <2>1, ReconciledIs
<1>4. read["video"] = rt /\ read["audio"] = t /\ "video" \in Media
  BY DEF Media
<1> HIDE DEF r, read
<1>5. chains'["audio"] = r("audio") /\ chains'["video"] = Attached(r("video"), s)
  BY <1>2 DEF Media
<1>6. LET v == chains'["video"]
      IN  /\ v \in Records /\ Tidy("video", v) /\ v.bin = r("video").bin
          /\ OnlyAt(v, chains["video"], s,
                    IF done("video") THEN NewPad("video", s, t) ELSE None)
  <2> DEFINE c == r("video")
  <2>1. c \in Records /\ Tidy("video", c)
        /\ OnlyAt(c, chains["video"], s,
                  IF done("video") THEN RebuiltPad("video", s, rt) ELSE None)
    BY <1>3, <1>4
  <2>3. RebuiltPad("video", s, rt) \in Pads
    BY <1>4, RebuiltPadType DEF ChainsIInv, TypeOK
  <2>4. NewPad("video", s, t) \in Pads
        /\ NewPad("video", s, t) = Watched(RebuiltPad("video", s, rt), s \in stores)
    BY <1>4, NewPadType DEF NewPad, ChainsIInv
  <2> HIDE DEF c, done
  <2>5. CASE done("video")
    <3>1. c.pads[s] = RebuiltPad("video", s, rt) /\ c.pads[s] # None
      BY <2>1, <2>3, <2>5 DEF OnlyAt
    <3>2. Attached(c, s) = WithPad(c, s, NewPad("video", s, t))
      BY <2>1, <2>4, <3>1 DEF Attached, Records, WithPad
    <3> DEFINE n == WithPad(c, s, NewPad("video", s, t))
    <3>3. /\ n \in Records /\ Tidy("video", n) /\ n.bin = c.bin
          /\ OnlyAt(n, c, s, NewPad("video", s, t))
      BY <1>4, <2>1, <2>4, <3>1, PadIsSet
    <3>4. OnlyAt(n, chains["video"], s, NewPad("video", s, t))
      BY <2>1, <3>3 DEF OnlyAt
    <3> QED
      BY <1>5, <2>5, <3>2, <3>3, <3>4 DEF c
  <2>6. CASE ~ done("video")
    <3>1. c.pads[s] = None
      BY <2>1, <2>6 DEF OnlyAt
    <3>2. Attached(c, s) = c
      BY <3>1 DEF Attached
    <3> QED
      BY <1>5, <2>1, <2>6, <3>2 DEF c
  <2> QED
    BY <2>5, <2>6
<1>7. LET a == chains'["audio"]
      IN  /\ a \in Records /\ Tidy("audio", a) /\ a.bin = r("audio").bin
          /\ OnlyAt(a, chains["audio"], s,
                    IF done("audio") THEN NewPad("audio", s, t) ELSE None)
  BY <1>3, <1>4, <1>5 DEF NewPad, Media
<1>8. chains' \in [Media -> Records]
  <2>1. chains' = [m \in Media |-> chains'[m]]
    BY <1>2
  <2> QED
    BY <1>6, <1>7, <2>1 DEF Media
<1>9. \A m \in Media : chains'[m].bin = r(m).bin /\ Tidy(m, chains'[m])
        /\ OnlyAt(chains'[m], chains[m], s, IF done(m) THEN NewPad(m, s, t) ELSE None)
  BY <1>6, <1>7 DEF Media
<1> QED
  BY <1>1, <1>3, <1>8, <1>9

-----------------------------------------------------------------------------
(* One lemma per action.                                                   *)

\* Steps that add and remove no pad.
LEMMA ShapeIsKept ==
  ASSUME ChainsIInv, chains' \in [Media -> Records], UNCHANGED <<asked, failed>>,
         \A m \in Media :
           /\ Tidy(m, chains'[m]) /\ chains'[m].bin = chains[m].bin
           /\ \A q \in Sources : chains'[m].pads[q] = None <=> chains[m].pads[q] = None
  PROVE  NoLeak' /\ ChainsFollowStreams'
<1>1. NoLeak'
  BY DEF NoLeak, Tidy, PadsOf
<1>2. ChainsFollowStreams'
  BY DEF ChainsIInv, ChainsFollowStreams, PadsOf
<1> QED
  BY <1>1, <1>2

Moved(pad, offset) == [pad EXCEPT !.offset = offset]

LEMMA MovedIs ==
  ASSUME NEW pad \in Pads, NEW offset \in Int
  PROVE  /\ Moved(pad, offset) \in Pads /\ Moved(pad, offset).offset = offset
         /\ Moved(pad, offset).muted = pad.muted /\ Moved(pad, offset).base = pad.base
         /\ Moved(pad, offset).rebuilt = pad.rebuilt
         /\ Moved(pad, offset).probes = pad.probes /\ Moved(pad, offset).taps = pad.taps
  BY DEF Moved, Pads

LEMMA ShiftedIs ==
  ASSUME NEW m \in Media, NEW c \in Records, Tidy(m, c), NEW s \in Sources,
         NEW offset \in Int
  PROVE  LET r == Shifted(c, s, offset)
         IN  /\ r \in Records /\ Tidy(m, r) /\ r.bin = c.bin
             /\ OnlyAt(r, c, s, IF c.pads[s] = None THEN None ELSE Moved(c.pads[s], offset))
<1>1. CASE c.pads[s] = None
  BY <1>1 DEF Shifted, OnlyAt
<1>2. CASE c.pads[s] # None
  <2>1. c.pads[s] \in Pads
    BY <1>2 DEF Records
  <2>2. Moved(c.pads[s], offset) \in Pads
    BY <2>1, MovedIs
  <2>3. Shifted(c, s, offset) = WithPad(c, s, Moved(c.pads[s], offset))
    BY <1>2 DEF Shifted, WithPad, Moved, Records
  <2> QED
    BY <1>2, <2>2, <2>3, PadIsSet
<1> QED
  BY <1>1, <1>2

LEMMA ChangeOffsetStep ==
  ASSUME ChainsIInv, NEW s \in Sources, NEW ms \in Int, ChangeOffset(s, ms)
  PROVE  ChainsIInv'
<1> DEFINE offset == Within(bounds[s], ms)
<1>1. /\ offset \in Int /\ offset \in bounds[s].min .. bounds[s].max
      /\ Within(bounds[s], offset) = offset
  <2>1. bounds[s] \in [min : Int, max : Int] /\ bounds[s].min <= bounds[s].max
    BY DEF ChainsIInv, TypeOK
  <2> QED
    BY <2>1, WithinClamps
<1>2. /\ row' = [row EXCEPT ![s].offset = offset]
      /\ SetSourceOffset(s, offset)
      /\ UNCHANGED <<bounds, entries, stores, rt, asked, failed>>
  BY DEF ChangeOffset
<1> HIDE DEF offset
<1>3. /\ row' \in [Sources -> [offset : Int, muted : BOOLEAN]]
      /\ row'[s].offset = offset
      /\ \A q \in Sources : row'[q].muted = row[q].muted
                            /\ (q # s => row'[q].offset = row[q].offset)
  BY <1>1, <1>2 DEF ChainsIInv, TypeOK
<1>4. \A q \in Sources : row'[q].offset \in bounds'[q].min .. bounds'[q].max
  BY <1>1, <1>2, <1>3 DEF ChainsIInv, TypeOK
<1>5. CASE s \notin entries
  <2>1. UNCHANGED <<chains, layout, edited>>
    BY <1>2, <1>5 DEF SetSourceOffset
  <2>2. TypeOK'
    BY <1>2, <1>3, <1>4, <2>1 DEF ChainsIInv, TypeOK
  <2>3. NoLeak' /\ ChainsFollowStreams' /\ ProbeIsOfStart' /\ CorrectedOnce' /\ InStep'
        /\ Observed'
    BY <1>2, <2>1 DEF ChainsIInv, NoLeak, ChainsFollowStreams, ProbeIsOfStart,
                      CorrectedOnce, InStep, Observed, PadsOf
  <2>4. SettingsAgree' /\ OffsetSticks' /\ MuteFollowsRow'
    BY <1>2, <1>3, <1>5, <2>1
    DEF ChainsIInv, SettingsAgree, OffsetSticks, MuteFollowsRow, PadsOf, TypeOK
  <2> QED
    BY <2>2, <2>3, <2>4 DEF ChainsIInv
<1>6. CASE s \in entries
  <2>1. /\ chains' = [m \in Media |-> Shifted(chains[m], s, offset)]
        /\ layout' = [layout EXCEPT ![s].offset = offset]
        /\ edited' = edited \cup {s}
    BY <1>1, <1>2, <1>6 DEF SetSourceOffset
  <2>2. \A m \in Media :
          /\ chains'[m] \in Records /\ Tidy(m, chains'[m])
          /\ chains'[m].bin = chains[m].bin
          /\ OnlyAt(chains'[m], chains[m], s,
                    IF chains[m].pads[s] = None THEN None
                                                ELSE Moved(chains[m].pads[s], offset))
    BY <1>1, <2>1, ShiftedIs, RecordsType, TidyIsNoLeak DEF ChainsIInv
  <2>3. chains' \in [Media -> Records]
    BY <2>1, <2>2
  <2>4. /\ layout' \in [Sources -> [offset : Int, muted : BOOLEAN]]
        /\ layout'[s].offset = offset
        /\ \A q \in Sources : layout'[q].muted = layout[q].muted
                              /\ (q # s => layout'[q].offset = layout[q].offset)
    <3>1. layout \in [Sources -> [offset : Int, muted : BOOLEAN]]
      BY DEF ChainsIInv, TypeOK
    <3> QED
      BY <1>1, <2>1, <3>1
  <2>5. \A m \in Media : \A q \in Sources :
          LET old == chains[m].pads[q]
              new == chains'[m].pads[q]
          IN  /\ new = None <=> old = None
              /\ old # None => /\ new.muted = old.muted /\ new.base = old.base
                               /\ new.rebuilt = old.rebuilt
                               /\ new.probes = old.probes /\ new.taps = old.taps
                               /\ new.offset = IF q = s THEN offset ELSE old.offset
    <3> TAKE m \in Media
    <3> TAKE q \in Sources
    <3>1. CASE q # s
      BY <2>2, <3>1 DEF OnlyAt
    <3>2. CASE q = s /\ chains[m].pads[s] = None
      BY <2>2, <3>2 DEF OnlyAt
    <3>3. CASE q = s /\ chains[m].pads[s] # None
      <4>1. chains[m].pads[s] \in Pads
        BY <3>3 DEF ChainsIInv, TypeOK
      <4>2. chains'[m].pads[s] = Moved(chains[m].pads[s], offset)
        BY <2>2, <3>3 DEF OnlyAt
      <4> DEFINE old == chains[m].pads[s]
                 new == Moved(old, offset)
      <4>3. /\ new \in Pads /\ new.offset = offset
            /\ new.muted = old.muted /\ new.base = old.base /\ new.rebuilt = old.rebuilt
            /\ new.probes = old.probes /\ new.taps = old.taps
        BY <1>1, <4>1, MovedIs
      <4> HIDE DEF new
      <4>4. new # None
        BY <4>3
      <4> QED
        BY <3>3, <4>2, <4>3, <4>4 DEF new
    <3> QED
      BY <3>1, <3>2, <3>3
  <2>6. TypeOK'
    BY <1>2, <1>3, <1>4, <2>1, <2>3, <2>4 DEF ChainsIInv, TypeOK, Records
  <2>7. NoLeak' /\ ChainsFollowStreams'
    BY <1>2, <2>2, <2>3, <2>5, ShapeIsKept
  <2>8. SettingsAgree' /\ OffsetSticks'
    BY <1>2, <1>3, <1>6, <2>1, <2>4
    DEF ChainsIInv, SettingsAgree, OffsetSticks, TypeOK
  <2>9. MuteFollowsRow' /\ ProbeIsOfStart' /\ Observed'
    BY <1>2, <1>3, <2>5
    DEF ChainsIInv, MuteFollowsRow, ProbeIsOfStart, Observed, PadsOf, Media
  <2>10. CorrectedOnce'
    <3>1. rt \in Nat /\ offset - offset = 0
      BY <1>1 DEF ChainsIInv, TypeOK
    <3> QED
      BY <1>1, <1>2, <2>4, <2>5, <3>1 DEF ChainsIInv, CorrectedOnce, PadsOf, Media
  <2>11. InStep'
    <3>1. CorrectionFloor \in Nat /\ offset - offset = 0
      BY <1>1
    <3> QED
      BY <1>1, <2>5, <3>1 DEF ChainsIInv, InStep, PadsOf, Media
  <2> QED
    BY <2>6, <2>7, <2>8, <2>9, <2>10, <2>11 DEF ChainsIInv
<1> QED
  BY <1>5, <1>6

\* Steps of one audio pad: what they may change of it.
LEMMA AudioPadStep ==
  ASSUME ChainsIInv, NEW s \in Sources, chains["audio"].pads[s] # None,
         NEW pad \in Pads,
         chains' = [chains EXCEPT !["audio"] = WithPad(@, s, pad)],
         UNCHANGED <<asked, failed>>
  PROVE  /\ chains' \in [Media -> Records]
         /\ NoLeak' /\ ChainsFollowStreams'
         /\ chains'["video"] = chains["video"]
         /\ chains'["audio"].pads[s] = pad
         /\ \A q \in Sources \ {s} : chains'["audio"].pads[q] = chains["audio"].pads[q]
         /\ PadsOf("audio")' = PadsOf("audio")
<1>1. "audio" \in Media /\ "video" \in Media /\ "audio" # "video"
  BY DEF Media
<1>2. chains \in [Media -> Records] /\ \A m \in Media : Tidy(m, chains[m])
  BY RecordsType, TidyIsNoLeak DEF ChainsIInv
<1>3. /\ WithPad(chains["audio"], s, pad) \in Records
      /\ Tidy("audio", WithPad(chains["audio"], s, pad))
      /\ WithPad(chains["audio"], s, pad).bin = chains["audio"].bin
      /\ OnlyAt(WithPad(chains["audio"], s, pad), chains["audio"], s, pad)
  BY <1>1, <1>2, PadIsSet
<1>4. /\ chains' \in [Media -> Records]
      /\ chains'["audio"] = WithPad(chains["audio"], s, pad)
      /\ \A m \in Media \ {"audio"} : chains'[m] = chains[m]
  BY <1>1, <1>2, <1>3
<1>5. chains'["audio"].pads[s] # None
      /\ OnlyAt(chains'["audio"], chains["audio"], s, pad)
  BY <1>3, <1>4 DEF OnlyAt
<1>6. \A m \in Media :
        /\ Tidy(m, chains'[m]) /\ chains'[m].bin = chains[m].bin
        /\ \A q \in Sources : chains'[m].pads[q] = None <=> chains[m].pads[q] = None
  <2>1. \A q \in Sources : chains'["audio"].pads[q] = None <=> chains["audio"].pads[q] = None
    BY <1>5 DEF OnlyAt
  <2> QED
    BY <1>2, <1>3, <1>4, <2>1 DEF Media
<1>7. NoLeak' /\ ChainsFollowStreams'
  BY <1>4, <1>6, ShapeIsKept
<1>8. PadsOf("audio")' = PadsOf("audio")
  BY <1>1, <1>6 DEF PadsOf
<1> QED
  BY <1>1, <1>4, <1>5, <1>7, <1>8 DEF OnlyAt

LEMMA ToggleMuteStep ==
  ASSUME ChainsIInv, NEW s \in Sources, ToggleMute(s)
  PROVE  ChainsIInv'
<1>1. /\ row' = [row EXCEPT ![s].muted = ~ row[s].muted]
      /\ layout' = [layout EXCEPT ![s].muted = ~ row[s].muted]
      /\ chains' = [chains EXCEPT !["audio"] = Muted(@, s, ~ row[s].muted)]
      /\ UNCHANGED <<bounds, entries, stores, rt, asked, failed, edited>>
  BY DEF ToggleMute, SetSourceMute, ghosts
<1> DEFINE muted == ~ row[s].muted
<1>2. muted \in BOOLEAN
  OBVIOUS
<1> HIDE DEF muted
<1>3. /\ row' \in [Sources -> [offset : Int, muted : BOOLEAN]]
      /\ row'[s].muted = muted
      /\ \A q \in Sources : row'[q].offset = row[q].offset
                            /\ (q # s => row'[q].muted = row[q].muted)
  BY <1>1, <1>2 DEF ChainsIInv, TypeOK, muted
<1>4. /\ layout' \in [Sources -> [offset : Int, muted : BOOLEAN]]
      /\ layout'[s].muted = muted
      /\ \A q \in Sources : layout'[q].offset = layout[q].offset
                            /\ (q # s => layout'[q].muted = layout[q].muted)
  BY <1>1, <1>2 DEF ChainsIInv, TypeOK, muted
<1>5. SettingsAgree' /\ OffsetSticks'
  BY <1>1, <1>3, <1>4 DEF ChainsIInv, SettingsAgree, OffsetSticks, TypeOK
<1>6. \A q \in Sources : row'[q].offset \in bounds'[q].min .. bounds'[q].max
  BY <1>1, <1>3 DEF ChainsIInv, TypeOK
<1>7. "audio" \in Media /\ "video" \in Media /\ "audio" # "video"
  BY DEF Media
<1>8. s \in chains["audio"].mapped <=> chains["audio"].pads[s] # None
  BY <1>7 DEF ChainsIInv, NoLeak, PadsOf
<1>9. CASE chains["audio"].pads[s] = None
  <2>1. chains' = chains
    BY <1>1, <1>7, <1>8, <1>9 DEF Muted, ChainsIInv, TypeOK
  <2>2. TypeOK'
    BY <1>1, <1>3, <1>4, <1>6, <2>1 DEF ChainsIInv, TypeOK
  <2>3. NoLeak' /\ ChainsFollowStreams' /\ ProbeIsOfStart' /\ InStep' /\ Observed'
    BY <1>1, <2>1 DEF ChainsIInv, NoLeak, ChainsFollowStreams, ProbeIsOfStart,
                      InStep, Observed, PadsOf
  <2>4. MuteFollowsRow' /\ CorrectedOnce'
    BY <1>1, <1>3, <1>4, <1>9, <2>1
    DEF ChainsIInv, MuteFollowsRow, CorrectedOnce, PadsOf
  <2> QED
    BY <1>5, <2>2, <2>3, <2>4 DEF ChainsIInv
<1>10. CASE chains["audio"].pads[s] # None
  <2> DEFINE old == chains["audio"].pads[s]
             pad == [old EXCEPT !.muted = muted]
  <2>1. old \in Pads
    BY <1>7, <1>10 DEF ChainsIInv, TypeOK
  <2>2. /\ pad \in Pads /\ pad.muted = muted /\ pad.offset = old.offset
        /\ pad.base = old.base /\ pad.rebuilt = old.rebuilt
    BY <1>2, <2>1 DEF Pads
  <2>3. chains["audio"] \in Records
    BY <1>7, RecordsType DEF ChainsIInv
  <2>4. Muted(chains["audio"], s, muted) = WithPad(chains["audio"], s, pad)
    BY <1>8, <1>10, <2>3 DEF Muted, WithPad, Records
  <2> HIDE DEF pad
  <2>5. chains' = [chains EXCEPT !["audio"] = WithPad(@, s, pad)]
    BY <1>1, <2>4 DEF muted
  <2>6. /\ chains' \in [Media -> Records]
        /\ NoLeak' /\ ChainsFollowStreams'
        /\ chains'["video"] = chains["video"]
        /\ chains'["audio"].pads[s] = pad
        /\ \A q \in Sources \ {s} : chains'["audio"].pads[q] = chains["audio"].pads[q]
        /\ PadsOf("audio")' = PadsOf("audio")
    BY <1>1, <1>10, <2>2, <2>5, AudioPadStep
  <2>7. PadsOf("video")' = PadsOf("video")
    BY <2>6 DEF PadsOf
  <2>8. TypeOK'
    BY <1>1, <1>3, <1>4, <1>6, <2>6 DEF ChainsIInv, TypeOK, Records
  <2>9. MuteFollowsRow' /\ ProbeIsOfStart' /\ Observed'
    BY <1>1, <1>3, <2>2, <2>6, <2>7
    DEF ChainsIInv, MuteFollowsRow, ProbeIsOfStart, Observed, PadsOf
  <2>10. CorrectedOnce' /\ InStep'
    BY <1>1, <1>4, <2>2, <2>6, <2>7
    DEF ChainsIInv, CorrectedOnce, InStep, PadsOf, Media
  <2> QED
    BY <1>5, <2>6, <2>8, <2>9, <2>10 DEF ChainsIInv
<1> QED
  BY <1>9, <1>10

LEMMA FirstAudioBufferStep ==
  ASSUME ChainsIInv, NEW s \in Sources, FirstAudioBuffer(s)
  PROVE  ChainsIInv'
<1> DEFINE old == chains["audio"].pads[s]
           offset == IF Correction(rt) = 0 THEN old.offset ELSE old.base + Correction(rt)
           pad == [old EXCEPT !.base = None, !.offset = offset]
<1>1. "audio" \in Media /\ "video" \in Media /\ "audio" # "video"
  BY DEF Media
<1>2. /\ old # None /\ old.base # None
      /\ UNCHANGED <<row, bounds, layout, entries, stores, rt, asked, failed, edited>>
  BY DEF FirstAudioBuffer, ghosts
<1>3. old \in Pads /\ old.base \in Int /\ rt \in Nat
  BY <1>1, <1>2 DEF ChainsIInv, TypeOK, Pads
<1>4. offset \in Int
  BY <1>3, CorrectionIsNat DEF Pads
<1>5. chains' = [chains EXCEPT !["audio"] = WithPad(@, s, pad)]
  BY <1>1 DEF FirstAudioBuffer, WithPad, ChainsIInv, TypeOK
<1> HIDE DEF offset
<1>6. pad \in Pads /\ pad.base = None /\ pad.muted = old.muted /\ pad.rebuilt = old.rebuilt
  BY <1>3, <1>4 DEF Pads
<1>7. ~ old.rebuilt
  BY <1>2 DEF ChainsIInv, ProbeIsOfStart, PadsOf
<1> HIDE DEF pad
<1>8. /\ chains' \in [Media -> Records]
      /\ NoLeak' /\ ChainsFollowStreams'
      /\ chains'["video"] = chains["video"]
      /\ chains'["audio"].pads[s] = pad
      /\ \A q \in Sources \ {s} : chains'["audio"].pads[q] = chains["audio"].pads[q]
      /\ PadsOf("audio")' = PadsOf("audio")
  BY <1>2, <1>5, <1>6, AudioPadStep
<1>9. PadsOf("video")' = PadsOf("video")
  BY <1>8 DEF PadsOf
<1>10. TypeOK'
  BY <1>2, <1>8 DEF ChainsIInv, TypeOK, Records
<1>11. SettingsAgree' /\ OffsetSticks'
  BY <1>2 DEF ChainsIInv, SettingsAgree, OffsetSticks
<1>12. MuteFollowsRow' /\ ProbeIsOfStart' /\ Observed'
  BY <1>2, <1>6, <1>8, <1>9
  DEF ChainsIInv, MuteFollowsRow, ProbeIsOfStart, Observed, PadsOf
<1>13. CorrectedOnce' /\ InStep'
  BY <1>2, <1>6, <1>7, <1>8, <1>9
  DEF ChainsIInv, CorrectedOnce, InStep, PadsOf, Media
<1> QED
  BY <1>8, <1>10, <1>11, <1>12, <1>13 DEF ChainsIInv

LEMMA TickStep == ASSUME ChainsIInv, Tick PROVE ChainsIInv'
<1>1. /\ UNCHANGED <<row, bounds, layout, entries, chains, stores, asked,
                     failed, edited>>
      /\ rt \in Nat /\ rt' = rt + 1
  BY DEF Tick, ghosts, ChainsIInv, TypeOK
<1>2. TypeOK'
  BY <1>1 DEF ChainsIInv, TypeOK
<1>3. /\ NoLeak' /\ ChainsFollowStreams' /\ SettingsAgree' /\ OffsetSticks'
      /\ MuteFollowsRow' /\ ProbeIsOfStart' /\ InStep' /\ Observed'
  BY <1>1 DEF ChainsIInv, NoLeak, ChainsFollowStreams, SettingsAgree, OffsetSticks,
              MuteFollowsRow, ProbeIsOfStart, InStep, Observed, PadsOf
<1>4. CorrectedOnce'
  BY <1>1 DEF ChainsIInv, CorrectedOnce, PadsOf
<1> QED
  BY <1>2, <1>3, <1>4 DEF ChainsIInv

LEMMA StreamsChangedStep ==
  ASSUME ChainsIInv, NEW s \in Sources, NEW caps \in SUBSET Media,
         NEW how \in [caps -> Outcomes], NEW t \in rt .. Least(rt + 1, MaxTime),
         StreamsChanged(s, caps, how, t)
  PROVE  ChainsIInv'
<1> DEFINE done(m) == m \in caps /\ how[m] = "built"
           new(m) == chains'[m].pads[s]
<1>1. /\ rt' = t /\ UNCHANGED <<row, bounds, layout, stores, edited>>
      /\ entries' = IF \E m \in caps : how[m] = "built" THEN entries \cup {s} ELSE entries
      /\ asked' = [asked EXCEPT ![s] = caps]
      /\ failed' = [m \in Media |-> IF m \in caps /\ how[m] # "built"
                                    THEN failed[m] \cup {s} ELSE failed[m] \ {s}]
  BY DEF StreamsChanged
<1>2. rt \in Nat /\ t \in Nat /\ rt <= t /\ t <= rt + 1
  BY DEF ChainsIInv, TypeOK, Least
<1>3. /\ s \in External
      /\ chains' \in [Media -> Records]
      /\ \A m \in Media :
           /\ Tidy(m, chains'[m])
           /\ OnlyAt(chains'[m], chains[m], s, IF done(m) THEN NewPad(m, s, t) ELSE None)
           /\ \A q \in Sources \ {s} : q \in chains'[m].bin <=> q \in chains[m].bin
           /\ done(m) => s \in chains'[m].bin
           /\ m \notin caps => s \notin chains'[m].bin
  BY <1>2, StreamsChangedIs
<1>4. \A m \in Media : NewPad(m, s, t) # None
  BY <1>2, NewPadType DEF ChainsIInv
<1>5. \A m \in Media :
        /\ \A q \in Sources \ {s} : chains'[m].pads[q] = chains[m].pads[q]
        /\ new(m) # None <=> done(m)
        /\ new(m) # None => new(m) = NewPad(m, s, t)
  BY <1>3, <1>4 DEF OnlyAt
<1> HIDE DEF new
<1>6. \A m \in Media : PadsOf(m)' = IF done(m) THEN PadsOf(m) \cup {s} ELSE PadsOf(m) \ {s}
  BY <1>5 DEF PadsOf, new
<1> HIDE DEF done
<1>7. TypeOK'
  <2>1. asked' \in [Sources -> SUBSET Media] /\ failed' \in [Media -> SUBSET Sources]
        /\ entries' \subseteq Sources
    BY <1>1 DEF ChainsIInv, TypeOK
  <2> QED
    BY <1>1, <1>2, <1>3, <2>1 DEF ChainsIInv, TypeOK, Records
<1>8. NoLeak'
  BY <1>3 DEF NoLeak, Tidy, PadsOf
<1>9. ChainsFollowStreams'
  <2> SUFFICES ASSUME NEW m \in Media
               PROVE  /\ PadsOf(m)' = {q \in Sources : m \in asked'[q]} \ failed'[m]
                      /\ chains'[m].bin \ failed'[m] = PadsOf(m)' \cap External
    BY DEF ChainsFollowStreams
  <2>1. /\ PadsOf(m) = {q \in Sources : m \in asked[q]} \ failed[m]
        /\ chains[m].bin \ failed[m] = PadsOf(m) \cap External
        /\ chains'[m].bin \subseteq Sources /\ chains[m].bin \subseteq Sources
        /\ External \subseteq Sources
    BY <1>3 DEF ChainsIInv, ChainsFollowStreams, Records, TypeOK
  <2>2. /\ asked'[s] = caps
        /\ \A q \in Sources \ {s} : asked'[q] = asked[q]
        /\ \A q \in Sources \ {s} : q \in failed'[m] <=> q \in failed[m]
        /\ s \in failed'[m] <=> m \in caps /\ ~ done(m)
    BY <1>1 DEF ChainsIInv, TypeOK, done
  <2>3. /\ \A q \in Sources \ {s} : q \in PadsOf(m)' <=> q \in PadsOf(m)
        /\ s \in PadsOf(m)' <=> done(m)
        /\ PadsOf(m)' \subseteq Sources
    BY <1>6 DEF PadsOf
  <2>4. done(m) => m \in caps
    BY DEF done
  <2>5. \A q \in Sources :
          q \in PadsOf(m)' <=> m \in asked'[q] /\ q \notin failed'[m]
    BY <2>1, <2>2, <2>3, <2>4
  <2>6. \A q \in Sources :
          q \in chains'[m].bin /\ q \notin failed'[m] <=> q \in PadsOf(m)' /\ q \in External
    <3> TAKE q \in Sources
    <3>1. CASE q = s
      BY <1>3, <2>2, <2>3, <2>4, <3>1
    <3>2. CASE q # s
      BY <1>3, <2>1, <2>2, <2>3, <3>2
    <3> QED
      BY <3>1, <3>2
  <2> QED
    BY <2>1, <2>3, <2>5, <2>6
<1>10. SettingsAgree' /\ OffsetSticks'
  BY <1>1 DEF ChainsIInv, SettingsAgree, OffsetSticks
<1>11. "audio" \in Media /\ "video" \in Media /\ "audio" # "video"
  BY DEF Media
<1>12. layout[s].offset \in Int
  BY DEF ChainsIInv, TypeOK
<1>13. /\ new("audio") # None =>
            /\ new("audio").muted = layout[s].muted /\ new("audio").base = None
            /\ new("audio").rebuilt
            /\ new("audio").offset = layout[s].offset + Correction(t)
       /\ new("video") # None =>
            /\ new("video").probes = 1
            /\ new("video").taps = IF s \in stores THEN 1 ELSE 0
            /\ new("video").rebuilt
            /\ new("video").offset = layout[s].offset + Correction(rt)
  BY <1>2, <1>5, <1>11, NewPadType DEF ChainsIInv
<1>14. MuteFollowsRow' /\ ProbeIsOfStart' /\ Observed'
  BY <1>1, <1>5, <1>11, <1>13
  DEF ChainsIInv, SettingsAgree, MuteFollowsRow, ProbeIsOfStart, Observed, PadsOf, new
<1>15. Correction(t) \in 0 .. t /\ Correction(rt) \in 0 .. rt
  BY <1>2, CorrectionIsNat
<1>16. CorrectedOnce'
  <2> SUFFICES ASSUME NEW m \in Media, NEW q \in PadsOf(m)',
                      chains'[m].pads[q].rebuilt \/ m = "video"
               PROVE  chains'[m].pads[q].offset - layout'[q].offset \in 0 .. rt'
    BY DEF CorrectedOnce
  <2>1. q \in Sources /\ chains'[m].pads[q] # None
    BY DEF PadsOf
  <2>2. CASE q = s
    <3>1. new(m) # None
      BY <2>1, <2>2 DEF new
    <3>2. \E c \in 0 .. t : new(m).offset = layout[s].offset + c
      BY <1>2, <1>13, <1>15, <3>1 DEF Media
    <3> QED
      BY <1>1, <1>12, <2>2, <3>2 DEF new
  <2>3. CASE q # s
    <3>1. chains'[m].pads[q] = chains[m].pads[q] /\ q \in PadsOf(m)
      BY <1>5, <2>1, <2>3 DEF PadsOf
    <3>2. chains[m].pads[q].offset - layout[q].offset \in 0 .. rt
      BY <3>1 DEF ChainsIInv, CorrectedOnce
    <3> QED
      BY <1>1, <1>2, <3>1, <3>2
  <2> QED
    BY <2>2, <2>3
<1>17. InStep'
  <2> SUFFICES ASSUME NEW q \in PadsOf("video")' \cap PadsOf("audio")'
               PROVE  LET v == chains'["video"].pads[q]
                          a == chains'["audio"].pads[q]
                      IN  /\ v.rebuilt <=> a.rebuilt
                          /\ v.rebuilt => a.offset - v.offset \in 0 .. CorrectionFloor + 1
    BY DEF InStep
  <2>1. q \in Sources /\ chains'["video"].pads[q] # None /\ chains'["audio"].pads[q] # None
    BY DEF PadsOf
  <2>2. CASE q = s
    <3>1. new("video") # None /\ new("audio") # None
      BY <2>1, <2>2 DEF new
    <3>2. Correction(t) - Correction(rt) \in 0 .. CorrectionFloor + 1
      BY <1>2 DEF Correction
    <3>3. (layout[s].offset + Correction(t)) - (layout[s].offset + Correction(rt))
            = Correction(t) - Correction(rt)
      BY <1>12, <1>15, <1>2
    <3> QED
      BY <1>13, <2>2, <3>1, <3>2, <3>3 DEF new
  <2>3. CASE q # s
    <3>1. /\ chains'["video"].pads[q] = chains["video"].pads[q]
          /\ chains'["audio"].pads[q] = chains["audio"].pads[q]
          /\ q \in PadsOf("video") \cap PadsOf("audio")
      BY <1>5, <1>11, <2>1, <2>3 DEF PadsOf
    <3> QED
      BY <3>1 DEF ChainsIInv, InStep
  <2> QED
    BY <2>2, <2>3
<1> QED
  BY <1>7, <1>8, <1>9, <1>10, <1>14, <1>16, <1>17 DEF ChainsIInv

-----------------------------------------------------------------------------
(* The invariant.                                                          *)

LEMMA EffectiveBoundsAreBounds ==
  ASSUME NEW declared \in Nat, NEW signed \in BOOLEAN
  PROVE  /\ EffectiveBounds(declared, signed) \in [min : Int, max : Int]
         /\ EffectiveBounds(declared, signed).min <= EffectiveBounds(declared, signed).max
<1>1. Least(declared, Ceiling) \in Nat
  BY DEF Least
<1> QED
  BY <1>1 DEF EffectiveBounds

LEMMA StartPads ==
  ASSUME NEW scene \in [offset : Int, muted : BOOLEAN]
  PROVE  LET v == Watched(BuiltVideo(scene), TRUE)
             a == BuiltAudio(scene)
         IN  /\ v \in Pads /\ v.offset = scene.offset /\ ~ v.rebuilt
             /\ v.probes = 1 /\ v.taps = 1
             /\ a \in Pads /\ a.offset = scene.offset /\ ~ a.rebuilt
             /\ a.muted = scene.muted
<1>1. BuiltVideo(scene) \in Pads /\ BuiltAudio(scene) \in Pads
  BY DEF BuiltVideo, BuiltAudio, Pad, Pads
<1>2. /\ BuiltVideo(scene).probes = 0 /\ BuiltVideo(scene).taps = 0
      /\ BuiltVideo(scene).offset = scene.offset /\ ~ BuiltVideo(scene).rebuilt
      /\ BuiltAudio(scene).offset = scene.offset /\ ~ BuiltAudio(scene).rebuilt
      /\ BuiltAudio(scene).muted = scene.muted
  BY DEF BuiltVideo, BuiltAudio, Pad
<1> QED
  BY <1>1, <1>2, WatchedIs

LEMMA ChainsInit == Init => ChainsIInv
<1> SUFFICES ASSUME Init PROVE ChainsIInv
  OBVIOUS
<1>1. PICK scene \in [Sources -> [offset : SceneOffsets, muted : BOOLEAN]],
           declared \in [External -> Declared \X BOOLEAN],
           spawned \in SUBSET External :
        /\ asked \in {caps \in [Sources -> SUBSET Media] :
                       \A s \in Sources : caps[s] \in StartCaps(s, spawned)}
        /\ bounds = [s \in Sources |->
                       IF s \in spawned THEN EffectiveBounds(declared[s][1], declared[s][2])
                                        ELSE FileBounds]
        /\ row = [s \in Sources |->
                    [offset |-> Within(bounds[s], Within(FileBounds, scene[s].offset)),
                     muted |-> scene[s].muted]]
        /\ layout = scene
        /\ entries = {s \in Sources : asked[s] # {}}
        /\ chains = [m \in Media |->
                       LET here == {s \in Sources : m \in asked[s]}
                       IN  [bin |-> Received(here), mapped |-> here,
                            sinks |-> StartSinks(m) + Cardinality(here), lost |-> 0,
                            pads |-> BuiltPads(m, scene, asked)]]
        /\ stores = {s \in Sources : "video" \in asked[s]}
        /\ rt = 0
        /\ failed = [m \in Media |-> {}]
        /\ edited = {}
  BY DEF Init
<1> DEFINE here(m) == {s \in Sources : m \in asked[s]}
<1>2. \A s \in Sources : scene[s].offset \in Int /\ scene[s].muted \in BOOLEAN
                         /\ scene[s] \in [offset : Int, muted : BOOLEAN]
  OBVIOUS
<1>3. "audio" \in Media /\ "video" \in Media /\ "audio" # "video"
  BY DEF Media
<1>4. FileBounds \in [min : Int, max : Int] /\ FileBounds.min <= FileBounds.max
  BY DEF FileBounds
<1>5. \A s \in Sources : bounds[s] \in [min : Int, max : Int] /\ bounds[s].min <= bounds[s].max
  <2> TAKE s \in Sources
  <2>1. CASE s \in spawned
    <3>1. declared[s][1] \in Nat /\ declared[s][2] \in BOOLEAN
      BY <1>1, <2>1
    <3> QED
      BY <1>1, <2>1, <3>1, EffectiveBoundsAreBounds
  <2>2. CASE s \notin spawned
    BY <1>1, <1>4, <2>2
  <2> QED
    BY <2>1, <2>2
<1>6. \A s \in Sources : /\ row[s] \in [offset : Int, muted : BOOLEAN]
                         /\ row[s].offset \in bounds[s].min .. bounds[s].max
                         /\ row[s].muted = scene[s].muted
  <2> TAKE s \in Sources
  <2>1. Within(FileBounds, scene[s].offset) \in Int
    BY <1>2, <1>4, WithinClamps
  <2>2. Within(bounds[s], Within(FileBounds, scene[s].offset)) \in bounds[s].min .. bounds[s].max
    BY <1>5, <2>1, WithinClamps
  <2> HIDE DEF FileBounds
  <2> QED
    BY <1>1, <1>2, <1>5, <2>2
<1>7. \A s \in Sources :
        /\ chains["video"].pads[s] = IF s \in here("video")
             THEN Watched(BuiltVideo(scene[s]), TRUE) ELSE None
        /\ chains["audio"].pads[s] = IF s \in here("audio")
             THEN BuiltAudio(scene[s]) ELSE None
  BY <1>1, <1>3 DEF BuiltPads
<1>8. \A m \in Media : \A s \in Sources :
        LET pad == chains[m].pads[s]
        IN  /\ pad \in {None} \cup Pads
            /\ pad # None <=> s \in here(m)
            /\ pad # None => /\ pad.offset = scene[s].offset /\ ~ pad.rebuilt
                             /\ m = "video" => pad.probes = 1 /\ pad.taps = 1
                             /\ m = "audio" => pad.muted = scene[s].muted
  <2> TAKE m \in Media
  <2> TAKE s \in Sources
  <2> DEFINE v == Watched(BuiltVideo(scene[s]), TRUE)
             a == BuiltAudio(scene[s])
  <2>1. /\ v \in Pads /\ v.offset = scene[s].offset /\ ~ v.rebuilt
        /\ v.probes = 1 /\ v.taps = 1
        /\ a \in Pads /\ a.offset = scene[s].offset /\ ~ a.rebuilt
        /\ a.muted = scene[s].muted
    BY <1>2, StartPads
  <2>2. /\ m = "video" => chains[m].pads[s] = IF s \in here("video") THEN v ELSE None
        /\ m = "audio" => chains[m].pads[s] = IF s \in here("audio") THEN a ELSE None
    BY <1>7
  <2> HIDE DEF v, a, here
  <2> QED
    BY <1>3, <2>1, <2>2 DEF Media
<1>9. \A m \in Media : /\ chains[m].bin = here(m) \cap External /\ chains[m].mapped = here(m)
                       /\ chains[m].sinks = StartSinks(m) + Cardinality(here(m))
                       /\ chains[m].lost = 0
                       /\ PadsOf(m) = here(m)
  BY <1>1, <1>8 DEF Received, PadsOf
<1>10. \A m \in Media : Cardinality(here(m)) \in Nat /\ StartSinks(m) \in Nat
  <2> TAKE m \in Media
  <2>1. IsFiniteSet(here(m))
    BY FS_Subset
  <2> QED
    BY <2>1, FS_CardinalityType, StartSinksIsNat
<1>11. chains \in [Media -> Records]
  <2> SUFFICES ASSUME NEW m \in Media PROVE chains[m] \in Records
    BY <1>1
  <2>1. chains[m] = [bin |-> Received(here(m)), mapped |-> here(m),
                     sinks |-> StartSinks(m) + Cardinality(here(m)), lost |-> 0,
                     pads |-> BuiltPads(m, scene, asked)]
    BY <1>1
  <2>2. BuiltPads(m, scene, asked) = [s \in Sources |-> chains[m].pads[s]]
    BY <2>1 DEF BuiltPads
  <2>3. BuiltPads(m, scene, asked) \in [Sources -> {None} \cup Pads]
    BY <1>8, <2>2
  <2> HIDE DEF here
  <2>4. Received(here(m)) \in SUBSET Sources /\ here(m) \in SUBSET Sources
    BY DEF Received, here
  <2> QED
    BY <1>10, <2>1, <2>3, <2>4 DEF Records
<1> HIDE DEF here
<1>12. TypeOK
  <2>1. row \in [Sources -> [offset : Int, muted : BOOLEAN]]
    BY <1>1, <1>6
  <2>2. bounds \in [Sources -> [min : Int, max : Int]]
    BY <1>1, <1>5
  <2>3. layout \in [Sources -> [offset : Int, muted : BOOLEAN]]
    BY <1>1, <1>2
  <2>4. failed \in [Media -> SUBSET Sources] /\ edited \subseteq Sources
        /\ entries \subseteq Sources /\ stores \subseteq Sources
    BY <1>1
  <2>5. asked \in [Sources -> SUBSET Media] /\ rt \in Nat
    BY <1>1
  <2> QED
    BY <1>6, <1>11, <2>1, <2>2, <2>3, <2>4, <2>5 DEF TypeOK, Records
<1>13. NoLeak
  BY <1>9, <1>10 DEF NoLeak
<1>14. ChainsFollowStreams
  <2>1. \A m \in Media : failed[m] = {}
    BY <1>1
  <2> QED
    BY <1>9, <2>1 DEF ChainsFollowStreams, here
<1>15. SettingsAgree /\ OffsetSticks
  BY <1>1, <1>6 DEF SettingsAgree, OffsetSticks
<1>16. \A m \in Media : PadsOf(m) \subseteq Sources /\ \A s \in PadsOf(m) : chains[m].pads[s] # None
  BY DEF PadsOf
<1>17. MuteFollowsRow /\ ProbeIsOfStart
  BY <1>3, <1>6, <1>8, <1>16 DEF MuteFollowsRow, ProbeIsOfStart
<1>18. CorrectedOnce
  <2>1. layout = scene /\ rt = 0
    BY <1>1
  <2> QED
    BY <1>2, <1>8, <1>16, <2>1 DEF CorrectedOnce
<1>19. InStep
  BY <1>3, <1>8, <1>16 DEF InStep
<1>20. Observed
  <2>1. stores = here("video")
    BY <1>1 DEF here
  <2> QED
    BY <1>3, <1>8, <1>9, <1>16, <2>1 DEF Observed
<1> QED
  BY <1>12, <1>13, <1>14, <1>15, <1>17, <1>18, <1>19, <1>20 DEF ChainsIInv

LEMMA ChainsStep == ChainsIInv /\ [Next]_vars => ChainsIInv'
<1> SUFFICES ASSUME ChainsIInv, [Next]_vars PROVE ChainsIInv'
  OBVIOUS
<1>1. ASSUME NEW s \in Sources, NEW typed \in Typed, OffsetEdit(s, typed)
      PROVE  ChainsIInv'
  BY <1>1, ChangeOffsetStep DEF OffsetEdit
<1>2. ASSUME NEW s \in Sources, NEW delta \in Deltas, OffsetStep(s, delta)
      PROVE  ChainsIInv'
  <2>1. row[s].offset + delta \in Int
    BY DEF ChainsIInv, TypeOK
  <2> QED
    BY <1>2, <2>1, ChangeOffsetStep DEF OffsetStep
<1>3. ASSUME UNCHANGED vars PROVE ChainsIInv'
  BY <1>3 DEF vars, ghosts, ChainsIInv, TypeOK, NoLeak, ChainsFollowStreams, SettingsAgree,
    OffsetSticks, MuteFollowsRow, ProbeIsOfStart, CorrectedOnce, InStep, Observed, PadsOf
<1>4. ASSUME NEW s \in Sources, NEW caps \in SUBSET Media,
             NEW t \in rt .. Least(rt + 1, MaxTime), NEW how \in [caps -> Outcomes],
             StreamsChanged(s, caps, how, t)
      PROVE  ChainsIInv'
  BY <1>4, StreamsChangedStep
<1> QED
  BY <1>1, <1>2, <1>3, <1>4, ToggleMuteStep, FirstAudioBufferStep, TickStep DEF Next

-----------------------------------------------------------------------------
(* The theorems.                                                           *)

\* Every state of the pipeline's settings and chains satisfies the inductive
\* invariant.
THEOREM ChainsInvariance == Spec => []ChainsIInv
  BY ChainsInit, ChainsStep, PTL DEF Spec

\* Pipeline and transport keep their maps' types; an offset shown is within the
\* bounds of its source.
THEOREM ChainsTypeCorrect == Spec => []TypeOK
<1>1. ChainsIInv => TypeOK
  BY DEF ChainsIInv
<1> QED
  BY <1>1, ChainsInvariance, PTL

\* set_source_mute's two writes keep the running chain and any later rebuild at
\* what the row shows.
THEOREM MuteFollowsRowHolds == Spec => []MuteFollowsRow
<1>1. ChainsIInv => MuteFollowsRow
  BY DEF ChainsIInv
<1> QED
  BY <1>1, ChainsInvariance, PTL

\* Once set_source_offset has taken an offset, rebuilds apply what the row shows.
THEOREM OffsetSticksHolds == Spec => []OffsetSticks
<1>1. ChainsIInv => OffsetSticks
  BY DEF ChainsIInv
<1> QED
  BY <1>1, ChainsInvariance, PTL

\* add_video_chain and add_audio_chain move a pad by no more than the running time.
THEOREM CorrectedOnceHolds == Spec => []CorrectedOnce
<1>1. ChainsIInv => CorrectedOnce
  BY DEF ChainsIInv
<1> QED
  BY <1>1, ChainsInvariance, PTL

\* build_shmsrc_chain gives both chains of a source the same shift.
THEOREM InStepHolds == Spec => []InStep
<1>1. ChainsIInv => InStep
  BY DEF ChainsIInv
<1> QED
  BY <1>1, ChainsInvariance, PTL

\* Poll's attach_source and install_probe leave one counter and one GPU probe per
\* video chain, however often it is rebuilt.
THEOREM ObservedHolds == Spec => []Observed
<1>1. ChainsIInv => Observed
  BY DEF ChainsIInv
<1> QED
  BY <1>1, ChainsInvariance, PTL

\* remove_video_chain and remove_audio_chain release every sink pad but those a
\* failed builder has lost.
THEOREM NoLeakHolds == Spec => []NoLeak
<1>1. ChainsIInv => NoLeak
  BY DEF ChainsIInv
<1> QED
  BY <1>1, ChainsInvariance, PTL

\* Whatever builds have failed, build_shmsrc_chain leaves the chains of the streams
\* last announced.
THEOREM ChainsFollowStreamsHolds == Spec => []ChainsFollowStreams
<1>1. ChainsIInv => ChainsFollowStreams
  BY DEF ChainsIInv
<1> QED
  BY <1>1, ChainsInvariance, PTL
=============================================================================
