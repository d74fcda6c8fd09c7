--------------------------------- MODULE Chains --------------------------------
(***************************************************************************)
(* The core's pipeline while it plays: per source a video and an audio     *)
(* chain into the compositor and the audiomixer, built at start-up and     *)
(* rebuilt by every StreamsChanged, and the copies of one source's offset  *)
(* and mute that must agree across it all:                                 *)
(*   row    what the user interface shows and last asked for (SourceRow);  *)
(*   layout what the next rebuild will apply (Pipeline.source_layouts);    *)
(*   pads   what the running chains apply (Pipeline.source_pads and        *)
(*          mixer_sink_pads).                                              *)
(*                                                                         *)
(* One actor changes them, the user interface's thread (edits and Poll);   *)
(* the other is a streaming thread that runs the one-shot probe of an      *)
(* audio chain built at start-up on its first buffer.                      *)
(*                                                                         *)
(* Time is the pipeline's running time, in ticks; offsets are in ticks     *)
(* too.  Building a chain may fail half-way: the failure is logged and the *)
(* handler goes on.  Left out: element properties other than offset and    *)
(* mute (geometry, volume, queue sizes), diagnostics, and pausing.         *)
(***************************************************************************)
EXTENDS Integers, FiniteSets

CONSTANTS
  Sources,          \* [[source]] entries of the scene
  External,         \* those fed by an adapter
  None,             \* Option::None
  SceneOffsets,     \* offset_ms a scene may state
  Typed,            \* numbers typed into an offset box
  Deltas,           \* of the stepper buttons
  Declared,         \* max_offset_ms an adapter may declare
  FileBound,        \* MAX_OFFSET_MS
  Ceiling,          \* live_offset_ceiling_ms
  CorrectionFloor,  \* running time up to which a chain needs no correction
  MaxTime,          \* bound on the running time
  Outcomes,         \* of building a chain: see Added
  MaxLost           \* bound on the sink pads lost per aggregator

Media == {"video", "audio"}

Pads == [offset : Int, muted : BOOLEAN, base : {None} \cup Int, rebuilt : BOOLEAN,
         probes : Nat, taps : Nat]

ASSUME ChainsAssumption ==
  /\ IsFiniteSet(Sources)
  /\ External \subseteq Sources
  /\ SceneOffsets \cup Typed \cup Deltas \subseteq Int
  /\ Declared \subseteq Nat
  /\ {FileBound, Ceiling, CorrectionFloor, MaxTime, MaxLost} \subseteq Nat
  /\ Ceiling <= FileBound
  /\ None \notin Int \cup Pads
  /\ Outcomes \subseteq {"built", "absent", "loose", "leaked"}

VARIABLES
  row,       \* per source: offset, muted
  bounds,    \* per source: min, max; in SourceRow and Transport.source_bounds
  layout,    \* per source: offset, muted
  entries,   \* keys of source_pads
  chains,    \* per medium: the chains into its aggregator
  stores,    \* sources with a GPU frame store
  rt,        \* running time
  asked,     \* the streams each source was last said to have
  failed,    \* per medium: sources whose last build failed
  edited     \* sources whose offset the operator has set, and transport accepted

ghosts == <<asked, failed, edited>>
vars == <<row, bounds, layout, entries, chains, stores, rt, ghosts>>

\* A source pad that feeds an aggregator, with its sink pad's mute (see Pads).
Pad(offset, muted, base, rebuilt) ==
  [offset |-> offset, muted |-> muted,
   base |-> base,          \* offset_base of a one-shot probe not yet fired, or None
   rebuilt |-> rebuilt,    \* by a StreamsChanged, not at start-up
   probes |-> 0,           \* frame counters installed on it
   taps |-> 0]             \* GPU probes on the pad before its scaler

TypeOK ==
  /\ row \in [Sources -> [offset : Int, muted : BOOLEAN]]
  /\ bounds \in [Sources -> [min : Int, max : Int]]
  /\ layout \in [Sources -> [offset : Int, muted : BOOLEAN]]
  /\ entries \subseteq Sources
  /\ chains \in [Media -> [bin : SUBSET Sources, mapped : SUBSET Sources, sinks : Nat,
                           lost : Nat, pads : [Sources -> {None} \cup Pads]]]
  /\ stores \subseteq Sources
  /\ rt \in Nat
  /\ asked \in [Sources -> SUBSET Media]
  /\ failed \in [Media -> SUBSET Sources]
  /\ edited \subseteq Sources
  /\ \A s \in Sources : row[s].offset \in bounds[s].min .. bounds[s].max

----------------------------------------------------------------------------
\* Start-up

Least(a, b) == IF a < b THEN a ELSE b

WithinUpper(b, ms) == Least(ms, b.max)   \* mutant of Within

Within(b, ms) == IF ms < b.min THEN b.min ELSE Least(ms, b.max)

FileBounds == [min |-> -FileBound, max |-> FileBound]

\* Declared maximum against the core's ceiling; live sources never lead.
EffectiveBounds(declared, signed) ==
  LET most == Least(declared, Ceiling)
  IN  [min |-> IF signed THEN -most ELSE 0, max |-> most]

\* What the discoverer may find in a file, nothing if it cannot read it.
Probed == SUBSET Media

\* Streams of a source as build sees them: a file is probed, an adapter has said
\* Ready or counts as having none; a source whose first spawn failed is in neither
\* map and gets both chains, though a reboot may bring it up later.
StartCaps(s, spawn) ==
  CASE s \notin External -> Probed
    [] s \in spawn -> SUBSET Media
    [] OTHER -> {Media}

\* The sinks build requests besides the sources' own: one per aggregator for the
\* floor that keeps it going, one per source in the compositor for its gray inset,
\* streams or not.
Floor == 1
Insets(m) == IF m = "video" THEN Cardinality(Sources) ELSE 0
StartSinks(m) == Floor + Insets(m)

\* The elements that receive an adapter's streams; a file has a decoder instead,
\* which no rebuild looks for.
Received(here) == here \cap External

BuiltVideo(scene) == Pad(scene.offset, FALSE, None, FALSE)
BuiltAudio(scene) == Pad(scene.offset, scene.muted, scene.offset, FALSE)

\* attach installs a frame counter on every video pad, the user interface a GPU
\* probe where it has made a store.
Watched(pad, tapped) == [pad EXCEPT !.probes = @ + 1, !.taps = @ + IF tapped THEN 1 ELSE 0]

BuiltPads(m, scene, caps) ==
  [s \in Sources |-> IF m \notin caps[s] THEN None
                     ELSE IF m = "video" THEN Watched(BuiltVideo(scene[s]), TRUE)
                     ELSE BuiltAudio(scene[s])]

Init ==
  \E scene \in [Sources -> [offset : SceneOffsets, muted : BOOLEAN]],
     declared \in [External -> Declared \X BOOLEAN],
     spawned \in SUBSET External :   \* external_ids: the first spawn succeeded
    /\ asked \in {caps \in [Sources -> SUBSET Media] :
                    \A s \in Sources : caps[s] \in StartCaps(s, spawned)}
    /\ bounds = [s \in Sources |->
                   IF s \in spawned THEN EffectiveBounds(declared[s][1], declared[s][2])
                                    ELSE FileBounds]
    /\ row = [s \in Sources |->
                [offset |-> Within(bounds[s], Within(FileBounds, scene[s].offset)),
                 muted |-> scene[s].muted]]
    /\ layout = scene
    /\ entries = {s \in Sources : asked[s] # {}}
    /\ chains = [m \in Media |->
                   LET here == {s \in Sources : m \in asked[s]}
                   IN  [bin |-> Received(here), mapped |-> here,
                        sinks |-> StartSinks(m) + Cardinality(here), lost |-> 0,
                        pads |-> BuiltPads(m, scene, asked)]]
    /\ stores = {s \in Sources : "video" \in asked[s]}
    /\ rt = 0
    /\ failed = [m \in Media |-> {}]
    /\ edited = {}

----------------------------------------------------------------------------
\* The operator's edits

\* Both source pads take the bare offset; a source without an entry is an error,
\* returned before the layout is written and dropped by the caller.
Shifted(c, s, offset) ==
  IF c.pads[s] = None THEN c ELSE [c EXCEPT !.pads[s].offset = offset]

SetSourcePadsOnly(s, ms) ==   \* mutant of SetSourceOffset: no write-back
  /\ chains' = IF s \in entries
               THEN [m \in Media |-> Shifted(chains[m], s, Within(bounds[s], ms))] ELSE chains
  /\ edited' = IF s \in entries THEN edited \cup {s} ELSE edited
  /\ UNCHANGED layout

SetSourceOffset(s, ms) ==
  LET offset == Within(bounds[s], ms)
  IN  \/ /\ s \notin entries
         /\ UNCHANGED <<chains, layout, edited>>
      \/ /\ s \in entries
         /\ chains' = [m \in Media |-> Shifted(chains[m], s, offset)]
         /\ layout' = [layout EXCEPT ![s].offset = offset]
         /\ edited' = edited \cup {s}

ChangeOffset(s, ms) ==
  LET clamped == Within(bounds[s], ms)
  IN  /\ row' = [row EXCEPT ![s].offset = clamped]
      /\ SetSourceOffset(s, clamped)
      /\ UNCHANGED <<bounds, entries, stores, rt, asked, failed>>

OffsetEdit(s, typed) == ChangeOffset(s, typed)

OffsetStep(s, delta) == ChangeOffset(s, row[s].offset + delta)

\* The mixer's pad, where there is one, and the layout, always.
Muted(c, s, muted) ==
  IF s \in c.mapped THEN [c EXCEPT !.pads[s].muted = muted] ELSE c

SetSourceMute(s, muted) ==
  /\ chains' = [chains EXCEPT !["audio"] = Muted(@, s, muted)]
  /\ layout' = [layout EXCEPT ![s].muted = muted]

ToggleMute(s) ==
  /\ row' = [row EXCEPT ![s].muted = ~ @]
  /\ SetSourceMute(s, ~ row[s].muted)
  /\ UNCHANGED <<bounds, entries, stores, rt, ghosts>>

----------------------------------------------------------------------------
\* Poll: one StreamsChanged

Correction(t) == IF t > CorrectionFloor THEN t ELSE 0

\* mutant of RebuiltVideo: corrected a second time
RebuiltTwice(s, t) == Pad(layout[s].offset + 2 * Correction(t), FALSE, None, TRUE)
RebuiltVideo(s, t) == Pad(layout[s].offset + Correction(t), FALSE, None, TRUE)
\* mutants of RebuiltAudio: unmuted, and left at zero
RebuiltUnmuted(s, t) == Pad(layout[s].offset + Correction(t), FALSE, None, TRUE)
RebuiltAtZero(s, t) == Pad(layout[s].offset, layout[s].muted, None, TRUE)
RebuiltAudio(s, t) == Pad(layout[s].offset + Correction(t), layout[s].muted, None, TRUE)

\* remove_video_chain, remove_audio_chain: the sink pad, if its map has it, and
\* the source pad go; then whatever bears the chain's names leaves the pipeline.
Released(c, s) ==
  [c EXCEPT !.mapped = @ \ {s}, !.pads[s] = None,
            !.sinks = @ - IF s \in c.mapped THEN 1 ELSE 0]
Dismantled(c, s) == [c EXCEPT !.bin = @ \ {s}]

\* mutant of Removed: nothing released
RemovedElements(c, s) == [Dismantled(c, s) EXCEPT !.mapped = @ \ {s}, !.pads[s] = None]

Removed(c, s) == Dismantled(Released(c, s), s)

\* A builder is done; or failed before anything was added; with elements added; or
\* with a sink pad requested, which no map holds and nothing releases.
Added(c, s, pad, how) ==
  CASE how = "built"  -> [c EXCEPT !.bin = @ \cup {s}, !.mapped = @ \cup {s},
                                   !.sinks = @ + 1, !.pads[s] = pad]
    [] how = "absent" -> c
    [] how = "loose"  -> [c EXCEPT !.bin = @ \cup {s}]
    [] how = "leaked" -> [c EXCEPT !.bin = @ \cup {s}, !.sinks = @ + 1, !.lost = @ + 1]

AddedVideo(c, s, t, how) == Added(c, s, RebuiltVideo(s, t), how)
AddedAudio(c, s, t, how) == Added(c, s, RebuiltAudio(s, t), how)

\* source_has_chain, and its like for audio: is the transport source there?
HasChain(c, s) == s \in c.bin

Rebuilt(m, bare, s, t, how) ==
  IF m = "video" THEN AddedVideo(bare, s, t, how) ELSE AddedAudio(bare, s, t, how)

\* mutant of Reconciled: a stream that is gone keeps its chain
ReconciledWanted(m, s, wanted, t, how) ==
  LET c == chains[m]
  IN  IF wanted THEN Rebuilt(m, IF HasChain(c, s) THEN Removed(c, s) ELSE c, s, t, how)
                ELSE c

\* What is there goes first, whether to be rebuilt or for good.
Reconciled(m, s, wanted, t, how) ==
  LET bare == IF HasChain(chains[m], s) THEN Removed(chains[m], s) ELSE chains[m]
  IN  IF wanted THEN Rebuilt(m, bare, s, t, how) ELSE bare

\* mutant of Attached: only the GPU probe comes back
Unattached(c, s) ==
  IF c.pads[s] = None \/ s \notin stores THEN c ELSE [c EXCEPT !.pads[s].taps = @ + 1]

\* attach_source, and install_probe for a source that has a store.
Attached(c, s) ==
  IF c.pads[s] = None THEN c ELSE [c EXCEPT !.pads[s] = Watched(@, s \in stores)]

\* build_shmsrc_chain: video first, then audio, each reading the running time
\* again; then the probes.
StreamsChanged(s, caps, how, t) ==
  LET read == [video |-> rt, audio |-> t]
      new == [m \in Media |-> Reconciled(m, s, m \in caps, read[m], how[m])]
  IN  /\ s \in External
      /\ \A m \in caps : how[m] = "leaked" => chains[m].lost < MaxLost
      /\ rt' = t
      /\ chains' = [new EXCEPT !["video"] = Attached(@, s)]
      /\ entries' = IF \E m \in caps : how[m] = "built" THEN entries \cup {s} ELSE entries
      /\ asked' = [asked EXCEPT ![s] = caps]
      /\ failed' = [m \in Media |-> IF m \in caps /\ how[m] # "built"
                                    THEN failed[m] \cup {s} ELSE failed[m] \ {s}]
      /\ UNCHANGED <<row, bounds, layout, stores, edited>>

----------------------------------------------------------------------------
\* The streaming thread, and time

\* The one-shot probe of a chain built at start-up: audiobuffersplit starts at
\* zero, so its first buffer is moved to now.
FirstAudioBuffer(s) ==
  LET pad == chains["audio"].pads[s]
  IN  /\ pad # None
      /\ pad.base # None
      /\ chains' = [chains EXCEPT !["audio"].pads[s] =
           [pad EXCEPT !.base = None,
                       !.offset = IF Correction(rt) = 0 THEN @ ELSE pad.base + Correction(rt)]]
      /\ UNCHANGED <<row, bounds, layout, entries, stores, rt, ghosts>>

Tick ==
  /\ rt < MaxTime
  /\ rt' = rt + 1
  /\ UNCHANGED <<row, bounds, layout, entries, chains, stores, ghosts>>

Next ==
  \/ \E s \in Sources :
       \/ \E typed \in Typed : OffsetEdit(s, typed)
       \/ \E delta \in Deltas : OffsetStep(s, delta)
       \/ ToggleMute(s)
       \/ FirstAudioBuffer(s)
       \/ \E caps \in SUBSET Media, t \in rt .. Least(rt + 1, MaxTime) :
            \E how \in [caps -> Outcomes] : StreamsChanged(s, caps, how, t)
  \/ Tick

Spec == Init /\ [][Next]_vars

----------------------------------------------------------------------------
\* Properties

PadsOf(m) == {s \in Sources : chains[m].pads[s] # None}

\* However often its chain was torn down and rebuilt, and whether or not it was
\* there when the button was pressed, a source is heard exactly when its row
\* says so.
MuteFollowsRow ==
  \A s \in PadsOf("audio") : chains["audio"].pads[s].muted = row[s].muted

\* An offset the operator has set is what every later rebuild applies.
OffsetSticks == \A s \in edited : layout[s].offset = row[s].offset

\* A chain rebuilt at a reconnect is moved to the present once: by no more than
\* the time that has passed, and never twice.
CorrectedOnce ==
  \A m \in Media : \A s \in PadsOf(m) :
    chains[m].pads[s].rebuilt \/ m = "video" =>
      chains[m].pads[s].offset - layout[s].offset \in 0 .. rt

\* After a reconnect the two chains of a source come from the same rebuild and
\* carry the same shift, but for the time between the two clock reads.
InStep ==
  \A s \in PadsOf("video") \cap PadsOf("audio") :
    LET v == chains["video"].pads[s]
        a == chains["audio"].pads[s]
    IN  /\ v.rebuilt <=> a.rebuilt
        /\ v.rebuilt => a.offset - v.offset \in 0 .. CorrectionFloor + 1

\* A rebuilt chain is watched again: one frame counter on its pad, so the rate
\* the tile shows is neither zero nor doubled, and the GPU probe where there is
\* a store to fill.
Observed ==
  \A s \in PadsOf("video") :
    /\ chains["video"].pads[s].probes = 1
    /\ chains["video"].pads[s].taps = IF s \in stores THEN 1 ELSE 0

\* Rebuilding leaves no sink pad behind on an aggregator, which would wait for
\* it, but those a failed build has lost.
NoLeak ==
  \A m \in Media :
    /\ chains[m].sinks = StartSinks(m) + Cardinality(chains[m].mapped) + chains[m].lost
    /\ chains[m].mapped = PadsOf(m)

\* Whatever failed before, the chains that exist are those of the streams last
\* announced, less those whose own last build failed; and only after such a
\* failure may source_has_chain speak of a chain that is not there.
ChainsFollowStreams ==
  \A m \in Media :
    /\ PadsOf(m) = {s \in Sources : m \in asked[s]} \ failed[m]
    /\ chains[m].bin \ failed[m] = PadsOf(m) \cap External
============================================================================
