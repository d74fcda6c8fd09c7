----------------------------- MODULE SessionsProofs -----------------------------
(***************************************************************************)
(* Theorems about Sessions.  What an instance does to the shared files     *)
(* matters only to instances that are in at the same time, which have      *)
(* company; for one that is alone, the files agree with its document at    *)
(* each place of its program (Own).                                        *)
(***************************************************************************)
EXTENDS Sessions, TLAPS

\* The parts of the types that the run's TypeOK does not need.
Shape ==
  /\ file \in [Instances -> Names \cup {None}]
  /\ row \in [Instances -> Docs \cup {None}]
  /\ bounds \in [Instances -> Bounds \cup {None}]
  /\ raw \in [Instances -> Offsets \cup {None}]
  /\ \A p \in Instances : row[p] # None => bounds[p] \in Bounds
  /\ doc \in [Instances -> Docs \cup {None}]
  /\ dirty \in [Instances -> BOOLEAN]

\* Before its rows are read, an instance has none, and no document.
Blank == {"off", "reap", "check", "make", "load", "error", "gone"}

\* Once it has tried to open the document.
Opened == {"reap again", "make again", "up", "write", "rename", "drop"}

\* An instance's own state at each place of its program, and while it has no
\* company the scene's as well.  The document agrees with the row but for an offset
\* nobody has edited.
Own(p) ==
  /\ pc[p] \in Blank => row[p] = None /\ doc[p] = None /\ ~ dirty[p]
  /\ pc[p] = "open" => doc[p] = None /\ ~ dirty[p] /\ (company[p] \/ Expected(p) = scene)
  /\ pc[p] \in Saving => dirty[p]
  /\ leaving[p] => pc[p] \in Saving \cup {"drop"}
  /\ ~ company[p] =>
       /\ pc[p] = "write" => file[p] = "tmp"
       /\ pc[p] = "rename" => tmp = doc[p]
       /\ pc[p] \in Opened /\ row[p] # None =>
            \/ doc[p] = Expected(p) /\ (dirty[p] \/ scene = Expected(p))
            \/ doc[p] = None /\ file_failed

\* The invariant EditsAreDue, from the rows' making on.
Due(p) ==
  /\ pc[p] \in {"open", "reap again", "make again", "up"}
  /\ row[p] # None /\ raw[p] = None
  /\ ~ company[p] /\ ~ file_failed
  => timer[p] \/ (scene # Torn /\ scene.offset = row[p].offset)

\* Two that are in at once know it: both have company.
CompanyKnown == \A p, q \in Instances : p # q /\ In(p) /\ In(q) => company[p]

\* An instance found at a launch keeps its directory until it is told to exit, as
\* long as no scan fails.
OlderKeepsDir ==
  \A p \in Instances : \A q \in older[p] :
    /\ q # p /\ pc[q] # "off"
    /\ ~ scan_failed /\ Alive(q) /\ ~ leaving[q] => q \in dirs

\* A directory belongs to an instance that was launched; those found without an
\* owner stay without, and one scan that does not fail removes them.
OrphansStayDead ==
  /\ \A q \in dirs : pc[q] # "off"
  /\ \A p \in Instances : \A q \in orphans[p] : pc[q] = "gone"
  /\ \A p \in Instances :
       ~ scan_failed /\ pc[p] \notin {"off", "reap"} => orphans[p] \cap dirs = {}

SessionsIInv ==
  /\ TypeOK /\ Shape
  /\ \A p \in Instances : Own(p) /\ Due(p)
  /\ CompanyKnown
  /\ OlderKeepsDir /\ LaterOneStaysOut
  /\ OrphansStayDead

-----------------------------------------------------------------------------
(* Steps                                                                   *)

\* One step of one instance.
Step(p) ==
  \/ Boot(p)
  \/ \E offset \in Offsets : SetOffset(p, offset)
  \/ ToggleMute(p)
  \/ Exit(p)
  \/ Save(p)
  \/ Crash(p)

\* The ends of a save that leave both files alone.
Dies(p) ==
  /\ Ends(p)
  /\ UNCHANGED <<scene, tmp>>

Resumes(p) ==
  /\ ~ leaving[p]
  /\ pc' = [pc EXCEPT ![p] = "up"]
  /\ file' = [file EXCEPT ![p] = None]
  /\ timer' = [timer EXCEPT ![p] = FALSE]
  /\ UNCHANGED <<rowVars, doc, dirty, leaving, foundVars, scene, tmp>>

\* Its three steps when all goes well.
Begins(p) ==
  /\ pc[p] \in {"up", "drop"} /\ dirty[p]
  /\ pc' = [pc EXCEPT ![p] = "write"]
  /\ file' = [file EXCEPT ![p] = "tmp"]
  /\ tmp' = Torn
  /\ UNCHANGED <<scene, persistVars, leaving, foundVars>>

Fills(p) ==
  /\ pc[p] = "write"
  /\ pc' = [pc EXCEPT ![p] = "rename"]
  /\ scene' = IF file[p] = "scene" THEN doc[p] ELSE scene
  /\ tmp' = IF file[p] = "tmp" THEN doc[p] ELSE tmp
  /\ file' = [file EXCEPT ![p] = None]
  /\ UNCHANGED <<persistVars, leaving, foundVars>>

Publishes(p) ==
  /\ pc[p] = "rename" /\ tmp # None
  /\ scene' = tmp
  /\ tmp' = None
  /\ dirty' = [dirty EXCEPT ![p] = FALSE]
  /\ timer' = [timer EXCEPT ![p] = FALSE]
  /\ file' = [q \in Instances |-> Renamed(file[q])]
  /\ pc' = [pc EXCEPT ![p] = IF leaving[p] THEN "drop" ELSE "up"]
  /\ UNCHANGED <<rowVars, doc, leaving, foundVars>>

\* Every step of a save is one of these, and ends it without a failing call only when
\* there is nothing to save, or at a rename that finds no file, or at a rename.
LEMMA SaveIs ==
  ASSUME TypeOK, Shape, NEW p \in Instances, Save(p)
  PROVE  /\ UNCHANGED <<dirVars, company, edits, scan_failed>>
         /\ Fault \/ NoFault
         /\ pc[p] \in {"up", "drop", "write", "rename"}
         /\ \/ /\ (Dies(p) /\ leaving[p]) \/ Resumes(p)
               /\ \/ pc[p] \in {"up", "drop"} /\ ~ dirty[p]
                  \/ Fault
                  \/ pc[p] = "rename" /\ tmp = None
            \/ Begins(p)
            \/ Fills(p)
            \/ Publishes(p)
<1> USE DEF Saving, rowVars
<1>1. Fault \/ NoFault => UNCHANGED scan_failed
  BY DEF Fault, NoFault, mishapVars
<1>2. ASSUME NEW well \in BOOLEAN, Saved(p, well), UNCHANGED <<scene, tmp>>,
             well => ~ dirty[p]
      PROVE  (leaving[p] /\ Dies(p)) \/ Resumes(p)
  <2>1. CASE leaving[p] /\ Ends(p)
    BY <1>2, <2>1 DEF Dies
  <2>2. CASE ~ leaving[p] /\ ~ (leaving[p] /\ Ends(p))
    <3>1. dirty' = [dirty EXCEPT ![p] = dirty[p] /\ ~ well] /\ dirty[p] \in BOOLEAN
      BY <1>2, <2>2 DEF Saved, Shape
    <3>2. (dirty[p] /\ ~ well) = dirty[p]
      BY <1>2, <3>1
    <3>3. dirty' = [dirty EXCEPT ![p] = dirty[p]]
      BY <3>1, <3>2
    <3>4. dirty' = dirty
      BY <3>3 DEF Shape
    <3> QED
      BY <1>2, <2>2, <3>4 DEF Saved, Resumes, foundVars
  <2> QED
    BY <1>2, <2>1, <2>2 DEF Saved
<1>3. ASSUME Flush(p), pc[p] \in {"up", "drop"}
      PROVE  /\ Fault \/ NoFault
             /\ \/ /\ (Dies(p) /\ leaving[p]) \/ Resumes(p)
                   /\ ~ dirty[p] \/ Fault
                \/ Begins(p)
  <2>1. CASE ~ dirty[p] /\ Saved(p, TRUE) /\ UNCHANGED <<scene, tmp>> /\ NoFault
    BY <1>2, <2>1
  <2>2. CASE dirty[p] /\ Fails(p) /\ Fault
    BY <1>2, <2>2 DEF Fails
  <2>3. CASE /\ dirty[p]
             /\ Truncate(p)
             /\ pc' = [pc EXCEPT ![p] = "write"]
             /\ UNCHANGED <<persistVars, leaving, foundVars>>
             /\ NoFault
    BY <1>3, <2>3 DEF Truncate, Begins
  <2> QED
    BY <1>3, <2>1, <2>2, <2>3 DEF Flush
<1>4. CASE Poll(p)
  BY <1>1, <1>3, <1>4 DEF Poll
<1>5. CASE Drop(p)
  BY <1>1, <1>3, <1>5 DEF Drop
<1>6. CASE Write(p)
  <2>1. CASE Fails(p) /\ Fault
    BY <1>1, <1>2, <1>6, <2>1 DEF Write, Fails
  <2>2. CASE ~ (Fails(p) /\ Fault)
    BY <1>1, <1>6, <2>2 DEF Write, Fills
  <2> QED
    BY <2>1, <2>2
<1>7. CASE Rename(p)
  <2>1. CASE tmp = None /\ Fails(p) /\ NoFault
    BY <1>1, <1>2, <1>7, <2>1 DEF Rename, Fails
  <2>2. CASE tmp # None /\ Fails(p) /\ Fault
    BY <1>1, <1>2, <1>7, <2>2 DEF Rename, Fails
  <2>3. CASE ~ (tmp = None /\ Fails(p) /\ NoFault) /\ ~ (tmp # None /\ Fails(p) /\ Fault)
    BY <1>1, <1>7, <2>3 DEF Rename, Publishes
  <2> QED
    BY <2>1, <2>2, <2>3
<1> QED
  BY <1>4, <1>5, <1>6, <1>7 DEF Save

-----------------------------------------------------------------------------
(* What a step of p leaves alone: all that is of another, but for the name of *)
(* the file it has open, and the scene's files if p is not in.                *)

\* Nothing of q itself changes in a step of another.
Untouched(q) ==
  /\ pc'[q] = pc[q] /\ leaving'[q] = leaving[q]
  /\ row'[q] = row[q] /\ raw'[q] = raw[q] /\ doc'[q] = doc[q] /\ dirty'[q] = dirty[q]
  /\ timer'[q] = timer[q]
  /\ older'[q] = older[q] /\ orphans'[q] = orphans[q]

LEMMA OthersUntouched ==
  ASSUME TypeOK, Shape, NEW p \in Instances, NEW q \in Instances \ {p}, Step(p)
  PROVE  Untouched(q)
<1> USE DEF foundVars, persistVars, rowVars, fileVars
<1>1. CASE Boot(p)
  BY <1>1 DEF Untouched, Boot, Launch, Reap, Check, MakeDir, LoadScene, OpenDoc, Goes,
              TypeOK, Shape
<1>2. CASE (\E offset \in Offsets : SetOffset(p, offset)) \/ ToggleMute(p)
  BY <1>2 DEF Untouched, SetOffset, ToggleMute, SetField, TypeOK, Shape
<1>3. CASE Exit(p)
  BY <1>3 DEF Untouched, Exit, Goes, TypeOK, Shape
<1>4. CASE Save(p)
  BY <1>4, SaveIs DEF Untouched, Dies, Ends, Resumes, Begins, Fills, Publishes, TypeOK, Shape
<1>5. CASE Crash(p)
  BY <1>5 DEF Untouched, Crash, Ends, TypeOK, Shape
<1> QED
  BY <1>1, <1>2, <1>3, <1>4, <1>5 DEF Step

LEMMA OnlyInsidersWrite ==
  ASSUME TypeOK, Shape, NEW p \in Instances, NEW q \in Instances \ {p}, Step(p), ~ In(p)
  PROVE  scene' = scene /\ tmp' = tmp /\ file'[q] = file[q]
<1> USE DEF fileVars, In, Alive
<1>1. CASE Boot(p)
  BY <1>1 DEF Boot, Launch, Reap, Check, MakeDir, LoadScene, OpenDoc, Goes
<1>2. CASE (\E offset \in Offsets : SetOffset(p, offset)) \/ ToggleMute(p)
  BY <1>2 DEF SetOffset, ToggleMute, SetField
<1>3. CASE Exit(p)
  BY <1>3 DEF Exit
<1>4. CASE Save(p)
  BY <1>4, SaveIs
<1>5. CASE Crash(p)
  BY <1>5 DEF Crash, Ends, Shape
<1> QED
  BY <1>1, <1>2, <1>3, <1>4, <1>5 DEF Step

\* Company, once had, is never forgotten; and nobody comes in but through Check.
LEMMA InGrowsByCheck ==
  ASSUME TypeOK, Shape, NEW p \in Instances, Step(p)
  PROVE  /\ \A q \in Instances : company[q] => company'[q]
         /\ Check(p) \/ \A q \in Instances : In(q)' => In(q)
<1> USE DEF In, Alive
<1>1. CASE Boot(p)
  BY <1>1 DEF Boot, Launch, Reap, Check, MakeDir, LoadScene, OpenDoc, Goes, TypeOK
<1>2. CASE (\E offset \in Offsets : SetOffset(p, offset)) \/ ToggleMute(p)
  BY <1>2 DEF SetOffset, ToggleMute, SetField
<1>3. CASE Exit(p)
  BY <1>3 DEF Exit, Goes, TypeOK
<1>4. CASE Save(p)
  BY <1>4, SaveIs DEF Dies, Ends, Resumes, Begins, Fills, Publishes, TypeOK
<1>5. CASE Crash(p)
  BY <1>5 DEF Crash, Ends, TypeOK
<1> QED
  BY <1>1, <1>2, <1>3, <1>4, <1>5 DEF Step

\* Nor is a failure.
LEMMA FailuresStay ==
  ASSUME TypeOK, Shape, NEW p \in Instances, Step(p)
  PROVE  (file_failed => file_failed') /\ (scan_failed => scan_failed')
<1> DEFINE Stay == (file_failed => file_failed') /\ (scan_failed => scan_failed')
<1>1. NoFault \/ Fault \/ ScanFault \/ DirFault => Stay
  BY DEF NoFault, Fault, ScanFault, DirFault, mishapVars
<1> SUFFICES Stay
  OBVIOUS
<1> HIDE DEF Stay
<1>2. UNCHANGED mishapVars => NoFault
  BY DEF NoFault
<1>3. CASE Boot(p)
  <2>1. CASE Launch(p)
    BY <1>1, <1>2, <2>1 DEF Launch, countVars
  <2>2. CASE Check(p)
    BY <1>1, <1>2, <2>2 DEF Check
  <2>3. CASE Reap(p) \/ MakeDir(p) \/ LoadScene(p) \/ OpenDoc(p)
    BY <1>1, <2>3 DEF Reap, MakeDir, LoadScene, OpenDoc
  <2> QED
    BY <1>3, <2>1, <2>2, <2>3 DEF Boot
<1>4. CASE (\E offset \in Offsets : SetOffset(p, offset)) \/ ToggleMute(p)
  BY <1>1, <1>2, <1>4 DEF SetOffset, ToggleMute, SetField
<1>5. CASE Exit(p)
  BY <1>1, <1>5 DEF Exit
<1>6. CASE Save(p)
  BY <1>1, <1>6, SaveIs
<1>7. CASE Crash(p)
  BY <1>1, <1>7 DEF Crash, DirFault
<1> QED
  BY <1>3, <1>4, <1>5, <1>6, <1>7 DEF Step

LEMMA CompanyStep ==
  ASSUME TypeOK, Shape, CompanyKnown, NEW p \in Instances, Step(p)
  PROVE  CompanyKnown'
<1>1. CASE Check(p)
  <2> SUFFICES ASSUME NEW q \in Instances, NEW r \in Instances, q # r, In(q)', In(r)'
               PROVE  company'[q]
    BY DEF CompanyKnown
  <2>1. \A o \in Instances \ {p} : In(o)' => In(o)
    BY <1>1 DEF Check, Goes, In, Alive, TypeOK
  <2>2. company[q] => company'[q]
    BY InGrowsByCheck
  <2>3. ~ In(p)
    BY <1>1 DEF Check, Goes, In
  <2>4. CASE q # p /\ r # p
    BY <2>1, <2>2, <2>4 DEF CompanyKnown
  <2>5. CASE q = p \/ r = p
    <3>1. \E o \in Instances \ {p} : In(o)
      BY <2>1, <2>5
    <3>2. pc'[p] # "gone"
      BY <2>5 DEF In, Alive
    <3>3. company' = [o \in Instances |-> o = p \/ In(o) \/ company[o]]
      BY <1>1, <3>1, <3>2 DEF Check, Goes, TypeOK
    <3> QED
      BY <2>1, <3>3
  <2> QED
    BY <2>4, <2>5
<1>2. CASE ~ Check(p)
  BY <1>2, InGrowsByCheck DEF CompanyKnown
<1> QED
  BY <1>1, <1>2
-----------------------------------------------------------------------------
(* Types. Shape is inductive with TypeOK and Own, which knows that a save has *)
(* a document.                                                             *)

LEMMA FieldsAreDocs ==
  ASSUME NEW d \in Docs
  PROVE  /\ d.offset \in Offsets /\ d.muted \in BOOLEAN
         /\ d # None /\ d # Torn
         /\ \A offset \in Offsets : [d EXCEPT !["offset"] = offset] \in Docs
         /\ \A muted \in BOOLEAN : [d EXCEPT !["muted"] = muted] \in Docs
  BY SessionsAssumption DEF Docs

LEMMA SameFields ==
  ASSUME NEW d \in Docs, NEW e \in Docs, d.offset = e.offset, d.muted = e.muted
  PROVE  d = e
  BY DEF Docs

LEMMA WithinBounds ==
  ASSUME NEW offset \in Offsets, NEW b \in Bounds
  PROVE  Within(offset, b) \in Offsets /\ Within(offset, b) \in b.min .. b.max
<1>1. b.min \in Offsets /\ b.max \in Offsets /\ b.min <= b.max
  BY SessionsAssumption
<1>2. offset \in Int /\ b.min \in Int /\ b.max \in Int
  BY <1>1, SessionsAssumption
<1> QED
  BY <1>1, <1>2 DEF Within

\* The row made of a source is within its bounds, and differs in nothing else.
LEMMA RowOfEffect ==
  ASSUME NEW d \in Docs, NEW b \in Bounds
  PROVE  /\ RowOf(d, b) \in Docs
         /\ RowOf(d, b).offset \in b.min .. b.max
         /\ [RowOf(d, b) EXCEPT !.offset = d.offset] = d
<1> DEFINE x == Within(d.offset, FileBounds)
           o == Within(x, b)
<1>1. d.offset \in Offsets /\ x \in Offsets /\ o \in Offsets /\ o \in b.min .. b.max
  BY FieldsAreDocs, WithinBounds, SessionsAssumption
<1>2. RowOf(d, b) = [d EXCEPT !.offset = o]
  BY DEF RowOf
<1> HIDE DEF x, o
<1> QED
  BY <1>1, <1>2 DEF Docs

\* What is expected in the file is a document with the row's mute.
LEMMA ExpectedIs ==
  ASSUME NEW p, row[p] \in Docs, raw[p] \in Offsets \cup {None}
  PROVE  /\ Expected(p) \in Docs /\ Expected(p).muted = row[p].muted
         /\ raw[p] = None => Expected(p).offset = row[p].offset
         /\ raw[p] # None => Expected(p).offset = raw[p]
  BY DEF Expected, Docs

\* What an edit does: the document takes over the row's new value, if there is one.
LEMMA EditIs ==
  ASSUME TypeOK, Shape, NEW p \in Instances,
         (\E offset \in Offsets : SetOffset(p, offset)) \/ ToggleMute(p)
  PROVE  /\ pc[p] = "up" /\ row[p] # None
         /\ \E new \in Docs, d \in Docs \cup {None} :
              /\ row' = [row EXCEPT ![p] = new]
              /\ new.offset \in bounds[p].min .. bounds[p].max
              /\ doc' = [doc EXCEPT ![p] = d]
              /\ doc[p] = None <=> d = None
              /\ doc[p] = Expected(p) => d = Expected(p)'
         /\ \E r \in Offsets \cup {None} : raw' = [raw EXCEPT ![p] = r]
         /\ dirty' = [dirty EXCEPT ![p] = doc[p] # None]
         /\ timer' \in [Instances -> BOOLEAN]
         /\ edits' \in 0 .. MaxEdits
         /\ UNCHANGED <<dirVars, foundVars, fileVars, pc, leaving, bounds, company, mishapVars>>
<1>1. ASSUME NEW field \in {"offset", "muted"}, NEW value,
             field = "offset" => value \in Offsets,
             field = "muted" => value \in BOOLEAN,
             SetField(p, field, value), row[p] # None
      PROVE  \E new \in Docs, d \in Docs \cup {None} :
              /\ new = [row[p] EXCEPT ![field] = value]
              /\ row' = [row EXCEPT ![p] = new]
              /\ doc' = [doc EXCEPT ![p] = d]
              /\ doc[p] = None <=> d = None
              /\ doc[p] # None => d = [doc[p] EXCEPT ![field] = value]
  <2> DEFINE new == [row[p] EXCEPT ![field] = value]
             d == [doc[p] EXCEPT ![field] = value]
  <2>1. row[p] \in Docs /\ new \in Docs
    BY <1>1, FieldsAreDocs DEF Shape
  <2>2. row' = [row EXCEPT ![p] = new]
    BY <1>1 DEF SetField
  <2>3. CASE doc[p] = None
    <3>1. doc' = [doc EXCEPT ![p] = None]
      BY <1>1, <2>3 DEF SetField, Shape
    <3> HIDE DEF new
    <3> QED
      BY <2>1, <2>2, <2>3, <3>1 DEF new
  <2>4. CASE doc[p] # None
    <3>1. doc[p] \in Docs /\ d \in Docs
      BY <1>1, <2>4, FieldsAreDocs DEF Shape
    <3>2. doc' = [doc EXCEPT ![p] = d]
      BY <1>1, <2>4 DEF SetField
    <3>3. d # None
      BY <3>1, FieldsAreDocs
    <3> HIDE DEF new, d
    <3> QED
      BY <2>1, <2>2, <2>4, <3>1, <3>2, <3>3 DEF new, d
  <2> QED
    BY <2>3, <2>4
<1>2. edits \in Nat /\ MaxEdits \in Nat
  BY SessionsAssumption DEF TypeOK
<1>3. ASSUME NEW field, NEW value, SetField(p, field, value)
      PROVE  /\ pc[p] = "up" /\ edits' \in 0 .. MaxEdits
             /\ dirty' = [dirty EXCEPT ![p] = doc[p] # None]
             /\ UNCHANGED <<dirVars, foundVars, fileVars, pc, leaving, bounds, company,
                            mishapVars>>
  BY <1>2, <1>3 DEF SetField, TypeOK
<1>4. row[p] # None => row[p] \in Docs /\ bounds[p] \in Bounds
  BY DEF Shape
<1>5. raw[p] \in Offsets \cup {None} /\ None \notin Offsets
  BY SessionsAssumption DEF Shape
<1>6. CASE \E offset \in Offsets : SetOffset(p, offset)
  <2>1. PICK offset \in Offsets :
          /\ SetField(p, "offset", offset) /\ row[p] # None
          /\ offset = Within(offset, bounds[p])
          /\ raw' = [raw EXCEPT ![p] = None]
          /\ timer' = [timer EXCEPT ![p] = TRUE]
    BY <1>6 DEF SetOffset
  <2>2. PICK new \in Docs, d \in Docs \cup {None} :
          /\ new = [row[p] EXCEPT !["offset"] = offset]
          /\ row' = [row EXCEPT ![p] = new]
          /\ doc' = [doc EXCEPT ![p] = d]
          /\ doc[p] = None <=> d = None
          /\ doc[p] # None => d = [doc[p] EXCEPT !["offset"] = offset]
    BY <1>1, <2>1
  <2>3. new.offset = offset /\ new.muted = row[p].muted
    BY <1>4, <2>1, <2>2 DEF Docs
  <2>4. new.offset \in bounds[p].min .. bounds[p].max
    BY <1>4, <2>1, <2>3, WithinBounds
  <2>5. ASSUME doc[p] = Expected(p)
        PROVE  d = Expected(p)'
    <3>1. doc[p] \in Docs /\ doc[p].muted = row[p].muted
      BY <1>4, <1>5, <2>1, <2>5, ExpectedIs
    <3>2. d = [doc[p] EXCEPT !["offset"] = offset]
      BY <2>2, <3>1, FieldsAreDocs
    <3>3. d.offset = offset /\ d.muted = row[p].muted /\ d \in Docs
      BY <2>1, <3>1, <3>2 DEF Docs
    <3>4. d = new
      BY <2>3, <3>3, SameFields
    <3>5. raw'[p] = None /\ row'[p] = new
      BY <2>1, <2>2 DEF Shape
    <3> QED
      BY <3>4, <3>5 DEF Expected
  <2>6. timer' \in [Instances -> BOOLEAN]
    BY <2>1 DEF TypeOK
  <2>7. /\ pc[p] = "up" /\ edits' \in 0 .. MaxEdits
        /\ dirty' = [dirty EXCEPT ![p] = doc[p] # None]
        /\ UNCHANGED <<dirVars, foundVars, fileVars, pc, leaving, bounds, company, mishapVars>>
    BY <1>3, <2>1
  <2> QED
    BY <2>1, <2>2, <2>4, <2>5, <2>6, <2>7
<1>7. CASE ToggleMute(p)
  <2>1. /\ row[p] # None /\ SetField(p, "muted", ~ row[p].muted)
        /\ raw' = raw /\ timer' = timer
    BY <1>7 DEF ToggleMute
  <2>2. PICK new \in Docs, d \in Docs \cup {None} :
          /\ new = [row[p] EXCEPT !["muted"] = ~ row[p].muted]
          /\ row' = [row EXCEPT ![p] = new]
          /\ doc' = [doc EXCEPT ![p] = d]
          /\ doc[p] = None <=> d = None
          /\ doc[p] # None => d = [doc[p] EXCEPT !["muted"] = ~ row[p].muted]
    <3>1. (~ row[p].muted) \in BOOLEAN
      OBVIOUS
    <3> QED
      BY <1>1, <2>1, <3>1
  <2>3. new.offset = row[p].offset /\ new.muted = (~ row[p].muted)
    BY <1>4, <2>1, <2>2 DEF Docs
  <2>4. new.offset \in bounds[p].min .. bounds[p].max
    BY <2>1, <2>3 DEF TypeOK
  <2>5. ASSUME doc[p] = Expected(p)
        PROVE  d = Expected(p)'
    <3>1. /\ doc[p] \in Docs
          /\ raw[p] = None => doc[p].offset = row[p].offset
          /\ raw[p] # None => doc[p].offset = raw[p]
      BY <1>4, <1>5, <2>1, <2>5, ExpectedIs
    <3>2. d = [doc[p] EXCEPT !["muted"] = ~ row[p].muted]
      BY <2>2, <3>1, FieldsAreDocs
    <3>3. d.offset = doc[p].offset /\ d.muted = (~ row[p].muted) /\ d \in Docs
      BY <3>1, <3>2 DEF Docs
    <3>4. raw'[p] = raw[p] /\ row'[p] = new
      BY <2>1, <2>2 DEF Shape
    <3>5. /\ Expected(p)' \in Docs /\ Expected(p)'.muted = new.muted
          /\ raw[p] = None => Expected(p)'.offset = new.offset
          /\ raw[p] # None => Expected(p)'.offset = raw[p]
      BY <1>5, <3>4 DEF Expected, Docs
    <3> QED
      BY <2>3, <3>1, <3>3, <3>5, SameFields
  <2>6. timer' \in [Instances -> BOOLEAN]
    BY <2>1 DEF TypeOK
  <2>7. /\ pc[p] = "up" /\ edits' \in 0 .. MaxEdits
        /\ dirty' = [dirty EXCEPT ![p] = doc[p] # None]
        /\ UNCHANGED <<dirVars, foundVars, fileVars, pc, leaving, bounds, company, mishapVars>>
    BY <1>3, <2>1
  <2>8. raw' = [raw EXCEPT ![p] = raw[p]]
    BY <2>1 DEF Shape
  <2> QED
    BY <1>5, <2>1, <2>2, <2>4, <2>5, <2>6, <2>7, <2>8
<1> QED
  BY <1>6, <1>7

LEMMA SavesHaveDocs ==
  ASSUME TypeOK, Shape, NEW p \in Instances, Own(p), pc[p] \in Saving
  PROVE  doc[p] \in Docs /\ doc[p] # None /\ doc[p] # Torn
<1>1. doc[p] \in Docs
  BY DEF Own, TypeOK, Shape
<1> QED
  BY <1>1, FieldsAreDocs

LEMMA ShapeStep ==
  ASSUME SessionsIInv, NEW p \in Instances, Step(p)
  PROVE  Shape'
<1> USE DEF SessionsIInv, persistVars, rowVars, fileVars
<1>1. None \notin Names
  BY SessionsAssumption
<1>2. CASE Boot(p)
  <2>1. CASE LoadScene(p)
    <3>1. CASE UNCHANGED rowVars
      BY <2>1, <3>1 DEF LoadScene, Shape
    <3>2. CASE ~ UNCHANGED rowVars
      <4>1. PICK b \in Bounds :
              /\ scene # Torn
              /\ row' = [row EXCEPT ![p] = RowOf(scene, b)]
              /\ bounds' = [bounds EXCEPT ![p] = b]
              /\ raw' = [raw EXCEPT ![p] = scene.offset]
        BY <2>1, <3>2, SessionsAssumption DEF LoadScene
      <4>2. scene \in Docs /\ RowOf(scene, b) \in Docs /\ scene.offset \in Offsets
        BY <4>1, RowOfEffect, FieldsAreDocs DEF TypeOK
      <4> QED
        BY <2>1, <4>1, <4>2 DEF LoadScene, Shape
    <3> QED
      BY <3>1, <3>2
  <2>2. CASE OpenDoc(p)
    <3>1. PICK d \in Docs \cup {None} : doc' = [doc EXCEPT ![p] = d]
      BY <2>2 DEF OpenDoc, TypeOK
    <3> QED
      BY <2>2, <3>1 DEF OpenDoc, Shape
  <2>3. CASE Launch(p) \/ Reap(p) \/ Check(p) \/ MakeDir(p)
    BY <2>3 DEF Launch, Reap, Check, MakeDir, Shape
  <2> QED
    BY <1>2, <2>1, <2>2, <2>3 DEF Boot
<1>3. CASE (\E offset \in Offsets : SetOffset(p, offset)) \/ ToggleMute(p)
  <2>1. PICK new \in Docs, d \in Docs \cup {None}, r \in Offsets \cup {None} :
          /\ row' = [row EXCEPT ![p] = new] /\ doc' = [doc EXCEPT ![p] = d]
          /\ raw' = [raw EXCEPT ![p] = r]
    BY <1>3, EditIs
  <2>2. row[p] # None /\ UNCHANGED <<file, bounds>> /\ dirty' = [dirty EXCEPT ![p] = doc[p] # None]
    BY <1>3, EditIs
  <2>3. /\ row' \in [Instances -> Docs \cup {None}] /\ doc' \in [Instances -> Docs \cup {None}]
        /\ raw' \in [Instances -> Offsets \cup {None}] /\ dirty' \in [Instances -> BOOLEAN]
    BY <2>1, <2>2 DEF Shape
  <2>4. \A q \in Instances : row'[q] # None => row[q] # None
    BY <2>1, <2>2 DEF Shape
  <2> QED
    BY <2>2, <2>3, <2>4 DEF Shape
<1>4. CASE Exit(p)
  BY <1>4 DEF Exit, Shape
<1>5. CASE Save(p)
  <2>1. CASE Dies(p)
    BY <2>1 DEF Dies, Ends, Shape
  <2>2. CASE Resumes(p) \/ Begins(p) \/ Fills(p)
    BY <2>2 DEF Resumes, Begins, Fills, Shape, Names
  <2>3. CASE Publishes(p)
    BY <1>1, <2>3 DEF Publishes, Renamed, Shape, Names
  <2> QED
    BY <1>5, <2>1, <2>2, <2>3, SaveIs
<1>6. CASE Crash(p)
  BY <1>6 DEF Crash, Ends, Shape
<1> QED
  BY <1>2, <1>3, <1>4, <1>5, <1>6 DEF Step

\* The places of an instance's program.
Places == Booting \cup Saving \cup {"off", "up", "error", "drop", "gone"}

LEMMA GoesType ==
  ASSUME TypeOK, Shape, NEW p \in Instances, NEW from, NEW to \in Places,
         from # "write", Goes(p, from, to), UNCHANGED file
  PROVE  /\ pc' \in [Instances -> Places]
         /\ \A q \in Instances : file'[q] # None => pc'[q] = "write"
  BY DEF Goes, TypeOK, Places

LEMMA FaultType ==
  ASSUME TypeOK, Fault \/ NoFault \/ ScanFault \/ DirFault
  PROVE  mishaps' \in 0 .. MaxMishaps /\ {scan_failed', file_failed'} \subseteq BOOLEAN
<1>1. /\ MaxMishaps \in Nat /\ mishaps \in 0 .. MaxMishaps
      /\ {scan_failed, file_failed} \subseteq BOOLEAN
  BY SessionsAssumption DEF TypeOK
<1>2. mishaps' \in 0 .. MaxMishaps
  BY <1>1 DEF Fault, ScanFault, DirFault, NoFault, Mishap, mishapVars
<1>3. {scan_failed', file_failed'} \subseteq BOOLEAN
  BY <1>1 DEF Fault, ScanFault, DirFault, NoFault, mishapVars
<1> QED
  BY <1>2, <1>3

LEMMA TypeStep ==
  ASSUME SessionsIInv, NEW p \in Instances, Step(p)
  PROVE  TypeOK'
<1> USE DEF SessionsIInv, persistVars, rowVars, fileVars, foundVars, dirVars, countVars
<1>1. /\ {Launches, MaxEdits, MaxMishaps} \subseteq Nat
      /\ edits \in Nat /\ mishaps \in Nat
  BY SessionsAssumption DEF TypeOK
<1>2. CASE Boot(p)
  <2>1. CASE Launch(p)
    BY <2>1 DEF Launch, Goes, TypeOK, Booting, mishapVars
  <2>2. CASE Reap(p)
    <3>1. mishaps' \in 0 .. MaxMishaps /\ {scan_failed', file_failed'} \subseteq BOOLEAN
      BY <2>2, FaultType DEF Reap
    <3>2. /\ pc' \in [Instances -> Places]
          /\ \A q \in Instances : file'[q] # None => pc'[q] = "write"
      BY <2>2, GoesType DEF Reap, Places, Booting
    <3> QED
      BY <2>2, <3>1, <3>2 DEF Reap, TypeOK, Places
  <2>3. CASE Check(p)
    <3>1. mishaps' \in 0 .. MaxMishaps /\ {scan_failed', file_failed'} \subseteq BOOLEAN
      BY <2>3, FaultType DEF Check, NoFault
    <3> QED
      BY <2>3, <3>1 DEF Check, Goes, In, Alive, TypeOK, Booting
  <2>4. CASE MakeDir(p)
    <3>1. mishaps' \in 0 .. MaxMishaps /\ {scan_failed', file_failed'} \subseteq BOOLEAN
      BY <2>4, FaultType DEF MakeDir
    <3>2. /\ pc' \in [Instances -> Places]
          /\ \A q \in Instances : file'[q] # None => pc'[q] = "write"
      BY <2>4, GoesType DEF MakeDir, Places, Booting
    <3> QED
      BY <2>4, <3>1, <3>2 DEF MakeDir, TypeOK, Places
  <2>5. CASE LoadScene(p)
    <3>1. /\ pc' \in [Instances -> Places]
          /\ \A q \in Instances : file'[q] # None => pc'[q] = "write"
      BY <2>5, GoesType DEF LoadScene, Places, Booting
    <3>2. /\ \A q \in Instances : row'[q] \in {None} \cup Docs
          /\ \A q \in Instances : bounds'[q] \in {None} \cup Bounds
          /\ \A q \in Instances : raw'[q] \in {None} \cup Offsets
      BY <1>2, ShapeStep DEF Shape
    <3>3. \A q \in Instances :
            row'[q] # None => row'[q].offset \in bounds'[q].min .. bounds'[q].max
      <4>1. CASE UNCHANGED rowVars
        BY <4>1 DEF TypeOK
      <4>2. CASE ~ UNCHANGED rowVars
        <5>1. PICK b \in Bounds :
                /\ scene # Torn
                /\ row' = [row EXCEPT ![p] = RowOf(scene, b)]
                /\ bounds' = [bounds EXCEPT ![p] = b]
          BY <2>5, <4>2, SessionsAssumption DEF LoadScene
        <5>2. RowOf(scene, b).offset \in b.min .. b.max
          BY <5>1, RowOfEffect DEF TypeOK
        <5>3. row'[p].offset \in bounds'[p].min .. bounds'[p].max
          BY <5>1, <5>2 DEF Shape
        <5>4. \A q \in Instances \ {p} : row'[q] = row[q] /\ bounds'[q] = bounds[q]
          BY <5>1 DEF Shape
        <5> QED
          BY <5>3, <5>4 DEF TypeOK
      <4> QED
        BY <4>1, <4>2
    <3>4. mishaps' \in 0 .. MaxMishaps /\ {scan_failed', file_failed'} \subseteq BOOLEAN
      BY <2>5, FaultType DEF LoadScene
    <3> QED
      BY <2>5, <3>1, <3>2, <3>3, <3>4 DEF LoadScene, TypeOK, Places
  <2>6. CASE OpenDoc(p)
    <3>1. mishaps' \in 0 .. MaxMishaps /\ {scan_failed', file_failed'} \subseteq BOOLEAN
      BY <2>6, FaultType DEF OpenDoc
    <3> QED
      BY <2>6, <3>1 DEF OpenDoc, Goes, TypeOK, Shape, Booting, Own
  <2> QED
    BY <1>2, <2>1, <2>2, <2>3, <2>4, <2>5, <2>6 DEF Boot
<1>3. CASE (\E offset \in Offsets : SetOffset(p, offset)) \/ ToggleMute(p)
  <2>1. PICK new \in Docs, d \in Docs \cup {None} :
          /\ row' = [row EXCEPT ![p] = new]
          /\ new.offset \in bounds[p].min .. bounds[p].max
          /\ doc' = [doc EXCEPT ![p] = d]
          /\ doc[p] = None <=> d = None
    BY <1>3, EditIs
  <2>2. PICK r \in Offsets \cup {None} : raw' = [raw EXCEPT ![p] = r]
    BY <1>3, EditIs
  <2>3. /\ UNCHANGED <<dirVars, foundVars, fileVars, pc, leaving, bounds, company, mishapVars>>
        /\ dirty' = [dirty EXCEPT ![p] = doc[p] # None]
        /\ timer' \in [Instances -> BOOLEAN] /\ edits' \in 0 .. MaxEdits
    BY <1>3, EditIs
  <2>4. \A q \in Instances :
          /\ row'[q] \in {None} \cup Docs /\ doc'[q] \in {None} \cup Docs
          /\ bounds'[q] \in {None} \cup Bounds /\ raw'[q] \in {None} \cup Offsets
    BY <2>1, <2>2, <2>3 DEF Shape
  <2>5. \A q \in Instances : dirty'[q] => doc'[q] # None
    BY <2>1, <2>3 DEF Shape, TypeOK
  <2>6. \A q \in Instances :
          row'[q] # None => row'[q].offset \in bounds'[q].min .. bounds'[q].max
    <3>1. row'[p] = new /\ \A q \in Instances \ {p} : row'[q] = row[q]
      BY <2>1 DEF Shape
    <3> QED
      BY <2>1, <2>3, <3>1 DEF TypeOK
  <2> QED
    BY <2>3, <2>4, <2>5, <2>6 DEF TypeOK, mishapVars
<1>4. CASE Exit(p)
  <2>1. mishaps' \in 0 .. MaxMishaps /\ {scan_failed', file_failed'} \subseteq BOOLEAN
    BY <1>4, FaultType DEF Exit
  <2> QED
    BY <1>4, <2>1 DEF Exit, Goes, TypeOK, Booting
<1>5. CASE Save(p)
  <2>1. mishaps' \in 0 .. MaxMishaps /\ {scan_failed', file_failed'} \subseteq BOOLEAN
    BY <1>5, SaveIs, FaultType
  <2> USE <2>1
  <2>2. CASE Dies(p)
    BY <1>5, <2>2, SaveIs DEF Dies, Ends, TypeOK, Shape
  <2>3. CASE Resumes(p)
    BY <1>5, <2>3, SaveIs DEF Resumes, TypeOK, Shape
  <2>4. CASE Begins(p)
    BY <1>5, <2>4, SaveIs DEF Begins, TypeOK, Shape, Saving
  <2>5. CASE Fills(p)
    <3>1. doc[p] \in Docs
      BY <2>5, SavesHaveDocs DEF Fills, Saving
    <3> QED
      BY <1>5, <2>5, <3>1, SaveIs DEF Fills, TypeOK, Shape, Saving
  <2>6. CASE Publishes(p)
    <3>1. \A q \in Instances : file'[q] # None => file[q] # None /\ q # p
      BY <2>6, SessionsAssumption DEF Publishes, Renamed, TypeOK, Shape, Names
    <3> QED
      BY <1>5, <2>6, <3>1, SaveIs DEF Publishes, TypeOK, Shape
  <2> QED
    BY <1>5, <2>2, <2>3, <2>4, <2>5, <2>6, SaveIs
<1>6. CASE Crash(p)
  BY <1>1, <1>6 DEF Crash, Mishap, Ends, TypeOK, Shape
<1> QED
  BY <1>2, <1>3, <1>4, <1>5, <1>6 DEF Step

-----------------------------------------------------------------------------
(* An instance's own state                                                 *)

LEMMA OwnOfOthers ==
  ASSUME SessionsIInv, NEW p \in Instances, NEW q \in Instances \ {p}, Step(p)
  PROVE  Own(q)'
<1>1. /\ Untouched(q) /\ (company[q] => company'[q]) /\ (file_failed => file_failed')
      /\ Expected(q)' = Expected(q)
  BY OthersUntouched, InGrowsByCheck, FailuresStay DEF SessionsIInv, Untouched, Expected
<1>2. CASE ~ In(p)
  BY <1>1, <1>2, OnlyInsidersWrite DEF SessionsIInv, Own, Untouched
<1>3. CASE In(p) /\ In(q)
  BY <1>1, <1>3 DEF SessionsIInv, CompanyKnown, Own, Untouched
<1>4. CASE ~ In(q)
  BY <1>1, <1>4 DEF SessionsIInv, Own, Untouched, In, Alive, Blank, Opened, Saving
<1> QED
  BY <1>2, <1>3, <1>4

LEMMA OwnStep ==
  ASSUME SessionsIInv, NEW p \in Instances, Step(p)
  PROVE  Own(p)'
<1> USE DEF SessionsIInv, persistVars, rowVars, fileVars, Blank, Opened, Saving
<1>1. Own(p) /\ (company[p] => company'[p]) /\ (file_failed => file_failed')
  BY InGrowsByCheck, FailuresStay
<1>2. None # Torn /\ Torn \notin Docs
  BY SessionsAssumption
<1>e. UNCHANGED <<row, raw>> => Expected(p)' = Expected(p)
  BY DEF Expected
<1>3. CASE Boot(p)
  <2>1. CASE Launch(p) \/ Reap(p) \/ MakeDir(p)
    BY <1>1, <1>e, <2>1 DEF Launch, Reap, MakeDir, Goes, Own, TypeOK
  <2>2. CASE Check(p)
    BY <1>1, <1>e, <2>2 DEF Check, Goes, Own, TypeOK
  <2>3. CASE LoadScene(p)
    <3>1. CASE pc'[p] = "error"
      <4>1. /\ pc[p] = "load"
            /\ UNCHANGED <<rowVars, doc, dirty, leaving, scene, company>>
        BY <2>3, <3>1 DEF LoadScene, Goes, TypeOK
      <4> QED
        BY <1>1, <3>1, <4>1 DEF Own
    <3>2. CASE pc'[p] # "error"
      <4>1. PICK b \in Bounds :
              /\ scene # Torn /\ pc[p] = "load" /\ pc'[p] = "open"
              /\ row' = [row EXCEPT ![p] = RowOf(scene, b)]
              /\ raw' = [raw EXCEPT ![p] = scene.offset]
        BY <2>3, <3>2, SessionsAssumption DEF LoadScene, Goes, TypeOK
      <4>2. /\ scene \in Docs /\ scene.offset # None
            /\ [RowOf(scene, b) EXCEPT !.offset = scene.offset] = scene
        BY <4>1, RowOfEffect, FieldsAreDocs, SessionsAssumption DEF TypeOK
      <4>3. Expected(p)' = scene
        <5>1. row'[p] = RowOf(scene, b) /\ raw'[p] = scene.offset
          BY <4>1 DEF Shape
        <5> QED
          BY <4>2, <5>1 DEF Expected
      <4>4. /\ doc[p] = None /\ ~ dirty[p] /\ ~ leaving[p]
            /\ UNCHANGED <<doc, dirty, leaving, scene>>
        BY <1>1, <2>3, <4>1 DEF LoadScene, Own
      <4> QED
        BY <4>1, <4>3, <4>4 DEF Own
    <3> QED
      BY <3>1, <3>2
  <2>4. CASE OpenDoc(p)
    <3>1. /\ pc[p] = "open" /\ pc'[p] \in {"reap again", "up"}
          /\ \/ doc'[p] = IF scene = Torn THEN None ELSE scene
             \/ doc'[p] = None /\ file_failed'
          /\ row'[p] = row[p] /\ raw'[p] = raw[p]
          /\ dirty'[p] = dirty[p] /\ leaving'[p] = leaving[p]
          /\ UNCHANGED <<scene, company>>
      BY <2>4 DEF OpenDoc, Goes, Fault, TypeOK, Shape
    <3>2. row[p] # None => Expected(p) # Torn /\ Expected(p)' = Expected(p)
      BY <1>2, <3>1, ExpectedIs DEF Shape, Expected
    <3> QED
      BY <1>1, <3>1, <3>2 DEF Own
  <2> QED
    BY <1>3, <2>1, <2>2, <2>3, <2>4 DEF Boot
<1>4. CASE (\E offset \in Offsets : SetOffset(p, offset)) \/ ToggleMute(p)
  <2>1. PICK new \in Docs, d \in Docs \cup {None} :
          /\ row' = [row EXCEPT ![p] = new]
          /\ doc' = [doc EXCEPT ![p] = d]
          /\ doc[p] = None <=> d = None
          /\ doc[p] = Expected(p) => d = Expected(p)'
    BY <1>4, EditIs
  <2>2. /\ pc[p] = "up" /\ row[p] # None
        /\ UNCHANGED <<pc, leaving, scene, company, file_failed>>
        /\ dirty' = [dirty EXCEPT ![p] = doc[p] # None]
    BY <1>4, EditIs DEF mishapVars
  <2>3. doc'[p] = d /\ dirty'[p] = (doc[p] # None)
    BY <2>1, <2>2 DEF Shape
  <2>4. Expected(p) # None
    BY <2>2, ExpectedIs, FieldsAreDocs DEF Shape
  <2> QED
    BY <1>1, <2>1, <2>2, <2>3, <2>4 DEF Own
<1>5. CASE Exit(p)
  BY <1>1, <1>e, <1>5 DEF Exit, Goes, Own, TypeOK
<1>6. CASE Dies(p) \/ Crash(p)
  <2>1. Ends(p)
    BY <1>6 DEF Dies, Crash
  <2>2. /\ pc'[p] = "gone" /\ ~ leaving'[p]
        /\ row'[p] = None /\ doc'[p] = None /\ ~ dirty'[p]
    BY <2>1 DEF Ends, TypeOK, Shape
  <2> QED
    BY <2>2 DEF Own
<1>7. CASE Save(p) /\ ~ Dies(p)
  <2>1. CASE Resumes(p)
    BY <1>1, <1>e, <1>7, <2>1, SaveIs DEF Resumes, Own, TypeOK, Shape
  <2>2. CASE Begins(p)
    BY <1>1, <1>e, <1>7, <2>2, SaveIs DEF Begins, Own, TypeOK, Shape
  <2>3. CASE Fills(p)
    BY <1>1, <1>e, <1>7, <2>3, SaveIs DEF Fills, Own, TypeOK, Shape
  <2>4. CASE Publishes(p)
    BY <1>1, <1>e, <1>7, <2>4, SaveIs DEF Publishes, Own, TypeOK, Shape
  <2> QED
    BY <1>7, <2>1, <2>2, <2>3, <2>4, SaveIs
<1> QED
  BY <1>3, <1>4, <1>5, <1>6, <1>7 DEF Step

LEMMA DueOfOthers ==
  ASSUME SessionsIInv, NEW p \in Instances, NEW q \in Instances \ {p}, Step(p)
  PROVE  Due(q)'
<1>1. Untouched(q) /\ (company[q] => company'[q]) /\ (file_failed => file_failed')
  BY OthersUntouched, InGrowsByCheck, FailuresStay DEF SessionsIInv
<1>2. CASE ~ In(p)
  BY <1>1, <1>2, OnlyInsidersWrite DEF SessionsIInv, Due, Untouched
<1>3. CASE In(p) /\ In(q)
  BY <1>1, <1>3 DEF SessionsIInv, CompanyKnown, Due, Untouched
<1>4. CASE ~ In(q)
  BY <1>1, <1>4 DEF Due, Untouched, In, Alive
<1> QED
  BY <1>2, <1>3, <1>4

\* The timer is only stopped by a save that has nothing to write, has written, or fails.
LEMMA DueStep ==
  ASSUME SessionsIInv, NEW p \in Instances, Step(p)
  PROVE  Due(p)'
<1> USE DEF SessionsIInv, persistVars, rowVars, fileVars
<1>1. Own(p) /\ Due(p) /\ (company[p] => company'[p]) /\ (file_failed => file_failed')
  BY InGrowsByCheck, FailuresStay
<1>2. SUFFICES ASSUME pc'[p] \in {"open", "reap again", "make again", "up"},
                      row'[p] # None, raw'[p] = None, ~ company'[p], ~ file_failed'
               PROVE  timer'[p] \/ (scene' # Torn /\ scene'.offset = row'[p].offset)
  BY DEF Due
<1>3. ASSUME doc[p] = Expected(p), row[p] # None, raw[p] = None
      PROVE  doc[p] # Torn /\ doc[p].offset = row[p].offset
  <2>1. row[p] \in Docs /\ None \notin Offsets
    BY <1>3, SessionsAssumption DEF Shape
  <2> QED
    BY <1>3, <2>1, ExpectedIs, FieldsAreDocs
<1>4. CASE Boot(p)
  <2>1. ~ LoadScene(p)
    <3>1. ASSUME LoadScene(p) PROVE FALSE
      <4>1. raw' = [raw EXCEPT ![p] = scene.offset] /\ scene # Torn
        BY <1>2, <3>1 DEF LoadScene, Goes, TypeOK
      <4>2. scene.offset # None
        BY <4>1, FieldsAreDocs, SessionsAssumption DEF TypeOK
      <4> QED
        BY <1>2, <4>1, <4>2 DEF Shape
    <3> QED
      BY <3>1
  <2>2. CASE Launch(p) \/ Check(p)
    BY <1>2, <2>2 DEF Launch, Check, Goes, TypeOK
  <2>3. CASE Reap(p) \/ MakeDir(p) \/ OpenDoc(p)
    BY <1>1, <1>2, <2>3 DEF Reap, MakeDir, OpenDoc, Goes, Due, TypeOK
  <2> QED
    BY <1>4, <2>1, <2>2, <2>3 DEF Boot
<1>5. CASE \E offset \in Offsets : SetOffset(p, offset)
  BY <1>5 DEF SetOffset, TypeOK
<1>6. CASE ToggleMute(p)
  <2>1. /\ pc[p] = "up" /\ row[p] # None /\ UNCHANGED <<raw, timer, scene>>
        /\ row' = [row EXCEPT ![p]["muted"] = ~ row[p].muted]
    BY <1>6 DEF ToggleMute, SetField
  <2>2. row'[p].offset = row[p].offset
    BY <2>1 DEF Shape, Docs
  <2> QED
    BY <1>1, <1>2, <1>6, <2>1, <2>2 DEF Due, ToggleMute, SetField, mishapVars
<1>7. CASE Exit(p)
  BY <1>2, <1>7 DEF Exit, Goes, TypeOK
<1>8. CASE Save(p)
  <2>1. CASE Dies(p)
    BY <1>2, <2>1 DEF Dies, Ends, TypeOK
  <2>2. CASE Begins(p) \/ Fills(p)
    BY <1>2, <2>2 DEF Begins, Fills, TypeOK
  <2>3. CASE Publishes(p)
    <3>1. /\ pc[p] = "rename" /\ scene' = tmp /\ ~ company[p] /\ ~ file_failed
          /\ row' = row /\ raw' = raw
      BY <1>1, <1>2, <1>8, <2>3, SaveIs DEF Publishes
    <3>2. tmp = doc[p] /\ doc[p] # None
      BY <1>1, <3>1, SavesHaveDocs DEF Own, Saving
    <3>3. doc[p] = Expected(p)
      BY <1>1, <1>2, <3>1, <3>2 DEF Own, Opened
    <3> QED
      BY <1>2, <1>3, <3>1, <3>2, <3>3
  <2>4. CASE Resumes(p)
    <3>1. /\ ~ company[p] /\ ~ file_failed /\ row' = row /\ raw' = raw /\ scene' = scene
      BY <1>1, <1>2, <1>8, <2>4 DEF Resumes
    <3>2. ~ (pc[p] = "rename" /\ tmp = None)
      BY <1>1, <3>1, SavesHaveDocs DEF Own, Saving
    <3>3. pc[p] \in {"up", "drop"} /\ ~ dirty[p]
      <4>1. ~ Dies(p) /\ ~ Begins(p) /\ ~ Fills(p) /\ ~ Publishes(p)
        BY <1>2, <2>4 DEF Resumes, Dies, Ends, Begins, Fills, Publishes, TypeOK
      <4>2. ~ Fault
        BY <1>2 DEF Fault
      <4> QED
        BY <1>8, <3>2, <4>1, <4>2, SaveIs
    <3>4. doc[p] = Expected(p) /\ scene = Expected(p)
      BY <1>1, <1>2, <3>1, <3>3 DEF Own, Opened
    <3> QED
      BY <1>2, <1>3, <3>1, <3>4
  <2> QED
    BY <1>8, <2>1, <2>2, <2>3, <2>4, SaveIs
<1>9. CASE Crash(p)
  BY <1>2, <1>9 DEF Crash, Ends, TypeOK
<1> QED
  BY <1>4, <1>5, <1>6, <1>7, <1>8, <1>9 DEF Step

-----------------------------------------------------------------------------
(* Directories                                                             *)

\* The only steps that change directories, and how.
LEMMA DirsMove ==
  ASSUME TypeOK, Shape, NEW p \in Instances, Step(p)
  PROVE  \/ UNCHANGED dirs
         \/ Reap(p) /\ dirs' = dirs \ Reaped(p) /\ NoFault
         \/ Reap(p) /\ dirs' \subseteq dirs /\ scan_failed'
         \/ MakeDir(p) /\ dirs' = dirs \cup {p}
         \/ Exit(p) /\ dirs' = dirs \ {p}
<1> USE DEF dirVars, ScanFault
<1>1. CASE Boot(p)
  BY <1>1 DEF Boot, Launch, Reap, Check, MakeDir, LoadScene, OpenDoc
<1>2. CASE (\E offset \in Offsets : SetOffset(p, offset)) \/ ToggleMute(p)
  BY <1>2, EditIs
<1>3. CASE Exit(p)
  BY <1>3 DEF Exit
<1>4. CASE Save(p)
  BY <1>4, SaveIs
<1>5. CASE Crash(p)
  BY <1>5 DEF Crash
<1> QED
  BY <1>1, <1>2, <1>3, <1>4, <1>5 DEF Step

\* The program of one instance: it is launched once, is told to exit once, and what it
\* found at its launch stays until it ends.
LEMMA OwnMoves ==
  ASSUME SessionsIInv, NEW p \in Instances, Step(p)
  PROVE  /\ pc[p] = "gone" => pc'[p] = "gone"
         /\ pc'[p] # "off"
         /\ leaving[p] /\ pc'[p] # "gone" => leaving'[p]
         /\ ~ leaving[p] /\ leaving'[p] => Exit(p)
         /\ \/ Launch(p)
            \/ /\ older'[p] = older[p] /\ orphans'[p] = orphans[p]
            \/ older'[p] = {} /\ orphans'[p] = {}
<1> USE DEF SessionsIInv, foundVars
<1>1. CASE Boot(p)
  BY <1>1 DEF Boot, Launch, Reap, Check, MakeDir, LoadScene, OpenDoc, Goes, TypeOK, Own, Saving
<1>2. CASE (\E offset \in Offsets : SetOffset(p, offset)) \/ ToggleMute(p)
  BY <1>2, EditIs
<1>3. CASE Exit(p)
  BY <1>3 DEF Exit, Goes, TypeOK
<1>4. CASE Save(p)
  BY <1>4, SaveIs DEF Dies, Ends, Resumes, Begins, Fills, Publishes, TypeOK
<1>5. CASE Crash(p)
  BY <1>5 DEF Crash, Ends, TypeOK
<1> QED
  BY <1>1, <1>2, <1>3, <1>4, <1>5 DEF Step

LEMMA OlderStep ==
  ASSUME SessionsIInv, NEW p \in Instances, Step(p)
  PROVE  OlderKeepsDir'
<1> USE DEF SessionsIInv, Alive
<1> SUFFICES ASSUME NEW r \in Instances, NEW q \in older'[r]
             PROVE  /\ q # r /\ pc'[q] # "off"
                    /\ ~ scan_failed' /\ pc'[q] # "gone" /\ ~ leaving'[q] => q \in dirs'
  BY DEF OlderKeepsDir
<1>1. \A o \in Instances \ {p} : Untouched(o)
  BY OthersUntouched
<1>2. CASE p = r /\ Launch(p)
  <2>1. older'[p] = {o \in dirs : Alive(o)} /\ dirs' = dirs /\ pc[p] = "off"
    BY <1>2 DEF Launch, Goes, TypeOK, dirVars
  <2>2. q \in dirs /\ q \in Instances /\ q # p /\ pc[q] # "off"
    BY <1>2, <2>1 DEF TypeOK
  <2> QED
    BY <1>1, <1>2, <2>1, <2>2 DEF Untouched
<1>3. CASE ~ (p = r /\ Launch(p))
  <2>1. q \in older[r]
    BY <1>1, <1>3, OwnMoves DEF Untouched
  <2>2. q \in Instances
    BY <2>1 DEF TypeOK
  <2>3. /\ q # r /\ pc[q] # "off"
        /\ ~ scan_failed /\ pc[q] # "gone" /\ ~ leaving[q] => q \in dirs
    BY <2>1 DEF OlderKeepsDir
  <2>4. /\ pc'[q] # "off"
        /\ pc'[q] # "gone" => pc[q] # "gone"
        /\ pc'[q] # "gone" /\ ~ leaving'[q] => ~ leaving[q]
        /\ scan_failed => scan_failed'
    BY <1>1, <2>2, <2>3, OwnMoves, FailuresStay DEF Untouched
  <2>5. CASE Exit(p) /\ q = p
    BY <2>2, <2>3, <2>4, <2>5 DEF Exit, TypeOK
  <2>6. CASE ~ (Exit(p) /\ q = p)
    BY <2>3, <2>4, <2>6, DirsMove DEF Reaped
  <2> QED
    BY <2>3, <2>4, <2>5, <2>6
<1> QED
  BY <1>2, <1>3

LEMMA LaterOneStep ==
  ASSUME SessionsIInv, NEW p \in Instances, Step(p)
  PROVE  LaterOneStaysOut'
<1> USE DEF SessionsIInv, Alive, In
<1> SUFFICES ASSUME ~ scan_failed', NEW r \in Instances, NEW q \in older'[r], In(r)'
             PROVE  pc'[q] \in {"off", "gone"} \/ leaving'[q]
  BY DEF LaterOneStaysOut
<1>1. \A o \in Instances \ {p} : Untouched(o)
  BY OthersUntouched
<1>2. ~ (p = r /\ Launch(p))
  BY DEF Launch, Goes, TypeOK
<1>3. q \in older[r]
  BY <1>1, <1>2, OwnMoves DEF Untouched
<1>4. q \in Instances /\ q # r /\ pc[q] # "off"
  BY <1>3 DEF TypeOK, OlderKeepsDir
<1>f. ~ scan_failed
  BY FailuresStay
<1>5. pc[q] = "gone" \/ leaving[q]
  <2>1. CASE p = r /\ Check(p)
    <3>1. ~ another_instance_running(p)
      BY <2>1 DEF Check, Goes, ScanFault, TypeOK
    <3> QED
      BY <1>f, <1>3, <1>4, <2>1, <3>1 DEF another_instance_running, OlderKeepsDir
  <2>2. CASE ~ (p = r /\ Check(p))
    <3>1. In(r)
      BY <1>1, <2>2, InGrowsByCheck DEF Untouched
    <3> QED
      BY <1>f, <1>3, <1>4, <3>1 DEF LaterOneStaysOut
  <2> QED
    BY <2>1, <2>2
<1> QED
  BY <1>1, <1>4, <1>5, OwnMoves DEF Untouched

LEMMA OrphansStep ==
  ASSUME SessionsIInv, NEW p \in Instances, Step(p)
  PROVE  OrphansStayDead'
<1> USE DEF SessionsIInv, Alive
<1>1. \A o \in Instances \ {p} : Untouched(o)
  BY OthersUntouched
<1>2. scan_failed => scan_failed'
  BY FailuresStay
<1>3. ASSUME NEW q \in dirs'
      PROVE  pc'[q] # "off" /\ q \in Instances /\ (q \in dirs \/ pc'[q] # "gone")
  <2>1. CASE q \in dirs
    BY <1>1, <2>1, OwnMoves DEF OrphansStayDead, Untouched, TypeOK
  <2>2. CASE q \notin dirs
    BY <1>3, <2>2, DirsMove DEF MakeDir, Goes, TypeOK
  <2> QED
    BY <2>1, <2>2
<1>4. ASSUME NEW r \in Instances
      PROVE  /\ \A q \in orphans'[r] : pc'[q] = "gone"
             /\ ~ scan_failed' /\ pc'[r] \notin {"off", "reap"} => orphans'[r] \cap dirs' = {}
  <2>1. CASE p = r /\ Launch(p)
    <3>1. orphans'[r] = {o \in dirs : ~ Alive(o)} /\ pc[r] = "off" /\ pc'[r] = "reap"
      BY <2>1 DEF Launch, Goes, TypeOK
    <3>2. \A q \in orphans'[r] : q \in Instances \ {p} /\ pc[q] = "gone"
      BY <2>1, <3>1 DEF OrphansStayDead, TypeOK
    <3> QED
      BY <1>1, <3>1, <3>2 DEF Untouched
  <2>2. CASE ~ (p = r /\ Launch(p))
    <3>1. orphans'[r] \subseteq orphans[r] /\ orphans[r] \subseteq Instances
      BY <1>1, <2>2, OwnMoves DEF Untouched, TypeOK
    <3>2. \A q \in orphans'[r] : q \in Instances /\ pc[q] = "gone" /\ pc'[q] = "gone"
      BY <1>1, <3>1, OwnMoves DEF OrphansStayDead, Untouched
    <3>3. ASSUME ~ scan_failed', pc'[r] \notin {"off", "reap"}, NEW q \in orphans'[r],
                 q \in dirs'
          PROVE  FALSE
      <4>1. q \in dirs
        BY <1>3, <3>2, <3>3
      <4>2. pc[r] \in {"off", "reap"}
        BY <1>2, <3>1, <3>3, <4>1 DEF OrphansStayDead
      <4>3. p = r /\ pc[p] = "reap"
        BY <1>1, <2>2, <3>3, <4>2 DEF Untouched, Step, Boot, Reap, Check, MakeDir, LoadScene,
                OpenDoc, Goes, SetOffset, ToggleMute, SetField, Exit, Save, Poll, Drop, Write,
                Rename, Crash
      <4>4. Reap(p) \/ Crash(p)
        BY <4>3 DEF Step, Boot, Launch, Reap, Check, MakeDir, LoadScene,
                OpenDoc, Goes, SetOffset, ToggleMute, SetField, Exit, Save, Poll, Drop, Write,
                Rename
      <4>5. CASE Crash(p)
        BY <3>3, <4>3, <4>5 DEF Crash, Ends, TypeOK
      <4>6. CASE Reap(p)
        <5>1. dirs' = dirs \ Reaped(p)
          BY <3>3, <4>6 DEF Reap, ScanFault
        <5>2. q # p
          BY <3>2, <4>3
        <5> QED
          BY <3>2, <3>3, <4>1, <5>1, <5>2 DEF Reaped
      <4> QED
        BY <4>4, <4>5, <4>6
    <3> QED
      BY <3>2, <3>3
  <2> QED
    BY <2>1, <2>2
<1> QED
  BY <1>3, <1>4 DEF OrphansStayDead

-----------------------------------------------------------------------------
(* Theorems                                                                *)

LEMMA SessionsInit == Init => SessionsIInv
<1> SUFFICES ASSUME Init PROVE SessionsIInv
  OBVIOUS
<1> USE DEF Init
<1>1. TypeOK
  <2>1. /\ edits \in 0 .. MaxEdits /\ mishaps \in 0 .. MaxMishaps
        /\ {scan_failed, file_failed} \subseteq BOOLEAN
    <3>1. 0 \in 0 .. MaxEdits /\ 0 \in 0 .. MaxMishaps
      BY SessionsAssumption
    <3>2. {scan_failed, file_failed} \subseteq BOOLEAN
      OBVIOUS
    <3> QED
      BY <3>1, <3>2
  <2>2. \A p \in Instances :
          /\ row[p] = None /\ bounds[p] = None /\ raw[p] = None /\ doc[p] = None
          /\ file[p] = None /\ ~ dirty[p]
    OBVIOUS
  <2> QED
    BY <2>1, <2>2 DEF TypeOK, Booting, Saving
<1>s. Shape
  BY DEF Shape
<1>2. \A p \in Instances : Own(p) /\ Due(p)
  BY DEF Own, Due, Opened, Saving
<1>3. CompanyKnown /\ OlderKeepsDir /\ LaterOneStaysOut /\ OrphansStayDead
  BY DEF CompanyKnown, OlderKeepsDir, LaterOneStaysOut, OrphansStayDead, In, Alive
<1> QED
  BY <1>1, <1>s, <1>2, <1>3 DEF SessionsIInv

LEMMA SessionsStep == SessionsIInv /\ [Next]_vars => SessionsIInv'
<1> SUFFICES ASSUME SessionsIInv, [Next]_vars PROVE SessionsIInv'
  OBVIOUS
<1>1. CASE Next
  <2>1. PICK p \in Instances : Step(p)
    BY <1>1 DEF Next, Step
  <2>2. TypeOK' /\ Shape'
    BY <2>1, TypeStep, ShapeStep
  <2>3. \A q \in Instances : Own(q)' /\ Due(q)'
    BY <2>1, OwnStep, OwnOfOthers, DueStep, DueOfOthers
  <2>4. CompanyKnown'
    BY <2>1, CompanyStep DEF SessionsIInv
  <2>5. OlderKeepsDir' /\ LaterOneStaysOut' /\ OrphansStayDead'
    BY <2>1, OlderStep, LaterOneStep, OrphansStep
  <2> QED
    BY <2>2, <2>3, <2>4, <2>5 DEF SessionsIInv
<1>2. CASE UNCHANGED vars
  BY <1>2 DEF vars, dirVars, foundVars, fileVars, persistVars, rowVars, countVars, mishapVars,
     SessionsIInv, TypeOK, Shape, Own, Due, Expected, CompanyKnown, OlderKeepsDir,
     LaterOneStaysOut, OrphansStayDead, In, Alive
<1> QED
  BY <1>1, <1>2

\* What boot, the operator, the debounced save and the exit of any number of instances
\* keep true, through crashes and failing system calls.
THEOREM SessionsInvariance == Spec => []SessionsIInv
  BY SessionsInit, SessionsStep, PTL DEF Spec

\* ConfigPersist and the runtime directory keep their types; a document is only dirty
\* where there is one.
THEOREM SessionsTypeCorrect == Spec => []TypeOK
<1>1. SessionsIInv => TypeOK
  BY DEF SessionsIInv
<1> QED
  BY <1>1, SessionsInvariance, PTL

\* another_instance_running refuses an instance as long as one is up that had made its
\* directory when it was launched, unless a scan of the directories has failed, which
\* answers that there is none.
THEOREM LaterOneStaysOutHolds == Spec => []LaterOneStaysOut
<1>1. SessionsIInv => LaterOneStaysOut
  BY DEF SessionsIInv
<1> QED
  BY <1>1, SessionsInvariance, PTL

\* reap_orphans removes what crashes left, in main already, unless a scan fails.
THEOREM OrphansGoHolds == Spec => []OrphansGo
<1>1. SessionsIInv => OrphansGo
  BY DEF SessionsIInv, OrphansStayDead, OrphansGo, Saving
<1> QED
  BY <1>1, SessionsInvariance, PTL

\* flush's rename publishes a whole file, whenever an instance that is alone crashes
\* or fails.
THEOREM SceneStaysWholeHolds == Spec => SceneStaysWhole
<1>1. SessionsIInv /\ [Next]_vars =>
        [scene' = Torn =>
           scene = Torn \/ \E p \in Instances : pc[p] = "rename" /\ company[p]]_vars
  <2> SUFFICES ASSUME SessionsIInv, Next, scene' = Torn, scene # Torn
               PROVE  \E p \in Instances : pc[p] = "rename" /\ company[p]
    OBVIOUS
  <2>1. PICK p \in Instances : Step(p)
    BY DEF Next, Step
  <2>2. TypeOK /\ Shape /\ Own(p)
    BY DEF SessionsIInv
  <2>3. Save(p)
    BY <2>1, <2>2, EditIs DEF Step, Boot, Launch, Reap, Check, MakeDir, LoadScene, OpenDoc,
                              Exit, Crash, fileVars
  <2>4. Fills(p) \/ Publishes(p)
    BY <2>2, <2>3, SaveIs DEF Dies, Resumes, Begins
  <2>5. pc[p] \in Saving
    BY <2>4 DEF Fills, Publishes, Saving
  <2>6. doc[p] # Torn
    BY <2>2, <2>5, SavesHaveDocs
  <2> QED
    BY <2>2, <2>4, <2>6 DEF Fills, Publishes, Own
<1> QED
  BY <1>1, SessionsInvariance, PTL DEF Spec, SceneStaysWhole

\* Poll's save: until it has written an offset that was set, the timer for it runs,
\* though mutes, edits in the middle of a save and other saves come in between.
THEOREM EditsAreDueHolds == Spec => []EditsAreDue
<1>1. SessionsIInv => EditsAreDue
  BY DEF SessionsIInv, Due, EditsAreDue
<1> QED
  BY <1>1, SessionsInvariance, PTL

\* Drop's flush, after any saves and edits before it, leaves what the operator set
\* last in the file, and the offset that was there if he set none.
THEOREM CleanExitPersistsHolds == Spec => CleanExitPersists
<1>1. SessionsIInv /\ [Next]_vars =>
        [\A p \in Instances :
           /\ leaving[p] /\ pc[p] # "gone" /\ pc'[p] = "gone"
           /\ mishaps' = mishaps /\ ~ file_failed
           /\ ~ company[p] /\ row[p] # None
           => scene' = Expected(p)]_vars
  <2> SUFFICES ASSUME SessionsIInv, Next, NEW p \in Instances,
                      leaving[p], pc[p] # "gone", pc'[p] = "gone",
                      mishaps' = mishaps, ~ file_failed, ~ company[p], row[p] # None
               PROVE  scene' = Expected(p)
    OBVIOUS
  <2>1. PICK q \in Instances : Step(q)
    BY DEF Next, Step
  <2>2. TypeOK /\ Shape /\ Own(p)
    BY DEF SessionsIInv
  <2>3. q = p
    BY <2>1, <2>2, OthersUntouched DEF Untouched
  <2>4. pc[p] \in Saving \cup {"drop"}
    BY <2>2 DEF Own
  <2>5. ~ Mishap
    BY <2>2, SessionsAssumption DEF Mishap, TypeOK
  <2>6. Save(p)
    <3>1. ~ Boot(p)
      BY <2>4 DEF Boot, Launch, Reap, Check, MakeDir, LoadScene, OpenDoc, Goes, Saving
    <3>2. ~ ((\E offset \in Offsets : SetOffset(p, offset)) \/ ToggleMute(p))
      BY <2>2, EditIs
    <3>3. ~ Exit(p)
      BY <2>2 DEF Exit, Goes, TypeOK
    <3>4. ~ Crash(p)
      BY <2>5 DEF Crash
    <3> QED
      BY <2>1, <2>3, <3>1, <3>2, <3>3, <3>4 DEF Step
  <2>7. ~ Resumes(p) /\ ~ Begins(p) /\ ~ Fills(p) /\ ~ Publishes(p)
    BY <2>2 DEF Resumes, Begins, Fills, Publishes, TypeOK
  <2>8. ~ (pc[p] = "rename" /\ tmp = None)
    BY <2>2, SavesHaveDocs DEF Own, Saving
  <2>9. Dies(p) /\ ~ dirty[p] /\ pc[p] = "drop"
    <3>1. pc[p] \in {"up", "drop"} /\ ~ dirty[p]
      BY <2>2, <2>5, <2>6, <2>7, <2>8, SaveIs DEF Fault
    <3> QED
      BY <2>2, <2>4, <2>6, <2>7, <3>1, SaveIs DEF Saving
  <2> QED
    BY <2>2, <2>9 DEF Own, Opened, Dies
<1> QED
  BY <1>1, SessionsInvariance, PTL DEF Spec, CleanExitPersists
=============================================================================
