-------------------------------- MODULE Sessions --------------------------------
(***************************************************************************)
(* What one run of the application leaves for the next: its directory      *)
(* under the runtime root, by which a later launch knows that it runs or   *)
(* that it crashed, and the scene file, which holds the operator's edits.  *)
(*                                                                         *)
(* Instances are processes of one user, on one scene file, and interleave  *)
(* at every system call on what they share: the directories, the scene     *)
(* file, and the temporary file a save goes through, whose name is the     *)
(* same for all.  An instance may crash anywhere.  Directories are known   *)
(* by the process that owns them.                                          *)
(*                                                                         *)
(* Left out: the number of a dead process given to another program, which  *)
(* keeps its directory and refuses launches; what the machine loses when   *)
(* it stops; all of the scene but one source's offset and mute; adapters   *)
(* and pipeline, for which up stands.  A scan of the directories is one    *)
(* step.                                                                   *)
(***************************************************************************)
EXTENDS Integers, FiniteSets

CONSTANTS
  Launches,    \* bound on the instances, numbered in the order of their launch
  None,        \* no such file, no document
  Torn,        \* contents that do not parse
  Offsets,     \* in a scene, which may be any, or set by the operator
  FileBounds,  \* MIN_OFFSET_MS and MAX_OFFSET_MS, as min and max
  Bounds,      \* that a row may have: those, and what an adapter's Ready may lead to
  MaxEdits,    \* bound on the operator's edits
  MaxMishaps   \* bound on crashes and failing system calls together

Instances == 1 .. Launches

Docs == [offset : Offsets, muted : BOOLEAN]

\* What a file opened for writing may be called since.
Names == {"tmp", "scene", "unlinked"}

ASSUME SessionsAssumption ==
  /\ {Launches, MaxEdits, MaxMishaps} \subseteq Nat
  /\ Offsets # {} /\ Offsets \subseteq Int
  /\ Bounds \subseteq [min : Offsets, max : Offsets] /\ FileBounds \in Bounds
  /\ \A b \in Bounds : b.min <= b.max
  /\ None \notin Docs \cup Names /\ None \notin Int /\ Torn \notin Docs /\ None # Torn

VARIABLES
  external,  \* has the scene an external source?
  dirs,      \* the run directories there are
  scene,     \* scene.toml
  tmp,       \* scene.toml.tmp
  pc,        \* where each instance is
  leaving,   \* has it been told to exit?
  file,      \* which file it has open for writing: "tmp", "scene", "unlinked" or None
  row,       \* the source's row: what the operator sees
  bounds,    \* its min_offset_ms and max_offset_ms
  doc,       \* ConfigPersist.doc
  dirty,     \* ConfigPersist.dirty
  timer,     \* is last_offset_change set?
  older,     \* history: who was up, its directory made, at the launch
  orphans,   \* history: the directories of the dead at the launch
  company,   \* history: has another instance been up together with it?
  raw,       \* history: the scene's offset, until the operator sets one
  edits,       \* made so far
  mishaps,     \* crashes and failing calls so far
  scan_failed, \* history: has one been in a scan of the directories,
  file_failed  \* history: and has one been in reading or saving the scene?

dirVars     == <<external, dirs>>
foundVars   == <<older, orphans>>
fileVars    == <<scene, tmp, file>>
rowVars     == <<row, bounds, raw>>
persistVars == <<rowVars, doc, dirty, timer>>
mishapVars  == <<mishaps, scan_failed, file_failed>>
countVars   == <<edits, mishapVars>>
vars == <<dirVars, foundVars, fileVars, pc, leaving, persistVars, company, countVars>>

Booting == {"reap", "check", "make", "load", "open", "reap again", "make again"}
Saving  == {"write", "rename"}

TypeOK ==
  /\ external \in BOOLEAN
  /\ dirs \subseteq Instances
  /\ scene \in {Torn} \cup Docs
  /\ tmp \in {None, Torn} \cup Docs
  /\ pc \in [Instances -> Booting \cup Saving \cup {"off", "up", "error", "drop", "gone"}]
  /\ leaving \in [Instances -> BOOLEAN]
  /\ \A p \in Instances : file[p] # None => pc[p] = "write"
  /\ \A p \in Instances : row[p] \in {None} \cup Docs
  /\ \A p \in Instances : bounds[p] \in {None} \cup Bounds
  /\ \A p \in Instances : raw[p] \in {None} \cup Offsets
  /\ \A p \in Instances :
       row[p] # None => row[p].offset \in bounds[p].min .. bounds[p].max
  /\ \A p \in Instances : doc[p] \in {None} \cup Docs
  /\ \A p \in Instances : dirty[p] => doc[p] # None
  /\ timer \in [Instances -> BOOLEAN]
  /\ older \in [Instances -> SUBSET Instances]
  /\ orphans \in [Instances -> SUBSET Instances]
  /\ company \in [Instances -> BOOLEAN]
  /\ edits \in 0 .. MaxEdits /\ mishaps \in 0 .. MaxMishaps
  /\ {scan_failed, file_failed} \subseteq BOOLEAN

Init ==
  /\ external \in BOOLEAN
  /\ dirs = {}
  /\ scene \in Docs
  /\ tmp = None
  /\ pc = [p \in Instances |-> "off"]
  /\ leaving = [p \in Instances |-> FALSE]
  /\ file = [p \in Instances |-> None]
  /\ row = [p \in Instances |-> None]
  /\ bounds = [p \in Instances |-> None]
  /\ raw = [p \in Instances |-> None]
  /\ doc = [p \in Instances |-> None]
  /\ dirty = [p \in Instances |-> FALSE]
  /\ timer = [p \in Instances |-> FALSE]
  /\ older = [p \in Instances |-> {}]
  /\ orphans = [p \in Instances |-> {}]
  /\ company = [p \in Instances |-> FALSE]
  /\ edits = 0 /\ mishaps = 0 /\ scan_failed = FALSE /\ file_failed = FALSE

\* pid_is_alive
Alive(p) == pc[p] \notin {"off", "gone"}

\* Past the check for another instance.
In(p) == Alive(p) /\ pc[p] \notin {"reap", "check"}

Goes(p, from, to) == pc[p] = from /\ pc' = [pc EXCEPT ![p] = to]

Mishap == mishaps < MaxMishaps /\ mishaps' = mishaps + 1

\* A system call that may fail: it does, or it has its effect.
ScanFault == Mishap /\ scan_failed' = TRUE /\ UNCHANGED file_failed

DirFault == Mishap /\ UNCHANGED <<scan_failed, file_failed>>

Fault == Mishap /\ file_failed' = TRUE /\ UNCHANGED scan_failed

NoFault == UNCHANGED mishapVars

----------------------------------------------------------------------------
\* main and boot

Launch(p) ==
  /\ \A q \in 1 .. p - 1 : pc[q] # "off"
  /\ Goes(p, "off", "reap")
  /\ older' = [older EXCEPT ![p] = {q \in dirs : Alive(q)}]
  /\ orphans' = [orphans EXCEPT ![p] = {q \in dirs : ~ Alive(q)}]
  /\ UNCHANGED <<external, dirs, fileVars, leaving, persistVars, company, countVars>>

\* mutant of Reaped: the loop ends at the first entry that is not to be reaped
ReapedUntilLive(p) == {q \in dirs : \A other \in dirs \ {p} : ~ Alive(other)} \ {p}

\* reap_orphans: what a scan of the root removes, when no call fails.
Reaped(p) == {q \in dirs \ {p} : ~ Alive(q)}

\* Of a scan that fails somewhere any part may come about: an entry that cannot be
\* read or removed stays, an owner that cannot be looked up passes for dead.
Reap(p) ==
  /\ \/ Goes(p, "reap", "check")
     \/ Goes(p, "reap again", "make again")
  /\ \/ dirs' = dirs \ Reaped(p) /\ NoFault
     \/ ScanFault /\ \E some \in SUBSET (dirs \ {p}) : dirs' = dirs \ some
  /\ UNCHANGED <<external, foundVars, fileVars, leaving, persistVars, company, edits>>

\* mutant of another_instance_running: only one entry is looked at
one_entry_alive(p) == dirs \ {p} # {} /\ Alive(CHOOSE q \in dirs \ {p} : TRUE)

another_instance_running(p) == \E q \in dirs \ {p} : Alive(q)

\* main: exit when another instance runs, else go on.  A scan that fails answers
\* that there is none.
Check(p) ==
  /\ \/ /\ another_instance_running(p)
        /\ Goes(p, "check", "gone")
        /\ UNCHANGED <<company, mishapVars>>
     \/ /\ IF another_instance_running(p) THEN ScanFault ELSE NoFault
        /\ Goes(p, "check", "make")
        /\ company' = IF \E q \in Instances \ {p} : In(q)
                      THEN [q \in Instances |-> q = p \/ In(q) \/ company[q]]
                      ELSE company
  /\ UNCHANGED <<dirVars, foundVars, fileVars, leaving, persistVars, edits>>

\* ensure_dirs, in main and in Supervisor::new: a failure is only logged.
MakeDir(p) ==
  /\ \/ Goes(p, "make", "load")
     \/ Goes(p, "make again", "up")
  /\ \/ dirs' = dirs \cup {p} /\ NoFault
     \/ UNCHANGED dirs /\ DirFault
  /\ UNCHANGED <<external, foundVars, fileVars, leaving, persistVars, company, edits>>

\* i32::clamp
Within(offset, b) ==
  IF offset < b.min THEN b.min ELSE IF offset > b.max THEN b.max ELSE offset

\* The row try_init makes of a source of the scene: within the bounds of a file, then
\* within its own.
RowOf(source, b) == [source EXCEPT !.offset = Within(Within(@, FileBounds), b)]

\* try_init: the rows, from config::load; without a scene, or when it cannot be read,
\* there is only the error to show.
LoadScene(p) ==
  /\ \/ /\ scene # Torn
        /\ \E b \in IF external THEN Bounds ELSE {FileBounds} :
             /\ row' = [row EXCEPT ![p] = RowOf(scene, b)]
             /\ bounds' = [bounds EXCEPT ![p] = b]
        /\ raw' = [raw EXCEPT ![p] = scene.offset]
        /\ Goes(p, "load", "open")
        /\ NoFault
     \/ /\ IF scene = Torn THEN NoFault ELSE Fault
        /\ Goes(p, "load", "error")
        /\ UNCHANGED rowVars
  /\ UNCHANGED <<dirVars, foundVars, fileVars, leaving, doc, dirty, timer, company, edits>>

\* ConfigPersist::load, which reads the file a second time, its offset as it is; a
\* failure turns saving off.  Only external sources need a Supervisor.
OpenDoc(p) ==
  /\ \/ doc' = [doc EXCEPT ![p] = IF scene = Torn THEN None ELSE scene] /\ NoFault
     \/ scene # Torn /\ doc' = [doc EXCEPT ![p] = None] /\ Fault
  /\ Goes(p, "open", IF external THEN "reap again" ELSE "up")
  /\ UNCHANGED <<dirVars, foundVars, fileVars, leaving, rowVars, dirty, timer, company,
                 edits>>

----------------------------------------------------------------------------
\* The operator

\* set_source_field
SetField(p, field, value) ==
  /\ pc[p] = "up"
  /\ edits < MaxEdits
  /\ edits' = edits + 1
  /\ row' = [row EXCEPT ![p][field] = value]
  /\ doc' = IF doc[p] = None THEN doc ELSE [doc EXCEPT ![p][field] = value]
  /\ dirty' = [dirty EXCEPT ![p] = doc[p] # None]
  /\ UNCHANGED <<dirVars, foundVars, fileVars, pc, leaving, bounds, company, mishapVars>>

\* OffsetEdit, OffsetStep: the value they come to within the row's bounds, which may be
\* the one it has.
SetOffset(p, offset) ==
  /\ row[p] # None
  /\ offset = Within(offset, bounds[p])
  /\ SetField(p, "offset", offset)
  /\ raw' = [raw EXCEPT ![p] = None]
  /\ timer' = [timer EXCEPT ![p] = TRUE]

\* mutant of ToggleMute: only the row is told
ToggleRow(p) ==
  /\ pc[p] = "up"
  /\ edits < MaxEdits
  /\ edits' = edits + 1
  /\ row' = [row EXCEPT ![p].muted = ~ @]
  /\ UNCHANGED <<dirVars, foundVars, fileVars, pc, leaving, bounds, raw, doc, dirty, timer,
                 company, mishapVars>>

\* ToggleMute, which does not start the timer of a save.
ToggleMute(p) ==
  /\ row[p] # None
  /\ SetField(p, "muted", ~ row[p].muted)
  /\ UNCHANGED <<raw, timer>>

\* Exit, and Poll after a SIGTERM: shutdown_all removes the directory, where there
\* is a Supervisor; the document is dropped after the event loop.
Exit(p) ==
  /\ \/ Goes(p, "up", "drop")
     \/ Goes(p, "error", "drop")
  /\ leaving' = [leaving EXCEPT ![p] = TRUE]
  /\ \/ dirs' = (IF external /\ pc[p] = "up" THEN dirs \ {p} ELSE dirs) /\ NoFault
     \/ external /\ pc[p] = "up" /\ p \in dirs /\ UNCHANGED dirs /\ DirFault
  /\ UNCHANGED <<external, foundVars, fileVars, persistVars, company, edits>>

----------------------------------------------------------------------------
\* Saving

\* Nothing of the process is left.
Ends(p) ==
  /\ pc' = [pc EXCEPT ![p] = "gone"]
  /\ file' = [file EXCEPT ![p] = None]
  /\ row' = [row EXCEPT ![p] = None]
  /\ bounds' = [bounds EXCEPT ![p] = None]
  /\ raw' = [raw EXCEPT ![p] = None]
  /\ doc' = [doc EXCEPT ![p] = None]
  /\ dirty' = [dirty EXCEPT ![p] = FALSE]
  /\ timer' = [timer EXCEPT ![p] = FALSE]
  /\ leaving' = [leaving EXCEPT ![p] = FALSE]
  /\ older' = [older EXCEPT ![p] = {}]
  /\ orphans' = [orphans EXCEPT ![p] = {}]

\* A save is over, well or not: back to the event loop, whose Poll clears the
\* timer in either case, or out.
Saved(p, well) ==
  \/ leaving[p] /\ Ends(p)
  \/ /\ ~ leaving[p]
     /\ pc' = [pc EXCEPT ![p] = "up"]
     /\ file' = [file EXCEPT ![p] = None]
     /\ dirty' = [dirty EXCEPT ![p] = @ /\ ~ well]
     /\ timer' = [timer EXCEPT ![p] = FALSE]
     /\ UNCHANGED <<rowVars, doc, leaving, foundVars>>

Fails(p) == Saved(p, FALSE) /\ UNCHANGED <<scene, tmp>>

\* mutant of Truncate: the scene file itself
TruncateScene(p) ==
  /\ file' = [file EXCEPT ![p] = "scene"]
  /\ scene' = Torn
  /\ UNCHANGED tmp

\* fs::write, its first half: the temporary file is created, or emptied.
Truncate(p) ==
  /\ file' = [file EXCEPT ![p] = "tmp"]
  /\ tmp' = Torn
  /\ UNCHANGED scene

\* flush, called by Poll when the timer is over or by drop.
Flush(p) ==
  \/ ~ dirty[p] /\ Saved(p, TRUE) /\ UNCHANGED <<scene, tmp>> /\ NoFault
  \/ dirty[p] /\ Fails(p) /\ Fault
  \/ /\ dirty[p]
     /\ Truncate(p)
     /\ pc' = [pc EXCEPT ![p] = "write"]
     /\ UNCHANGED <<persistVars, leaving, foundVars>>
     /\ NoFault

\* mutant of Poll: the timer is cleared before it is over
PollClears(p) ==
  /\ pc[p] = "up"
  /\ timer[p]
  /\ \/ Flush(p)
     \/ /\ timer' = [timer EXCEPT ![p] = FALSE]
        /\ UNCHANGED <<fileVars, pc, rowVars, doc, dirty, leaving, foundVars, mishapVars>>
  /\ UNCHANGED <<dirVars, company, edits>>

Poll(p) ==
  /\ pc[p] = "up"
  /\ timer[p]
  /\ Flush(p)
  /\ UNCHANGED <<dirVars, company, edits>>

\* mutant of Drop: nothing is saved
DropAll(p) ==
  /\ pc[p] = "drop"
  /\ Ends(p)
  /\ UNCHANGED <<dirVars, scene, tmp, company, countVars>>

Drop(p) ==
  /\ pc[p] = "drop"
  /\ Flush(p)
  /\ UNCHANGED <<dirVars, company, edits>>

\* mutant of Write: the file stays open
WriteOpen(p) ==
  /\ pc[p] = "write"
  /\ pc' = [pc EXCEPT ![p] = "rename"]
  /\ scene' = IF file[p] = "scene" THEN doc[p] ELSE scene
  /\ tmp' = IF file[p] = "tmp" THEN doc[p] ELSE tmp
  /\ UNCHANGED <<dirVars, foundVars, persistVars, leaving, file, company, countVars>>

\* Its second half: the contents, into the file that was opened, whatever its name
\* is by now.
Write(p) ==
  /\ pc[p] = "write"
  /\ \/ /\ pc' = [pc EXCEPT ![p] = "rename"]
        /\ scene' = IF file[p] = "scene" THEN doc[p] ELSE scene
        /\ tmp' = IF file[p] = "tmp" THEN doc[p] ELSE tmp
        /\ file' = [file EXCEPT ![p] = None]
        /\ UNCHANGED <<persistVars, leaving, foundVars>>
        /\ NoFault
     \/ Fails(p) /\ Fault
  /\ UNCHANGED <<dirVars, company, edits>>

\* A rename takes the open files of other instances along.
Renamed(name) ==
  CASE name = "tmp" -> "scene" [] name = "scene" -> "unlinked" [] OTHER -> name

\* fs::rename
Rename(p) ==
  /\ pc[p] = "rename"
  /\ \/ /\ tmp # None
        /\ scene' = tmp
        /\ tmp' = None
        /\ dirty' = [dirty EXCEPT ![p] = FALSE]
        /\ timer' = [timer EXCEPT ![p] = FALSE]
        /\ file' = [q \in Instances |-> Renamed(file[q])]
        /\ pc' = [pc EXCEPT ![p] = IF leaving[p] THEN "drop" ELSE "up"]
        /\ UNCHANGED <<rowVars, doc, leaving, foundVars>>
        /\ NoFault
     \/ tmp = None /\ Fails(p) /\ NoFault
     \/ tmp # None /\ Fails(p) /\ Fault
  /\ UNCHANGED <<dirVars, company, edits>>

Crash(p) ==
  /\ Alive(p)
  /\ Mishap
  /\ Ends(p)
  /\ UNCHANGED <<dirVars, scene, tmp, company, edits, scan_failed, file_failed>>

----------------------------------------------------------------------------
Boot(p) ==
  Launch(p) \/ Reap(p) \/ Check(p) \/ MakeDir(p) \/ LoadScene(p) \/ OpenDoc(p)

Save(p) == Poll(p) \/ Drop(p) \/ Write(p) \/ Rename(p)

Next ==
  \E p \in Instances :
    \/ Boot(p)
    \/ \E offset \in Offsets : SetOffset(p, offset)
    \/ ToggleMute(p)
    \/ Exit(p)
    \/ Save(p)
    \/ Crash(p)

Spec == Init /\ [][Next]_vars

----------------------------------------------------------------------------
\* Properties

\* The scene file always parses, though instances crash in the middle of a save
\* and writes fail.  Only instances that ran together can break it: the name of their
\* temporary file is the same.
SceneStaysWhole ==
  [][scene' = Torn =>
       scene = Torn \/ \E p \in Instances : pc[p] = "rename" /\ company[p]]_vars

\* An instance whose directory was made before another was launched, and that has
\* not been told to exit since, keeps the other out, whatever either reaps and
\* however often, unless a scan of the directories fails: then there is nobody.  Two
\* launched together may both run.
LaterOneStaysOut ==
  ~ scan_failed =>
    \A p \in Instances : \A q \in older[p] : In(p) => ~ Alive(q) \/ leaving[q]

\* Launches clean up after crashes: once one is up, the directories of all that
\* were dead at its launch are gone, unless a scan fails.
OrphansGo ==
  ~ scan_failed =>
    \A p \in Instances :
      pc[p] \in Saving \cup {"up", "drop"} => orphans[p] \cap dirs = {}

\* What an instance is to leave in the scene file: what its operator sees, but for an
\* offset he never set, which the row only shows within its bounds.
Expected(p) == IF raw[p] = None THEN row[p] ELSE [row[p] EXCEPT !.offset = raw[p]]

\* When an instance that ran alone has left cleanly, the scene file holds what its
\* operator set last, mutes included, though edits come during and after saves, and
\* what he did not set is as it was.
CleanExitPersists ==
  [][\A p \in Instances :
       /\ leaving[p] /\ pc[p] # "gone" /\ pc'[p] = "gone"
       /\ mishaps' = mishaps /\ ~ file_failed
       /\ ~ company[p] /\ row[p] # None
       => scene' = Expected(p)]_vars

\* Whatever saves came before and edits during them: the offset that the operator of an
\* instance that runs alone has set is in the scene file, or the timer of a save is
\* running.  A save that fails is not tried again.
EditsAreDue ==
  \A p \in Instances :
    /\ pc[p] = "up" /\ row[p] # None /\ raw[p] = None
    /\ ~ company[p] /\ ~ file_failed
    => timer[p] \/ (scene # Torn /\ scene.offset = row[p].offset)
================================================================================
