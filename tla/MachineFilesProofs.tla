------------------------ MODULE MachineFilesProofs ------------------------
(************************************************************************** *)
(* Proofs about MachineFiles, for every number of instances, destinations, *)
(* settings and sessions: whatever dies or fails between two file-system   *)
(* calls, the session and the preferences last acknowledged are the ones a *)
(* restart finds.                                                          *)
(*                                                                         *)
(* Neither property is inductive.  SessionKept takes that who is about to  *)
(* publish or to rename a temporary has it whole, that only one instance   *)
(* holds the migration's temporary, and that who is about to remove the    *)
(* legacy session sees an autosave in its place.  PrefsDurable takes that  *)
(* the candidate being written differs from what was last acknowledged in  *)
(* the one field its command is about.                                     *)
(************************************************************************** *)
EXTENDS MachineFiles, TLAPS

Documents == Nat \cup Prefs
Steps ==
  Copying \cup {"down", "ready", "migrate", "link", "unlink",
                "saving", "saved", "setting", "set", "selecting", "selected"}
Commands == {"saving", "saved", "setting", "set", "selecting", "selected"}

MachineTypeOK ==
  /\ file \in [Names -> [exists : BOOLEAN, doc : SUBSET Documents]]
  /\ task \in [Instances -> [at : Steps, doc : SUBSET Documents]]
  /\ memory \in [Instances -> [prefs : Prefs, source : {"file", "defaults"}]]
  /\ sessions \in Nat
  /\ kept \in SUBSET Documents /\ chosen \in Prefs

\* Only the user's instance carries out commands that write.
OnlyUserWrites == \A i \in Instances : task[i].at \in Commands => i = User

SessionInv ==
  /\ SessionKept
  /\ file["legacy"] = File({0}) \/ file["legacy"] = Absent
  /\ \A i, j \in Instances : task[i].at \in Copying /\ task[j].at \in Copying => i = j
  /\ \A i \in Instances :
       /\ At(i, "copying") => task[i].doc = {0}
       /\ At(i, "publish") => file["migrate.tmp"] = File({0})
       /\ (At(i, "published") \/ At(i, "unlink")) /\ kept # {} => Exists("autosave")
       /\ At(i, "saving") => task[i].doc # {}
       /\ At(i, "saved") => task[i].doc # {} /\ file["autosave.tmp"] = File(task[i].doc)

\* A candidate whose other field is the one last acknowledged.
SetsSettings(doc) == \E p \in Prefs : doc = {p} /\ p.midi = chosen.midi
SetsRoute(doc) == \E p \in Prefs : doc = {p} /\ p.settings = chosen.settings

PrefsInv ==
  /\ \/ Contents("prefs") = {chosen}
     \/ Contents("prefs") = {} /\ chosen = Defaults
  /\ ~At(User, "down") => memory[User].prefs = chosen
  /\ At(User, "setting") \/ At(User, "set") => SetsSettings(task[User].doc)
  /\ At(User, "selecting") \/ At(User, "selected") => SetsRoute(task[User].doc)
  /\ At(User, "set") \/ At(User, "selected") => file["prefs.tmp"] = File(task[User].doc)

MachineInv == MachineTypeOK /\ OnlyUserWrites /\ SessionInv /\ PrefsInv

-----------------------------------------------------------------------------
(************************************************************************** *)
(* Tasks and file-system calls                                             *)
(************************************************************************** *)

LEMMA StepNames ==
  /\ Copying \subseteq Steps /\ Commands \subseteq Steps
  /\ \A step \in Copying : step \notin Commands
BY DEF Steps, Copying, Commands

\* Only the instance that takes a step changes what it is doing.
LEMMA Moved ==
  ASSUME MachineTypeOK, NEW i \in Instances, NEW next, Goes(i, next)
  PROVE  /\ task'[i] = next
         /\ \A j \in Instances : j # i => task'[j] = task[j]
BY DEF MachineTypeOK, Goes

LEMMA TaskType ==
  ASSUME MachineTypeOK, NEW i \in Instances,
         NEW step \in Steps, NEW doc \in SUBSET Documents,
         Goes(i, Writing(step, doc)) \/ Goes(i, Doing(step))
  PROVE  task' \in [Instances -> [at : Steps, doc : SUBSET Documents]]
<1>1. /\ Writing(step, doc) \in [at : Steps, doc : SUBSET Documents]
      /\ Doing(step) \in [at : Steps, doc : SUBSET Documents]
  BY DEF Writing, Doing
<1> HIDE DEF Writing, Doing
<1> QED
  BY <1>1 DEF MachineTypeOK, Goes

\* A call changes the file it names, and with a rename the one it came from.
Others(names) == \A n \in Names \ names : file'[n] = file[n]

LEMMA Calls ==
  ASSUME MachineTypeOK, NEW name \in Names, NEW from \in Names, NEW doc
  PROVE  /\ Truncate(name) => file'[name] = Torn /\ Others({name})
         /\ Fill(name, doc) => file'[name] = File(doc) /\ Others({name})
         /\ Remove(name) => file'[name] = Absent /\ Others({name})
         /\ Rename(from, name) /\ from # name =>
              /\ file[from].exists /\ file'[name] = file[from]
              /\ file'[from] = Absent /\ Others({from, name})
         /\ HardLink(from, name) =>
              /\ file[from].exists /\ ~file[name].exists
              /\ file'[name] = file[from] /\ Others({name})
BY DEF MachineTypeOK, Truncate, Fill, Remove, Rename, HardLink, Exists, Others

LEMMA FileType ==
  ASSUME MachineTypeOK, NEW name \in Names, NEW from \in Names,
         NEW doc \in SUBSET Documents,
         \/ Truncate(name) \/ Fill(name, doc) \/ Remove(name)
         \/ Rename(from, name) \/ HardLink(from, name) \/ file' = file
  PROVE  file' \in [Names -> [exists : BOOLEAN, doc : SUBSET Documents]]
<1> DEFINE Files == [exists : BOOLEAN, doc : SUBSET Documents]
<1>1. Torn \in Files /\ File(doc) \in Files /\ Absent \in Files
  BY DEF Torn, File, Absent
<1>2. file \in [Names -> Files]
  BY DEF MachineTypeOK
<1> HIDE DEF Files
<1> QED
  BY <1>1, <1>2 DEF Truncate, Fill, Remove, Rename, HardLink, Files

LEMMA Documented ==
  /\ {} \in SUBSET Documents
  /\ \A n \in Nat : {n} \in SUBSET Documents
  /\ \A p \in Prefs : {p} \in SUBSET Documents
BY DEF Documents

-----------------------------------------------------------------------------
(************************************************************************** *)
(* Types                                                                   *)
(************************************************************************** *)

LEMMA InitTypes == Init => MachineTypeOK /\ OnlyUserWrites
<1> SUFFICES ASSUME Init PROVE MachineTypeOK /\ OnlyUserWrites
  OBVIOUS
<1>1. Defaults \in Prefs /\ {0} \in SUBSET Documents
  BY MachineFilesAssumption DEF Defaults, Prefs, Routes, Documents
<1>2. file \in [Names -> [exists : BOOLEAN, doc : SUBSET Documents]]
  BY <1>1 DEF Init, File, Absent
<1>3. task \in [Instances -> [at : Steps, doc : SUBSET Documents]]
  BY DEF Init, Down, Doing, Steps
<1>4. memory \in [Instances -> [prefs : Prefs, source : {"file", "defaults"}]]
  BY <1>1 DEF Init, Unread
<1>5. OnlyUserWrites
  BY DEF Init, Down, Doing, OnlyUserWrites, Commands
<1> QED
  BY <1>1, <1>2, <1>3, <1>4, <1>5 DEF Init, MachineTypeOK

\* What an instance may go on to: a known step, with a document of the model,
\* and a command only if it is the user's.
Goable(i, next) ==
  /\ next \in [at : Steps, doc : SUBSET Documents]
  /\ next.at \in Commands => i = User

LEMMA TaskStep ==
  ASSUME MachineTypeOK, OnlyUserWrites, NEW i \in Instances, NEW next,
         Goable(i, next), Goes(i, next)
  PROVE  /\ task' \in [Instances -> [at : Steps, doc : SUBSET Documents]]
         /\ OnlyUserWrites'
<1>1. task' \in [Instances -> [at : Steps, doc : SUBSET Documents]]
  BY DEF Goable, Goes, MachineTypeOK
<1>2. ASSUME NEW j \in Instances, task'[j].at \in Commands
      PROVE  j = User
  BY <1>2, Moved DEF Goable, OnlyUserWrites
<1> QED
  BY <1>1, <1>2 DEF OnlyUserWrites

LEMMA GoableSteps ==
  ASSUME NEW i \in Instances, NEW step \in Steps, NEW doc \in SUBSET Documents,
         step \in Commands => i = User
  PROVE  Goable(i, Doing(step)) /\ Goable(i, Writing(step, doc))
<1> HIDE DEF Steps
<1> QED
  BY DEF Goable, Doing, Writing

LEMMA ReadyOrDown ==
  \A i \in Instances : Goable(i, Ready) /\ Goable(i, Down)
<1>1. "ready" \in Steps /\ "down" \in Steps /\ {} \in SUBSET Documents
  BY DEF Steps
<1>2. "ready" \notin Commands /\ "down" \notin Commands
  BY DEF Commands
<1> QED
  BY <1>1, <1>2, GoableSteps DEF Ready, Down

LEMMA LoadType ==
  ASSUME MachineInv
  PROVE  LoadMachinePrefs \in [prefs : Prefs, source : {"file", "defaults"}]
<1>1. Defaults \in Prefs
  BY MachineFilesAssumption DEF Defaults, Prefs, Routes
<1>2. CASE Contents("prefs") = {}
  BY <1>1, <1>2 DEF LoadMachinePrefs, Unread
<1>3. CASE Contents("prefs") # {}
  <2>1. Contents("prefs") = {chosen} /\ chosen \in Prefs
    BY <1>3 DEF MachineInv, PrefsInv, MachineTypeOK
  <2>2. (CHOOSE p \in Contents("prefs") : TRUE) = chosen
    BY <2>1
  <2> QED
    BY <1>3, <2>1, <2>2 DEF LoadMachinePrefs
<1> QED
  BY <1>2, <1>3

\* A step that only works on the files.
LEMMA FileStepTypes ==
  ASSUME MachineTypeOK, OnlyUserWrites, NEW i \in Instances, NEW next,
         Goable(i, next), Goes(i, next), NEW name \in Names, NEW from \in Names,
         NEW doc \in SUBSET Documents,
         \/ Truncate(name) \/ Fill(name, doc) \/ Remove(name)
         \/ Rename(from, name) \/ HardLink(from, name) \/ file' = file,
         UNCHANGED <<memory, sessions, history>>
  PROVE  MachineTypeOK' /\ OnlyUserWrites'
<1>1. file' \in [Names -> [exists : BOOLEAN, doc : SUBSET Documents]]
  BY FileType
<1>2. /\ task' \in [Instances -> [at : Steps, doc : SUBSET Documents]]
      /\ OnlyUserWrites'
  BY TaskStep
<1> QED
  BY <1>1, <1>2 DEF MachineTypeOK, history

LEMMA FilesAndSteps ==
  /\ {"legacy", "autosave", "autosave.tmp", "migrate.tmp", "prefs", "prefs.tmp"} = Names
  /\ {"link", "unlink", "clean", "copy", "copying", "publish", "published",
      "discard", "migrate"} \subseteq Steps \ Commands
  /\ {"saving", "saved", "setting", "set", "selecting", "selected"} \subseteq Steps
BY DEF Names, Steps, Copying, Commands

LEMMA StepTypes ==
  ASSUME MachineInv, [Next]_vars
  PROVE  MachineTypeOK' /\ OnlyUserWrites'
<1> USE FilesAndSteps, GoableSteps, ReadyOrDown, Documented DEF MachineInv
<1>0. /\ \A i \in Instances : task[i].doc \in SUBSET Documents
      /\ \A n \in Names : file[n].doc \in SUBSET Documents
  BY DEF MachineTypeOK
<1>1. ASSUME NEW i \in Instances, Launch(i)
      PROVE  MachineTypeOK' /\ OnlyUserWrites'
  <2>1. memory' \in [Instances -> [prefs : Prefs, source : {"file", "defaults"}]]
    BY <1>1, LoadType DEF Launch, MachineTypeOK
  <2>2. Goable(i, Doing("migrate"))
    OBVIOUS
  <2>3. task' \in [Instances -> [at : Steps, doc : SUBSET Documents]] /\ OnlyUserWrites'
    BY <1>1, <2>2, TaskStep DEF Launch
  <2> QED
    BY <1>1, <2>1, <2>3 DEF Launch, MachineTypeOK, history
<1>2. ASSUME NEW i \in Instances, CheckLegacy(i)
      PROVE  MachineTypeOK' /\ OnlyUserWrites'
  <2>1. Goable(i, Doing("link"))
    OBVIOUS
  <2> QED
    BY <1>2, <2>1, FileStepTypes DEF CheckLegacy
<1>3. ASSUME NEW i \in Instances, LinkLegacy(i)
      PROVE  MachineTypeOK' /\ OnlyUserWrites'
  <2>1. Goable(i, Doing("unlink")) /\ Goable(i, Doing("clean"))
    OBVIOUS
  <2> QED
    BY <1>3, <2>1, FileStepTypes DEF LinkLegacy
<1>4. ASSUME NEW i \in Instances, CleanTemporary(i)
      PROVE  MachineTypeOK' /\ OnlyUserWrites'
  <2>1. Goable(i, Doing("copy"))
    OBVIOUS
  <2> QED
    BY <1>4, <2>1, FileStepTypes DEF CleanTemporary
<1>5. ASSUME NEW i \in Instances, StartCopy(i)
      PROVE  MachineTypeOK' /\ OnlyUserWrites'
  <2>1. Goable(i, Writing("copying", Contents("legacy")))
    BY <1>0 DEF Contents
  <2> QED
    BY <1>5, <2>1, FileStepTypes DEF StartCopy
<1>6. ASSUME NEW i \in Instances, FinishCopy(i)
      PROVE  MachineTypeOK' /\ OnlyUserWrites'
  <2>1. Goable(i, Doing("publish"))
    OBVIOUS
  <2> QED
    BY <1>0, <1>6, <2>1, FileStepTypes DEF FinishCopy
<1>7. ASSUME NEW i \in Instances, PublishCopy(i)
      PROVE  MachineTypeOK' /\ OnlyUserWrites'
  <2>1. Goable(i, Doing("published")) /\ Goable(i, Doing("discard"))
    OBVIOUS
  <2> QED
    BY <1>7, <2>1, FileStepTypes DEF PublishCopy
<1>8. ASSUME NEW i \in Instances, DropTemporary(i)
      PROVE  MachineTypeOK' /\ OnlyUserWrites'
  <2>1. Goable(i, Doing("unlink"))
    OBVIOUS
  <2> QED
    BY <1>8, <2>1, FileStepTypes DEF DropTemporary
<1>9. ASSUME NEW i \in Instances, RemoveLegacy(i)
      PROVE  MachineTypeOK' /\ OnlyUserWrites'
  BY <1>9, FileStepTypes DEF RemoveLegacy
<1>10. ASSUME NEW i \in Instances, BeginAutosave(i)
       PROVE  MachineTypeOK' /\ OnlyUserWrites'
  <2>1. sessions + 1 \in Nat
    BY DEF MachineTypeOK
  <2>2. Goable(i, Writing("saving", {sessions + 1}))
    BY <1>10, <2>1 DEF BeginAutosave, Working
  <2>3. /\ task' \in [Instances -> [at : Steps, doc : SUBSET Documents]]
        /\ OnlyUserWrites'
    BY <1>10, <2>2, TaskStep DEF BeginAutosave
  <2>4. file' \in [Names -> [exists : BOOLEAN, doc : SUBSET Documents]]
    BY <1>10, FileType DEF BeginAutosave
  <2> QED
    BY <1>10, <2>1, <2>3, <2>4 DEF BeginAutosave, MachineTypeOK, history
<1>11. ASSUME NEW i \in Instances, i = User, NEW step \in {"setting", "selecting"},
              NEW p \in Prefs, BeginPrefs(i, step, p)
       PROVE  MachineTypeOK' /\ OnlyUserWrites'
  <2>1. Goable(i, Writing(step, {p}))
    BY <1>11
  <2> QED
    BY <1>11, <2>1, FileStepTypes DEF BeginPrefs
<1>12. ASSUME NEW i \in Instances, SetMachinePrefs(i) \/ SelectDestination(i)
       PROVE  MachineTypeOK' /\ OnlyUserWrites'
  <2>1. memory[i].prefs \in Prefs
    BY DEF MachineTypeOK
  <2>2. \A snapshot \in Prefs : Candidate(i, snapshot) \in Prefs
    BY <2>1 DEF Candidate, Prefs
  <2>3. \A route \in Routes : [memory[i].prefs EXCEPT !.midi = route] \in Prefs
    BY <2>1 DEF Prefs
  <2> QED
    BY <1>11, <1>12, <2>2, <2>3 DEF SetMachinePrefs, SelectDestination, Working
<1>13. ASSUME NEW i \in Instances, ClearAutosave(i)
       PROVE  MachineTypeOK' /\ OnlyUserWrites'
  <2>1. file' \in [Names -> [exists : BOOLEAN, doc : SUBSET Documents]]
    BY <1>13, FileType DEF ClearAutosave
  <2> QED
    BY <1>13, <2>1 DEF ClearAutosave, MachineTypeOK, OnlyUserWrites
<1>14. ASSUME NEW i \in Instances, NEW step \in Commands, NEW temporary \in Names,
              NEW next \in Commands, FinishWrite(i, step, temporary, next)
       PROVE  MachineTypeOK' /\ OnlyUserWrites'
  <2>1. i = User
    BY <1>14 DEF FinishWrite, At, OnlyUserWrites
  <2>2. Goable(i, Writing(next, task[i].doc))
    BY <1>0, <2>1, StepNames
  <2> QED
    BY <1>0, <1>14, <2>2, FileStepTypes DEF FinishWrite
<1>15. ASSUME NEW i \in Instances, RenameAutosave(i)
       PROVE  MachineTypeOK' /\ OnlyUserWrites'
  <2>1. file' \in [Names -> [exists : BOOLEAN, doc : SUBSET Documents]]
    BY <1>15, FileType DEF RenameAutosave
  <2>2. /\ task' \in [Instances -> [at : Steps, doc : SUBSET Documents]]
        /\ OnlyUserWrites'
    BY <1>15, TaskStep DEF RenameAutosave
  <2> QED
    BY <1>0, <1>15, <2>1, <2>2 DEF RenameAutosave, MachineTypeOK
<1>16. ASSUME NEW i \in Instances, RenamePrefs(i)
       PROVE  MachineTypeOK' /\ OnlyUserWrites'
  <2>1. file' \in [Names -> [exists : BOOLEAN, doc : SUBSET Documents]]
    BY <1>16, FileType DEF RenamePrefs
  <2>2. /\ task' \in [Instances -> [at : Steps, doc : SUBSET Documents]]
        /\ OnlyUserWrites'
    BY <1>16, TaskStep DEF RenamePrefs
  <2>3. i = User
    BY <1>16 DEF RenamePrefs, OnlyUserWrites, Commands
  <2>4. \A p \in task[i].doc : p \in Prefs
    BY <1>16, <2>3 DEF RenamePrefs, PrefsInv, SetsSettings, SetsRoute, At
  <2>5. PICK p \in task[i].doc :
          /\ memory' = [memory EXCEPT ![i] = [prefs |-> p, source |-> "file"]]
          /\ chosen' = IF At(i, "set") THEN [chosen EXCEPT !.settings = p.settings]
                       ELSE [chosen EXCEPT !.midi = p.midi]
    BY <1>16 DEF RenamePrefs
  <2>6. /\ memory' \in [Instances -> [prefs : Prefs, source : {"file", "defaults"}]]
        /\ chosen' \in Prefs
    BY <2>4, <2>5 DEF MachineTypeOK, Prefs
  <2> QED
    BY <1>16, <2>1, <2>2, <2>6 DEF RenamePrefs, MachineTypeOK
<1>17. ASSUME NEW i \in Instances, RenameFails(i)
       PROVE  MachineTypeOK' /\ OnlyUserWrites'
  BY <1>17, FileStepTypes DEF RenameFails
<1>18. ASSUME NEW i \in Instances, Die(i)
       PROVE  MachineTypeOK' /\ OnlyUserWrites'
  <2>1. /\ task' \in [Instances -> [at : Steps, doc : SUBSET Documents]]
        /\ OnlyUserWrites'
    BY <1>18, TaskStep DEF Die
  <2>2. Defaults \in Prefs
    BY MachineFilesAssumption DEF Defaults, Prefs, Routes
  <2>3. memory' \in [Instances -> [prefs : Prefs, source : {"file", "defaults"}]]
    BY <1>18, <2>2 DEF Die, Unread, MachineTypeOK
  <2> QED
    BY <1>18, <2>1, <2>3 DEF Die, MachineTypeOK, history
<1>19. CASE PurgeTemp
  <2>1. file' \in [Names -> [exists : BOOLEAN, doc : SUBSET Documents]]
    BY <1>19, FileType DEF PurgeTemp
  <2> QED
    BY <1>19, <2>1 DEF PurgeTemp, MachineTypeOK, OnlyUserWrites
<1>20. CASE UNCHANGED vars
  BY <1>20 DEF vars, history, MachineTypeOK, OnlyUserWrites
<1>21. ASSUME NEW i \in Instances, Migration(i)
       PROVE  MachineTypeOK' /\ OnlyUserWrites'
  BY <1>2, <1>3, <1>4, <1>5, <1>6, <1>7, <1>8, <1>9, <1>21 DEF Migration
<1>22. ASSUME NEW i \in Instances, Command(i)
       PROVE  MachineTypeOK' /\ OnlyUserWrites'
  <2>1. {"saving", "saved", "setting", "set", "selecting", "selected"} = Commands
    BY DEF Commands
  <2> QED
    BY <1>10, <1>12, <1>13, <1>14, <1>15, <1>16, <1>17, <1>22, <2>1 DEF Command
<1> QED
  BY <1>1, <1>18, <1>19, <1>20, <1>21, <1>22 DEF Next

-----------------------------------------------------------------------------
(************************************************************************** *)
(* The session                                                             *)
(************************************************************************** *)

\* The parts of the invariant, for a step that instance i takes.
LEMMA SessionParts ==
  ASSUME MachineTypeOK, NEW i \in Instances,
         \A j \in Instances : j # i => task'[j] = task[j],
         SessionInv, SessionKept',
         file'["legacy"] = File({0}) \/ file'["legacy"] = Absent,
         \A j \in Instances : j # i =>
            /\ task'[i].at \in Copying => task[j].at \notin Copying
            /\ At(j, "publish") => file'["migrate.tmp"] = file["migrate.tmp"]
            /\ (At(j, "published") \/ At(j, "unlink")) /\ kept' # {} => Exists("autosave")'
            /\ At(j, "saved") => file'["autosave.tmp"] = file["autosave.tmp"],
         At(i, "copying")' => task'[i].doc = {0},
         At(i, "publish")' => file'["migrate.tmp"] = File({0}),
         (At(i, "published")' \/ At(i, "unlink")') /\ kept' # {} => Exists("autosave")',
         At(i, "saving")' => task'[i].doc # {},
         At(i, "saved")' => task'[i].doc # {} /\ file'["autosave.tmp"] = File(task'[i].doc)
  PROVE  SessionInv'
<1>1. \A j, k \in Instances : task'[j].at \in Copying /\ task'[k].at \in Copying => j = k
  BY DEF SessionInv
<1>2. ASSUME NEW j \in Instances
      PROVE  /\ At(j, "copying")' => task'[j].doc = {0}
             /\ At(j, "publish")' => file'["migrate.tmp"] = File({0})
             /\ (At(j, "published")' \/ At(j, "unlink")') /\ kept' # {} => Exists("autosave")'
             /\ At(j, "saving")' => task'[j].doc # {}
             /\ At(j, "saved")' => task'[j].doc # {} /\ file'["autosave.tmp"] = File(task'[j].doc)
  <2>1. CASE j = i
    BY <2>1
  <2>2. CASE j # i
    BY <2>2 DEF SessionInv, At
  <2> QED
    BY <2>1, <2>2
<1> QED
  BY <1>1, <1>2 DEF SessionInv

\* A step that leaves the files and the session alone, for one of these.
Quiet(next) ==
  /\ next.at \notin {"copying", "publish", "published"}
  /\ next.at \notin {"unlink", "saving", "saved"}

LEMMA QuietStep ==
  ASSUME MachineTypeOK, SessionInv, NEW i \in Instances, NEW next,
         Goes(i, next), Quiet(next), UNCHANGED <<file, kept>>,
         next.at \in Copying => task[i].at \in Copying \/ OneCopyAtATime
  PROVE  SessionInv'
<1>1. /\ task'[i] = next
      /\ \A j \in Instances : j # i => task'[j] = task[j]
  BY Moved
<1>2. SessionKept'
  BY DEF SessionInv, SessionKept, Recoverable, Exists, Contents
<1>3. file'["legacy"] = File({0}) \/ file'["legacy"] = Absent
  BY DEF SessionInv
<1>4. \A j \in Instances : j # i =>
         /\ task'[i].at \in Copying => task[j].at \notin Copying
         /\ (At(j, "published") \/ At(j, "unlink")) /\ kept' # {} => Exists("autosave")'
  BY <1>1 DEF SessionInv, Exists, OneCopyAtATime
<1>5. ~At(i, "copying")' /\ ~At(i, "publish")' /\ ~At(i, "published")'
      /\ ~At(i, "unlink")' /\ ~At(i, "saving")' /\ ~At(i, "saved")'
  BY <1>1 DEF Quiet, At, Copying
<1> QED
  BY <1>1, <1>2, <1>3, <1>4, <1>5, SessionParts

LEMMA QuietSteps ==
  /\ Quiet(Ready) /\ Quiet(Down) /\ Quiet(Doing("migrate")) /\ Quiet(Doing("link"))
  /\ Quiet(Doing("clean")) /\ Quiet(Doing("discard"))
  /\ Ready.at \notin Copying /\ Down.at \notin Copying
BY DEF Quiet, Ready, Down, Doing, Copying

LEMMA StepSession ==
  ASSUME MachineInv, [Next]_vars
  PROVE  SessionInv'
<1> USE FilesAndSteps, QuietSteps DEF MachineInv
<1> USE DEF At, Doing, Writing, Exists, Contents
<1>1. ASSUME NEW i \in Instances, Launch(i)
      PROVE  SessionInv'
  BY <1>1, QuietStep DEF Launch, history, Copying
<1>2. ASSUME NEW i \in Instances, CheckLegacy(i)
      PROVE  SessionInv'
  BY <1>2, QuietStep DEF CheckLegacy, history, Copying
<1>3. ASSUME NEW i \in Instances, LinkLegacy(i)
      PROVE  SessionInv'
  <2>1. CASE HardLink("legacy", "autosave") /\ Goes(i, Doing("unlink"))
    <3>0. /\ file["legacy"].exists /\ ~file["autosave"].exists
          /\ file'["autosave"] = file["legacy"] /\ Others({"autosave"})
      BY <2>1, Calls
    <3>1. file["legacy"] = File({0})
      BY <3>0 DEF SessionInv, Absent
    <3>2. file'["legacy"] = file["legacy"]
          /\ file'["migrate.tmp"] = file["migrate.tmp"]
          /\ file'["autosave.tmp"] = file["autosave.tmp"]
      BY <3>0 DEF Others
    <3>3. kept' = kept
      BY <1>3 DEF LinkLegacy, history
    <3>4. SessionKept'
      BY <3>0, <3>1, <3>2, <3>3 DEF SessionInv, SessionKept, Recoverable, File
    <3>5. /\ task'[i] = Doing("unlink")
          /\ \A j \in Instances : j # i => task'[j] = task[j]
      BY <2>1, Moved
    <3>6. file'["autosave"].exists
      BY <3>0
    <3> QED
      BY <3>1, <3>2, <3>3, <3>4, <3>5, <3>6, SessionParts DEF SessionInv, Copying
  <2>2. CASE Goes(i, Ready) /\ UNCHANGED file
    BY <1>3, <2>2, QuietStep DEF LinkLegacy, history, Copying
  <2>3. CASE OneCopyAtATime /\ Goes(i, Doing("clean")) /\ UNCHANGED file
    BY <1>3, <2>3, QuietStep DEF LinkLegacy, history
  <2> HIDE DEF Doing, Exists, At
  <2> QED
    BY <1>3, <2>1, <2>2, <2>3 DEF LinkLegacy
<1>4. ASSUME NEW i \in Instances, CleanTemporary(i) \/ StartCopy(i) \/ FinishCopy(i)
                                  \/ DropTemporary(i)
      PROVE  SessionInv'
  <2>1. task[i].at \in Copying /\ kept' = kept /\ Others({"migrate.tmp"})
    BY <1>4, Calls DEF CleanTemporary, StartCopy, FinishCopy, DropTemporary, history, Copying
  <2>2. /\ file'["legacy"] = file["legacy"] /\ file'["autosave"] = file["autosave"]
        /\ file'["autosave.tmp"] = file["autosave.tmp"]
    BY <2>1 DEF Others
  <2>3. \A j \in Instances : j # i => task[j].at \notin Copying
    BY <2>1 DEF SessionInv
  <2>4. SessionKept' /\ (file'["legacy"] = File({0}) \/ file'["legacy"] = Absent)
    BY <2>1, <2>2 DEF SessionInv, SessionKept, Recoverable
  <2>5. /\ \A j \in Instances : j # i => task'[j] = task[j]
        /\ task'[i].at = "copying" => task'[i].doc = {0}
        /\ task'[i].at = "publish" => file'["migrate.tmp"] = File({0})
        /\ task'[i].at = "unlink" => task[i].at = "published"
        /\ task'[i].at \notin {"published", "saving", "saved"}
    <3>1. CASE CleanTemporary(i)
      BY <3>1, Moved DEF CleanTemporary
    <3>2. CASE StartCopy(i)
      <4>1. file["legacy"].exists => file["legacy"].doc = {0}
        BY DEF SessionInv, Absent, File
      <4>2. CASE ~file["legacy"].exists
        BY <3>2, <4>2, Moved DEF StartCopy, Ready
      <4>3. CASE file["legacy"].exists
        BY <3>2, <4>1, <4>3, Moved DEF StartCopy
      <4> QED
        BY <4>2, <4>3
    <3>3. CASE FinishCopy(i)
      <4>1. CASE Goes(i, Ready)
        BY <4>1, Moved DEF Ready
      <4>2. CASE Goes(i, Doing("publish")) /\ Fill("migrate.tmp", task[i].doc)
        <5>1. task[i].doc = {0}
          BY <3>3 DEF FinishCopy, SessionInv
        <5>2. file'["migrate.tmp"] = File(task[i].doc)
          BY <4>2, Calls
        <5>3. task'[i] = Doing("publish")
              /\ \A j \in Instances : j # i => task'[j] = task[j]
          BY <4>2, Moved
        <5> QED
          BY <5>1, <5>2, <5>3
      <4> QED
        BY <3>3, <4>1, <4>2 DEF FinishCopy
    <3>4. CASE DropTemporary(i)
      BY <3>4, Moved DEF DropTemporary, Ready
    <3> QED
      BY <1>4, <3>1, <3>2, <3>3, <3>4
  <2>6. \A j \in Instances : j # i =>
           ~At(j, "publish") /\ (At(j, "unlink") /\ kept' # {} => Exists("autosave")')
    BY <2>1, <2>2, <2>3 DEF SessionInv, Copying
  <2>7. At(i, "unlink")' /\ kept' # {} => Exists("autosave")'
    BY <2>1, <2>2, <2>5 DEF SessionInv
  <2> QED
    BY <2>1, <2>2, <2>3, <2>4, <2>5, <2>6, <2>7, SessionParts DEF Copying
<1>5. ASSUME NEW i \in Instances, PublishCopy(i)
      PROVE  SessionInv'
  <2>1. CASE HardLink("migrate.tmp", "autosave") /\ Goes(i, Doing("published"))
    <3>1. /\ ~file["autosave"].exists /\ file["migrate.tmp"] = File({0})
          /\ file'["autosave"] = file["migrate.tmp"] /\ Others({"autosave"})
      BY <1>5, <2>1, Calls DEF PublishCopy, SessionInv
    <3>2. /\ file'["legacy"] = file["legacy"]
          /\ file'["migrate.tmp"] = file["migrate.tmp"]
          /\ file'["autosave.tmp"] = file["autosave.tmp"]
      BY <3>1 DEF Others
    <3>3. kept' = kept /\ task[i].at \in Copying
      BY <1>5 DEF PublishCopy, history, Copying
    <3>4. kept # {} => kept = {0}
      BY <3>1 DEF SessionInv, SessionKept, Recoverable, File, Absent
    <3>5. SessionKept'
      BY <3>1, <3>3, <3>4 DEF SessionKept, Recoverable, File
    <3>6. /\ task'[i] = Doing("published")
          /\ \A j \in Instances : j # i => task'[j] = task[j]
      BY <2>1, Moved
    <3>7. file'["autosave"].exists
      BY <3>1 DEF File
    <3>8. \A j \in Instances : j # i => task[j].at \notin Copying
      BY <3>3 DEF SessionInv
    <3> QED
      BY <3>1, <3>2, <3>3, <3>5, <3>6, <3>7, <3>8, SessionParts DEF SessionInv
  <2>2. CASE file' = file /\ Goes(i, Doing("discard"))
    BY <1>5, <2>2, QuietStep DEF PublishCopy, history, Copying
  <2> QED
    BY <1>5, <2>1, <2>2 DEF PublishCopy
<1>6. ASSUME NEW i \in Instances, RemoveLegacy(i)
      PROVE  SessionInv'
  <2>1. file'["legacy"] = Absent /\ Others({"legacy"}) /\ kept' = kept
    BY <1>6, Calls DEF RemoveLegacy, history
  <2>2. /\ file'["autosave"] = file["autosave"]
        /\ file'["migrate.tmp"] = file["migrate.tmp"]
        /\ file'["autosave.tmp"] = file["autosave.tmp"]
    BY <2>1 DEF Others
  <2>3. SessionKept'
    BY <1>6, <2>1, <2>2 DEF RemoveLegacy, SessionInv, SessionKept, Recoverable
  <2>4. /\ task'[i] = Ready
        /\ \A j \in Instances : j # i => task'[j] = task[j]
    BY <1>6, Moved DEF RemoveLegacy
  <2> QED
    BY <2>1, <2>2, <2>3, <2>4, SessionParts DEF Ready, SessionInv
<1>7. ASSUME NEW i \in Instances, BeginAutosave(i)
      PROVE  SessionInv'
  <2>1. Others({"autosave.tmp"}) /\ kept' = kept
    BY <1>7, Calls DEF BeginAutosave, history
  <2>2. /\ file'["legacy"] = file["legacy"] /\ file'["autosave"] = file["autosave"]
        /\ file'["migrate.tmp"] = file["migrate.tmp"]
    BY <2>1 DEF Others
  <2>3. SessionKept'
    BY <2>1, <2>2 DEF SessionInv, SessionKept, Recoverable
  <2>4. /\ task'[i] = Writing("saving", {sessions + 1})
        /\ \A j \in Instances : j # i => task'[j] = task[j]
    BY <1>7, Moved DEF BeginAutosave
  <2>5. \A j \in Instances : j # i => ~At(j, "saved")
    BY <1>7 DEF BeginAutosave, Working, OnlyUserWrites, Commands
  <2>6. task'[i].at = "saving" /\ task'[i].doc # {}
    BY <2>4
  <2> QED
    BY <2>1, <2>2, <2>3, <2>4, <2>5, <2>6, SessionParts DEF SessionInv, Copying
<1>8. ASSUME NEW i \in Instances, NEW next, Goes(i, next), kept' = kept,
             next.at \in {"ready", "setting", "set", "selecting", "selected"},
             Others({"prefs", "prefs.tmp"})
      PROVE  SessionInv'
  <2>1. /\ file'["legacy"] = file["legacy"] /\ file'["autosave"] = file["autosave"]
        /\ file'["migrate.tmp"] = file["migrate.tmp"]
        /\ file'["autosave.tmp"] = file["autosave.tmp"]
    BY <1>8 DEF Others
  <2>2. SessionKept'
    BY <1>8, <2>1 DEF SessionInv, SessionKept, Recoverable
  <2>3. /\ task'[i] = next
        /\ \A j \in Instances : j # i => task'[j] = task[j]
    BY <1>8, Moved
  <2> QED
    BY <1>8, <2>1, <2>2, <2>3, SessionParts DEF SessionInv, Copying
<1>9. ASSUME NEW i \in Instances, SetMachinePrefs(i) \/ SelectDestination(i)
      PROVE  SessionInv'
  <2>1. \/ \E p : BeginPrefs(i, "setting", p)
        \/ \E p : BeginPrefs(i, "selecting", p)
    BY <1>9 DEF SetMachinePrefs, SelectDestination
  <2>2. Others({"prefs", "prefs.tmp"})
    BY ZenonT(60), <2>1, Calls DEF BeginPrefs, Others
  <2> QED
    BY <1>8, <2>1, <2>2 DEF BeginPrefs, history
<1>10. ASSUME NEW i \in Instances, FinishWrite(i, "saving", "autosave.tmp", "saved")
       PROVE  SessionInv'
  <2>1. CASE Goes(i, Writing("saved", task[i].doc)) /\ Fill("autosave.tmp", task[i].doc)
    <3>1. /\ file'["autosave.tmp"] = File(task[i].doc) /\ Others({"autosave.tmp"})
          /\ kept' = kept /\ task[i].doc # {}
      BY <1>10, <2>1, Calls DEF FinishWrite, history, SessionInv
    <3>2. /\ file'["legacy"] = file["legacy"] /\ file'["autosave"] = file["autosave"]
          /\ file'["migrate.tmp"] = file["migrate.tmp"]
      BY <3>1 DEF Others
    <3>3. SessionKept'
      BY <3>1, <3>2 DEF SessionInv, SessionKept, Recoverable
    <3>4. /\ task'[i] = Writing("saved", task[i].doc)
          /\ \A j \in Instances : j # i => task'[j] = task[j]
      BY <2>1, Moved
    <3>5. \A j \in Instances : j # i => ~At(j, "saved")
      BY <1>10 DEF FinishWrite, OnlyUserWrites, Commands
    <3> QED
      BY <3>1, <3>2, <3>3, <3>4, <3>5, SessionParts DEF SessionInv, Copying
  <2>2. CASE Goes(i, Ready) /\ file' = file
    BY <1>10, <2>2, QuietStep DEF FinishWrite, history
  <2> QED
    BY <1>10, <2>1, <2>2 DEF FinishWrite
<1>11. ASSUME NEW i \in Instances, FinishWrite(i, "setting", "prefs.tmp", "set")
                                   \/ FinishWrite(i, "selecting", "prefs.tmp", "selected")
       PROVE  SessionInv'
  <2>1. kept' = kept /\ Others({"prefs", "prefs.tmp"})
    BY <1>11, Calls DEF FinishWrite, history, Others
  <2> QED
    BY <1>8, <1>11, <2>1 DEF FinishWrite, Ready
<1>12. ASSUME NEW i \in Instances, RenameAutosave(i)
       PROVE  SessionInv'
  <2>1. task[i].doc # {} /\ file["autosave.tmp"] = File(task[i].doc) /\ kept' = task[i].doc
    BY <1>12 DEF RenameAutosave, SessionInv
  <2>2. file'["autosave"] = file["autosave.tmp"] /\ Others({"autosave.tmp", "autosave"})
    BY <1>12, Calls DEF RenameAutosave
  <2>3. /\ file'["legacy"] = file["legacy"] /\ file'["migrate.tmp"] = file["migrate.tmp"]
    BY <2>2 DEF Others
  <2>4. SessionKept' /\ file'["autosave"].exists
    BY <2>1, <2>2 DEF SessionKept, Recoverable, File
  <2>5. /\ task'[i] = Ready
        /\ \A j \in Instances : j # i => task'[j] = task[j]
    BY <1>12, Moved DEF RenameAutosave
  <2>6. \A j \in Instances : j # i => ~At(j, "saved")
    BY <1>12 DEF RenameAutosave, OnlyUserWrites, Commands
  <2> QED
    BY <2>1, <2>2, <2>3, <2>4, <2>5, <2>6, SessionParts DEF Ready, SessionInv, Copying
<1>13. ASSUME NEW i \in Instances, RenamePrefs(i)
       PROVE  SessionInv'
  <2>1. Goes(i, Ready) /\ kept' = kept
    BY <1>13 DEF RenamePrefs
  <2>2. Others({"prefs.tmp", "prefs"})
    BY <1>13, Calls DEF RenamePrefs
  <2>3. Others({"prefs", "prefs.tmp"})
    BY <2>2 DEF Others
  <2> QED
    BY <1>8, <2>1, <2>3 DEF Ready
<1>14. ASSUME NEW i \in Instances, RenameFails(i) \/ Die(i)
       PROVE  SessionInv'
  BY <1>14, QuietStep DEF RenameFails, Die, history
<1>15. CASE \E i \in Instances : ClearAutosave(i)
  <2>1. /\ task' = task /\ kept' = {}
        /\ file'["autosave"] = Absent /\ Others({"autosave"})
    BY <1>15, Calls DEF ClearAutosave
  <2>2. /\ file'["legacy"] = file["legacy"] /\ file'["migrate.tmp"] = file["migrate.tmp"]
        /\ file'["autosave.tmp"] = file["autosave.tmp"]
    BY <2>1 DEF Others
  <2>3. SessionKept'
    BY <2>1 DEF SessionKept, Absent
  <2> QED
    BY <2>1, <2>2, <2>3 DEF SessionInv
<1>16. CASE PurgeTemp
  <2>1. /\ task' = task /\ kept' = IF file["autosave"].exists THEN kept ELSE {}
        /\ file'["legacy"] = Absent /\ Others({"legacy"})
    BY <1>16, Calls DEF PurgeTemp
  <2>2. /\ file'["autosave"] = file["autosave"] /\ file'["migrate.tmp"] = file["migrate.tmp"]
        /\ file'["autosave.tmp"] = file["autosave.tmp"]
    BY <2>1 DEF Others
  <2>3. SessionKept'
    BY <2>1, <2>2 DEF SessionInv, SessionKept, Recoverable
  <2> QED
    BY <2>1, <2>2, <2>3 DEF SessionInv
<1>17. CASE UNCHANGED vars
  BY <1>17 DEF vars, history, SessionInv, SessionKept, Recoverable
<1>18. ASSUME NEW i \in Instances, Migration(i)
       PROVE  SessionInv'
  BY <1>2, <1>3, <1>4, <1>5, <1>6, <1>18 DEF Migration
<1>19. ASSUME NEW i \in Instances, Command(i)
       PROVE  SessionInv'
  BY <1>7, <1>9, <1>10, <1>11, <1>12, <1>13, <1>14, <1>15, <1>19 DEF Command
<1> QED
  BY <1>1, <1>14, <1>16, <1>17, <1>18, <1>19 DEF Next

-----------------------------------------------------------------------------
(************************************************************************** *)
(* The preferences                                                         *)
(************************************************************************** *)

\* What a restart loads is what was last acknowledged.
LEMMA LoadsChosen ==
  PrefsInv => LoadMachinePrefs.prefs = chosen
<1>1. ASSUME Contents("prefs") = {chosen}
      PROVE  LoadMachinePrefs.prefs = chosen
  BY <1>1 DEF LoadMachinePrefs
<1>2. ASSUME Contents("prefs") = {}, chosen = Defaults
      PROVE  LoadMachinePrefs.prefs = chosen
  BY <1>2 DEF LoadMachinePrefs, Unread
<1> QED
  BY <1>1, <1>2 DEF PrefsInv

\* A step of the migration, of an autosave, or the end of a command.
LEMMA PrefsApart ==
  ASSUME MachineTypeOK, PrefsInv, NEW i \in Instances, NEW next, Goes(i, next),
         next.at \notin {"setting", "set", "selecting", "selected"},
         ~At(i, "down"), UNCHANGED <<file["prefs"], memory, chosen>>,
         i = User \/ UNCHANGED file["prefs.tmp"]
  PROVE  PrefsInv'
<1>1. /\ task'[i] = next
      /\ \A j \in Instances : j # i => task'[j] = task[j]
  BY Moved
<1>2. User \in Instances
  BY MachineFilesAssumption
<1>3. CASE i = User
  BY <1>1, <1>3 DEF PrefsInv, At, Contents
<1>4. CASE i # User
  <2>1. task'[User] = task[User] /\ file'["prefs.tmp"] = file["prefs.tmp"]
    BY <1>1, <1>2, <1>4
  <2> QED
    BY <2>1 DEF PrefsInv, At, Contents, SetsSettings, SetsRoute
<1> QED
  BY <1>3, <1>4

LEMMA MigrationFiles ==
  ASSUME MachineTypeOK, NEW i \in Instances,
         Migration(i) \/ BeginAutosave(i) \/ RenameAutosave(i)
         \/ FinishWrite(i, "saving", "autosave.tmp", "saved")
  PROVE  UNCHANGED <<file["prefs"], file["prefs.tmp"], memory, chosen>>
<1> USE FilesAndSteps DEF history
<1>1. CASE CheckLegacy(i)
  BY <1>1 DEF CheckLegacy
<1>2. CASE LinkLegacy(i)
  BY <1>2, Calls DEF LinkLegacy, Others
<1>3. CASE CleanTemporary(i) \/ StartCopy(i) \/ FinishCopy(i) \/ DropTemporary(i)
  BY <1>3, Calls DEF CleanTemporary, StartCopy, FinishCopy, DropTemporary, Others
<1>4. CASE PublishCopy(i)
  BY <1>4, Calls DEF PublishCopy, Others
<1>5. CASE RemoveLegacy(i)
  BY <1>5, Calls DEF RemoveLegacy, Others
<1>6. CASE BeginAutosave(i)
  BY <1>6, Calls DEF BeginAutosave, Others
<1>7. CASE RenameAutosave(i)
  BY <1>7, Calls DEF RenameAutosave, Others
<1>8. CASE FinishWrite(i, "saving", "autosave.tmp", "saved")
  BY <1>8, Calls DEF FinishWrite, Others
<1> QED
  BY <1>1, <1>2, <1>3, <1>4, <1>5, <1>6, <1>7, <1>8 DEF Migration

\* A command that begins to write its candidate.
LEMMA BeginKeepsPrefs ==
  ASSUME MachineInv, NEW i \in Instances, SetMachinePrefs(i) \/ SelectDestination(i)
  PROVE  PrefsInv'
<1> USE FilesAndSteps DEF MachineInv
<1>1. i = User /\ memory[i].prefs = chosen /\ chosen \in Prefs
  BY DEF SetMachinePrefs, SelectDestination, Working, At, PrefsInv, MachineTypeOK
<1>2. ASSUME NEW step \in {"setting", "selecting"}, NEW p \in Prefs, BeginPrefs(i, step, p)
      PROVE  /\ UNCHANGED <<file["prefs"], memory, chosen>>
             /\ task'[User] = Writing(step, {p})
  BY <1>1, <1>2, Moved, Calls DEF BeginPrefs, Others, history
<1>3. CASE SetMachinePrefs(i)
  <2>1. PICK snapshot \in Prefs : BeginPrefs(i, "setting", Candidate(i, snapshot))
    BY <1>3 DEF SetMachinePrefs
  <2>2. /\ Candidate(i, snapshot) \in Prefs
        /\ Candidate(i, snapshot).midi = chosen.midi
    BY <1>1 DEF Candidate, Prefs
  <2>3. /\ UNCHANGED <<file["prefs"], memory, chosen>>
        /\ task'[User] = Writing("setting", {Candidate(i, snapshot)})
    BY <1>2, <2>1, <2>2
  <2> HIDE DEF Candidate
  <2> QED
    BY <1>1, <1>3, <2>2, <2>3
    DEF SetMachinePrefs, Working, PrefsInv, SetsSettings, At, Contents, Writing
<1>4. CASE SelectDestination(i)
  <2> DEFINE Selected(route) == [memory[i].prefs EXCEPT !.midi = route]
  <2>1. PICK route \in Routes : BeginPrefs(i, "selecting", Selected(route))
    BY <1>4 DEF SelectDestination
  <2>2. /\ Selected(route) \in Prefs
        /\ Selected(route).settings = chosen.settings
    BY <1>1 DEF Prefs
  <2> HIDE DEF Selected
  <2>3. /\ UNCHANGED <<file["prefs"], memory, chosen>>
        /\ task'[User] = Writing("selecting", {Selected(route)})
    BY <1>2, <2>1, <2>2
  <2> QED
    BY <1>1, <1>4, <2>2, <2>3
    DEF SelectDestination, Working, PrefsInv, SetsRoute, At, Contents, Writing
<1> QED
  BY <1>3, <1>4

\* The candidate is written to the temporary.
LEMMA WriteKeepsPrefs ==
  ASSUME MachineInv, NEW i \in Instances,
         \/ FinishWrite(i, "setting", "prefs.tmp", "set")
         \/ FinishWrite(i, "selecting", "prefs.tmp", "selected")
  PROVE  PrefsInv'
<1> USE FilesAndSteps DEF MachineInv
<1>1. /\ i = User /\ UNCHANGED <<memory, chosen>>
      /\ task[User].at \in {"setting", "selecting"}
  BY DEF FinishWrite, At, OnlyUserWrites, Commands, history
<1>2. CASE Goes(i, Ready) /\ UNCHANGED file
  BY <1>1, <1>2, PrefsApart DEF Ready, Doing, At
<1>3. ASSUME NEW next \in {"set", "selected"},
             next = IF At(User, "setting") THEN "set" ELSE "selected",
             Goes(i, Writing(next, task[i].doc)), Fill("prefs.tmp", task[i].doc)
      PROVE  PrefsInv'
  <2>1. /\ file'["prefs.tmp"] = File(task[User].doc)
        /\ file'["prefs"] = file["prefs"]
        /\ task'[User] = Writing(next, task[User].doc)
    BY <1>1, <1>3, Moved, Calls DEF Others
  <2>2. /\ task'[User].at = next /\ task'[User].doc = task[User].doc
    BY <2>1 DEF Writing
  <2> QED
    BY <1>1, <1>3, <2>1, <2>2 DEF PrefsInv, SetsSettings, SetsRoute, At, Contents
<1> QED
  BY <1>1, <1>2, <1>3 DEF FinishWrite, At

\* The rename publishes the candidate, and memory takes it.
LEMMA RenameKeepsPrefs ==
  ASSUME MachineInv, NEW i \in Instances, RenamePrefs(i)
  PROVE  PrefsInv'
<1> USE FilesAndSteps DEF MachineInv
<1>1. i = User /\ task[User].at \in {"set", "selected"}
  BY DEF RenamePrefs, At, OnlyUserWrites, Commands
<1>2. /\ file'["prefs"] = file["prefs.tmp"]
      /\ task'[User] = Ready
  <2>1. Rename("prefs.tmp", "prefs") /\ Goes(i, Ready)
    BY DEF RenamePrefs
  <2>2. task'[i] = Ready
    BY <2>1, Moved
  <2>3. file'["prefs"] = file["prefs.tmp"]
    BY <2>1, Calls
  <2> QED
    BY <1>1, <2>2, <2>3
<1>3. PICK p \in task[User].doc :
        /\ memory' = [memory EXCEPT ![User] = [prefs |-> p, source |-> "file"]]
        /\ chosen' = IF At(User, "set") THEN [chosen EXCEPT !.settings = p.settings]
                     ELSE [chosen EXCEPT !.midi = p.midi]
  BY <1>1 DEF RenamePrefs
<1>4. /\ task[User].doc = {p} /\ p \in Prefs /\ chosen \in Prefs
      /\ At(User, "set") => p.midi = chosen.midi
      /\ ~At(User, "set") => p.settings = chosen.settings
  BY <1>1, <1>3 DEF PrefsInv, SetsSettings, SetsRoute, At, MachineTypeOK
<1>5. chosen' = p
  BY <1>3, <1>4 DEF Prefs
<1>6. file'["prefs"] = File({p})
  BY <1>1, <1>2, <1>4 DEF PrefsInv, At
<1>7. memory'[User].prefs = p
  BY <1>1, <1>3 DEF MachineTypeOK
<1>8. task'[User].at = "ready"
  BY <1>2 DEF Ready, Doing
<1> QED
  BY <1>5, <1>6, <1>7, <1>8 DEF PrefsInv, At, Contents, File

LEMMA StepPrefs ==
  ASSUME MachineInv, [Next]_vars
  PROVE  PrefsInv'
<1> USE FilesAndSteps DEF MachineInv
<1>0. User \in Instances
  BY MachineFilesAssumption
<1>1. ASSUME NEW i \in Instances, Launch(i)
      PROVE  PrefsInv'
  <2>1. /\ task'[i].at = "migrate" /\ UNCHANGED <<file, chosen>>
        /\ \A j \in Instances : j # i => task'[j] = task[j]
    BY <1>1, Moved DEF Launch, Doing, history
  <2>2. memory'[User].prefs = IF i = User THEN chosen ELSE memory[User].prefs
    BY <1>0, <1>1, LoadsChosen DEF Launch, MachineTypeOK
  <2>3. CASE i = User
    BY <2>1, <2>2, <2>3 DEF PrefsInv, At, Contents
  <2>4. CASE i # User
    BY <1>0, <2>1, <2>2, <2>4 DEF PrefsInv, At, Contents, SetsSettings, SetsRoute
  <2> QED
    BY <2>3, <2>4
<1>2. ASSUME NEW i \in Instances,
             Migration(i) \/ BeginAutosave(i) \/ RenameAutosave(i)
             \/ FinishWrite(i, "saving", "autosave.tmp", "saved")
      PROVE  PrefsInv'
  <2>1. PICK next : /\ Goes(i, next) /\ ~At(i, "down")
                    /\ next.at \notin {"setting", "set", "selecting", "selected"}
    BY <1>2
    DEF Migration, CheckLegacy, LinkLegacy, CleanTemporary, StartCopy, FinishCopy,
        PublishCopy, DropTemporary, RemoveLegacy, BeginAutosave, Working,
        RenameAutosave, FinishWrite, At, Doing, Writing, Ready
  <2> QED
    BY <1>2, <2>1, MigrationFiles, PrefsApart
<1>3. ASSUME NEW i \in Instances, RenameFails(i)
      PROVE  PrefsInv'
  BY <1>3, PrefsApart DEF RenameFails, At, Ready, Doing, history
<1>4. ASSUME NEW i \in Instances, Die(i)
      PROVE  PrefsInv'
  <2>1. /\ task'[i].at = "down" /\ UNCHANGED <<file, chosen>>
        /\ \A j \in Instances : j # i => task'[j] = task[j]
    BY <1>4, Moved DEF Die, Down, Doing, history
  <2>2. CASE i = User
    BY <2>1, <2>2 DEF PrefsInv, At, Contents
  <2>3. CASE i # User
    <3>1. task'[User] = task[User] /\ memory'[User] = memory[User]
      BY <1>0, <1>4, <2>1, <2>3 DEF Die, MachineTypeOK
    <3> QED
      BY <2>1, <3>1 DEF PrefsInv, At, Contents, SetsSettings, SetsRoute
  <2> QED
    BY <2>2, <2>3
<1>5. ASSUME NEW name \in {"autosave", "legacy"}, Remove(name),
             UNCHANGED <<task, memory, chosen>>
      PROVE  PrefsInv'
  <2>1. UNCHANGED <<file["prefs"], file["prefs.tmp"]>>
    BY <1>5, Calls DEF Others
  <2> QED
    BY <1>5, <2>1 DEF PrefsInv, At, Contents, SetsSettings, SetsRoute
<1>6. CASE PurgeTemp \/ \E i \in Instances : ClearAutosave(i)
  BY <1>5, <1>6 DEF PurgeTemp, ClearAutosave
<1>7. CASE UNCHANGED vars
  BY <1>7 DEF vars, history, PrefsInv, At, Contents, SetsSettings, SetsRoute
<1>8. ASSUME NEW i \in Instances, Command(i)
      PROVE  PrefsInv'
  BY <1>2, <1>3, <1>6, <1>8, BeginKeepsPrefs, WriteKeepsPrefs, RenameKeepsPrefs DEF Command
<1> QED
  BY <1>1, <1>2, <1>4, <1>6, <1>7, <1>8 DEF Next

-----------------------------------------------------------------------------
(************************************************************************** *)
(* Theorems                                                                *)
(************************************************************************** *)

LEMMA MachineInvInit == Init => MachineInv
<1> SUFFICES ASSUME Init PROVE MachineInv
  OBVIOUS
<1> USE FilesAndSteps
<1>1. /\ file["legacy"] = File({0}) /\ file["autosave"] = Absent /\ file["prefs"] = Absent
      /\ kept = {0} /\ chosen = Defaults
      /\ \A i \in Instances : task[i].at = "down"
  BY DEF Init, Down, Doing
<1>2. SessionInv
  BY <1>1 DEF SessionInv, SessionKept, Recoverable, Exists, Contents, File, Absent, At, Copying
<1>3. PrefsInv
  BY <1>1, MachineFilesAssumption DEF PrefsInv, At, Contents, Absent
<1> QED
  BY <1>2, <1>3, InitTypes DEF MachineInv

LEMMA MachineInvStep == MachineInv /\ [Next]_vars => MachineInv'
BY StepTypes, StepSession, StepPrefs DEF MachineInv

\* Whatever step the program takes, files, tasks, memory and the history keep
\* their types, and only the user's instance writes.
THEOREM MachineType == Spec => []MachineTypeOK
<1>1. MachineInv => MachineTypeOK
  BY DEF MachineInv
<1> QED
  BY <1>1, MachineInvInit, MachineInvStep, PTL DEF Spec

\* With any number of instances starting, migrating and dying beside the one
\* the user works in, the session last acknowledged is the one a restart
\* recovers, whole (patch_autosave, migrate_legacy_autosave,
\* copy_autosave_atomically).
THEOREM SessionIsKept == Spec => []SessionKept
<1>1. MachineInv => SessionKept
  BY DEF MachineInv, SessionInv
<1> QED
  BY <1>1, MachineInvInit, MachineInvStep, PTL DEF Spec

\* The preferences a restart loads, and those the working instance holds in
\* memory, are the ones last acknowledged, whatever write fails or is
\* interrupted (save_machine_prefs, persist_machine_prefs_update).
THEOREM PrefsAreDurable == Spec => []PrefsDurable
<1>1. MachineInv => PrefsDurable
  BY LoadsChosen DEF MachineInv, PrefsInv, PrefsDurable
<1> QED
  BY <1>1, MachineInvInit, MachineInvStep, PTL DEF Spec
=============================================================================
