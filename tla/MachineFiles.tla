---------------------------- MODULE MachineFiles ----------------------------
(************************************************************************** *)
(* What the application keeps on this machine: the autosaved session and   *)
(* the preferences, both replaced by writing a temporary file and renaming *)
(* it, and the session of older versions, moved once out of the system's   *)
(* temporary directory (src-tauri/src/machine.rs and the commands of       *)
(* src-tauri/src/main.rs that call it).                                    *)
(*                                                                         *)
(* Every file-system call is a step.  A write truncates the file before it *)
(* fills it, so that a death or a full disk between the two leaves it torn.*)
(* Only one instance writes a temporary at a time (User, OneCopyAtATime),  *)
(* so that a file is its contents and a hard link shares them.  An         *)
(* instance serves one command at a time, as the shell does on its main    *)
(* thread; it may die before any step.  Power failures that reorder the    *)
(* disk's own writes are outside the model.                                *)
(************************************************************************** *)
EXTENDS Naturals

CONSTANTS
  Instances,     \* application processes sharing the machine directory
  User,          \* the one the user works in; the others only start
  Destinations,  \* MIDI destinations a user may select
  Settings,      \* values of the autosave and launch settings
  Initial,       \* the default settings
  MaxSessions    \* bound on the sessions autosaved

ASSUME MachineFilesAssumption ==
  /\ User \in Instances
  /\ Initial \in Settings /\ MaxSessions \in Nat

VARIABLES
  file,      \* each name's file: whether it exists, and {x} for the whole of
             \* document x, {} for a torn one
  linkable,  \* whether the legacy directory is on the same volume
  task,      \* what each instance is doing
  memory,    \* machine_prefs and machine_prefs_source of each instance
  sessions,  \* sessions autosaved so far
  kept,      \* history: the session last acknowledged, unless cleared since
  chosen     \* history: the settings and the destination last acknowledged

history == <<kept, chosen>>
vars == <<file, linkable, task, memory, sessions, history>>

Names == {"legacy", "autosave", "autosave.tmp", "migrate.tmp", "prefs", "prefs.tmp"}
Routes == {{}} \cup {{d} : d \in Destinations}
Prefs == [midi : Routes, settings : Settings]
Defaults == [midi |-> {}, settings |-> Initial]

Absent == [exists |-> FALSE, doc |-> {}]
File(doc) == [exists |-> TRUE, doc |-> doc]
Torn == File({})

\* What an instance is doing, and the document it is writing.
Doing(step) == [at |-> step, doc |-> {}]
Writing(step, doc) == [at |-> step, doc |-> doc]
Down == Doing("down")
Ready == Doing("ready")
At(i, step) == task[i].at = step
Goes(i, next) == task' = [task EXCEPT ![i] = next]

(************************************************************************** *)
(* File-system calls                                                       *)
(************************************************************************** *)

Exists(name) == file[name].exists
Contents(name) == file[name].doc

Truncate(name) == file' = [file EXCEPT ![name] = Torn]
Fill(name, doc) == file' = [file EXCEPT ![name] = File(doc)]
Remove(name) == file' = [file EXCEPT ![name] = Absent]

Rename(from, to) ==
  Exists(from) /\ file' = [file EXCEPT ![to] = file[from], ![from] = Absent]

HardLink(from, to) ==
  Exists(from) /\ ~Exists(to) /\ file' = [file EXCEPT ![to] = file[from]]

(************************************************************************** *)
(* Startup                                                                 *)
(************************************************************************** *)

\* load_machine_prefs: a file that is missing or does not parse yields the
\* defaults, and says so.
Unread == [prefs |-> Defaults, source |-> "defaults"]

LoadMachinePrefs ==
  IF Contents("prefs") = {} THEN Unread
  ELSE [prefs |-> CHOOSE p \in Contents("prefs") : TRUE, source |-> "file"]

Copying == {"clean", "copy", "copying", "publish", "published", "discard"}

\* Bound: no second instance copies across volumes while a first does; two at
\* once share the private temporary file, and may publish each other's.
OneCopyAtATime == \A j \in Instances : task[j].at \notin Copying

Launch(i) ==
  /\ At(i, "down")
  /\ memory' = [memory EXCEPT ![i] = LoadMachinePrefs]
  /\ Goes(i, Doing("migrate"))
  /\ UNCHANGED <<file, linkable, sessions, history>>

\* migrate_legacy_autosave: nothing to do, or try a hard link first.
CheckLegacy(i) ==
  /\ At(i, "migrate")
  /\ Goes(i, IF Exists("autosave") \/ ~Exists("legacy") THEN Ready ELSE Doing("link"))
  /\ UNCHANGED <<file, linkable, memory, sessions, history>>

\* The link publishes the session, finds that another has been published, or
\* fails: across volumes, or because the legacy file has gone.
LinkLegacy(i) ==
  /\ At(i, "link")
  /\ \/ linkable /\ Goes(i, Doing("unlink")) /\ HardLink("legacy", "autosave")
     \/ Exists("autosave") /\ Goes(i, Ready) /\ UNCHANGED file
     \/ /\ ~(linkable /\ Exists("legacy")) /\ OneCopyAtATime
        /\ Goes(i, Doing("clean")) /\ UNCHANGED file
  /\ UNCHANGED <<linkable, memory, sessions, history>>

\* copy_autosave_atomically, from the removal of what an interrupted attempt
\* left to the removal of its own temporary.
CleanTemporary(i) ==
  /\ At(i, "clean") /\ Goes(i, Doing("copy"))
  /\ Remove("migrate.tmp")
  /\ UNCHANGED <<linkable, memory, sessions, history>>

StartCopy(i) ==
  /\ At(i, "copy")
  /\ IF Exists("legacy")
     THEN /\ Goes(i, Writing("copying", Contents("legacy")))
          /\ Truncate("migrate.tmp")
     ELSE Goes(i, Ready) /\ Remove("migrate.tmp")
  /\ UNCHANGED <<linkable, memory, sessions, history>>

\* The copy completes, or fails and is removed.
FinishCopy(i) ==
  /\ At(i, "copying")
  /\ \/ Goes(i, Doing("publish")) /\ Fill("migrate.tmp", task[i].doc)
     \/ Goes(i, Ready) /\ Remove("migrate.tmp")
  /\ UNCHANGED <<linkable, memory, sessions, history>>

\* As rename would publish it: over an autosave that has appeared meanwhile.
PublishCopyOver(i) ==
  /\ At(i, "publish")
  /\ \/ Goes(i, Doing("published")) /\ Rename("migrate.tmp", "autosave")
     \/ ~Exists("migrate.tmp") /\ Goes(i, Doing("discard")) /\ UNCHANGED file
  /\ UNCHANGED <<linkable, memory, sessions, history>>

PublishCopy(i) ==
  /\ At(i, "publish")
  /\ \/ Goes(i, Doing("published")) /\ HardLink("migrate.tmp", "autosave")
     \/ (Exists("autosave") \/ ~Exists("migrate.tmp"))
        /\ Goes(i, Doing("discard")) /\ UNCHANGED file
  /\ UNCHANGED <<linkable, memory, sessions, history>>

DropTemporary(i) ==
  /\ task[i].at \in {"published", "discard"}
  /\ Goes(i, IF At(i, "published") THEN Doing("unlink") ELSE Ready)
  /\ Remove("migrate.tmp")
  /\ UNCHANGED <<linkable, memory, sessions, history>>

RemoveLegacy(i) ==
  /\ At(i, "unlink") /\ Goes(i, Ready)
  /\ Remove("legacy")
  /\ UNCHANGED <<linkable, memory, sessions, history>>

(************************************************************************** *)
(* Commands                                                                *)
(************************************************************************** *)

Working(i) == i = User /\ At(i, "ready")

\* patch_autosave, of a document the frontend built and validation accepts.
BeginAutosave(i) ==
  /\ Working(i) /\ sessions < MaxSessions
  /\ sessions' = sessions + 1
  /\ Goes(i, Writing("saving", {sessions + 1}))
  /\ Truncate("autosave.tmp")
  /\ UNCHANGED <<linkable, memory, history>>

\* save_machine_prefs, of a candidate made from the preferences in memory.
BeginPrefs(i, step, candidate) ==
  /\ Goes(i, Writing(step, {candidate}))
  /\ Truncate("prefs.tmp")
  /\ UNCHANGED <<linkable, memory, sessions, history>>

\* machine_prefs_set: the frontend's snapshot may hold a stale destination;
\* the one in memory stays.
CandidateStale(i, snapshot) == snapshot
Candidate(i, snapshot) == [snapshot EXCEPT !.midi = memory[i].prefs.midi]

SetMachinePrefs(i) ==
  \E snapshot \in Prefs : Working(i) /\ BeginPrefs(i, "setting", Candidate(i, snapshot))

\* midi_set_destination, up to the reconciliation.
SelectDestination(i) ==
  \E route \in Routes :
     Working(i) /\ BeginPrefs(i, "selecting", [memory[i].prefs EXCEPT !.midi = route])

\* The temporary is filled, or the write fails and the command with it.
FinishWrite(i, step, temporary, next) ==
  /\ At(i, step)
  /\ \/ Goes(i, Writing(next, task[i].doc)) /\ Fill(temporary, task[i].doc)
     \/ Goes(i, Ready) /\ UNCHANGED file
  /\ UNCHANGED <<linkable, memory, sessions, history>>

\* The rename publishes the session, and the command returns.
RenameAutosave(i) ==
  /\ At(i, "saved") /\ Goes(i, Ready)
  /\ Rename("autosave.tmp", "autosave")
  /\ kept' = task[i].doc
  /\ UNCHANGED <<linkable, memory, sessions, chosen>>

\* The rename publishes the preferences, and only then does memory hold them.
RenamePrefs(i) ==
  /\ task[i].at \in {"set", "selected"} /\ Goes(i, Ready)
  /\ Rename("prefs.tmp", "prefs")
  /\ \E p \in task[i].doc :
        /\ memory' = [memory EXCEPT ![i] = [prefs |-> p, source |-> "file"]]
        /\ chosen' = IF At(i, "set") THEN [chosen EXCEPT !.settings = p.settings]
                     ELSE [chosen EXCEPT !.midi = p.midi]
  /\ UNCHANGED <<linkable, sessions, kept>>

\* A rename that fails: the command returns the error.
RenameFails(i) ==
  /\ task[i].at \in {"saved", "set", "selected"} /\ Goes(i, Ready)
  /\ UNCHANGED <<file, linkable, memory, sessions, history>>

\* patch_clear_autosave.
ClearAutosave(i) ==
  /\ Working(i) /\ Exists("autosave")
  /\ UNCHANGED task /\ Remove("autosave")
  /\ kept' = {}
  /\ UNCHANGED <<linkable, memory, sessions, chosen>>

(************************************************************************** *)
(* Faults                                                                  *)
(************************************************************************** *)

\* An instance quits or dies; its temporaries stay where they are.
Die(i) ==
  /\ ~At(i, "down") /\ Goes(i, Down)
  /\ memory' = [memory EXCEPT ![i] = Unread]
  /\ UNCHANGED <<file, linkable, sessions, history>>

\* The system cleans its temporary directory.
PurgeTemp ==
  /\ Exists("legacy")
  /\ UNCHANGED task /\ Remove("legacy")
  /\ kept' = IF Exists("autosave") THEN kept ELSE {}
  /\ UNCHANGED <<linkable, memory, sessions, chosen>>

Migration(i) ==
  \/ CheckLegacy(i) \/ LinkLegacy(i) \/ CleanTemporary(i) \/ StartCopy(i)
  \/ FinishCopy(i) \/ PublishCopy(i) \/ DropTemporary(i) \/ RemoveLegacy(i)

Command(i) ==
  \/ BeginAutosave(i) \/ SetMachinePrefs(i) \/ SelectDestination(i) \/ ClearAutosave(i)
  \/ FinishWrite(i, "saving", "autosave.tmp", "saved")
  \/ FinishWrite(i, "setting", "prefs.tmp", "set")
  \/ FinishWrite(i, "selecting", "prefs.tmp", "selected")
  \/ RenameAutosave(i) \/ RenamePrefs(i) \/ RenameFails(i)

Next ==
  \/ PurgeTemp
  \/ \E i \in Instances : Launch(i) \/ Migration(i) \/ Command(i) \/ Die(i)

\* An older version left a session behind; the preferences are not there yet.
Init ==
  /\ file = [name \in Names |-> IF name = "legacy" THEN File({0}) ELSE Absent]
  /\ linkable \in BOOLEAN
  /\ task = [i \in Instances |-> Down]
  /\ memory = [i \in Instances |-> Unread]
  /\ sessions = 0
  /\ kept = {0} /\ chosen = Defaults

Spec == Init /\ [][Next]_vars

(************************************************************************** *)
(* Properties                                                              *)
(************************************************************************** *)

\* What a restart would offer to recover: the autosave, else the legacy file.
Recoverable == IF Exists("autosave") THEN Contents("autosave") ELSE Contents("legacy")

\* Whatever dies or fails between two file-system calls of a save or of the
\* migration, in this instance or in another that starts meanwhile, the
\* session last acknowledged (or the legacy one, until the first save) is the
\* one a restart recovers, whole: the migration neither loses it nor puts
\* the older session over it (patch_autosave, migrate_legacy_autosave,
\* copy_autosave_atomically).  What is named as the autosave is never torn,
\* even after a clear.
SessionKept ==
  /\ kept # {} => Recoverable = kept
  /\ Exists("autosave") => Contents("autosave") # {}

\* The preferences a restart loads, and those a working instance holds in
\* memory, are the ones last acknowledged: a failed or interrupted write
\* publishes nothing, and neither the settings nor the selected destination
\* is overwritten by an update of the other (persist_machine_prefs_update).
PrefsDurable ==
  /\ LoadMachinePrefs.prefs = chosen
  /\ ~At(User, "down") => memory[User].prefs = chosen

=============================================================================
