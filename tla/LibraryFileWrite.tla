--------------------------- MODULE LibraryFileWrite ---------------------------
(***************************************************************************)
(* Writing a file into the library                                         *)
(* (features/operations/download/library-file-write-support.ts): the       *)
(* source is staged into a temporary file, what is at the destination is   *)
(* renamed to a backup, the temporary file is renamed to the destination,  *)
(* the backup is removed or restored; writeLibraryImportFile then records  *)
(* the file and undoes the write if that fails.                            *)
(*                                                                         *)
(* All writers here write to one destination, one after another or at the  *)
(* same time.  A file is what is in it: Before, or the name of the writer  *)
(* whose source it was.  Temporary and backup names carry a random uuid,   *)
(* so that every writer has its own.                                       *)
(***************************************************************************)
EXTENDS Naturals

CONSTANTS
  Writers,
  Movers,          \* writers with import_mode "move"; the others copy
  Recorders,       \* writers through writeLibraryImportFile; the others are downloads
  Before,          \* what is at the destination at first
  NoFile, Partial, \* no file, a file copied in part
  MaxFileFaults    \* bound on failing calls, interruptions and crashes

ASSUME FileAssumption ==
  /\ Movers \subseteq Writers /\ Recorders \subseteq Writers
  /\ Before \notin Writers /\ NoFile \notin Writers /\ Partial \notin Writers
  /\ Before # NoFile /\ Before # Partial /\ NoFile # Partial
  /\ MaxFileFaults \in Nat

VARIABLES
  destination, source, temp, backup,  \* what is in the files
  at,          \* at[w]: where the fiber of writer w is
  backedUp,    \* writers that have renamed an existing destination
  \* history
  latest,     \* the content written last, Before at first; NoFile once it is undone
  superseded,  \* writers whose content a later write has replaced, or that undid it
  overlapped,  \* two writers have been between stat and the end at once
  fileFaults

content == <<destination, source, temp, backup>>
history == <<latest, superseded>>
fileVars == <<destination, source, temp, backup, at, backedUp, latest, superseded, overlapped,
              fileFaults>>

FileContents == Writers \cup {Before}
Swapping == {"stat", "backup", "commit", "dropBackup", "restore", "upsert", "rollback"}
Running == Swapping \cup {"stage", "copying", "removeSource", "unstage", "cleanup"}

FileTypeOK ==
  /\ destination \in FileContents \cup {NoFile, Partial}
  /\ source \in [Writers -> Writers \cup {NoFile, Before}]
  /\ temp \in [Writers -> Writers \cup {NoFile, Partial}]
  /\ backup \in [Writers -> FileContents \cup {NoFile}]
  /\ at \in [Writers -> Running \cup {"idle", "written", "failed", "crashed"}]
  /\ \A w \in Writers : at[w] \in {"stat", "backup", "commit", "restore"} => temp[w] = w
  /\ \A w \in Writers : at[w] = "restore" => backup[w] # NoFile
  /\ backedUp \subseteq Writers
  /\ latest \in FileContents \cup {NoFile} /\ superseded \subseteq Writers
  /\ overlapped \in BOOLEAN
  /\ fileFaults \in 0..MaxFileFaults

FileInit ==
  /\ destination = Before
  /\ source = [w \in Writers |-> w]
  /\ temp = [w \in Writers |-> NoFile]
  /\ backup = [w \in Writers |-> NoFile]
  /\ at = [w \in Writers |-> "idle"]
  /\ backedUp = {}
  /\ latest = Before /\ superseded = {}
  /\ overlapped = FALSE
  /\ fileFaults = 0

NoFileFault == UNCHANGED fileFaults
FileFault == fileFaults < MaxFileFaults /\ fileFaults' = fileFaults + 1
Goes(w, place) == at' = [at EXCEPT ![w] = place]
-------------------------------------------------------------------------------
(***************************************************************************)
(* stageSourceIntoTempFile.                                                *)
(***************************************************************************)
Begin(w) ==
  /\ at[w] = "idle"
  /\ Goes(w, "stage")
  /\ NoFileFault
  /\ UNCHANGED <<content, backedUp, history, overlapped>>

\* rename(source, temp) of a mover on one file system; a copy, and a move across file
\* systems, takes a while.
StageRename(w) ==
  /\ at[w] = "stage"
  /\ w \in Movers
  /\ temp' = [temp EXCEPT ![w] = source[w]]
  /\ source' = [source EXCEPT ![w] = NoFile]
  /\ Goes(w, "stat")
  /\ NoFileFault
  /\ UNCHANGED <<destination, backup, backedUp, history, overlapped>>

StageCopy(w) ==
  /\ at[w] = "stage"
  /\ temp' = [temp EXCEPT ![w] = Partial]
  /\ Goes(w, "copying")
  /\ NoFileFault
  /\ UNCHANGED <<destination, source, backup, backedUp, history, overlapped>>

CopyInPart(w) == UNCHANGED temp  \* mutant
CopyWhole(w) == temp' = [temp EXCEPT ![w] = source[w]]

Copied(w) ==
  /\ at[w] = "copying"
  /\ CopyWhole(w)
  /\ Goes(w, IF w \in Movers THEN "removeSource" ELSE "stat")
  /\ NoFileFault
  /\ UNCHANGED <<destination, source, backup, backedUp, history, overlapped>>

\* stageMoveAcrossFilesystems removes the source once the copy is whole.
RemoveSource(w) ==
  /\ at[w] = "removeSource"
  /\ source' = [source EXCEPT ![w] = NoFile]
  /\ Goes(w, "stat")
  /\ NoFileFault
  /\ UNCHANGED <<destination, temp, backup, backedUp, history, overlapped>>

StageFails(w) ==
  /\ at[w] \in {"stage", "copying", "removeSource"}
  /\ FileFault
  /\ Goes(w, "unstage")
  /\ UNCHANGED <<content, backedUp, history, overlapped>>

\* The temporary file of a failed staging is removed, or left if that fails too.
Unstage(w) ==
  /\ at[w] = "unstage"
  /\ \/ temp' = [temp EXCEPT ![w] = NoFile] /\ NoFileFault
     \/ UNCHANGED temp /\ FileFault
  /\ Goes(w, "failed")
  /\ UNCHANGED <<destination, source, backup, backedUp, history, overlapped>>
-------------------------------------------------------------------------------
(***************************************************************************)
(* replaceDestinationWithStagedFile.                                       *)
(***************************************************************************)
Overlap(w) == overlapped' = (overlapped \/ \E v \in Writers \ {w} : at[v] \in Swapping)

Stat(w) ==
  /\ at[w] = "stat"
  /\ Goes(w, IF destination = NoFile THEN "commit" ELSE "backup")
  /\ Overlap(w)
  /\ NoFileFault
  /\ UNCHANGED <<content, backedUp, history>>

BackUp(w) ==
  /\ at[w] = "backup"
  /\ IF destination = NoFile
     THEN Goes(w, "cleanup") /\ UNCHANGED <<destination, backup, backedUp>>
     ELSE /\ backup' = [backup EXCEPT ![w] = destination]
          /\ destination' = NoFile
          /\ backedUp' = backedUp \cup {w}
          /\ Goes(w, "commit")
  /\ Overlap(w)
  /\ NoFileFault
  /\ UNCHANGED <<source, temp, history>>

Commit(w) ==
  /\ at[w] = "commit"
  /\ destination' = temp[w]
  /\ temp' = [temp EXCEPT ![w] = NoFile]
  /\ latest' = w
  /\ superseded' = superseded \cup ({latest} \cap Writers)
  /\ Goes(w, IF w \in backedUp THEN "dropBackup" ELSE "upsert")
  /\ Overlap(w)
  /\ NoFileFault
  /\ UNCHANGED <<source, backup, backedUp>>

\* The commit rename fails.
CommitNoRestore(w) ==  \* mutant
  /\ at[w] = "commit"
  /\ backup' = [backup EXCEPT ![w] = NoFile]
  /\ Goes(w, "cleanup")
  /\ FileFault
  /\ UNCHANGED <<destination, source, temp, backedUp, history, overlapped>>
CommitFails(w) ==
  /\ at[w] = "commit"
  /\ Goes(w, IF w \in backedUp THEN "restore" ELSE "cleanup")
  /\ FileFault
  /\ UNCHANGED <<content, backedUp, history, overlapped>>

\* A backup that cannot be removed stays.
DropBackup(w) ==
  /\ at[w] = "dropBackup"
  /\ \/ backup' = [backup EXCEPT ![w] = NoFile] /\ NoFileFault
     \/ UNCHANGED backup /\ FileFault
  /\ Goes(w, "upsert")
  /\ Overlap(w)
  /\ UNCHANGED <<destination, source, temp, backedUp, history>>

\* rename(backup, destination), over whatever is there; if it fails the backup stays.
Restore(w) ==
  /\ at[w] = "restore"
  /\ \/ /\ destination' = backup[w]
        /\ backup' = [backup EXCEPT ![w] = NoFile]
        /\ NoFileFault
     \/ FileFault /\ UNCHANGED <<destination, backup>>
  /\ Goes(w, "cleanup")
  /\ Overlap(w)
  /\ UNCHANGED <<source, temp, backedUp, history>>

\* stat or the rename to the backup fails, or the fiber is interrupted: the release of
\* acquireUseRelease is all that runs, a backup is not restored.
SwapFails(w) ==
  /\ \/ at[w] \in {"stat", "backup", "commit", "restore"} /\ Goes(w, "cleanup")
     \/ at[w] \in {"dropBackup", "upsert"} /\ Goes(w, "failed")
  /\ FileFault
  /\ UNCHANGED <<content, backedUp, history, overlapped>>

\* cleanupStagedTempFile, also of the only copy of a moved file.
Cleanup(w) ==
  /\ at[w] = "cleanup"
  /\ \/ temp' = [temp EXCEPT ![w] = NoFile] /\ NoFileFault
     \/ UNCHANGED temp /\ FileFault
  /\ Goes(w, "failed")
  /\ UNCHANGED <<destination, source, backup, backedUp, history, overlapped>>
-------------------------------------------------------------------------------
(***************************************************************************)
(* upsertUnitFiles and, in writeLibraryImportFile, its undoing.            *)
(***************************************************************************)
Record(w) ==
  /\ at[w] = "upsert"
  /\ Goes(w, "written")
  /\ Overlap(w)
  /\ NoFileFault
  /\ UNCHANGED <<content, backedUp, history>>

RecordFails(w) ==
  /\ at[w] = "upsert"
  /\ FileFault
  /\ Goes(w, IF w \in Recorders THEN "rollback" ELSE "failed")
  /\ UNCHANGED <<content, backedUp, history, overlapped>>

\* What is at the destination is renamed to the source or removed; what was there
\* before the write does not come back.
Rollback(w) ==
  /\ at[w] = "rollback"
  /\ \/ /\ destination' = NoFile
        /\ source' = IF w \in Movers /\ destination # NoFile
                     THEN [source EXCEPT ![w] = destination] ELSE source
        /\ latest' = NoFile
        /\ superseded' = superseded \cup {w}
        /\ NoFileFault
     \/ FileFault /\ UNCHANGED <<destination, source, history>>
  /\ Goes(w, "failed")
  /\ Overlap(w)
  /\ UNCHANGED <<temp, backup, backedUp>>

\* The process stops; files stay, and nothing looks for temporary files or backups later.
FileCrash ==
  /\ \E w \in Writers : at[w] \in Running
  /\ FileFault
  /\ at' = [w \in Writers |-> IF at[w] \in Running THEN "crashed" ELSE at[w]]
  /\ UNCHANGED <<content, backedUp, history, overlapped>>

WriterStep(w) ==
  \/ Begin(w) \/ StageRename(w) \/ StageCopy(w) \/ Copied(w) \/ RemoveSource(w)
  \/ StageFails(w) \/ Unstage(w)
  \/ Stat(w) \/ BackUp(w) \/ Commit(w) \/ CommitFails(w) \/ DropBackup(w) \/ Restore(w)
  \/ SwapFails(w) \/ Cleanup(w)
  \/ Record(w) \/ RecordFails(w) \/ Rollback(w)

FileNext == FileCrash \/ \E w \in Writers : WriterStep(w)

FileSpec == FileInit /\ [][FileNext]_fileVars
-------------------------------------------------------------------------------
(***************************************************************************)
(* Properties.                                                             *)
(***************************************************************************)

(* Whoever reads the library finds whole files: what is at the destination *)
(* never is a file copied in part, whatever fails and whoever else writes  *)
(* (writeImportedFileAtomically, "stage the source into a temp file, then  *)
(* swap it in").                                                           *)
DestinationWhole == destination # Partial

(* What the library has had last is at the destination or in a backup at   *)
(* every moment, until a later write has replaced it or it was undone on   *)
(* purpose: neither a failure at any step, an interruption nor a crash     *)
(* loses it ("An existing destination is backed up first and restored when *)
(* the commit rename fails").  Two writers at once may lose it.            *)
CurrentSurvives ==
  ~overlapped /\ latest # NoFile =>
    destination = latest \/ \E w \in Writers : backup[w] = latest

(* A crash at any step of a write leaves the content somewhere: in its     *)
(* source, its temporary file or the library, a moved file too.            *)
CrashKeepsContent ==
  \A w \in Writers :
    at[w] \in Running \cup {"crashed"} /\ at[w] \notin {"cleanup", "unstage"} =>
      \/ source[w] = w \/ temp[w] = w \/ w \in superseded
      \/ overlapped \/ destination = w \/ \E v \in Writers : backup[v] = w
===============================================================================
