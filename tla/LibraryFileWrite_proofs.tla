----------------------- MODULE LibraryFileWrite_proofs -----------------------
(***************************************************************************)
(* FileTypeOK, DestinationWhole, CurrentSurvives and CrashKeepsContent for *)
(* any number of writers and faults.                                       *)
(***************************************************************************)
EXTENDS LibraryFileWrite, TLAPS

USE DEF content, history

(***************************************************************************)
(* What a writer has in hand at each place: the source until it is staged, *)
(* the whole temporary file until it is renamed or cleaned up, and a       *)
(* backup only from the rename on.                                         *)
(***************************************************************************)
Staging == {"idle", "stage", "copying", "removeSource", "unstage"}

PlaceInv ==
  /\ DestinationWhole
  /\ \A w \in Writers :
       /\ at[w] \in Staging => source[w] = w
       /\ at[w] \in {"removeSource", "cleanup"} => temp[w] = w
       /\ at[w] \in Staging \cup {"stat", "backup"} => backup[w] = NoFile /\ w \notin backedUp
       /\ at[w] = "commit" /\ w \in backedUp => backup[w] # NoFile
       /\ at[w] = "restore" => w \in backedUp

(***************************************************************************)
(* The destination while writers do not overlap: it holds what was written *)
(* last or nothing, the one that has taken it away has it as its backup,   *)
(* and a backup is only dropped once its content is superseded.            *)
(***************************************************************************)
Placed == {"dropBackup", "upsert", "rollback"}

LatestInv ==
  ~overlapped =>
    /\ destination \in {NoFile, latest}
    /\ CurrentSurvives
    /\ \A w \in Writers :
         /\ at[w] \in {"commit", "restore"} /\ w \in backedUp => backup[w] = latest
         /\ at[w] \in Placed => latest = w /\ destination = w
         /\ at[w] = "dropBackup" /\ backup[w] \in Writers => backup[w] \in superseded
-------------------------------------------------------------------------------
\* Faults are counted.
LEMMA FileFaultType ==
  ASSUME FileTypeOK, NoFileFault \/ FileFault
  PROVE  fileFaults' \in 0..MaxFileFaults
BY FileAssumption DEF FileTypeOK, NoFileFault, FileFault

\* overlapped stays Boolean.
LEMMA OverlapType ==
  ASSUME NEW w \in Writers, Overlap(w) PROVE overlapped' \in BOOLEAN
BY Zenon DEF Overlap

\* FileTypeOK without overlapped and fileFaults, which FileOthersTyped is about.
FileTypes ==
  /\ destination \in FileContents \cup {NoFile, Partial}
  /\ source \in [Writers -> Writers \cup {NoFile, Before}]
  /\ temp \in [Writers -> Writers \cup {NoFile, Partial}]
  /\ backup \in [Writers -> FileContents \cup {NoFile}]
  /\ at \in [Writers -> Running \cup {"idle", "written", "failed", "crashed"}]
  /\ \A w \in Writers : at[w] \in {"stat", "backup", "commit", "restore"} => temp[w] = w
  /\ \A w \in Writers : at[w] = "restore" => backup[w] # NoFile
  /\ backedUp \subseteq Writers
  /\ latest \in FileContents \cup {NoFile} /\ superseded \subseteq Writers

\* The parts of FileTypeOK.
LEMMA FileTypeParts ==
  /\ FileTypeOK <=> FileTypes /\ overlapped \in BOOLEAN /\ fileFaults \in 0..MaxFileFaults
  /\ FileTypeOK' <=> FileTypes' /\ overlapped' \in BOOLEAN /\ fileFaults' \in 0..MaxFileFaults
BY Zenon DEF FileTypeOK, FileTypes

\* Every step keeps the types of overlapped and fileFaults.
LEMMA FileOthersTyped ==
  ASSUME FileTypeOK, [FileNext]_fileVars
  PROVE  overlapped' \in BOOLEAN /\ fileFaults' \in 0..MaxFileFaults
<1>1. overlapped \in BOOLEAN
  BY FileTypeParts
<1>2. ASSUME NEW w \in Writers, WriterStep(w)
      PROVE  overlapped' \in BOOLEAN /\ (NoFileFault \/ FileFault)
  BY <1>1, <1>2, OverlapType, Zenon
     DEF WriterStep, Begin, StageRename, StageCopy, Copied, RemoveSource, StageFails, Unstage,
         Stat, BackUp, Commit, CommitFails, DropBackup, Restore, SwapFails, Cleanup, Record,
         RecordFails, Rollback
<1>3. CASE FileCrash
  BY <1>1, <1>3, FileFaultType, Zenon DEF FileCrash
<1>4. CASE UNCHANGED fileVars
  BY <1>1, <1>4, FileFaultType, Zenon DEF fileVars, NoFileFault
<1>5. QED
  BY <1>2, <1>3, <1>4, FileFaultType DEF FileNext

\* Every step keeps the types and what a writer has in hand.
LEMMA PlaceStep ==
  ASSUME FileTypes, PlaceInv, [FileNext]_fileVars PROVE FileTypes' /\ PlaceInv'
<1> USE FileAssumption DEF FileTypes, PlaceInv, DestinationWhole, Staging, Goes, FileContents,
                           Running, Swapping
<1>1. ASSUME NEW w \in Writers, Begin(w) PROVE FileTypes' /\ PlaceInv'
  BY <1>1 DEF Begin
<1>2. ASSUME NEW w \in Writers, StageRename(w) PROVE FileTypes' /\ PlaceInv'
  BY <1>2 DEF StageRename
<1>3. ASSUME NEW w \in Writers, StageCopy(w) PROVE FileTypes' /\ PlaceInv'
  BY <1>3 DEF StageCopy
<1>4. ASSUME NEW w \in Writers, Copied(w) PROVE FileTypes' /\ PlaceInv'
  BY <1>4 DEF Copied, CopyWhole
<1>5. ASSUME NEW w \in Writers, RemoveSource(w) PROVE FileTypes' /\ PlaceInv'
  BY <1>5 DEF RemoveSource
<1>6. ASSUME NEW w \in Writers, StageFails(w) PROVE FileTypes' /\ PlaceInv'
  BY <1>6 DEF StageFails
<1>7. ASSUME NEW w \in Writers, Unstage(w) PROVE FileTypes' /\ PlaceInv'
  BY <1>7 DEF Unstage
<1>8. ASSUME NEW w \in Writers, Stat(w) PROVE FileTypes' /\ PlaceInv'
  BY <1>8 DEF Stat
<1>9. ASSUME NEW w \in Writers, BackUp(w) PROVE FileTypes' /\ PlaceInv'
  BY <1>9 DEF BackUp
<1>10. ASSUME NEW w \in Writers, Commit(w) PROVE FileTypes' /\ PlaceInv'
  BY <1>10 DEF Commit
<1>11. ASSUME NEW w \in Writers, CommitFails(w) PROVE FileTypes' /\ PlaceInv'
  BY <1>11 DEF CommitFails
<1>12. ASSUME NEW w \in Writers, DropBackup(w) PROVE FileTypes' /\ PlaceInv'
  BY <1>12 DEF DropBackup
<1>13. ASSUME NEW w \in Writers, Restore(w) PROVE FileTypes' /\ PlaceInv'
  BY <1>13 DEF Restore
<1>14. ASSUME NEW w \in Writers, SwapFails(w) PROVE FileTypes' /\ PlaceInv'
  BY <1>14 DEF SwapFails
<1>15. ASSUME NEW w \in Writers, Cleanup(w) PROVE FileTypes' /\ PlaceInv'
  BY <1>15 DEF Cleanup
<1>16. ASSUME NEW w \in Writers, Record(w) \/ RecordFails(w) PROVE FileTypes' /\ PlaceInv'
  BY <1>16 DEF Record, RecordFails
<1>17. ASSUME NEW w \in Writers, Rollback(w) PROVE FileTypes' /\ PlaceInv'
  BY <1>17 DEF Rollback
<1>18. CASE FileCrash
  BY <1>18 DEF FileCrash
<1>19. CASE UNCHANGED fileVars
  BY <1>19 DEF fileVars
<1>20. QED
  BY <1>1, <1>2, <1>3, <1>4, <1>5, <1>6, <1>7, <1>8, <1>9, <1>10, <1>11, <1>12, <1>13, <1>14,
     <1>15, <1>16, <1>17, <1>18, <1>19 DEF FileNext, WriterStep

\* At first the destination is as it was, and every source is whole.
LEMMA FileStart == FileInit => FileTypeOK /\ PlaceInv /\ LatestInv
<1> SUFFICES ASSUME FileInit PROVE FileTypeOK /\ PlaceInv /\ LatestInv
  OBVIOUS
<1>1. FileTypes
  BY FileAssumption DEF FileInit, FileTypes, FileContents, Running, Swapping
<1>2. overlapped \in BOOLEAN /\ fileFaults \in 0..MaxFileFaults
  <2>1. fileFaults \in 0..MaxFileFaults
    BY FileAssumption DEF FileInit
  <2>2. QED
    BY <2>1, Zenon DEF FileInit
<1>3. PlaceInv
  BY FileAssumption DEF FileInit, PlaceInv, DestinationWhole, Staging
<1>4. LatestInv
  BY FileAssumption DEF FileInit, LatestInv, CurrentSurvives, Placed
<1>5. QED
  BY <1>1, <1>2, <1>3, <1>4, FileTypeParts

(* Every variable has its type, and a writer about to swap has its whole   *)
(* content in its temporary file (stageSourceIntoTempFile).                *)
THEOREM FileTypeCorrect == FileSpec => []FileTypeOK
<1>1. FileInit => FileTypeOK /\ PlaceInv
  BY FileStart
<1>2. FileTypeOK /\ PlaceInv /\ [FileNext]_fileVars => FileTypeOK' /\ PlaceInv'
  BY PlaceStep, FileOthersTyped, FileTypeParts
<1>3. QED
  BY <1>1, <1>2, PTL DEF FileSpec

(* The destination never is a file copied in part, whoever writes and      *)
(* whatever fails (replaceDestinationWithStagedFile).                      *)
THEOREM DestinationStaysWhole == FileSpec => []DestinationWhole
<1>1. FileInit => FileTypeOK /\ PlaceInv
  BY FileStart
<1>2. FileTypeOK /\ PlaceInv /\ [FileNext]_fileVars => FileTypeOK' /\ PlaceInv'
  BY PlaceStep, FileOthersTyped, FileTypeParts
<1>3. PlaceInv => DestinationWhole
  BY DEF PlaceInv
<1>4. QED
  BY <1>1, <1>2, <1>3, PTL DEF FileSpec
-------------------------------------------------------------------------------
\* A step that does not overlap is taken while no other writer swaps.
LEMMA Alone ==
  ASSUME NEW w \in Writers, Overlap(w), ~overlapped'
  PROVE  ~overlapped /\ \A v \in Writers \ {w} : at[v] \notin Swapping
BY Zenon DEF Overlap

\* Every step keeps the latest content, unless writers overlap.
LEMMA LatestStep ==
  ASSUME FileTypes, PlaceInv, LatestInv, [FileNext]_fileVars PROVE LatestInv'
<1> SUFFICES ASSUME ~overlapped' PROVE LatestInv'
  BY DEF LatestInv
<1> USE FileAssumption DEF FileTypes, PlaceInv, LatestInv, CurrentSurvives, DestinationWhole,
                           Staging, Placed, Goes, FileContents, Running, Swapping
<1>1. ASSUME NEW w \in Writers,
             \/ Begin(w) \/ StageRename(w) \/ StageCopy(w) \/ Copied(w) \/ RemoveSource(w)
             \/ StageFails(w) \/ Unstage(w) \/ Cleanup(w)
      PROVE  LatestInv'
  BY <1>1 DEF Begin, StageRename, StageCopy, Copied, RemoveSource, StageFails, Unstage, Cleanup
<1>2. ASSUME NEW w \in Writers, Stat(w) PROVE LatestInv'
  <2>1. ~overlapped /\ \A v \in Writers \ {w} : at[v] \notin Swapping
    BY <1>2, Alone DEF Stat
  <2>2. QED
    BY <1>2, <2>1 DEF Stat
<1>3. ASSUME NEW w \in Writers, BackUp(w) PROVE LatestInv'
  <2>1. ~overlapped /\ \A v \in Writers \ {w} : at[v] \notin Swapping
    BY <1>3, Alone DEF BackUp
  <2>2. QED
    BY <1>3, <2>1 DEF BackUp
<1>4. ASSUME NEW w \in Writers, Commit(w) PROVE LatestInv'
  <2>1. ~overlapped /\ \A v \in Writers \ {w} : at[v] \notin Swapping
    BY <1>4, Alone DEF Commit
  <2>2. QED
    BY <1>4, <2>1 DEF Commit
<1>5. ASSUME NEW w \in Writers, CommitFails(w) PROVE LatestInv'
  BY <1>5 DEF CommitFails
<1>6. ASSUME NEW w \in Writers, DropBackup(w) PROVE LatestInv'
  <2>1. ~overlapped /\ \A v \in Writers \ {w} : at[v] \notin Swapping
    BY <1>6, Alone DEF DropBackup
  <2>2. QED
    BY <1>6, <2>1 DEF DropBackup
<1>7. ASSUME NEW w \in Writers, Restore(w) PROVE LatestInv'
  <2>1. ~overlapped /\ \A v \in Writers \ {w} : at[v] \notin Swapping
    BY <1>7, Alone DEF Restore
  <2>2. QED
    BY <1>7, <2>1 DEF Restore
<1>8. ASSUME NEW w \in Writers, SwapFails(w) PROVE LatestInv'
  BY <1>8 DEF SwapFails
<1>9. ASSUME NEW w \in Writers, Record(w) \/ RecordFails(w) PROVE LatestInv'
  <2>1. CASE Record(w)
    <3>1. ~overlapped
      BY <2>1, Alone DEF Record
    <3>2. QED
      BY <2>1, <3>1 DEF Record
  <2>2. CASE RecordFails(w)
    BY <2>2 DEF RecordFails
  <2>3. QED
    BY <1>9, <2>1, <2>2
<1>10. ASSUME NEW w \in Writers, Rollback(w) PROVE LatestInv'
  <2>1. ~overlapped /\ \A v \in Writers \ {w} : at[v] \notin Swapping
    BY <1>10, Alone DEF Rollback
  <2>2. QED
    BY <1>10, <2>1 DEF Rollback
<1>11. CASE FileCrash
  BY <1>11 DEF FileCrash
<1>12. CASE UNCHANGED fileVars
  BY <1>12 DEF fileVars
<1>13. QED
  BY <1>1, <1>2, <1>3, <1>4, <1>5, <1>6, <1>7, <1>8, <1>9, <1>10, <1>11, <1>12
     DEF FileNext, WriterStep

(* What was written last is at the destination or in a backup after every  *)
(* failure, interruption or crash of writers that do not overlap.          *)
THEOREM LatestSurvives == FileSpec => []CurrentSurvives
<1>1. FileInit => FileTypeOK /\ PlaceInv /\ LatestInv
  BY FileStart
<1>2. FileTypeOK /\ PlaceInv /\ LatestInv /\ [FileNext]_fileVars
        => FileTypeOK' /\ PlaceInv' /\ LatestInv'
  BY PlaceStep, FileOthersTyped, LatestStep, FileTypeParts
<1>3. LatestInv => CurrentSurvives
  BY DEF LatestInv, CurrentSurvives
<1>4. QED
  BY <1>1, <1>2, <1>3, PTL DEF FileSpec
-------------------------------------------------------------------------------
(***************************************************************************)
(* The content of a writer that runs is where PlaceInv and LatestInv say;  *)
(* that of one that has crashed is moved about by the others only.         *)
(***************************************************************************)
Kept(w) ==
  \/ source[w] = w \/ temp[w] = w \/ w \in superseded
  \/ overlapped \/ destination = w \/ \E v \in Writers : backup[v] = w

CrashedKept == \A w \in Writers : at[w] = "crashed" => Kept(w)

\* A writer that runs has its content.
LEMMA RunningKept ==
  ASSUME FileTypes, PlaceInv, LatestInv, NEW w \in Writers, at[w] \in Running
  PROVE  Kept(w)
BY DEF FileTypes, PlaceInv, LatestInv, Kept, Staging, Placed, Running, Swapping

\* Every step keeps the content of writers that have crashed.
LEMMA KeptStep ==
  ASSUME FileTypes, PlaceInv, LatestInv, CrashedKept, [FileNext]_fileVars PROVE CrashedKept'
<1> SUFFICES ASSUME NEW w \in Writers, at'[w] = "crashed", ~overlapped' PROVE Kept(w)'
  BY DEF CrashedKept, Kept
<1> USE FileAssumption DEF FileTypes, PlaceInv, LatestInv, DestinationWhole, CrashedKept, Kept,
                           Goes, FileContents, Running
<1>1. CASE FileCrash
  <2>1. at[w] \in Running \cup {"crashed"}
    BY <1>1 DEF FileCrash
  <2>2. Kept(w)
    BY <2>1, RunningKept
  <2>3. QED
    BY <1>1, <2>2 DEF FileCrash
<1>2. ASSUME NEW v \in Writers, WriterStep(v) PROVE Kept(w)'
  <2>1. v # w /\ at[w] = "crashed" /\ Kept(w)
    BY <1>2 DEF WriterStep, Begin, StageRename, StageCopy, Copied, RemoveSource, StageFails,
                Unstage, Stat, BackUp, Commit, CommitFails, DropBackup, Restore, SwapFails,
                Cleanup, Record, RecordFails, Rollback
  <2>2. CASE \/ Begin(v) \/ StageRename(v) \/ StageCopy(v) \/ Copied(v) \/ RemoveSource(v)
             \/ StageFails(v) \/ Unstage(v) \/ CommitFails(v) \/ SwapFails(v) \/ Cleanup(v)
             \/ RecordFails(v)
    <3>1. UNCHANGED <<destination, backup, superseded, overlapped>>
      BY <2>2, Zenon DEF Begin, StageRename, StageCopy, Copied, RemoveSource, StageFails, Unstage,
                         CommitFails, SwapFails, Cleanup, RecordFails, content, history
    <3>2. source'[w] = source[w] /\ temp'[w] = temp[w]
      BY <2>1, <2>2 DEF Begin, StageRename, StageCopy, Copied, CopyWhole, RemoveSource,
                        StageFails, Unstage, CommitFails, SwapFails, Cleanup, RecordFails
    <3>3. ~overlapped
      BY <3>1, Zenon
    <3>4. QED
      BY <2>1, <3>1, <3>2, <3>3
  <2>3. CASE Stat(v) \/ Record(v)
    <3>1. ~overlapped
      BY <2>3, Alone DEF Stat, Record
    <3>2. UNCHANGED <<destination, source, temp, backup, superseded>>
      BY <2>3, Zenon DEF Stat, Record, content, history
    <3>3. QED
      BY <2>1, <3>1, <3>2
  <2>4. CASE BackUp(v)
    <3>1. ~overlapped
      BY <2>4, Alone DEF BackUp
    <3>2. QED
      BY <2>1, <2>4, <3>1 DEF BackUp, Staging
  <2>5. CASE Commit(v)
    <3>1. ~overlapped
      BY <2>5, Alone DEF Commit
    <3>2. QED
      BY <2>1, <2>5, <3>1 DEF Commit
  <2>6. CASE DropBackup(v)
    <3>1. ~overlapped
      BY <2>6, Alone DEF DropBackup
    <3>2. QED
      BY <2>1, <2>6, <3>1 DEF DropBackup
  <2>7. CASE Restore(v)
    <3>1. ~overlapped
      BY <2>7, Alone DEF Restore
    <3>2. CASE UNCHANGED <<destination, backup>>
      BY <2>1, <2>7, <3>1, <3>2 DEF Restore
    <3>3. CASE /\ destination' = backup[v]
               /\ backup' = [backup EXCEPT ![v] = NoFile]
      <4>1. backup[v] = latest /\ destination \in {NoFile, latest}
        BY <2>7, <3>1 DEF Restore
      <4>2. CASE destination = w
        BY <2>1, <2>7, <3>1, <3>3, <4>1, <4>2 DEF Restore
      <4>3. CASE \E u \in Writers : backup[u] = w
        BY <2>1, <2>7, <3>1, <3>3, <4>3 DEF Restore
      <4>4. QED
        BY <2>1, <2>7, <3>1, <4>2, <4>3 DEF Restore
    <3>4. QED
      BY <2>7, <3>2, <3>3 DEF Restore
  <2>8. CASE Rollback(v)
    <3>1. ~overlapped
      BY <2>8, Alone DEF Rollback
    <3>2. QED
      BY <2>1, <2>8, <3>1 DEF Rollback, Placed
  <2>9. QED
    BY <1>2, <2>2, <2>3, <2>4, <2>5, <2>6, <2>7, <2>8 DEF WriterStep
<1>3. CASE UNCHANGED fileVars
  BY <1>3 DEF fileVars
<1>4. QED
  BY <1>1, <1>2, <1>3 DEF FileNext

(* A crash leaves the content of every writer in a file or superseded.     *)
THEOREM ContentKept == FileSpec => []CrashKeepsContent
<1>1. FileInit => FileTypeOK /\ PlaceInv /\ LatestInv /\ CrashedKept
  BY FileStart DEF FileInit, CrashedKept
<1>2. FileTypeOK /\ PlaceInv /\ LatestInv /\ CrashedKept /\ [FileNext]_fileVars
        => FileTypeOK' /\ PlaceInv' /\ LatestInv' /\ CrashedKept'
  BY PlaceStep, FileOthersTyped, LatestStep, KeptStep, FileTypeParts
<1>3. FileTypeOK /\ PlaceInv /\ LatestInv /\ CrashedKept => CrashKeepsContent
  BY RunningKept, FileTypeParts, Zenon DEF CrashedKept, CrashKeepsContent, Kept
<1>4. QED
  BY <1>1, <1>2, <1>3, PTL DEF FileSpec
===============================================================================
