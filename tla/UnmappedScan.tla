------------------------------ MODULE UnmappedScan ------------------------------
(***************************************************************************)
(* Matching the folders of the library roots that belong to no media       *)
(* (features/operations/unmapped): the lease of UnmappedScanCoordinator    *)
(* (tasks/task-coordinators.ts), the scan loop it is handed to             *)
(* (unmapped-scan-service.ts), the requests that pause, resume, reset or   *)
(* refresh folders meanwhile (unmapped-control-service.ts), the listing of *)
(* the folders, which stores new ones, and the journal row of the job      *)
(* (background-job-runner.ts).                                             *)
(*                                                                         *)
(* A row of unmapped_folder_matches is its match_status and match_attempts *)
(* here; suggestions are left out.  Everybody loads rows first and writes  *)
(* them back later.  All folders are in the roots all the time.            *)
(***************************************************************************)
EXTENDS Naturals

CONSTANTS
  Folders,
  MaxAttempts,      \* MAX_UNMAPPED_FOLDER_MATCH_ATTEMPTS
  Starters,         \* tasks that run runUnmappedScan
  NoFolder,
  MaxScanRequests,  \* bound on starts, control requests and listings
  MaxScanFaults     \* bound on database errors and crashes

ASSUME ScanAssumption ==
  /\ NoFolder \notin Folders
  /\ MaxAttempts \in Nat \ {0}
  /\ MaxScanRequests \in Nat /\ MaxScanFaults \in Nat

VARIABLES
  rows,        \* rows[f]: the row of f
  lease,       \* runningRef
  starting,    \* starters between the acquisition of the lease and the fork of the loop
  loop,        \* where the loop is
  snap,        \* the rows as the pass has loaded and prepared them
  pausedThen,  \* folders the pass has found paused
  targets,     \* folders the pass has yet to match
  matching,    \* the folder it matches
  jobRunning,  \* is_running of the job row
  jobLost,     \* the end of a run could not be recorded
  request, writes, refreshing,  \* the control request: phase, rows it is to write, its folder
  scanRequests, scanFaults

passVars == <<snap, pausedThen, targets, matching>>
jobVars == <<jobRunning, jobLost>>
controls == <<request, writes, refreshing>>
scanVars == <<rows, lease, starting, loop, snap, pausedThen, targets, matching, jobRunning, jobLost,
              request, writes, refreshing, scanRequests, scanFaults>>

MatchStatuses == {"none", "pending", "matching", "done", "failed", "paused"}
MatchRows == [status : MatchStatuses, attempts : Nat]
NoRow == [status |-> "none", attempts |-> 0]

ScanTypeOK ==
  /\ rows \in [Folders -> MatchRows]
  /\ lease \in BOOLEAN /\ starting \subseteq Starters
  /\ loop \in {"none", "begin", "load", "save", "target", "match", "record", "sleep", "finish"}
  /\ snap \in [Folders -> MatchRows]
  /\ pausedThen \subseteq Folders /\ targets \subseteq Folders
  /\ matching \in Folders \cup {NoFolder} /\ (matching \in Folders <=> loop = "match")
  /\ jobRunning \in BOOLEAN /\ jobLost \in BOOLEAN
  /\ request \in {"idle", "write", "refresh", "load", "mark", "match"}
  /\ DOMAIN writes \subseteq Folders /\ \A f \in DOMAIN writes : writes[f] \in MatchRows
  /\ refreshing \in Folders \cup {NoFolder}
  /\ request \in {"refresh", "load", "mark", "match"} => refreshing \in Folders
  /\ request \in {"mark", "match"} => refreshing \in DOMAIN writes
  /\ scanRequests \in 0..MaxScanRequests /\ scanFaults \in 0..MaxScanFaults

Unprepared == [f \in Folders |-> NoRow]
NoWrites == [f \in {} |-> NoRow]

ScanInit ==
  /\ rows = Unprepared
  /\ lease = FALSE /\ starting = {}
  /\ loop = "none"
  /\ snap = Unprepared /\ pausedThen = {} /\ targets = {} /\ matching = NoFolder
  /\ jobRunning = FALSE /\ jobLost = FALSE
  /\ request = "idle" /\ writes = NoWrites /\ refreshing = NoFolder
  /\ scanRequests = 0 /\ scanFaults = 0

ScanRequest == scanRequests < MaxScanRequests /\ scanRequests' = scanRequests + 1
ScanFault == scanFaults < MaxScanFaults /\ scanFaults' = scanFaults + 1
-------------------------------------------------------------------------------
(***************************************************************************)
(* Rows (unmapped-folders.ts, unmapped-folder-list-support.ts).            *)
(***************************************************************************)
As(row, status) == [row EXCEPT !.status = status]
Fresh == [status |-> "pending", attempts |-> 0]
Matched == [status |-> "done", attempts |-> 0]
Uncounted(row) == As(row, "failed")  \* mutant
Unmatched(row) == [status |-> "failed", attempts |-> row.attempts + 1]

RetryLeft(row) == row.status = "failed" /\ row.attempts < MaxAttempts

\* prepareUnmappedFoldersForScan: what a pass is to match is pending afterwards.
PrepareAll(row) == IF row.status = "done" THEN row ELSE As(row, "pending")  \* mutant
Prepare(row) ==
  IF row.status \in {"done", "paused"} \/ (row.status = "failed" /\ ~RetryLeft(row))
  THEN row ELSE As(row, "pending")

Prepared == [f \in Folders |-> Prepare(rows[f])]
QueuedIn(table) == {f \in Folders : table[f].status = "pending"}
-------------------------------------------------------------------------------
(***************************************************************************)
(* withUnmappedScanLease, startUnmappedScanLoop.  A start while the lease  *)
(* is held is answered as if there were nothing to do.                     *)
(***************************************************************************)
Start(s) ==
  /\ s \notin starting
  /\ ScanRequest
  /\ IF lease
     THEN UNCHANGED <<lease, starting>>
     ELSE lease' = TRUE /\ starting' = starting \cup {s}
  /\ UNCHANGED <<rows, loop, passVars, jobVars, controls, scanFaults>>

\* The loop is forked and keeps the lease, or there is nothing to match.
KeepsLease(s) == lease' = lease  \* mutant
GivesBack(s) == lease' = FALSE

Launch(s) ==
  /\ s \in starting
  /\ starting' = starting \ {s}
  /\ IF QueuedIn(Prepared) = {}
     THEN GivesBack(s) /\ UNCHANGED loop
     ELSE loop' = "begin" /\ UNCHANGED lease
  /\ UNCHANGED <<rows, passVars, jobVars, controls, scanRequests, scanFaults>>

LaunchFails(s) ==
  /\ s \in starting
  /\ ScanFault
  /\ starting' = starting \ {s}
  /\ GivesBack(s)
  /\ UNCHANGED <<rows, loop, passVars, jobVars, controls, scanRequests>>
-------------------------------------------------------------------------------
(***************************************************************************)
(* runUnmappedScanPass, over and over until a pass finds nothing to match. *)
(***************************************************************************)
\* markStarted.
PassBegins ==
  /\ loop = "begin"
  /\ jobRunning' = TRUE
  /\ loop' = "load"
  /\ UNCHANGED <<rows, lease, starting, passVars, jobLost, controls, scanRequests, scanFaults>>

PassLoads ==
  /\ loop = "load"
  /\ snap' = Prepared
  /\ pausedThen' = {f \in Folders : rows[f].status = "paused"}
  /\ loop' = "save"
  /\ UNCHANGED <<rows, lease, starting, targets, matching, jobVars, controls, scanRequests,
                 scanFaults>>

\* upsertMatchRows(queuedFolders) writes all rows back as they were loaded.
PassSaves ==
  /\ loop = "save"
  /\ rows' = snap
  /\ targets' = QueuedIn(snap)
  /\ loop' = IF QueuedIn(snap) = {} THEN "finish" ELSE "target"
  /\ UNCHANGED <<lease, starting, snap, pausedThen, matching, jobVars, controls, scanRequests,
                 scanFaults>>

\* updateProgress, markUnmappedFolderMatching; then AniList is asked.
PassTakes(f) ==
  /\ loop = "target"
  /\ f \in targets
  /\ targets' = targets \ {f}
  /\ matching' = f
  /\ jobRunning' = TRUE
  /\ rows' = [rows EXCEPT ![f] = As(snap[f], "matching")]
  /\ loop' = "match"
  /\ UNCHANGED <<lease, starting, snap, pausedThen, jobLost, controls, scanRequests, scanFaults>>

Forgotten == matching' = NoFolder

\* matchAndPersistUnmappedFolder.  A folder that cannot be matched ends the pass.
PassMatches ==
  /\ loop = "match"
  /\ \/ rows' = [rows EXCEPT ![matching] = Matched] /\ UNCHANGED targets
     \/ rows' = [rows EXCEPT ![matching] = Unmatched(snap[matching])] /\ targets' = {}
  /\ Forgotten
  /\ loop' = "record"
  /\ UNCHANGED <<lease, starting, snap, pausedThen, jobVars, controls, scanRequests, scanFaults>>

\* markSucceeded or markFailed for the folder.
PassRecords ==
  /\ loop = "record"
  /\ jobRunning' = FALSE
  /\ loop' = IF targets = {} THEN "sleep" ELSE "target"
  /\ UNCHANGED <<rows, lease, starting, passVars, jobLost, controls, scanRequests, scanFaults>>

\* Three seconds later.
PassSleeps ==
  /\ loop = "sleep"
  /\ loop' = "begin"
  /\ UNCHANGED <<rows, lease, starting, passVars, jobVars, controls, scanRequests, scanFaults>>

\* markSucceeded, ScanFinished, completeUnmappedScan.
JobLeftRunning == UNCHANGED jobRunning  \* mutant
JobEnds == jobRunning' = FALSE

LoopEnds == loop' = "none" /\ lease' = FALSE

PassFinds ==
  /\ loop = "finish"
  /\ JobEnds
  /\ LoopEnds
  /\ UNCHANGED <<rows, starting, passVars, jobLost, controls, scanRequests, scanFaults>>

\* A statement or the listing of a root fails, and maybe markFailed too: the loop is over.
PassDies ==
  /\ loop \in {"begin", "load", "save", "target", "match", "record", "finish"}
  /\ ScanFault
  /\ \/ jobRunning' = FALSE /\ UNCHANGED jobLost
     \/ jobLost' = TRUE /\ UNCHANGED jobRunning
  /\ LoopEnds
  /\ targets' = {} /\ matching' = NoFolder
  /\ UNCHANGED <<rows, starting, snap, pausedThen, controls, scanRequests>>

LoopStep ==
  \/ PassBegins \/ PassLoads \/ PassSaves \/ PassMatches \/ PassRecords \/ PassSleeps
  \/ PassFinds \/ \E f \in Folders : PassTakes(f)
-------------------------------------------------------------------------------
(***************************************************************************)
(* controlUnmappedFolder, bulkControlUnmappedFolders, getUnmappedFolders:  *)
(* rows are loaded, and what is to become of them is written.              *)
(***************************************************************************)
Writes(written, phase) ==
  /\ request = "idle"
  /\ DOMAIN written # {}
  /\ writes' = written
  /\ request' = phase
  /\ ScanRequest
  /\ UNCHANGED <<rows, lease, starting, loop, passVars, jobVars, scanFaults>>

InStatus(status) == {f \in Folders : rows[f].status = status}
Setting(chosen, status) == [f \in chosen |-> As(rows[f], status)]
Resetting(chosen) == [f \in chosen |-> Fresh]

\* A folder that is matched at the moment is refused.
Control(f) ==
  /\ rows[f].status \notin {"none", "matching"}
  /\ \/ Writes(Setting({f}, "paused"), "write") /\ UNCHANGED refreshing
     \/ Writes(Setting({f}, "pending"), "write") /\ UNCHANGED refreshing
     \/ Writes(Resetting({f}), "write") /\ UNCHANGED refreshing
     \/ Writes(Resetting({f}), "refresh") /\ refreshing' = f

BulkControl ==
  /\ \/ Writes(Setting(InStatus("pending"), "paused"), "write")
     \/ Writes(Setting(InStatus("paused"), "pending"), "write")
     \/ Writes(Resetting(InStatus("failed")), "write")
  /\ UNCHANGED refreshing

\* New folders are stored as pending.
ListFolders == Writes(Resetting(InStatus("none")), "write") /\ UNCHANGED refreshing

ControlWrites ==
  /\ request \in {"write", "refresh"}
  /\ rows' = [f \in Folders |-> IF f \in DOMAIN writes THEN writes[f] ELSE rows[f]]
  /\ writes' = NoWrites
  /\ request' = IF request = "refresh" THEN "load" ELSE "idle"
  /\ UNCHANGED <<lease, starting, loop, passVars, jobVars, refreshing, scanRequests, scanFaults>>

\* refreshFolderMatch matches the folder itself, without the lease.
RefreshLoads ==
  /\ request = "load"
  /\ writes' = [f \in {refreshing} |-> rows[f]]
  /\ request' = "mark"
  /\ UNCHANGED <<rows, lease, starting, loop, passVars, jobVars, refreshing, scanRequests,
                 scanFaults>>

RefreshMarks ==
  /\ request = "mark"
  /\ rows' = [rows EXCEPT ![refreshing] = As(writes[refreshing], "matching")]
  /\ request' = "match"
  /\ UNCHANGED <<lease, starting, loop, passVars, jobVars, writes, refreshing, scanRequests,
                 scanFaults>>

RefreshMatches ==
  /\ request = "match"
  /\ \/ rows' = [rows EXCEPT ![refreshing] = Matched]
     \/ rows' = [rows EXCEPT ![refreshing] = Unmatched(writes[refreshing])]
  /\ request' = "idle" /\ writes' = NoWrites /\ refreshing' = NoFolder
  /\ UNCHANGED <<lease, starting, loop, passVars, jobVars, scanRequests, scanFaults>>

RequestStep == ControlWrites \/ RefreshLoads \/ RefreshMarks \/ RefreshMatches

\* Bootstrap runs clearStaleRunningJobs; rows stay as they are.
ScanCrash ==
  /\ ScanFault
  /\ lease' = FALSE /\ starting' = {} /\ loop' = "none"
  /\ snap' = Unprepared /\ pausedThen' = {} /\ targets' = {} /\ matching' = NoFolder
  /\ jobRunning' = FALSE /\ jobLost' = FALSE
  /\ request' = "idle" /\ writes' = NoWrites /\ refreshing' = NoFolder
  /\ UNCHANGED <<rows, scanRequests>>

ScanNext ==
  \/ \E s \in Starters : Start(s) \/ Launch(s) \/ LaunchFails(s)
  \/ LoopStep \/ PassDies
  \/ (\E f \in Folders : Control(f)) \/ BulkControl \/ ListFolders
  \/ RequestStep \/ ScanCrash

ScanSpec == ScanInit /\ [][ScanNext]_scanVars

ScanFairness ==
  /\ \A s \in Starters : WF_scanVars(Launch(s))
  /\ WF_scanVars(LoopStep)
  /\ WF_scanVars(RequestStep)
ScanFairSpec == ScanSpec /\ ScanFairness
-------------------------------------------------------------------------------
(***************************************************************************)
(* Properties.                                                             *)
(***************************************************************************)

(* The lease goes with exactly one scan: who holds it loads what there is  *)
(* to match or is the loop, and when neither runs it is free, however they *)
(* ended (withUnmappedScanLease, keepLease).                               *)
OneScan ==
  /\ \A s, t \in starting : s = t
  /\ starting # {} => loop = "none"
  /\ lease <=> (starting # {} \/ loop # "none")

(* No scan, no running job: is_scanning of the listing does not stay true  *)
(* once the loop has ended, unless that could not be recorded.             *)
JobRowHonest == loop = "none" /\ ~jobLost => ~jobRunning

(* A pass leaves the folders alone that it found paused; only a request    *)
(* resumes them.                                                           *)
PauseRespected ==
  [][\A f \in pausedThen :
       rows[f].status = "paused" /\ rows'[f].status # "paused" => loop' = loop]_scanVars

(* The loop ends: a folder that can never be matched is given up after     *)
(* MaxAttempts, and the lease is free for the next scan.                   *)
ScanEnds == lease ~> ~lease
===============================================================================
