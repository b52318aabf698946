----------------------------- MODULE DownloadQueue -----------------------------
(***************************************************************************)
(* The status of the rows of table downloads: queueing                     *)
(* (download-queue-support.ts, called by download-trigger-service.ts and   *)
(* background-search-queue-service.ts under DownloadTriggerGate), the      *)
(* torrent sync pass (download-torrent-sync-service.ts), the actions of a  *)
(* user (download-torrent-action-service.ts), all in                       *)
(* features/operations/download, and the statements of                     *)
(* repository/download-repository.ts they run.                             *)
(*                                                                         *)
(* Everybody reads a row or asks qBittorrent first and writes later, and   *)
(* only those who queue take the gate.  The import of a completed download *)
(* is one step here (DownloadReconciliation has its steps).                *)
(*                                                                         *)
(* A release is identified with its info hash.  Row ids grow, so that the  *)
(* first row of a hash is the oldest.  Between two actions of a fiber all  *)
(* others may run.                                                         *)
(***************************************************************************)
EXTENDS Naturals, FiniteSets

CONSTANTS
  Ids,          \* ids of download rows, in the order of insertion
  Releases,     \* info hashes
  Units,        \* units of one media entry
  Contents,     \* Contents[h]: units of the files of release h
  Batches,      \* releases queued as a batch
  Deferred,     \* batches whose title tells no units: covered_units is left empty
  Triggers,     \* fibers that queue: trigger requests and background searches
  Actors,       \* fibers of pause, resume, delete and retry requests
  NoRelease, NoId,
  MaxRequests,  \* bound on the requests of actors and for a reconciliation
  Faults,       \* kinds of fault that may happen
  MaxFaults     \* bound on the number of faults

InFlight == {"queued", "downloading", "paused"}
TorrentStates == {"downloading", "paused", "completed", "error"}
Statuses == InFlight \cup TorrentStates \cup {"absent", "failed", "imported"}

ASSUME QueueAssumption ==
  /\ Ids \subseteq Nat
  /\ Contents \in [Releases -> SUBSET Units]
  /\ Deferred \subseteq Batches /\ Batches \subseteq Releases
  /\ NoRelease \notin Releases /\ NoId \notin Ids
  /\ Faults \subseteq {"add", "call", "db", "import", "disabled", "torrent", "crash"}
  /\ MaxRequests \in Nat /\ MaxFaults \in Nat

VARIABLES
  \* the table downloads
  release,      \* release[i]: info_hash of row i, NoRelease before its insertion
  status,       \* status[i]: "absent" before the insertion and after the deletion
  covered,      \* covered[i]: covered_units
  reconciled,   \* rows with a timestamp in reconciled_at
  old,          \* rows with a last_synced_at before STALE_QUEUED_THRESHOLD_MS
  \* qBittorrent
  torrents,     \* torrents[h]: state as mapQBitState maps it, or "absent"
  \* fibers
  tpc, chosen, inserted, granted,  \* of a trigger: phase, release, new row, its status
  apc, target, seen,               \* of an actor: phase, row id, the status it loaded
  syncPhase,    \* of the sync pass, alone under syncSemaphore
  plan,         \* plan[h]: what the pass is about to write to the rows of h
  toRefine,     \* rows whose coverage the pass has yet to refine
  toReconcile,  \* hashes the pass has yet to reconcile
  \* history and bounds
  reentered,    \* rows that came to be in flight, or to cover more, otherwise than by queueing
  requests, faults

table == <<release, status, covered, reconciled, old, reentered>>
trigger == <<tpc, chosen, inserted, granted>>
actor == <<apc, target, seen>>
sync == <<syncPhase, plan, toRefine, toReconcile>>
queueVars == <<release, status, covered, reconciled, old, torrents, tpc, chosen, inserted,
               granted, apc, target, seen, syncPhase, plan, toRefine, toReconcile,
               reentered, requests, faults>>

Present(i) == status[i] # "absent"
IsInFlight(i) == status[i] \in InFlight
RowsOf(h) == {i \in Ids : Present(i) /\ release[i] = h}
Oldest(h, i) == i \in RowsOf(h) /\ \A j \in RowsOf(h) : i <= j
Newest(h, i) == i \in RowsOf(h) /\ \A j \in RowsOf(h) : j <= i
NextId(i) == release[i] = NoRelease /\ \A j \in Ids : release[j] = NoRelease => i <= j

NoFault == UNCHANGED faults
Fault(kind) ==
  /\ kind \in Faults
  /\ faults < MaxFaults
  /\ faults' = faults + 1
Request == requests < MaxRequests /\ requests' = requests + 1

TableTypeOK ==
  /\ release \in [Ids -> Releases \cup {NoRelease}]
  /\ status \in [Ids -> Statuses]
  /\ covered \in [Ids -> SUBSET Units]
  /\ reconciled \subseteq Ids /\ old \subseteq Ids /\ reentered \subseteq Ids
  /\ \A i \in Ids : release[i] = NoRelease => status[i] = "absent"
  /\ \A i \in Ids : status[i] = "absent" => covered[i] = {} /\ i \notin reconciled \cup old

TriggerTypeOK ==
  /\ tpc \in [Triggers -> {"idle", "units", "insert", "add", "drop", "finalize"}]
  /\ chosen \in [Triggers -> Releases \cup {NoRelease}]
  /\ inserted \in [Triggers -> Ids \cup {NoId}]
  /\ granted \in [Triggers -> {"queued", "downloading"}]
  /\ \A q \in Triggers : tpc[q] # "idle" => chosen[q] \in Releases
  /\ \A q \in Triggers : tpc[q] \in {"add", "drop", "finalize"} => inserted[q] \in Ids

ActorTypeOK ==
  /\ apc \in [Actors -> {"idle", "pause", "resume", "delete", "retry",
                         "write", "remove", "rewrite"}]
  /\ target \in [Actors -> Ids \cup {NoId}]
  /\ seen \in [Actors -> Statuses]
  /\ \A a \in Actors : apc[a] # "idle" =>
       target[a] \in Ids /\ release[target[a]] \in Releases /\ seen[a] # "absent"

SyncTypeOK ==
  /\ syncPhase \in {"idle", "rows", "write", "fail", "refine", "reconcile"}
  /\ plan \in [Releases -> TorrentStates \cup {"absent", "imported"}]
  /\ toRefine \subseteq Ids /\ toReconcile \subseteq Releases

QueueTypeOK ==
  /\ TableTypeOK /\ TriggerTypeOK /\ ActorTypeOK /\ SyncTypeOK
  /\ torrents \in [Releases -> TorrentStates \cup {"absent"}]
  /\ requests \in 0..MaxRequests /\ faults \in 0..MaxFaults

Nothing == [h \in Releases |-> "absent"]

QueueInit ==
  /\ release = [i \in Ids |-> NoRelease]
  /\ status = [i \in Ids |-> "absent"]
  /\ covered = [i \in Ids |-> {}]
  /\ reconciled = {} /\ old = {} /\ reentered = {}
  /\ torrents = Nothing
  /\ tpc = [q \in Triggers |-> "idle"]
  /\ chosen = [q \in Triggers |-> NoRelease]
  /\ inserted = [q \in Triggers |-> NoId]
  /\ granted = [q \in Triggers |-> "queued"]
  /\ apc = [a \in Actors |-> "idle"]
  /\ target = [a \in Actors |-> NoId]
  /\ seen = [a \in Actors |-> "absent"]
  /\ syncPhase = "idle" /\ plan = Nothing /\ toRefine = {} /\ toReconcile = {}
  /\ requests = 0 /\ faults = 0
-------------------------------------------------------------------------------
(***************************************************************************)
(* Writing a status.  The partial unique index on info_hash refuses a      *)
(* statement after which two rows of a hash would be in flight.            *)
(***************************************************************************)
Conflicts(after) ==
  \E i, j \in Ids : /\ i # j
                    /\ release[i] = release[j]
                    /\ after[i] \in InFlight /\ after[j] \in InFlight

WriteStatus(after) ==
  /\ ~Conflicts(after)
  /\ status' = after
  /\ reentered' = reentered \cup {i \in Ids : ~IsInFlight(i) /\ after[i] \in InFlight}

\* UPDATE ... WHERE id = i finds no row once the row is deleted.
With(i, s) == IF Present(i) THEN [status EXCEPT ![i] = s] ELSE status

\* DELETE ... WHERE id = i: of the row only its id stays used.
CoverageKept(i) == UNCHANGED covered  \* mutant
Uncover(i) == covered' = [covered EXCEPT ![i] = {}]

Delete(i) ==
  /\ status' = [status EXCEPT ![i] = "absent"]
  /\ Uncover(i)
  /\ reconciled' = reconciled \ {i}
  /\ old' = old \ {i}
  /\ reentered' = reentered \ {i}
  /\ UNCHANGED release
-------------------------------------------------------------------------------
(***************************************************************************)
(* queueDownload, with the gate held from its first to its last step.      *)
(***************************************************************************)
GateOpenAlways == TRUE  \* mutant
GateOpen == \A q \in Triggers : tpc[q] = "idle"
StartUnits(h) == IF h \in Deferred THEN {} ELSE Contents[h]

TriggerGoTo(q, phase) == tpc' = [tpc EXCEPT ![q] = phase]
LeaveGate(q) ==
  /\ TriggerGoTo(q, "idle")
  /\ chosen' = [chosen EXCEPT ![q] = NoRelease]
  /\ inserted' = [inserted EXCEPT ![q] = NoId]
  /\ granted' = [granted EXCEPT ![q] = "queued"]

\* hasOverlappingDownload, first half: the oldest row of the hash is not in flight.
Trigger(q, h) ==
  /\ GateOpen
  /\ tpc[q] = "idle"
  /\ \E i \in Ids : release[i] = NoRelease
  /\ \A i \in Ids : Oldest(h, i) => ~IsInFlight(i)
  /\ chosen' = [chosen EXCEPT ![q] = h]
  /\ TriggerGoTo(q, "units")
  /\ NoFault
  /\ UNCHANGED <<table, torrents, inserted, granted, actor, sync, requests>>

\* Second half: no row in flight covers a unit of the release.
Overlaps(h) == \E i \in Ids : IsInFlight(i) /\ covered[i] \cap StartUnits(h) # {}

CheckUnits(q) ==
  /\ tpc[q] = "units"
  /\ IF Overlaps(chosen[q])
     THEN LeaveGate(q)
     ELSE TriggerGoTo(q, "insert") /\ UNCHANGED <<chosen, inserted, granted>>
  /\ NoFault
  /\ UNCHANGED <<table, torrents, actor, sync, requests>>

\* insertQueuedDownloadRow: a violation of the index ends the request.
Insert(q) ==
  /\ tpc[q] = "insert"
  /\ IF \E i \in RowsOf(chosen[q]) : IsInFlight(i)
     THEN LeaveGate(q) /\ UNCHANGED table
     ELSE \E i \in Ids :
            /\ NextId(i)
            /\ release' = [release EXCEPT ![i] = chosen[q]]
            /\ status' = [status EXCEPT ![i] = "queued"]
            /\ covered' = [covered EXCEPT ![i] = StartUnits(chosen[q])]
            /\ old' = old \ {i}
            /\ inserted' = [inserted EXCEPT ![q] = i]
            /\ TriggerGoTo(q, "add")
            /\ UNCHANGED <<reconciled, reentered, chosen, granted>>
  /\ NoFault
  /\ UNCHANGED <<torrents, actor, sync, requests>>

\* qBittorrent accepts the magnet, one it has already too.
Accept(h) == torrents' = [torrents EXCEPT ![h] = IF @ = "absent" THEN "downloading" ELSE @]

\* addTorrentUrlIfEnabled.  It is refused or its answer is lost: the row is deleted.
Add(q) ==
  /\ tpc[q] = "add"
  /\ \/ /\ Accept(chosen[q])
        /\ granted' = [granted EXCEPT ![q] = "downloading"]
        /\ TriggerGoTo(q, "finalize")
        /\ NoFault
     \/ /\ Fault("disabled")
        /\ TriggerGoTo(q, "finalize")
        /\ UNCHANGED <<torrents, granted>>
     \/ /\ Fault("add")
        /\ Accept(chosen[q]) \/ UNCHANGED torrents
        /\ TriggerGoTo(q, "drop")
        /\ UNCHANGED granted
  /\ UNCHANGED <<table, chosen, inserted, actor, sync, requests>>

\* deleteDownloadRow, whose failure is only logged.
DropRow(q) ==
  /\ tpc[q] = "drop"
  /\ \/ Delete(inserted[q]) /\ NoFault
     \/ UNCHANGED table /\ Fault("db")
  /\ LeaveGate(q)
  /\ UNCHANGED <<torrents, actor, sync, requests>>

\* finalizeQueuedDownloadTx writes the status whatever it has become meanwhile.
Finalize(q) ==
  /\ tpc[q] = "finalize"
  /\ LET after == With(inserted[q], granted[q])
     IN  \/ WriteStatus(after) /\ NoFault
         \/ Conflicts(after) /\ NoFault /\ UNCHANGED <<status, reentered>>
         \/ Fault("db") /\ UNCHANGED <<status, reentered>>
  /\ LeaveGate(q)
  /\ UNCHANGED <<release, covered, reconciled, old, torrents, actor, sync, requests>>

TriggerStep(q) == CheckUnits(q) \/ Insert(q) \/ Add(q) \/ DropRow(q) \/ Finalize(q)
-------------------------------------------------------------------------------
(***************************************************************************)
(* applyDownloadActionEffect and retryDownloadById: load the row, call     *)
(* qBittorrent, write the row.  No gate.                                   *)
(***************************************************************************)
ActorDone(a) ==
  /\ apc' = [apc EXCEPT ![a] = "idle"]
  /\ target' = [target EXCEPT ![a] = NoId]
  /\ seen' = [seen EXCEPT ![a] = "absent"]

Load(a, action) ==
  /\ apc[a] = "idle"
  /\ \E i \in Ids :
       /\ Present(i)
       /\ target' = [target EXCEPT ![a] = i]
       /\ seen' = [seen EXCEPT ![a] = status[i]]
  /\ apc' = [apc EXCEPT ![a] = action]
  /\ Request
  /\ NoFault
  /\ UNCHANGED <<table, torrents, trigger, sync>>

\* The call moves the torrent; the answer says what to write.
Moved(h, from, to) ==
  torrents' = IF torrents[h] = from THEN [torrents EXCEPT ![h] = to] ELSE torrents

Call(a) ==
  /\ LET h == release[target[a]]
     IN  \/ /\ apc[a] = "pause"
            /\ Moved(h, "downloading", "paused")
            /\ seen' = [seen EXCEPT ![a] = "paused"]
            /\ apc' = [apc EXCEPT ![a] = "write"]
         \/ /\ apc[a] = "resume"
            /\ Moved(h, "paused", "downloading")
            /\ apc' = [apc EXCEPT ![a] = "write"]
            /\ UNCHANGED seen
         \/ /\ apc[a] = "delete"
            /\ torrents' = [torrents EXCEPT ![h] = "absent"]
            /\ apc' = [apc EXCEPT ![a] = "remove"]
            /\ UNCHANGED seen
         \/ /\ apc[a] = "retry"
            /\ Accept(h)
            /\ seen' = [seen EXCEPT ![a] = "downloading"]
            /\ apc' = [apc EXCEPT ![a] = "rewrite"]
  /\ NoFault
  /\ UNCHANGED <<table, trigger, target, sync, requests>>

\* With qBittorrent disabled a retry queues the row and a deletion goes on.
CallDisabled(a) ==
  /\ \/ /\ apc[a] = "retry"
        /\ seen' = [seen EXCEPT ![a] = "queued"]
        /\ apc' = [apc EXCEPT ![a] = "rewrite"]
        /\ UNCHANGED target
     \/ /\ apc[a] = "delete"
        /\ apc' = [apc EXCEPT ![a] = "remove"]
        /\ UNCHANGED <<target, seen>>
     \/ apc[a] \in {"pause", "resume"} /\ ActorDone(a)
  /\ Fault("disabled")
  /\ UNCHANGED <<table, torrents, trigger, sync, requests>>

CallFails(a) ==
  /\ apc[a] \in {"pause", "resume", "delete", "retry"}
  /\ Fault("call")
  /\ ActorDone(a)
  /\ UNCHANGED <<table, torrents, trigger, sync, requests>>

\* updateDownloadStatusWithEventTx (a pause or a resume) and updateDownloadRetryRow,
\* which makes last_synced_at new.
Write(a) ==
  /\ apc[a] \in {"write", "rewrite"}
  /\ LET after == With(target[a], seen[a])
     IN  \/ /\ WriteStatus(after)
            /\ old' = IF apc[a] = "rewrite" THEN old \ {target[a]} ELSE old
         \/ Conflicts(after) /\ UNCHANGED <<status, old, reentered>>
  /\ ActorDone(a)
  /\ NoFault
  /\ UNCHANGED <<release, covered, reconciled, torrents, trigger, sync, requests>>

\* deleteDownloadWithEventTx.
Remove(a) ==
  /\ apc[a] = "remove"
  /\ Delete(target[a])
  /\ ActorDone(a)
  /\ NoFault
  /\ UNCHANGED <<torrents, trigger, sync, requests>>

ActorStep(a) == Call(a) \/ Write(a) \/ Remove(a)
-------------------------------------------------------------------------------
(***************************************************************************)
(* syncDownloadsWithQBitEffect.  The statuses it writes come from the      *)
(* torrents and from the rows as they were listed before.                  *)
(***************************************************************************)
EndPass ==
  /\ syncPhase' = "idle"
  /\ plan' = Nothing
  /\ toRefine' = {}
  /\ toReconcile' = {}

\* An empty list ends the pass before it has done anything.
SyncList ==
  /\ syncPhase = "idle"
  /\ \E h \in Releases : torrents[h] # "absent"
  /\ plan' = torrents
  /\ syncPhase' = "rows"
  /\ NoFault
  /\ UNCHANGED <<table, torrents, trigger, actor, toRefine, toReconcile, requests>>

\* listDownloadsByInfoHashes: of the rows of a hash the map keeps the last one, which
\* says whether the release is imported and whether its coverage is to be refined.
Imported(h) == \E i \in reconciled : Newest(h, i)

SyncRows ==
  /\ syncPhase = "rows"
  /\ plan' = [h \in Releases |->
                IF plan[h] # "absent" /\ Imported(h) THEN "imported" ELSE plan[h]]
  /\ toRefine' = {i \in Ids \ reconciled : \E h \in Batches : plan[h] # "absent" /\ Newest(h, i)}
  /\ toReconcile' = {h \in Releases : plan[h] = "completed"}
  /\ syncPhase' = "write"
  /\ NoFault
  /\ UNCHANGED <<table, torrents, trigger, actor, requests>>

\* bulkUpdateTorrentSyncRows, one chunk: every row of a listed hash, in one transaction.
Listed(i) == Present(i) /\ plan[release[i]] # "absent"
OnlyQueued == [i \in Ids |->  \* mutant
                IF Listed(i) /\ status[i] = "queued" THEN plan[release[i]] ELSE status[i]]
Synced == [i \in Ids |-> IF Listed(i) THEN plan[release[i]] ELSE status[i]]
NotRefreshed == old  \* mutant
Refreshed == old \ {i \in Ids : Listed(i)}

SyncWrite ==
  /\ syncPhase = "write"
  /\ WriteStatus(Synced)
  /\ old' = Refreshed
  /\ syncPhase' = "fail"
  /\ NoFault
  /\ UNCHANGED <<release, covered, reconciled, torrents, trigger, actor, plan, toRefine,
                 toReconcile, requests>>

\* The transaction violates the index: the pass fails.
SyncConflict ==
  /\ syncPhase = "write"
  /\ Conflicts(Synced)
  /\ EndPass
  /\ NoFault
  /\ UNCHANGED <<table, torrents, trigger, actor, requests>>

\* failStaleQueuedDownloads.
Phantoms == {i \in old : status[i] = "queued"}
NoSweep == [i \in Ids |-> status[i]]  \* mutant
SweptQueue == [i \in Ids |-> IF i \in Phantoms THEN "failed" ELSE status[i]]

SyncFailStale ==
  /\ syncPhase = "fail"
  /\ status' = SweptQueue
  /\ plan' = Nothing
  /\ syncPhase' = "refine"
  /\ NoFault
  /\ UNCHANGED <<release, covered, reconciled, old, reentered, torrents, trigger, actor,
                 toRefine, toReconcile, requests>>

\* refineBatchCoverageFromTorrentFiles: a torrent whose files cannot be listed or
\* whose units cannot be told is skipped.
SyncRefine ==
  /\ syncPhase = "refine"
  /\ \E i \in toRefine :
       /\ toRefine' = toRefine \ {i}
       /\ \/ /\ Present(i)
             /\ torrents[release[i]] # "absent"
             /\ Contents[release[i]] # {}
             /\ covered' = [covered EXCEPT ![i] = Contents[release[i]]]
             /\ reentered' = IF covered'[i] # covered[i] THEN reentered \cup {i} ELSE reentered
             /\ NoFault
          \/ /\ ~Present(i) \/ torrents[release[i]] = "absent" \/ Contents[release[i]] = {}
             /\ NoFault
             /\ UNCHANGED <<covered, reentered>>
          \/ Fault("call") /\ UNCHANGED <<covered, reentered>>
  /\ UNCHANGED <<release, status, reconciled, old, torrents, trigger, actor, syncPhase, plan,
                 toReconcile, requests>>

SyncRefined ==
  /\ syncPhase = "refine"
  /\ toRefine = {}
  /\ syncPhase' = "reconcile"
  /\ NoFault
  /\ UNCHANGED <<table, torrents, trigger, actor, plan, toRefine, toReconcile, requests>>

\* A reconciliation of the oldest row of the hash, up to the finalization and the
\* cleanup of the torrent, or one that fails and leaves the row for a retry.
Import(h) ==
  \/ \E i \in Ids \ reconciled :
       /\ Oldest(h, i)
       /\ torrents[h] = "completed"
       /\ status' = [status EXCEPT ![i] = "imported"]
       /\ reconciled' = reconciled \cup {i}
       /\ torrents' = [torrents EXCEPT ![h] = "absent"] \/ UNCHANGED torrents
       /\ NoFault
  \/ /\ \A i \in Ids \ reconciled : ~Oldest(h, i)
     /\ NoFault
     /\ UNCHANGED <<status, reconciled, torrents>>
  \/ /\ \/ torrents[h] # "completed" /\ NoFault
        \/ Fault("import")
     /\ UNCHANGED <<status, reconciled, torrents>>

SyncReconcile ==
  /\ syncPhase = "reconcile"
  /\ \E h \in toReconcile : Import(h) /\ toReconcile' = toReconcile \ {h}
  /\ UNCHANGED <<release, covered, old, reentered, trigger, actor, syncPhase, plan, toRefine,
                 requests>>

SyncEnd ==
  /\ syncPhase = "reconcile"
  /\ toReconcile = {}
  /\ EndPass
  /\ NoFault
  /\ UNCHANGED <<table, torrents, trigger, actor, requests>>

\* A statement of the pass fails.
SyncFails ==
  /\ syncPhase # "idle"
  /\ Fault("db")
  /\ EndPass
  /\ UNCHANGED <<table, torrents, trigger, actor, requests>>

SyncStep ==
  \/ SyncList \/ SyncRows \/ SyncWrite \/ SyncConflict \/ SyncFailStale
  \/ SyncRefine \/ SyncRefined \/ SyncReconcile \/ SyncEnd
-------------------------------------------------------------------------------
(***************************************************************************)
(* POST /downloads/:id/reconcile, qBittorrent, time and crashes.           *)
(***************************************************************************)
RequestImport(h) ==
  /\ Request
  /\ Import(h)
  /\ UNCHANGED <<release, covered, old, reentered, trigger, actor, sync>>

Complete(h) ==
  /\ torrents[h] = "downloading"
  /\ torrents' = [torrents EXCEPT ![h] = "completed"]
  /\ NoFault
  /\ UNCHANGED <<table, trigger, actor, sync, requests>>

\* The torrent fails, recovers, or is removed behind the program's back.
Disturb(h) ==
  /\ torrents[h] # "absent"
  /\ Fault("torrent")
  /\ \/ Moved(h, "downloading", "error") \/ Moved(h, "error", "downloading")
     \/ torrents' = [torrents EXCEPT ![h] = "absent"]
  /\ UNCHANGED <<table, trigger, actor, sync, requests>>

\* last_synced_at falls behind the threshold.  The passes compare it with the time
\* they write, and no call to qBittorrent takes that long.
Age(i) ==
  /\ i \notin old
  /\ Present(i)
  /\ syncPhase \in {"idle", "refine", "reconcile"}
  /\ \A q \in Triggers : inserted[q] # i
  /\ old' = old \cup {i}
  /\ NoFault
  /\ UNCHANGED <<release, status, covered, reconciled, reentered, torrents, trigger, actor,
                 sync, requests>>

QueueCrash ==
  /\ Fault("crash")
  /\ tpc' = [q \in Triggers |-> "idle"]
  /\ chosen' = [q \in Triggers |-> NoRelease]
  /\ inserted' = [q \in Triggers |-> NoId]
  /\ granted' = [q \in Triggers |-> "queued"]
  /\ apc' = [a \in Actors |-> "idle"]
  /\ target' = [a \in Actors |-> NoId]
  /\ seen' = [a \in Actors |-> "absent"]
  /\ EndPass
  /\ UNCHANGED <<table, torrents, requests>>

QueueNext ==
  \/ \E q \in Triggers : TriggerStep(q) \/ \E h \in Releases : Trigger(q, h)
  \/ \E a \in Actors : \/ \E action \in {"pause", "resume", "delete", "retry"} : Load(a, action)
                       \/ ActorStep(a) \/ CallDisabled(a) \/ CallFails(a)
  \/ SyncStep \/ SyncFails
  \/ \E h \in Releases : RequestImport(h) \/ Complete(h) \/ Disturb(h)
  \/ \E i \in Ids : Age(i)
  \/ QueueCrash

QueueSpec == QueueInit /\ [][QueueNext]_queueVars

(***************************************************************************)
(* A fiber that can run runs on, passes follow one another, and time       *)
(* passes between them.                                                    *)
(***************************************************************************)
QueueFairness ==
  /\ \A q \in Triggers : WF_queueVars(TriggerStep(q))
  /\ \A a \in Actors : WF_queueVars(ActorStep(a))
  /\ WF_queueVars(SyncStep)
  /\ \A i \in Ids : SF_queueVars(Age(i))

QueueFairSpec == QueueSpec /\ QueueFairness
-------------------------------------------------------------------------------
(***************************************************************************)
(* Properties.                                                             *)
(***************************************************************************)

(* What the gate is for: two rows that were queued and have been in flight *)
(* ever since cover no unit in common.  Rows brought back by a retry or by *)
(* the state of their torrent, and batches whose units are told later, are *)
(* outside the promise: nobody checks them (DownloadTriggerGate,           *)
(* hasOverlappingDownload).                                                *)
Steady(i) == IsInFlight(i) /\ i \notin reentered
NoUnitTwice ==
  \A i, j \in Ids : Steady(i) /\ Steady(j) /\ i # j => covered[i] \cap covered[j] = {}

(* What makes it inductive: one trigger at a time, and between the check   *)
(* and the insertion no steady row comes to cover a unit of the release.   *)
OneTrigger == \A q, r \in Triggers : tpc[q] # "idle" /\ tpc[r] # "idle" => q = r
ChosenIsFree ==
  \A q \in Triggers : tpc[q] = "insert" =>
    \A i \in Ids : Steady(i) => covered[i] \cap StartUnits(chosen[q]) = {}
GateInv == NoUnitTwice /\ OneTrigger /\ ChosenIsFree

(* A pass gives a queued download up only if it has not seen its torrent:  *)
(* one that is there, however slow, keeps its row                          *)
(* (failStaleQueuedDownloads, "qBittorrent no longer reports this queued   *)
(* download").  The stale status of a resume may still say failed.         *)
OnlyPhantomsFail ==
  [][\A i \in Ids : status[i] = "queued" /\ status'[i] = "failed" /\ sync' # sync
                      => plan[release[i]] = "absent"]_queueVars

(* Why it holds: once the pass has written the statuses, the rows of its   *)
(* torrents are not old.                                                   *)
ListedIsFresh ==
  syncPhase = "fail" => \A i \in Ids : Listed(i) => i \notin old

\* A release that was fetched again while an earlier row of it was kept.
Refetched == \E i, j \in Ids : i # j /\ Present(i) /\ Present(j) /\ release[i] = release[j]

(* Whatever stale statuses a pass, a pause or a queueing has written over  *)
(* a newer one, a later pass corrects them as long as the torrent is       *)
(* listed: an import is shown as imported, everything else as qBittorrent  *)
(* has it.                                                                 *)
Shown(i) == IF i \in reconciled THEN "imported" ELSE torrents[release[i]]
StatusCatchesUp ==
  \A i \in Ids :
    []<>(\/ status[i] = "absent" \/ Refetched
         \/ torrents[release[i]] = "absent" \/ status[i] = Shown(i))

(* A row that waits in the queue for a torrent qBittorrent does not have   *)
(* does not wait for ever, while there is any torrent to list: a crash or  *)
(* a lost call between insertion and finalization does not block its units *)
(* for good.                                                               *)
Waits(i) == status[i] = "queued" /\ torrents[release[i]] = "absent"
PhantomsFail ==
  \A i \in Ids :
    Waits(i) ~> (~Waits(i) \/ Refetched \/ \A h \in Releases : torrents[h] = "absent")

(* Rows that are over never block fetching the same release again          *)
(* (db/schema.ts, "terminal rows (imported/failed) never block re-fetching *)
(* the same release"): in particular the pass can write what qBittorrent   *)
(* reports of it.                                                          *)
RefetchNeverBlocks == syncPhase = "write" => ~Conflicts(Synced)

(***************************************************************************)
(* What check, insertion and index come to under the gate: a download      *)
(* takes its units in one step, whatever actors, passes and crashes do     *)
(* between the check of the trigger and its insertion (queueDownload,      *)
(* DownloadTriggerGate).                                                   *)
(***************************************************************************)
usedRows == {i \in Ids : release[i] # NoRelease}
heldUnits == [i \in Ids |-> IF Steady(i) THEN covered[i] ELSE {}]

Reservation == INSTANCE UnitReservation WITH Rows <- Ids, used <- usedRows, held <- heldUnits

ImplementsReservation == Reservation!Spec
===============================================================================
