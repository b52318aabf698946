------------------------ MODULE DownloadReconciliation ------------------------
(***************************************************************************)
(* Import of completed downloads into the library                          *)
(* (features/operations/download/download-reconciliation-service.ts,       *)
(* download-reconciliation.ts, the claim sweep of                          *)
(* download-torrent-sync-service.ts, and the statements of                 *)
(* repository/download-repository.ts they run).                            *)
(*                                                                         *)
(* A download row is imported by whoever wins a claim: an UPDATE that      *)
(* writes a fresh token into reconciled_at where it is NULL.  HTTP request *)
(* fibers and the one sync pass compete for it.  The token is overwritten  *)
(* by a timestamp when the import is final and set back to NULL when it is *)
(* not.  Tokens that survive a crash are swept by a later sync pass once   *)
(* they are older than STALE_CLAIM_THRESHOLD_MS, unless the process-local  *)
(* set liveClaimIds says that the import is still running.                 *)
(*                                                                         *)
(* Rules of the model:                                                     *)
(*  - one action per await: between two actions of a fiber every other     *)
(*    fiber of the process may run;                                        *)
(*  - the database and the file system survive a crash, liveClaimIds and   *)
(*    the fibers do not;                                                   *)
(*  - a release that was fetched before may be fetched again: its hash     *)
(*    then has several rows, and one torrent;                              *)
(*  - everything that goes wrong is a fault of one of Faults, at most      *)
(*    MaxFaults in a behaviour.                                            *)
(***************************************************************************)
EXTENDS Naturals, FiniteSets

CONSTANTS
  Ids,          \* ids of the rows of table downloads
  Hashes,       \* torrent info hashes
  HashOf,       \* HashOf[i]: info_hash of row i, which no statement updates
  Later,        \* rows that are inserted later on, the others are there
  Batches,      \* rows with is_batch
  Units,        \* media units (episodes, volumes)
  Contents,     \* Contents[h]: units of the release, one media file per unit
  UnitNumber,   \* UnitNumber[i]: unit_number of row i
  Requests,     \* fibers of POST /downloads/:id/reconcile
  Sync,         \* the fiber of the sync pass, alone under syncSemaphore
  Tokens,       \* claim tokens (claim:<timestamp>:<uuid>)
  Null, Stamp,  \* reconciled_at NULL or a timestamp
  NotYet, Absent,  \* the row is not inserted yet, or deleted
  ImportMode,   \* library.import_mode: "copy" or "move"
  Cleanup,      \* torrent cleanup after an import: "keep", "remove" or "removeData"
  SlowImports,  \* whether an import may outlast STALE_CLAIM_THRESHOLD_MS
  Faults,       \* kinds of fault that may happen
  MaxFaults     \* bound on the number of faults

FaultKinds == {"crash", "claim", "claimInterrupt", "interrupt", "plan", "stage",
               "commit", "upsert", "release", "sync", "add", "delete"}

ASSUME ReconciliationAssumption ==
  /\ Ids \subseteq Nat
  /\ HashOf \in [Ids -> Hashes]
  /\ Later \subseteq Ids
  /\ \A i \in Later, j \in Ids \ Later : HashOf[i] = HashOf[j] => j < i
  /\ Batches \subseteq Ids
  /\ Contents \in [Hashes -> SUBSET Units]
  /\ UnitNumber \in [Ids -> Units]
  /\ \A i \in Ids : UnitNumber[i] \in Contents[HashOf[i]]
  /\ \A i \in Ids \ Batches : Contents[HashOf[i]] = {UnitNumber[i]}
  /\ Sync \notin Requests
  /\ Tokens \cap {Null, Stamp, NotYet, Absent} = {}
  /\ Null # Stamp /\ Null # Absent /\ Stamp # Absent /\ NotYet \notin {Null, Stamp, Absent}
  /\ Null \notin Ids /\ Null \notin Units
  /\ ImportMode \in {"copy", "move"}
  /\ Cleanup \in {"keep", "remove", "removeData"}
  /\ SlowImports \in BOOLEAN
  /\ Faults \subseteq FaultKinds
  /\ MaxFaults \in Nat

Fibers == Requests \cup {Sync}

Phases == {"idle", "claim", "plan", "stage", "commit", "upsert", "finalize",
           "mark", "cleanup", "exit", "release"}

VARIABLES
  \* the database
  reconciledAt,  \* reconciledAt[i]: column reconciled_at of row i
  mapped,        \* units whose row is downloaded and has a file path
  \* qBittorrent and the file system
  torrents,      \* hashes qBittorrent reports as completed
  fetching,      \* hashes it reports as queued, downloading or paused
  roots,         \* hashes whose content root exists
  source,        \* source[h]: units whose file is in the content of torrent h
  library,       \* units whose file is at its place in the library
  \* memory of the process
  live,          \* liveClaimIds
  pc, row, token,  \* of every fiber: its phase, the row it loaded, its claimToken
  todo, unit,      \* the files it has yet to import, the one it is importing
  syncPhase,     \* "idle", "sweep" or "reconcile"
  toSweep,       \* rows the sync pass loaded with a token past the threshold
  checked,       \* one of them, not live, whose release is on its way
  toDownload,    \* hashes whose rows the sync pass is about to put in flight
  toReconcile,   \* hashes the sync pass has yet to reconcile
  deleting,      \* rows about to be deleted, their torrent removed or refused
  \* time and faults
  stale,         \* tokens older than STALE_CLAIM_THRESHOLD_MS
  faults         \* faults so far

db      == <<reconciledAt, mapped>>
files   == <<torrents, fetching, roots, source, library>>
fiber   == <<pc, row, token, todo, unit>>
sync    == <<syncPhase, toSweep, checked, toDownload, toReconcile>>
vars    == <<reconciledAt, mapped, torrents, fetching, roots, source, library, live,
             pc, row, token, todo, unit, syncPhase, toSweep, checked, toDownload,
             toReconcile, deleting, stale, faults>>

\* The rows with an info hash: LIMIT 1 returns the oldest, the Map of a sync pass keeps
\* the newest.
Present(i) == reconciledAt[i] \notin {NotYet, Absent}
RowsOf(h) == {i \in Ids : HashOf[i] = h /\ Present(i)}
IsFirstRow(i, h) == i \in RowsOf(h) /\ \A j \in RowsOf(h) : i <= j
IsLastRow(i, h) == i \in RowsOf(h) /\ \A j \in RowsOf(h) : j <= i
NeedsImport(h) == \E i \in Ids : IsFirstRow(i, h) /\ reconciledAt[i] = Null

\* covered_units of row i and the hash of the row fiber f has loaded.
Covers(i) == Contents[HashOf[i]]
hash(f) == HashOf[row[f]]

\* A fiber is between a successful claim and the release in its exit handler.
Holding(f) == pc[f] \notin {"idle", "claim"}

\* A token of a fiber, of the database or of a sweep is not made up again.
InUse(t) ==
  \/ \E f \in Fibers : pc[f] # "idle" /\ token[f] = t
  \/ \E i \in Ids : reconciledAt[i] = t \/ [id |-> i, token |-> t] \in toSweep \cup checked
FreshToken == CHOOSE t \in Tokens : ~InUse(t)

NoFault == UNCHANGED faults
Fault(kind) ==
  /\ kind \in Faults
  /\ faults < MaxFaults
  /\ faults' = faults + 1

TypeOK ==
  /\ reconciledAt \in [Ids -> Tokens \cup {Null, Stamp, NotYet, Absent}]
  /\ mapped \subseteq Units
  /\ torrents \subseteq Hashes /\ fetching \subseteq Hashes /\ roots \subseteq Hashes
  /\ source \in [Hashes -> SUBSET Units]
  /\ library \subseteq Units
  /\ live \subseteq Ids
  /\ pc \in [Fibers -> Phases]
  /\ row \in [Fibers -> Ids \cup {Null}]
  /\ token \in [Fibers -> Tokens \cup {Null}]
  /\ todo \in [Fibers -> SUBSET Units]
  /\ unit \in [Fibers -> Units \cup {Null}]
  /\ \A f \in Fibers : pc[f] # "idle" => row[f] \in Ids /\ token[f] \in Tokens
  /\ \A f \in Fibers : pc[f] \in {"commit", "upsert"} => unit[f] \in Units
  /\ syncPhase \in {"idle", "sweep", "reconcile"}
  /\ toSweep \subseteq [id : Ids, token : Tokens]
  /\ checked \subseteq [id : Ids, token : Tokens]
  /\ toDownload \subseteq Hashes /\ toReconcile \subseteq Hashes
  /\ deleting \subseteq Ids
  /\ stale \subseteq Tokens
  /\ faults \in 0..MaxFaults

Init ==
  /\ reconciledAt = [i \in Ids |-> IF i \in Later THEN NotYet ELSE Null]
  /\ mapped = {}
  /\ torrents = {HashOf[i] : i \in Ids \ Later}
  /\ fetching = {}
  /\ roots = torrents
  /\ source = [h \in Hashes |-> IF h \in roots THEN Contents[h] ELSE {}]
  /\ library = {}
  /\ live = {}
  /\ pc = [f \in Fibers |-> "idle"]
  /\ row = [f \in Fibers |-> Null]
  /\ token = [f \in Fibers |-> Null]
  /\ todo = [f \in Fibers |-> {}]
  /\ unit = [f \in Fibers |-> Null]
  /\ syncPhase = "idle"
  /\ toSweep = {}
  /\ checked = {}
  /\ toDownload = {}
  /\ toReconcile = {}
  /\ deleting = {}
  /\ stale = {}
  /\ faults = 0
-------------------------------------------------------------------------------
RunOn(f) ==  \* mutant
  /\ row' = [row EXCEPT ![f] = Null]
  /\ token' = [token EXCEPT ![f] = Null]
  /\ todo' = [todo EXCEPT ![f] = {}]
  /\ unit' = [unit EXCEPT ![f] = Null]
  /\ UNCHANGED pc

\* A fiber that is done forgets its locals.
Forget(f) ==
  /\ pc' = [pc EXCEPT ![f] = "idle"]
  /\ row' = [row EXCEPT ![f] = Null]
  /\ token' = [token EXCEPT ![f] = Null]
  /\ todo' = [todo EXCEPT ![f] = {}]
  /\ unit' = [unit EXCEPT ![f] = Null]

\* The sync pass ends; it ends with its fiber.
EndPass ==
  /\ syncPhase' = "idle"
  /\ toSweep' = {}
  /\ checked' = {}
  /\ toDownload' = {}
  /\ toReconcile' = {}
EndPassOf(f) == IF f = Sync THEN EndPass ELSE UNCHANGED sync

GoTo(f, phase) == pc' = [pc EXCEPT ![f] = phase]

(***************************************************************************)
(* loadDownloadByInfoHash, then with no await in between: give up on a     *)
(* missing or reconciled (or claimed) row, make up a token, mark the row   *)
(* live.                                                                   *)
(***************************************************************************)
Lookup(f, h) ==
  /\ pc[f] = "idle"
  /\ \E t \in Tokens : ~InUse(t)
  /\ \E i \in Ids :
       /\ IsFirstRow(i, h)
       /\ reconciledAt[i] = Null
       /\ live' = live \cup {i}
       /\ row' = [row EXCEPT ![f] = i]
  /\ token' = [token EXCEPT ![f] = FreshToken]
  /\ stale' = stale \ {FreshToken}
  /\ GoTo(f, "claim")

\* reconcileDownloadByIdEffect: the row of the request gives the hash.
Request(f) ==
  /\ \E i \in Ids : Present(i) /\ Lookup(f, HashOf[i])
  /\ NoFault
  /\ UNCHANGED <<db, files, todo, unit, sync, deleting>>

\* claimDownloadReconciliation: every row of the hash that is still NULL.
ClaimedAnyway(f) == {i \in RowsOf(hash(f)) : reconciledAt[i] # Stamp}  \* mutant
Claimed(f) == {i \in RowsOf(hash(f)) : reconciledAt[i] = Null}
WriteClaim(f) ==
  reconciledAt' = [i \in Ids |-> IF i \in Claimed(f) THEN token[f] ELSE reconciledAt[i]]

WinClaim(f) ==
  /\ pc[f] = "claim"
  /\ Claimed(f) # {}
  /\ WriteClaim(f)
  /\ GoTo(f, "plan")
  /\ NoFault
  /\ UNCHANGED <<mapped, files, live, row, token, todo, unit, sync, deleting, stale>>

\* No row was claimed: the mark is removed, whoever else put it there.
LoseClaim(f) ==
  /\ pc[f] = "claim"
  /\ Claimed(f) = {}
  /\ live' = live \ {row[f]}
  /\ Forget(f)
  /\ NoFault
  /\ UNCHANGED <<db, files, sync, deleting, stale>>

\* The statement fails.  The exit handler is not installed yet: the mark stays.
FailClaim(f) ==
  /\ pc[f] = "claim"
  /\ Fault("claim")
  /\ Forget(f)
  /\ UNCHANGED <<db, files, live, sync, deleting, stale>>

\* The fiber is interrupted while it waits for the statement, which may still commit.
InterruptClaim(f) ==
  /\ pc[f] = "claim"
  /\ Fault("claimInterrupt")
  /\ WriteClaim(f) \/ UNCHANGED reconciledAt
  /\ Forget(f)
  /\ EndPassOf(f)
  /\ UNCHANGED <<mapped, files, live, deleting, stale>>
-------------------------------------------------------------------------------
(***************************************************************************)
(* The import of a claimed row: locals are the row as Lookup loaded it.    *)
(***************************************************************************)

\* loadDownloadReconciliationContext finds no accessible content, or fails.
PlanNothing(f) ==
  /\ pc[f] = "plan"
  /\ \/ hash(f) \notin roots /\ NoFault
     \/ Fault("plan")
  /\ GoTo(f, "exit")
  /\ UNCHANGED <<db, files, live, row, token, todo, unit, sync, deleting, stale>>

\* reconcileBatchDownloadEffect: the units of the files that are there, less
\* those imported already.  With nothing to import the row is final if all its
\* units are accounted for, and is left for a retry if not.
SkipWhenSome(h) == IF source[h] \cap mapped # {} THEN {} ELSE source[h]  \* mutant
Remaining(h) == source[h] \ mapped
BatchHasFiles(f) == row[f] \in Batches /\ source[hash(f)] # {}
AllAccounted(i) == source[HashOf[i]] = Covers(i)

PlanBatch(f) ==
  /\ pc[f] = "plan"
  /\ hash(f) \in roots
  /\ BatchHasFiles(f)
  /\ todo' = [todo EXCEPT ![f] = Remaining(hash(f))]
  /\ GoTo(f, IF todo'[f] # {} THEN "stage"
             ELSE IF AllAccounted(row[f]) THEN "finalize" ELSE "exit")
  /\ NoFault
  /\ UNCHANGED <<db, files, live, row, token, unit, sync, deleting, stale>>

\* reconcileSingleDownloadEffect, also for a batch whose content has no file.
PlanSingle(f) ==
  /\ pc[f] = "plan"
  /\ hash(f) \in roots
  /\ ~BatchHasFiles(f)
  /\ LET u == UnitNumber[row[f]]
     IN  \/ /\ u \in mapped
            /\ GoTo(f, "mark")
            /\ UNCHANGED todo
         \/ /\ u \notin mapped
            /\ u \notin source[hash(f)]
            /\ GoTo(f, "exit")
            /\ UNCHANGED todo
         \/ /\ u \notin mapped
            /\ u \in source[hash(f)]
            /\ GoTo(f, "stage")
            /\ todo' = [todo EXCEPT ![f] = {u}]
  /\ NoFault
  /\ UNCHANGED <<db, files, live, row, token, unit, sync, deleting, stale>>

\* stageSourceIntoTempFile: copied or moved to a temporary file of the library.
Stage(f) ==
  /\ pc[f] = "stage"
  /\ \E u \in todo[f] \cap source[hash(f)] :
       /\ unit' = [unit EXCEPT ![f] = u]
       /\ source' = IF ImportMode = "move"
                    THEN [source EXCEPT ![hash(f)] = @ \ {u}] ELSE source
  /\ GoTo(f, "commit")
  /\ NoFault
  /\ UNCHANGED <<db, torrents, fetching, roots, library, live, row, token, todo, sync, deleting,
                 stale>>

\* The source is not there any more, or cannot be copied or moved.
StageFails(f) ==
  /\ pc[f] = "stage"
  /\ \/ ~(todo[f] \subseteq source[hash(f)]) /\ NoFault
     \/ Fault("stage")
  /\ GoTo(f, "exit")
  /\ UNCHANGED <<db, files, live, row, token, todo, unit, sync, deleting, stale>>

\* replaceDestinationWithStagedFile, then the removal of the temporary file: when
\* the rename fails, cleanupStagedTempFile removes the file Stage has moved.
Commit(f) ==
  /\ pc[f] = "commit"
  /\ \/ /\ library' = library \cup {unit[f]}
        /\ GoTo(f, "upsert")
        /\ NoFault
     \/ /\ Fault("commit")
        /\ GoTo(f, "exit")
        /\ UNCHANGED library
  /\ UNCHANGED <<db, torrents, fetching, roots, source, live, row, token, todo, unit, sync,
                 deleting, stale>>

\* upsertUnitFiles, and on to the next file.
Upsert(f) ==
  /\ pc[f] = "upsert"
  /\ mapped' = mapped \cup {unit[f]}
  /\ todo' = [todo EXCEPT ![f] = @ \ {unit[f]}]
  /\ GoTo(f, IF todo'[f] # {} THEN "stage" ELSE "finalize")
  /\ NoFault
  /\ UNCHANGED <<reconciledAt, files, live, row, token, unit, sync, deleting, stale>>

UpsertFails(f) ==
  /\ pc[f] = "upsert"
  /\ Fault("upsert")
  /\ GoTo(f, "exit")
  /\ UNCHANGED <<db, files, live, row, token, todo, unit, sync, deleting, stale>>

\* finalizeDownloadImport and markDownloadReconciled write the timestamp where the
\* row still has the fiber's token, and fail where it has not.
OwnsAnyway(f) == TRUE  \* mutant
OwnsClaim(f) == reconciledAt[row[f]] = token[f]
StampRow(f) == [reconciledAt EXCEPT ![row[f]] = Stamp]

Finalize(f) ==
  /\ pc[f] = "finalize"
  /\ \/ /\ OwnsClaim(f)
        /\ reconciledAt' = StampRow(f)
        /\ GoTo(f, "cleanup")
     \/ /\ ~OwnsClaim(f)
        /\ GoTo(f, "exit")
        /\ UNCHANGED reconciledAt
  /\ NoFault
  /\ UNCHANGED <<mapped, files, live, row, token, todo, unit, sync, deleting, stale>>

Mark(f) ==
  /\ pc[f] = "mark"
  /\ \/ OwnsClaim(f) /\ reconciledAt' = StampRow(f)
     \/ ~OwnsClaim(f) /\ UNCHANGED reconciledAt
  /\ GoTo(f, "exit")
  /\ NoFault
  /\ UNCHANGED <<mapped, files, live, row, token, todo, unit, sync, deleting, stale>>

\* deleteTorrentIfEnabled(hash, deleteFiles), whichever row of the hash it is called for.
DropTorrent(h, deleteFiles) ==
  /\ torrents' = torrents \ {h}
  /\ fetching' = fetching \ {h}
  /\ roots' = IF deleteFiles THEN roots \ {h} ELSE roots
  /\ source' = IF deleteFiles THEN [source EXCEPT ![h] = {}] ELSE source

\* maybeCleanupImportedTorrent, which swallows every error.
CleanupTorrent(f) ==
  /\ pc[f] = "cleanup"
  /\ \/ Cleanup # "keep" /\ DropTorrent(hash(f), Cleanup = "removeData")
     \/ UNCHANGED <<torrents, fetching, roots, source>>
  /\ GoTo(f, "exit")
  /\ NoFault
  /\ UNCHANGED <<db, library, live, row, token, todo, unit, sync, deleting, stale>>

\* An interruption anywhere in the import runs the exit handler; a staged file is
\* removed on the way.
Interrupt(f) ==
  /\ pc[f] \in Phases \ {"idle", "claim", "exit", "release"}
  /\ Fault("interrupt")
  /\ GoTo(f, "exit")
  /\ IF f = Sync
     THEN toReconcile' = {} /\ UNCHANGED <<syncPhase, toSweep, checked, toDownload>>
     ELSE UNCHANGED sync
  /\ UNCHANGED <<db, files, live, row, token, todo, unit, deleting, stale>>

\* The exit handler: first the mark, then releaseDownloadReconciliationClaim, whose
\* failure is ignored.
Exit(f) ==
  /\ pc[f] = "exit"
  /\ live' = live \ {row[f]}
  /\ GoTo(f, "release")
  /\ NoFault
  /\ UNCHANGED <<db, files, row, token, todo, unit, sync, deleting, stale>>

ReleaseAnyway(i, t) == reconciledAt' = [reconciledAt EXCEPT ![i] = Null]  \* mutant
ReleaseClaim(i, t) ==
  reconciledAt' = IF reconciledAt[i] = t THEN [reconciledAt EXCEPT ![i] = Null]
                  ELSE reconciledAt

Release(f) ==
  /\ pc[f] = "release"
  /\ \/ ReleaseClaim(row[f], token[f]) /\ NoFault
     \/ Fault("release") /\ UNCHANGED reconciledAt
  /\ Forget(f)
  /\ UNCHANGED <<mapped, files, live, sync, deleting, stale>>
-------------------------------------------------------------------------------
(***************************************************************************)
(* The sync pass: load the rows of the torrents, sweep the claims past the *)
(* threshold that no live import holds, write the state of the torrents to *)
(* all rows of their hashes, reconcile the completed torrents.             *)
(***************************************************************************)
NeverStale(i) == FALSE  \* mutant
IsStaleClaim(i) == reconciledAt[i] \in stale

SyncList ==
  /\ syncPhase = "idle"
  /\ pc[Sync] = "idle"
  /\ torrents \cup fetching # {}
  /\ toSweep' = {[id |-> i, token |-> reconciledAt[i]] :
                   i \in {j \in Ids : HashOf[j] \in torrents \cup fetching /\ IsStaleClaim(j)}}
  /\ toDownload' = {h \in fetching : ~\E i \in Ids : IsLastRow(i, h) /\ reconciledAt[i] = Stamp}
  /\ toReconcile' = torrents
  /\ syncPhase' = "sweep"
  /\ NoFault
  /\ UNCHANGED <<db, files, live, fiber, checked, deleting, stale>>

\* hasLiveReconciliationClaim, before the release and not with it.
SweepCheck ==
  /\ syncPhase = "sweep"
  /\ checked = {}
  /\ \E c \in toSweep :
       /\ toSweep' = toSweep \ {c}
       /\ checked' = IF c.id \in live THEN {} ELSE {c}
  /\ NoFault
  /\ UNCHANGED <<db, files, live, fiber, syncPhase, toDownload, toReconcile, deleting, stale>>

SweepRelease ==
  /\ \E c \in checked : ReleaseClaim(c.id, c.token)
  /\ checked' = {}
  /\ NoFault
  /\ UNCHANGED <<mapped, files, live, fiber, syncPhase, toSweep, toDownload, toReconcile,
                 deleting, stale>>

\* bulkUpdateTorrentSyncRows: two rows of one hash may not be in flight at a time
\* (downloads_info_hash_in_flight_unique_idx), and the statement puts all rows of a hash in
\* flight, the imported and the failed ones included.  A refused statement ends the pass.
SeveralRows(h) == \E i, j \in RowsOf(h) : i # j
SweepEnd ==
  /\ syncPhase = "sweep"
  /\ toSweep = {} /\ checked = {}
  /\ \A h \in toDownload : ~SeveralRows(h)
  /\ syncPhase' = "reconcile"
  /\ toDownload' = {}
  /\ NoFault
  /\ UNCHANGED <<db, files, live, fiber, toSweep, checked, toReconcile, deleting, stale>>

SyncRefused ==
  /\ syncPhase = "sweep"
  /\ toSweep = {} /\ checked = {}
  /\ \E h \in toDownload : SeveralRows(h)
  /\ EndPass
  /\ NoFault
  /\ UNCHANGED <<db, files, live, fiber, deleting, stale>>

\* reconcileCompletedTorrentEffect(hash): its failures do not end the pass.
SyncReconcile(h) ==
  /\ syncPhase = "reconcile"
  /\ h \in toReconcile
  /\ toReconcile' = toReconcile \ {h}
  /\ Lookup(Sync, h)
  /\ NoFault
  /\ UNCHANGED <<db, files, todo, unit, syncPhase, toSweep, checked, toDownload, deleting>>

SyncSkip(h) ==
  /\ syncPhase = "reconcile"
  /\ pc[Sync] = "idle"
  /\ h \in toReconcile
  /\ ~NeedsImport(h)
  /\ toReconcile' = toReconcile \ {h}
  /\ NoFault
  /\ UNCHANGED <<db, files, live, fiber, syncPhase, toSweep, checked, toDownload, deleting,
                 stale>>

SyncEnd ==
  /\ syncPhase = "reconcile"
  /\ pc[Sync] = "idle"
  /\ toReconcile = {}
  /\ EndPass
  /\ NoFault
  /\ UNCHANGED <<db, files, live, fiber, deleting, stale>>

\* A statement of the pass fails outside a reconciliation, or the pass is interrupted there.
SyncFails ==
  /\ syncPhase # "idle"
  /\ pc[Sync] = "idle"
  /\ Fault("sync")
  /\ EndPass
  /\ UNCHANGED <<db, files, live, fiber, deleting, stale>>
-------------------------------------------------------------------------------
(***************************************************************************)
(* The environment: releases fetched (again), delete requests, time,       *)
(* crashes.                                                                *)
(***************************************************************************)

\* queueDownload inserts a row with the next id.  It refuses a release whose first row is
\* in flight, which it is while qBittorrent fetches it.  qBittorrent takes the torrent, or
\* has it already and says so or not; told of a failure queueDownload deletes the row again.
NextRow(i) ==
  /\ reconciledAt[i] = NotYet
  /\ \A j \in Ids : HashOf[j] = HashOf[i] /\ reconciledAt[j] = NotYet => i <= j

Fetch(i) ==
  /\ NextRow(i)
  /\ HashOf[i] \notin fetching
  /\ reconciledAt' = [reconciledAt EXCEPT ![i] = Null]
  /\ \/ /\ fetching' = fetching \cup ({HashOf[i]} \ torrents)
        /\ NoFault
        /\ UNCHANGED deleting
     \/ /\ \/ HashOf[i] \in torrents /\ NoFault
           \/ Fault("add")
        /\ deleting' = deleting \cup {i}
        /\ UNCHANGED fetching
  /\ UNCHANGED <<mapped, torrents, roots, source, library, live, fiber, sync, stale>>

\* qBittorrent has fetched the torrent.
Arrive(h) ==
  /\ h \in fetching
  /\ fetching' = fetching \ {h}
  /\ torrents' = torrents \cup {h}
  /\ roots' = roots \cup {h}
  /\ source' = [source EXCEPT ![h] = Contents[h]]
  /\ NoFault
  /\ UNCHANGED <<db, library, live, fiber, sync, deleting, stale>>

\* applyDownloadActionEffect(id, "delete"): the torrent first, the row later.
DeleteTorrent(i) ==
  /\ Present(i)
  /\ i \notin deleting
  /\ Fault("delete")
  /\ \E deleteFiles \in BOOLEAN : DropTorrent(HashOf[i], deleteFiles)
  /\ deleting' = deleting \cup {i}
  /\ UNCHANGED <<db, library, live, fiber, sync, stale>>

DeleteRow(i) ==
  /\ i \in deleting
  /\ reconciledAt' = [reconciledAt EXCEPT ![i] = Absent]
  /\ deleting' = deleting \ {i}
  /\ NoFault
  /\ UNCHANGED <<mapped, files, live, fiber, sync, stale>>

\* isStaleClaimToken becomes true of a token.  Without SlowImports no fiber is
\* still at work with a token that old.
Age(t) ==
  /\ t \notin stale
  /\ \E i \in Ids : reconciledAt[i] = t
  /\ SlowImports \/ \A f \in Fibers : pc[f] # "idle" => token[f] # t
  /\ stale' = stale \cup {t}
  /\ NoFault
  /\ UNCHANGED <<db, files, live, fiber, sync, deleting>>

\* A crash and the restart: no recovery touches the table downloads.
Crash ==
  /\ Fault("crash")
  /\ live' = {}
  /\ pc' = [f \in Fibers |-> "idle"]
  /\ row' = [f \in Fibers |-> Null]
  /\ token' = [f \in Fibers |-> Null]
  /\ todo' = [f \in Fibers |-> {}]
  /\ unit' = [f \in Fibers |-> Null]
  /\ EndPass
  /\ deleting' = {}
  /\ UNCHANGED <<db, files, stale>>

\* What the fiber of one reconciliation does by itself once it has looked up its row.
Step(f) ==
  \/ WinClaim(f) \/ LoseClaim(f)
  \/ PlanNothing(f) \/ PlanBatch(f) \/ PlanSingle(f)
  \/ Stage(f) \/ StageFails(f) \/ Commit(f) \/ Upsert(f) \/ UpsertFails(f)
  \/ Finalize(f) \/ Mark(f) \/ CleanupTorrent(f) \/ Exit(f) \/ Release(f)

Sweep == SweepCheck \/ SweepRelease \/ SweepEnd \/ SyncRefused

Pass ==
  \/ SyncList \/ Sweep \/ SyncEnd
  \/ \E h \in Hashes : SyncReconcile(h) \/ SyncSkip(h)

Next ==
  \/ \E f \in Requests : Request(f)
  \/ \E f \in Fibers : Step(f) \/ FailClaim(f) \/ InterruptClaim(f) \/ Interrupt(f)
  \/ Pass \/ SyncFails
  \/ \E i \in Ids : Fetch(i) \/ DeleteTorrent(i) \/ DeleteRow(i)
  \/ \E h \in Hashes : Arrive(h)
  \/ \E t \in Tokens : Age(t)
  \/ Crash

Spec == Init /\ [][Next]_vars

(***************************************************************************)
(* Fairness the code justifies: a fiber that can run runs on, the          *)
(* scheduler starts pass after pass, and time passes.  Nothing says that a *)
(* user ever asks for a reconciliation or a release, that a torrent being  *)
(* fetched arrives, or that a fault happens.                               *)
(***************************************************************************)
Fairness ==
  /\ \A f \in Fibers : WF_vars(Step(f))
  /\ WF_vars(Pass)
  /\ \A t \in Tokens : WF_vars(Age(t))

FairSpec == Spec /\ Fairness
-------------------------------------------------------------------------------
(***************************************************************************)
(* Properties.                                                             *)
(***************************************************************************)

(* No two fibers are ever at work on the same download: between a won      *)
(* claim and its release every other reconciliation of the row loses       *)
(* (download-reconciliation-service.ts, "only one concurrent reconcile may *)
(* import a given download").                                              *)
ImportExclusion ==
  \A f, g \in Fibers : Holding(f) /\ Holding(g) /\ row[f] = row[g] => f = g

(* A download recorded as reconciled has every unit it covers in the       *)
(* library and in the table of units: nothing ever retries it, so whatever *)
(* was missing then is missing for good.                                   *)
ReconciledIsImported ==
  \A i \in Ids : reconciledAt[i] = Stamp => Covers(i) \subseteq library \cap mapped

(* Once reconciled, always reconciled: neither a release in an exit        *)
(* handler nor the sweep of a sync pass that loaded the row earlier undoes *)
(* a finalization.                                                         *)
ReconciledForever ==
  [][\A i \in Ids : reconciledAt[i] = Stamp => reconciledAt'[i] \in {Stamp, Absent}]_vars

(* The claims implement the abstract lease: a download is in the hands of  *)
(* the fiber that finds its own token in the row, which alone may finalize *)
(* it.  A fiber whose token was swept or whose row was deleted goes on     *)
(* importing, and holds nothing.                                           *)
Owns(f, i) == Holding(f) /\ row[f] = i /\ reconciledAt[i] = token[f]
leaseHolders == [i \in Ids |-> {f \in Fibers : Owns(f, i)}]
leaseOutcome == [i \in Ids |-> IF reconciledAt[i] = Stamp THEN "imported"
                               ELSE IF reconciledAt[i] = Absent THEN "deleted" ELSE "pending"]
Lease == INSTANCE ImportLease WITH Downloads <- Ids, Workers <- Fibers,
                                   holders <- leaseHolders, outcome <- leaseOutcome
ImplementsLease == Lease!Spec

(* A download qBittorrent reports as completed is imported in the end,     *)
(* whatever crashed or failed finitely often on the way, unless its        *)
(* torrent or row goes.  Two exceptions, both of releases that were        *)
(* fetched again: loadDownloadByInfoHash returns the first row of a hash,  *)
(* so the second fetch of an imported release is never imported; and while *)
(* such a release is being fetched every pass is refused, so that nothing  *)
(* at all is promised while one is being fetched for ever.                 *)
Blocked ==
  \E h \in fetching :
    SeveralRows(h) /\ ~\E i \in Ids : IsLastRow(i, h) /\ reconciledAt[i] = Stamp
Waiting(i) ==
  /\ IsFirstRow(i, HashOf[i])
  /\ reconciledAt[i] # Stamp
  /\ HashOf[i] \in torrents
EventuallyReconciled == <>[]~Blocked => \A i \in Ids : Waiting(i) ~> ~Waiting(i)

(* A token nobody holds is released for a retry (download-reconciliation-  *)
(* service.ts, "a leftover token always means the claim must be released   *)
(* for retry").                                                            *)
Orphaned(i) ==
  /\ reconciledAt[i] \in Tokens
  /\ \A f \in Fibers : pc[f] # "idle" => token[f] # reconciledAt[i]
  /\ HashOf[i] \in torrents \cup fetching
OrphanReleased == \A i \in Ids : Orphaned(i) ~> ~Orphaned(i)
===============================================================================
