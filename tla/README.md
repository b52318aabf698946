# Formal models of Bakarr

Bakarr is a self-hosted anime library manager: it watches release
feeds, queues torrents in qBittorrent, imports what has been downloaded into a
library and keeps metadata about it. The API (`src/apps/api`) is one process written with
Effect over a SQLite database; every HTTP request, background worker and queued operation is
a fiber of it. This directory holds TLA+ models of its concurrent core, the TLC runs that
check them on small instances, and proofs, checked by TLAPS, of what they promise for every
instance. Paths below are relative to `src/apps/api/src/`.

Contents: [inventory](#inventory), [modules](#modules), [runs](#runs-and-what-they-show),
[bounds](#bounds), [fairness](#fairness), [proofs](#proofs), [findings](#findings),
[simplifications](#simplifications), [not modelled](#not-modelled), [plan](#plan).

## Inventory

What every component keeps, does and depends on; *hard* is what is hard to get right or to
test, *correct* what makes it correct.

**Download reconciliation** (`features/operations/download/download-reconciliation-service.ts`,
`download-reconciliation.ts`). State: `downloads.reconciled_at` (NULL, a claim token, or the
timestamp of the import), the units' rows, the library's files, and the in-memory set
`liveClaimIds`. Operations: claim a row, import its files, finalize, clean up the torrent,
release. Called by the request `POST /downloads/:id/reconcile` and by the sync pass. *Hard*:
several fibers after one row, an import that may fail or be cut off at every step, crashes,
and a sweep that must tell an orphaned claim from a slow import. A release may be fetched twice, and
its hash then has two rows. *Correct*: one importer per
download; reconciled means imported, and for good; every completed torrent gets imported.

**Torrent sync, queue and actions** (`download-torrent-sync-service.ts`,
`download-queue-support.ts`, `download-trigger-service.ts`, `download-coverage.ts`,
`download-torrent-action-service.ts`, `repository/download-repository.ts`). State: the status
columns of `downloads` and the events; qBittorrent has the torrents. Operations: a sync pass
(list, sweep claims, write statuses, fail stale queued rows, refine batch coverage,
reconcile), queueing under `DownloadTriggerGate`, pause, resume, delete, retry. *Hard*: the
pass writes what it computed from rows loaded earlier; the torrent is added before the row
says so; retry and resume do not take the gate. *Correct*: no unit is queued twice; only a
queued row without a torrent is given up, and such a row is; a stale status is corrected by a
later pass; a row that is over blocks nothing.

**Library file write** (`library-file-write-support.ts`). State: files. Stage into a
temporary file, back up what is there, rename, restore or clean up, record, roll back. *Hard*:
every step may fail, and with `move` the source is gone after the first. *Correct*: readers
find whole files; what is in the library is not lost before it is replaced.

**System configuration** (`features/system/system-config-update-service.ts`,
`config-activation.ts`, `runtime-config-snapshot-service.ts`). State: the row of `app_config`
with the profile rows, the cached snapshot, the generation of workers and the log level.
Operations: update (persist, replace the snapshot, reload the workers, set the level; roll
back), lazy loads of the snapshot, startup. *Hard*: four copies written in turn, readers that
load meanwhile, an activation that fails half-way, a client that goes away. *Correct*: a
successful update is in force everywhere; a failed one leaves the old state.

**Background workers** (`background/controller-core.ts`, `workers.ts`, `monitor.ts`,
`task-runner.ts`, `background-job-runner.ts`). State: the scope of the current generation, run
permits, flags and counters by worker name, job rows. *Hard*: the new generation starts before
the old one stops; timeouts, interruptions and manual tasks meet the runs of the daemon.
*Correct*: one generation at a time; no two runs of a worker at once; flags and job rows that
say what runs; a daemon that goes on whatever its task does.

**Operations task launcher** (`features/operations/tasks/operations-task-launcher-service.ts`,
`operations-task-service.ts`, `repository/task-repository.ts`). State: rows of
`operations_tasks`, the queue, `activeTaskIds`. Operations: launch (or fold into the active
task of the key), run, record the end. The router answers 202 with a task id that the client
polls. *Hard*: concurrent launches of a key, failing writes, restarts. *Correct*: one task per
key; every accepted task ends, once; a key is always given back.

**Progress publication** (`features/operations/tasks/operations-progress-service.ts`,
`infra/effect/serialized-runner.ts`, `features/events/event-bus.ts`,
`features/system/system-events-service.ts`). State: the drain runner's completion and pending
flag, a sliding queue per subscriber, which all other notifications go through too. Whoever
changes `downloads` publishes a snapshot afterwards, at once or coalesced; a client subscribes,
loads a snapshot and follows. *Hard*: a trigger while a run is under way, the failure or
interruption of the one others wait for, events older than the snapshot. *Correct*: a trigger is
followed by a run that reads after it, nobody waits for ever, and a client that keeps up ends up
with the table as it is.

**Unmapped folder scan** (`features/operations/unmapped/`, `tasks/task-coordinators.ts`).
State: match rows, the scan lease, the job row. A loop of passes over queued folders beside
pause, resume, reset and refresh requests of the user. *Hard*: passes write whole rows from an
older snapshot; the lease passes from a request to a forked loop. *Correct*: the lease goes
with one scan and is given back; pauses are respected; the loop ends.

**Authentication** (`features/auth/`): sessions with expiry and refresh, login limiter.
**The rest** - qBittorrent client, RSS and search, ranking, library scan and naming, metadata
providers, media catalogue, reader and streaming, HTTP layer, web application - is network or
file I/O, parsing, or one statement per request; `PROJECT.json` lists every part with its
sources and the reason.

## Modules

| module | models |
| --- | --- |
| `ImportLease` | abstract: what a reconciliation claim promises |
| `UnitReservation` | abstract: what queueing promises of the units of a media entry |
| `SingleFlight` | abstract: what a launch under a task key promises its callers |
| `DownloadReconciliation` | the claim, the import, the sweep; implements `ImportLease` |
| `MCDownloadReconciliation` | its instances for TLC |
| `DownloadQueue` | the status of download rows: queueing, sync pass, actions of a user; implements `UnitReservation` |
| `MCDownloadQueue` | its instances for TLC |
| `LibraryFileWrite` | writing one file of the library, by several writers |
| `ProgressPublication` | publishing progress, the drain runner, a client's stream |
| `UnmappedScan` | the scan of unmapped folders and the requests beside it |
| `BackgroundWorker` | the daemons of a worker across reloads, its manual tasks, its job row |
| `ConfigActivation` | a configuration update with readers, restarts and reloads |
| `TaskLauncher` | launches, queue and workers of background operations; implements `SingleFlight` |
| `MCComponents` | `DownloadQueue` to `BackgroundWorker` put side by side for TLC |
| `..._proofs` | the theorems of the module they are named after |
| `BackgroundWork_proofs` | the theorems of `BackgroundWorker` and `UnmappedScan` |

How they fit together: `DownloadReconciliation` and `DownloadQueue` are two views of the table
`downloads`. The first has `reconciled_at` and every step of an import and takes the statuses as
given; the second has the status columns and takes an import as one step. The one import step of
`DownloadQueue` is what `ReconciledForever` and the refinement of `ImportLease` say of the many:
a row is recorded as imported once, by the one fiber that has the right to. These correspondences
are argued here, not checked. `LibraryFileWrite` has the calls on the file system that `Stage`
and `Commit` of an import stand for; `BackgroundWorker` is one worker of the generations that
`ConfigActivation` reloads.

In all of them an action is what a fiber does up to its next `await`: between two actions any
other fiber may run. `pc` (or `phase`) is where a fiber waits. Whatever may go wrong is a
*fault* of a named kind; the constants `Faults` and `MaxFaults` say which kinds an instance
allows and how many faults a behaviour may have. Properties that must not depend on the
faults are stated over them all.

**`DownloadReconciliation`.** `reconciledAt` is the column, `mapped` the units whose row has a
file, `torrents` and `fetching` the completed and the other torrents of qBittorrent, `roots` and
`source` what its content directories have, `library` the files in place, `live` the set
`liveClaimIds`. A fiber goes through `Lookup` (load the row, mark it live), the claim
(`WinClaim`, `LoseClaim`, `FailClaim`, `InterruptClaim`), `PlanBatch` or `PlanSingle`, then
`Stage`, `Commit`, `Upsert` for each file, `Finalize` or `Mark`, `CleanupTorrent`, and the exit
handler `Exit`, `Release`. `SyncList`, `SweepCheck`, `SweepRelease` and `SyncReconcile` are the
parts of a sync pass that touch claims; `SweepEnd` and `SyncRefused` its bulk write, which the
unique index refuses when it would put two rows of a hash in flight (`toDownload` are the hashes
it is about to). `Fetch` is a trigger that inserts a row, for the first time or again, for a
torrent qBittorrent takes, has already or refuses; `Arrive` its completion. `RowsOf` are all rows
of a hash: `IsFirstRow` is the one `loadDownloadByInfoHash` returns, `IsLastRow` the one the
`Map` of a pass keeps, and a claim writes them all. `Age` lets a token grow older than
`STALE_CLAIM_THRESHOLD_MS`; with `SlowImports = FALSE` it only does so when no fiber works under
the token any more. `DeleteTorrent` and `DeleteRow` are the two halves of a user's deletion,
`Crash` is a crash and the restart.

`ImportLease` is two variables, who may finalize a download and what became of it, and five
actions. The refinement takes as holder the fiber that finds its own token in the row it imports,
and as outcome what `reconciledAt` says; every interleaving of tokens, sweeps, fetches and crashes
has to be one of those five actions or a stutter. A fiber whose token a sweep has released goes on
importing, and that is `ImportExclusion`'s concern; it is no holder any more, so that it must not
finalize.

**`DownloadQueue`.** `release`, `status`, `covered`, `reconciled` and `old` are columns of
`downloads` (`old` the rows whose `last_synced_at` is past the threshold), `torrents` what
qBittorrent reports. A trigger goes through `Trigger` and `CheckUnits` (the two queries of
`hasOverlappingDownload`), `Insert`, `Add`, and `Finalize` or `DropRow`; `GateOpen` is
`DownloadTriggerGate`. An actor loads a row (`Load`), calls qBittorrent (`Call`) and writes what
the answer says (`Write`, `Remove`). A pass is `SyncList`, `SyncRows`, `SyncWrite` (or
`SyncConflict`, when the unique index refuses), `SyncFailStale`, `SyncRefine`, `SyncReconcile`,
`SyncEnd`; `plan` is what it carries from the reads to the write. Every write that may put a row
in flight goes through `WriteStatus` and so through the index. `reentered` is a history variable:
rows that came to be in flight, or to cover more, otherwise than by being queued.

`UnitReservation` is the promise behind all this: a download takes its units in one step, and only
if no other has any of them. In the mapping a row holds what it covers while it has been in flight
since it was queued, so `Insert` is `Reserve`, and what ends a row, cancels it or puts it into
`reentered` is `Release`: the check, several awaits before the insertion, has to be as good as
one made at the insertion.

**`LibraryFileWrite`.** A file is its content: `Before`, the name of the writer it came from,
or `Partial`. `Begin` to `Unstage` are the staging (rename, copy, or copy and removal across
file systems), `Stat` to `Restore` the swap, `SwapFails` a failing call or an interruption,
`Cleanup` the release of `acquireUseRelease`, `Record` to `Rollback` the row and its failure.
`latest`, `superseded` and `overlapped` are history: what was written last, what was replaced
or undone, and whether two writers were at the destination at once.

**`ProgressPublication`.** The table is the number of changes made to it, a snapshot the number
it has seen. `Change`, `Read` and `PublishNow` are a fiber that publishes at once; `Claim`,
`PublishRun`, `Settle` and `RunFails` the drain runner, with a `Deferred` named after the fiber
that made it; `Subscribe`, `Bootstrap`, `Fold` and `Show` a client, whose queue carries every
other notification as well (`Notify`). A client loads 200 rows at most: `Crowded` are the changes
after which the table has more, and `partial` says that the client shows a table cut off there.
`preempted` and `evicted` are history: a fiber took the lead between the reset and the settling of
another, and the last snapshot in the client's queue was pushed out by another notification.

**`UnmappedScan`.** `Start`, `Launch` and `LaunchFails` are a request with the lease, `PassBegins`
to `PassFinds` the loop with its snapshot `snap` (`PassMatches` writes the row of a folder,
`PassRecords` the job row after it), `PassDies` any failure of it with its handler,
`Control`, `BulkControl`, `ListFolders` and what follows them the requests of the user.
`pausedThen` is history: the folders the pass found paused.

**`BackgroundWorker`.** `place` says where the fiber of each daemon and manual task is, `permit`
who holds the permit of the drop runner. `Reload`, `Interrupted`, `DaemonStops` and `Closed` are
a reload, `Attempt` to `RunEnds` a run with its timeout, `BackOff` the pause after a failure.
`journal` is the job row, `daemonFlag` and `runFlag` the monitor's; `cutShort` and `reloaded` are
history.

**`MCComponents`** puts these five together for one run of TLC. They share no state, so the
initial state picks one and the others wait: the run is the sum of the components' state
spaces, not their product. What waits in its initial state enables no action that is fair.

**`ConfigActivation`.** `stored`, `snapshot`, `workers` and `level` are the four places;
`closing` and `leftover` the generations that reload is stopping, or was kept from stopping.
`Begin` to `AppendLog` are the steps of `updateConfig`, `ReloadFails` and `Rollback` its
failure, `StartLoad`, `Load` and `StoreSnapshot` a call of `getRuntimeConfig` that finds the
snapshot empty. `disturbed` is a history variable: an activation failed or was cut short since
the last one that went through.

**`TaskLauncher`.** `active` is `activeTaskIds`, `queue` the task queue, `status` the column; a
task has the name of the request that created it. `Fold`, `Check`, `Insert` and `Register` are
`launch` under its semaphore; `Take` to `Finish`, `Fail`, `WriteFailed` and `LoseFailed` the
task a worker runs. `lost` is a history variable: tasks whose end was never written.

`SingleFlight` has no rows, queue or workers: a call starts a task or joins the one in flight
under its key, in one step, and is answered at once. In the mapping `active` is what is in flight,
`Register` is `Start`, `Fold` is `Join`, the write of the success `Succeed` and the end of the
ensuring that frees the key `Land`; a failure frees the key first (`Fail`) and is recorded later
or lost. Everything of the queue and the workers is a stutter.

## Runs and what they show

| run | shows |
| --- | --- |
| `Reconciliation` | `ImportExclusion`, `ReconciledIsImported`, `ReconciledForever` and `ImplementsLease` with two faults of all eleven kinds; about 2 million states, a minute |
| `ReconciliationLive` | `EventuallyReconciled` and `OrphanReleased` under fair scheduling, with a release that is fetched twice, another release of its episode, and a crash or a failure; 286 thousand states, two minutes |
| `ConfigActivation` | `AppliedBeforeAnswer` and `AgreeUnlessDisturbed` with three faults; 56 thousand states |
| `TaskLauncher` | `SingleFlight`, `ActiveIsLive`, `EndedForever`, `AcceptedEnds`, `KeyFreed` and `ImplementsSingleFlight` with two faults; 74 thousand states |
| `DownloadQueue` | `GateInv`, `OnlyPhantomsFail` and `ImplementsReservation` with any one fault of seven kinds; 5.7 million states, three minutes |
| `Components` | `StatusCatchesUp` and `PhantomsFail` of the queue under fairness, and everything about file writes, progress, scan and workers; 318 thousand states, three minutes |
| `SlowImport`, `LeakedClaim`, `FailedActivation`, `InterruptedReload`, `FoldedLaunch`, `RefetchBlocked` | each reaches a state, or a loop, that a comment or a test of the repository excludes: see [findings](#findings) |

The properties in words:

- `ImportExclusion`: no two fibers import one download at a time.
- `ReconciledIsImported`: a download on record as reconciled has every unit it covers in the
  library and in the table. Nothing looks at such a row again.
- `ReconciledForever`: no release and no sweep undoes a finalization.
- `EventuallyReconciled`, `OrphanReleased`: no failure and no crash leaves a completed torrent
  unimported, or a claim held by nobody. The first is about the oldest row of a hash: the
  second fetch of a release that is on record as imported is never imported, since
  `loadDownloadByInfoHash` finds the old row and stops there. And it supposes that no
  release is being fetched again for ever: until it has arrived every pass is refused (finding 6).
- `AppliedBeforeAnswer`: when an update is about to report success, its configuration is the
  one in the row, the snapshot, the workers and the log level, and no older generation is
  being stopped.
- `AgreeUnlessDisturbed`: between updates the four places agree, unless the last activation was
  disturbed; then the next one that goes through heals them.
- `SingleFlight`: tasks of one key are never queued or run twice.
- `ImplementsSingleFlight`: the same as the callers see it, with the order in which successes,
  failures and the freeing of the key happen.
- `ActiveIsLive`: the registered tasks are exactly those queued or being run.
- `EndedForever`, `AcceptedEnds`, `KeyFreed`: a task ends once; an accepted one does end unless
  a restart or the failure of its very last write prevents it; no failure blocks a key.
- `GateInv`: two rows that were queued and have been in flight ever since cover no unit in
  common; with it, what makes that inductive: one trigger at a time, and nothing comes to cover
  the chosen units between the check and the insertion.
- `ImplementsReservation`: the units of a download are taken in one step and only if they are free,
  as `UnitReservation` has it; nothing else that writes the table gives a row a unit.
- `OnlyPhantomsFail`: a pass gives up a queued row only if it has not seen its torrent, because
  what it has seen is fresh by then.
- `StatusCatchesUp`: again and again a row shows what qBittorrent reports of it, or that it is
  imported, whatever stale status was written in between.
- `PhantomsFail`: a row queued for a torrent that is not there does not wait for ever, while any
  torrent is listed.
- `DestinationWhole`: the destination never is a file copied in part.
- `CurrentSurvives`: what the library has had last is at the destination or in a backup.
- `CrashKeepsContent`: until its clean-up a write keeps its content somewhere.
- `DrainFresh`, `RunnerInOrder`, `Answered`: a trigger that succeeds was followed by a run that
  read after it; runs publish in order; every trigger is answered.
- `NobodyAbandoned`: who waits for a run waits for a fiber that is still at it, even after the lead
  was preempted.
- `ClientSettles`: once all have published and the client has shown its queue, it shows the table.
  Excepted are a publication that failed or was overtaken, a preempted lead, a last snapshot that
  other notifications have pushed out of the queue of a client that lags, and, as to the whole of
  the table, one with more rows than a client loads, until the next publication.
- `OneScan`, `ScanEnds`: the lease goes with exactly one scan, and is given back.
- `JobRowHonest`, `JournalHonest`: the job rows say running while a job runs, and afterwards only
  when its end could not be recorded or was cut short.
- `PauseRespected`: a pass resumes no folder it found paused.
- `FlagsHonest`: the monitor says that a worker runs only while it does, and until a reload has
  closed a generation every daemon and every run is shown.
- `DaemonsKnown`: no daemon is left over: each is the one in force or the one a reload is closing.
- `KeepsRunning`: the daemon in force begins a run again and again.

Several properties stop short of what one might wish, because the code does not deliver it and
no comment promises it: history variables (`reentered`, `preempted`, `evicted`, `overlapped`,
`cutShort`, `reloaded`) mark where. The hazards of `PROJECT.json` name each such place.

Every property of a passing run is also shown to be able to fail: `PROJECT.json` names, for
each, a plausible slip in the code (a dropped condition, a missing reset) under which the same
run finds it violated. The definitions marked `\* mutant` are those slips and nothing uses them.

To repeat a run: `tlc -config Reconciliation.cfg MCDownloadReconciliation`; the other
configurations belong to the module named in `PROJECT.json`.

`Reconciliation.cfg` allows the system to stop, because with clean-up on and every torrent
removed there is nothing left to sync; `ConfigActivation.cfg` because a process whose stored
configuration cannot be spawned does not come up; `TaskLauncher.cfg` because every request is
made once; `DownloadQueue.cfg`, `RefetchBlocked.cfg` and `Components.cfg` because rows, requests,
writers and generations are finitely many and users may stop; `ReconciliationLive.cfg` because
the clean-up removes the torrents.

## Bounds

- *Rows 1 and 2, the first a batch of two units, the second a single episode.* A batch of two
  is the least in which an import can stop half-way; the single path and the fall-through from
  an empty batch to it are reached too. Two rows are there for the sync pass, which handles
  them in turn.
- *`ReconciliationLive`: three single rows over one episode, two of them fetches of one release,
  four tokens, one fault.* The least in which a release comes back, before or after the import of
  the first row, with its torrent or after the clean-up has removed it, and in which the unit of a
  row may be in place through another release.
- *One request fiber and the sync fiber.* Two fibers are what a race for a claim takes; the
  theorems cover any number.
- *Five tokens.* A token is in use while a fiber, the row or a sweep knows it; two fibers, two
  rows and one pass never need more, and a fiber that finds none waits.
- *Two faults* (three for the configuration): one to break something and one to break the
  recovery. All kinds are allowed together.
- *Three configurations*, one of which no worker can be spawned from: two for a lost update or a
  stale load, one for the failed activation.
- *Three launches, two keys, two workers*: three launches are needed for a task that is queued
  behind a running one while a third is folded, two keys to tell the keys apart, two workers to
  run two tasks at once. `FoldedLaunch` needs two launches of one key for two media.
- *`DownloadQueue`: two rows over three releases, two triggers, one actor with one request, one
  fault.* Two rows are what a conflict over a unit or a hash takes, two triggers what a race under
  the gate takes. An episode and a batch that names it overlap from their insertion on; a second
  batch is deferred, so that its units are told later. The triggers are interchangeable, which the
  symmetry of the run uses; it checks no liveness. The liveness run leaves the actor and one trigger
  out and has an episode and a deferred batch.
- *Files: two writers, one moving, with two faults*: two renames over one destination, a fault
  and a fault of its clean-up. *Progress: one immediate and two coalesced changes, capacity 2, the
  second change crowded*: a lead and a follower, and a queue that slides at the third event, so
  that other notifications push a snapshot out or wait beside it. *Scan: two folders, two
  attempts, two starters, two requests*: a start against a start, a request before and after the
  snapshot of a pass. *Worker: three generations, a manual task*: one being closed, one in force,
  one to come.
- The scan has been repeated with three requests (276 thousand states). Larger instances of the
  publication grow fast, since other notifications may come at any time: for more fibers there are
  the theorems.

## Fairness

`DownloadReconciliation!Fairness`: a fiber that can take a step takes one (the database and
the file system answer, an import ends); the scheduler starts pass after pass
(`background/workers.ts` repeats the sync worker for as long as the process lives); time goes
on, so a token grows stale. Nothing is assumed of users, and no fault has to happen.
`TaskLauncher!Fairness`: an operation returns or fails, the database answers, a launch under
way proceeds, workers run. Weak fairness is enough, since none of these steps is disabled again
by others once it is enabled, except where the code makes it so. `ConfigActivation` and
`LibraryFileWrite` state no liveness.

`QueueFairness`: triggers and actors run on, one pass follows another, and time passes between
passes. The last is strong fairness of `Age`, since a pass under way disables it: no call lasts
as long as the threshold of ten minutes. `ProgressFairness`: publishers run on. `ScanFairness`: the
launch, the loop and a request run on. `WorkerFairness`: runs, daemons and closes proceed, for a
run that does not end is timed out. No request, crash, reload or failure is ever required.

## Proofs

| theorem | says | needs |
| --- | --- | --- |
| `DownloadReconciliation_proofs!TypeCorrect` | `TypeOK` | |
| `Exclusion` | `ImportExclusion` | `ClaimsWinTheirRow`, `SweepsSpareImports`, in the formula |
| `Refinement` | `ImplementsLease` | |
| `LeaseExcludes` | one worker may finalize a download, nothing over is taken up: what `ImportLease` is for | |
| `ReconciliationIsFinal` | `ReconciledForever` | |
| `ReconciledMeansImported` | `ReconciledIsImported` | `ImportMode = "copy"` |
| `OrphansAreSweepable` | a token nobody holds has no live mark | no `claimInterrupt`; `ClaimsWinTheirRow` in the formula |
| `CleanupIsSafe` | what a clean-up removes is in the library and on record | `ImportMode = "copy"` |
| `ContentNeverLost` | only a deletion by a user takes the content of a release out of its directory, the library and the hands of imports | with `move`, `StagedCommits` in the formula |
| `ConfigActivation_proofs!Invariance`, `TypeCorrect`, `Applied`, `Agreement` | `IInv`, `TypeOK`, `AppliedBeforeAnswer`, `AgreeUnlessDisturbed` | |
| `ConfigActivation_proofs!WorkersFollowTheRow` | workers and log level only change to what the row says | |
| `OnlyActivationsSeparate` | `AgreeAtRest` | `Unspawnable = {}`, no `interrupt` |
| `TaskLauncher_proofs!Invariance`, `TypeCorrect`, `SingleFlightHolds`, `ActiveTasksAreLive`, `EndedIsFinal` | `Inv`, `TypeOK`, `SingleFlight`, `ActiveIsLive`, `EndedForever` | |
| `LauncherImplementsSingleFlight` | `ImplementsSingleFlight` | |
| `CallersGetTheirKey`, `AnswersKeepTheKey` | `Flights!AnswersMatch`, of `SingleFlight` and of the launcher | |
| `NoRowForgotten`, `AnsweredAreAccounted` | an accepted task has ended, is on its way, or is in `lost` | |
| `AnswersAreOwned` | `AnswerIsOwned` | `OneMediumPerKey`, in the formula |
| `DownloadQueue_proofs!QueueTypeCorrect`, `GateHolds`, `ListedStaysFresh`, `PhantomsOnlyFail` | `QueueTypeOK`, `GateInv`, `ListedIsFresh`, `OnlyPhantomsFail` | |
| `PhantomsDoNotRecover` | a stale queued row stays one until its status changes or a retry, and no pass gets past its sweep with one | |
| `QueueImplementsReservation` | `ImplementsReservation` | |
| `ReservationExcludes` | `Reservation!NoneTwice`, of `UnitReservation` | |
| `LibraryFileWrite_proofs!FileTypeCorrect`, `DestinationStaysWhole`, `LatestSurvives`, `ContentKept` | `FileTypeOK`, `DestinationWhole`, `CurrentSurvives`, `CrashKeepsContent` | |
| `ProgressPublication_proofs!ProgressTypeCorrect`, `DrainStaysFresh`, `RunsInOrder`, `ClientCatchesUp`, `FollowersAwaitALead` | `ProgressTypeOK`, `DrainFresh`, `RunnerInOrder`, `ClientSettles`, `NobodyAbandoned` | |
| `SettledBeforeTheNext` | `AnswersFresh`: `DrainFresh` without its exception | `NoLeadBetween`, in the formula |
| `BackgroundWork_proofs!ScanTypeCorrect`, `LeaseKept`, `JobRowTold`, `PauseKept` | `ScanTypeOK`, `OneScan`, `JobRowHonest`, `PauseRespected` | |
| `FolderGivenUp` | a folder is tried `MaxAttempts` times, and once more per request | |
| `PassTriesInTime` | a folder is tried `MaxAttempts` times | `NoRequestRetries`, in the formula |
| `WorkerTypeCorrect`, `JournalTold`, `FlagsTold`, `NoDaemonOrphaned` | `WorkerTypeOK`, `JournalHonest`, `FlagsHonest`, `DaemonsKnown` | |
| `Components_proofs!ComponentsImplementEach` | a behaviour of `MCComponents` is one of each component, with its fairness | |
| `ComponentsTypeCorrect` | `ComponentsTypeOK` | |

They hold for every value of the constants that satisfies the module's `ASSUME` and the hypotheses
in the last column: any number of rows, fibers, tokens, updates, readers, requests, writers,
folders, generations and faults. Every invariant and every safety property of the passing runs has
its theorem. The prover cannot use fairness, so what has to happen in the end stays with TLC; but a
liveness property mostly rests on an invariant (nothing is lost on the way), and those are proved:
`NoDaemonOrphaned` for `KeepsRunning`, `FollowersAwaitALead` for `Answered`, `AnsweredAreAccounted`
for `AcceptedEnds`, `ActiveTasksAreLive` for `KeyFreed`, `OrphansAreSweepable` for `OrphanReleased`,
`ContentNeverLost` for `EventuallyReconciled`, `PhantomsDoNotRecover` for `PhantomsFail`,
`FolderGivenUp` for `ScanEnds`. `StatusCatchesUp` alone has none.

Where a run shows the code to break a promise, a theorem says what breaks it and that nothing
else does: `Exclusion` for `SlowImport`, `OrphansAreSweepable` for `LeakedClaim`,
`OnlyActivationsSeparate` for `FailedActivation`, `AnswersAreOwned` for `FoldedLaunch`. Two
hazards no run covers have theirs too: the file lost by a failing rename (`ContentNeverLost`) and
the lead taken before the last one has settled (`SettledBeforeTheNext`). A condition on
behaviours, such as `StagedCommits`, is written into the formula (`Spec /\ StagedCommits =>
...`); each of them is a condition on single steps that plenty of behaviours satisfy.

*Exclusion.* The code does not keep two imports of a row apart in all cases, and nothing is assumed
that it does not guarantee; the theorem names the two steps after which they may overlap. A claim is
by hash while everything else is by id: the fiber that has loaded the old row of a release may win
through a new row, fetched since, and import the old one beside whoever holds it
(`ClaimsWinTheirRow` says that each claim that succeeds wins the row its fiber has loaded). And a
sweep may release the token of a fiber that is still importing, as `SlowImport` shows
(`SweepsSpareImports`). Without those two steps `ClaimInv` is inductive: a fiber at
work finds its own token in its row, unless the row is final or gone, so that a claim, which
writes NULL only, meets no holder. No crash, failure, interruption, deletion or second fetch gets
in its way. Info hashes need not be unique: the unique index of `db/schema.ts:213` covers
rows whose status is queued, downloading or paused, so that a release fetched again has
an old row and a new one.

*Refinement* needs no exclusion and no hypothesis. `TokenInv` says that two fibers never work
under one token and that a token not yet written is in no row; so whatever else happens, a row
has at most one owner, a sweep of a running import takes the lease away (`Release`), a claim of
several rows takes the one its fiber imports, or none (`Acquire`, or a stutter), and a
finalization, conditional on the token, is `Finish` by the owner. The end of a fiber is
`Release`, a crash `ReleaseAll`, the deletion of the row `Delete`, everything else a stutter.

*ReconciledMeansImported.* `ImportInv` says that a unit with a row has its file in the library,
that contents are complete while they exist, and that every unit of a row being imported is
recorded already or among the files to do, so that a finalization is only reached with nothing
left. With `move` it
fails, and the model shows how: the file of the last unit is moved, recording it fails, the
retry finds an empty directory, falls through to the import of a single unit, finds that one
in place and marks the row.

*OrphansAreSweepable.* A sweep passes over a token whose row is marked live. `NoOrphanShielded`
says that a marked row with a token has a fiber at work that will take the mark away. An
interruption between the mark and the exit handler breaks it, which is what `LeakedClaim` shows,
and so may a claim won through another row of the hash: it writes its token into a row somebody
else has marked. The theorem says that nothing else does. `OldestMarked` is needed for the rows a
claim writes beside its own: only the oldest row of a hash is ever loaded and marked, and ids
grow, so those are not marked. Slow and overlapping imports are allowed: it does not rest on
exclusion.

*CleanupIsSafe.* A clean-up removes the torrent of a hash, whichever of its rows was imported. It
is safe because `ImportInv` counts by content: a fiber comes to the clean-up only with every unit
of its row in the table and so in the library, and the rows of a hash have their units in common.
Deletions by the user may come at any time, since the statement is about the step of the clean-up
alone. With `move` the content leaves its directory before it is on record.

*ContentNeverLost.* This one holds for `move` too. `ContentInv` says that an import has to do at
least what its directory holds and the library lacks, that a unit leaves the list only when it is
in place, and that nothing is left on it at the clean-up, so that what a clean-up removes is in
the library already. While a moved file is staged it is in the hands of its fiber alone
(`Moved`); a rename that fails, an interruption or a crash right there loses it, and
`StagedCommits` excludes those three and nothing else. The conclusion is about steps: whichever
takes content away from all three places is a deletion of a row of that release by a user. The
moving of a file and failing everywhere else, several rows of a hash, overlapping imports, slow
imports and sweeps are all allowed.

*ConfigActivation.* `ActivationInv` ties the phase of the one update under the lock to the places
it has written, and says of every load that would fill the snapshot that it holds the current row
unless the update has still to replace the snapshot. `WorkersFollowTheRow` uses the first half:
who reloads or sets the level holds the lock and has written the row before. It is false of the
code that the row and the workers agree (`FailedActivation`), so this is what is left: the
workers may lag behind the row, but never change to anything else. `OnlyActivationsSeparate` says
when they do agree: `disturbed` is only set by an activation that fails or is cut short, which
gives it from `Agreement`.

*TaskLauncher.* `Inv` makes `active` and the live tasks (queued, or in a worker that has not
given its key back) inverse to each other and keeps every task in one place. The refinement needs
it at every step: `Start` wants the key free, which `Register` only knows from the check under
the semaphore, and `Succeed`, `Land` and `Fail` want the worker's task to be the one in flight
under its key. What the abstract module promises, that nobody is given a task of another key, is
proved there and carried over by the refinement. `RowsAccounted`, inductive given `Inv`, and
`AnswersInv` (an answer names a task that has a row and whose launch is over) give the safety
core of `AcceptedEnds`. `AnswersAreOwned` is a corollary of the refinement: with one medium per
key, a task of one's own key is a task of one's own medium.

*DownloadQueue.* `GateInv` is inductive. Only a finished insertion, a status written by a pass,
an actor or a finalization, and a refinement change what is in flight and what it covers; the
last two kinds put rows into `reentered`, so that a steady row can only come from an insertion,
which `ChosenIsFree` allows. The refinement of `UnitReservation` is `GateInv` step by step:
`ChosenIsFree` is the guard of `Reserve`, and every other write of the table only takes rows out
of what is held. `ListedIsFresh` needs the pass to write `last_synced_at` of every row it lists,
and `OnlyPhantomsFail` follows from it action by action. `PhantomsDoNotRecover` is the other
half: of all that writes `last_synced_at`, an insertion takes a new row, a deletion ends the row,
a pass gives it a status that is not `queued`, and only a retry refreshes it and leaves it in the
queue.

*LibraryFileWrite.* `PlaceInv` says what a writer has in hand where it is: the source whole while
it stages, the temporary file whole until the rename or the clean-up, a backup only after it took
one. It gives `DestinationWhole` for overlapping writers too. While they do not overlap,
`LatestInv` adds that the destination is empty or the latest content, that the one who took the
latest away has it as backup, and that a dropped backup is superseded. `ContentKept` needs both,
and `CrashedKept` for the writers a crash has stopped.

*ProgressPublication.* `SeenInv` counts: nobody has seen more of the table than there is.
`RunnerInv` holds until a lead is preempted: one lead at a time, each follower follows it, and
the change of each is in the snapshot in hand, in one published, or will be read by the run that
`pending` asks for. `ClientInv` follows the client: the last snapshot in its queue is the one
published last; with no snapshot in the queue it shows that one, or nothing newer was published than
what it loaded, or the last one was pushed out. A full queue slides over notifications and snapshots
alike, and which of them goes decides (`SlidesFull`, `SlidesFree`). `CutInv` says that a
table cut off at the limit is one that was that long when it was loaded. `FollowInv`
holds without exception: `completion` names a fiber in its run or none, so that nobody begins to
follow one that is gone, and who settles answers all who wait for it, preempted or not.
`preempted` is only set by a `Claim` while another fiber is about to settle, hence
`SettledBeforeTheNext`.

*UnmappedScan.* `OneScan` is inductive by itself, and the type correctness rests on it: the
starter that forks the loop does so while there is none. `PassInv` ties `pausedThen`, `targets`
and `matching` to the snapshot, so that a pass writes no paused folder but as paused. The number
of attempts is no simple count: a pass writes rows from its snapshot, a request from what it
loaded, and each may bring back an older number. `AttemptsInv` bounds rows, snapshot and loaded
rows at once, by a limit below which every row that has not failed must be. No step of a pass
raises the limit, because a pass matches only what has a try left; putting a folder back or
refreshing it does (`Costly`), by one, which the request has paid for in `scanRequests`.

*BackgroundWorker.* The type invariant contains the point: a fiber is in a run just when it holds
the permit. Hence at most one writes the job row at a time (`OneWorks`), and `FlagInv` follows
the flags until a generation has been closed. `KnownInv` adds to `DaemonsKnown` that the
generation in force is not the one being closed, so that a close never stops the daemon in force.

*Components.* The five share no variable and each step is one of one component while the others
stutter, so that the conjunction of the five specifications follows step by step; the fairness of
the composition is that of its parts. Every theorem above is thereby one of the composition that the
run `Components` checks, and `ComponentsTypeCorrect` is the four type theorems taken together.

Left to TLC, and so for the instances of the runs alone: the liveness properties
`EventuallyReconciled`, `OrphanReleased`, `AcceptedEnds`, `KeyFreed`, `StatusCatchesUp`,
`PhantomsFail`, `Answered`, `ScanEnds` and `KeepsRunning`.

## Findings

1. `SlowImport`: a fiber that loses the claim removes the winner's entry from `liveClaimIds`
   (`download-reconciliation-service.ts:132-139`). A slow import is then swept and done twice.
2. `LeakedClaim`: the exit handler is installed after the claim (`:131`), so an interruption
   there leaves a token that is never swept while the process lives.
3. `FailedActivation`: a spawn that dies with a defect is not rolled back
   (`config-activation.ts:57`): row and snapshot new, workers old.
4. `InterruptedReload`: a client that goes away during `Scope.close`
   (`controller-core.ts:76`) leaves old daemons running for good.
5. `FoldedLaunch`: launches are coalesced by task key alone
   (`operations-task-launcher-service.ts:88`), so a launch for one media is answered with the
   task of another.
6. `RefetchBlocked`: the bulk write of a pass selects rows by info hash
   (`repository/download-repository.ts:408-413`), terminal ones included. Once a release that was
   imported or has failed is fetched again, its torrent's status would put both rows in flight:
   the unique index refuses, and every pass fails there. If the old
   row is on record as imported, the second fetch is not imported even once it has arrived.

`PROJECT.json` quotes the comment or test that says otherwise for each.

## Simplifications

- A statement on the database is atomic; one connection serves all fibers in order. The
  statement of an interrupted fiber may still commit; since it was queued before everything
  that follows, it is taken to commit at the interruption.
- A statement that fails has not happened.
- In `DownloadReconciliation` the torrents of the rows there are when the model begins are completed,
  with the files of every unit the row covers; later rows are fetched. `Fetch` is one step for the
  steps of `queueDownload`, which `DownloadQueue` has one by one. Progress and the status columns are
  left out, and with them torrents in error: a torrent is fetched or complete. The rows of one hash
  cover the same units. A file holds one unit.
- Another file of a unit, or the removal of an imported one by the user, is left out.
- The files of a batch are imported in any order, the torrents of a pass reconciled in any.
- The semaphores are conditions on the phases of the fibers they exclude.
- A configuration is one value for the core row and the profile rows. Validation only decides
  which values there are.
- In `launch` everything after the insert is one step: it awaits nothing.
- In `DownloadQueue` a release is its info hash, one chunk of the bulk write holds all rows, an
  import is one step, claims are left to `DownloadReconciliation`, and the
  state of a torrent that qBittorrent itself has queued is left out.
- In `LibraryFileWrite` the sources of the writers differ and the names of temporary and backup
  files never clash (they carry a random uuid).
- In `ProgressPublication` there is one client, which does not disconnect. What a table is cut off
  to is not counted: the constant `Crowded` says after which changes it has too many rows.
- In `UnmappedScan` the roots contain all folders all the time; suggestions and their ranking are
  left out, a match succeeds or not.
- In `BackgroundWorker` the lock of `runJob` is left out, for a run has the permit of its worker
  as long; metrics and failure counts too.
- Events, logs and metrics are left out. `appendLog` is a step of the update because its failure
  changes the answer.

## Not modelled

The parts of the inventory's last paragraph, for the reasons given in `PROJECT.json`. They are
most of the repository by lines: the web application and the shared schemas, clients of outside
services, parsers, rankers and formatters of names, queries and row updates of one statement, and
the HTTP layer that maps all of it to routes. What they do is a function of their input or one
step on the database; a state machine of them would repeat their text without an interleaving,
a failure or a protocol to look at. The models cover the code where fibers meet: tables, files,
queues, permits and caches that several of them change.

Left out of components that are modelled in part: the share runner and the latest-value
publisher, importing an unmapped folder as media, the queries of the unit repository, metrics
and counters of workers, the bootstrap of users and tables.

## Plan

Done: `DownloadReconciliation` with `ImportLease`, `ConfigActivation`, `TaskLauncher`,
`DownloadQueue` with `UnitReservation`, `LibraryFileWrite`, `ProgressPublication`, `UnmappedScan`,
`BackgroundWorker`, each with its runs and proofs; `SingleFlight` for `TaskLauncher`.

Left, in this order:

1. Profiles beside a configuration update: two tables and two reads in `getConfig`, updates of
   profiles outside the semaphore (`features/system/quality-profile-service.ts:43`), as an
   extension of `ConfigActivation`.
2. The share runner and the latest-value publisher (`infra/effect/`): a flush against offers at
   shutdown, followers of an interrupted leader.
3. Sessions: expiry and refresh against logout (`features/auth/session-service.ts`).

Theorems left: the atomic update of a configuration as an abstract module for `ConfigActivation`,
which the four places implement while no activation is disturbed; an abstract drain runner (run,
follow, answer) for `ProgressPublication` and a lease for `UnmappedScan`; a safety core for
`StatusCatchesUp`. It needs what a pass carries in `plan` to be followed to its write: a row deleted
and inserted again in between is given the status of the one before it.
