----------------------------- MODULE BackgroundWorker -----------------------------
(***************************************************************************)
(* One background worker of background/: the daemon that                   *)
(* workers.ts forks for it and that runs its task on a schedule, the       *)
(* manual tasks of task-runner.ts that run the same task, the drop runner  *)
(* that lets one of them run at a time, the flags of monitor.ts that the   *)
(* status pages show, and the row in background_jobs that                  *)
(* background-job-runner.ts keeps of a run of library_scan and rss.        *)
(*                                                                         *)
(* A reload of the configuration spawns the next generation of the daemon  *)
(* and then closes the scope of the last one (controller-core.ts;          *)
(* ConfigActivation has the steps of the controller itself).  The lock of  *)
(* runJob is left out: a run holds the permit of the drop runner as long.  *)
(***************************************************************************)
EXTENDS Naturals

CONSTANTS
  Generations,      \* a set of numbers: one for each spawn of the daemon
  Manuals,          \* manual tasks
  Nobody,
  MaxWorkerFaults   \* bound on database errors of the journal and on crashes

Runners == Generations \cup Manuals

ASSUME WorkerAssumption ==
  /\ Generations \subseteq Nat
  /\ Generations \cap Manuals = {}
  /\ Nobody \notin Runners
  /\ MaxWorkerFaults \in Nat

VARIABLES
  place,        \* place[r]: where the fiber of r is
  permit,       \* who holds the permit of the drop runner
  live,         \* the generation in scopeRef, if its plan runs the worker
  closing,      \* the generation whose scope a reload is closing
  daemonFlag, runFlag,  \* daemonRunning and runRunning of the monitor
  journal,      \* is_running of the job row
  cutShort,     \* the last run journalled was cut short, or its end could not be recorded
  reloaded,     \* a generation has been closed
  workerFaults

journals == <<journal, cutShort>>
scopes   == <<live, closing, reloaded>>
workerVars == <<place, permit, live, closing, daemonFlag, runFlag, journal, cutShort, reloaded,
                workerFaults>>

InRun == {"begin", "work", "succeeded", "failed"}
Daemons == {"spawned", "wait", "backoff"} \cup InRun
Started(g) == place[g] \in Daemons \ {"spawned"} \/ place[g] = "stopping"

WorkerTypeOK ==
  /\ place \in [Runners -> Daemons \cup {"none", "stopping", "ended"}]
  /\ permit \in Runners \cup {Nobody}
  /\ \A r \in Runners : permit = r <=> place[r] \in InRun
  /\ live \in Generations \cup {Nobody} /\ closing \in Generations \cup {Nobody}
  /\ daemonFlag \in BOOLEAN /\ runFlag \in BOOLEAN
  /\ journal \in BOOLEAN /\ cutShort \in BOOLEAN /\ reloaded \in BOOLEAN
  /\ workerFaults \in 0..MaxWorkerFaults

WorkerInit ==
  /\ place = [r \in Runners |-> "none"]
  /\ permit = Nobody
  /\ live = Nobody /\ closing = Nobody
  /\ daemonFlag = FALSE /\ runFlag = FALSE
  /\ journal = FALSE /\ cutShort = FALSE
  /\ reloaded = FALSE
  /\ workerFaults = 0

WorkerFault == workerFaults < MaxWorkerFaults /\ workerFaults' = workerFaults + 1
NoWorkerFault == UNCHANGED workerFaults
Puts(r, somewhere) == place' = [place EXCEPT ![r] = somewhere]
-------------------------------------------------------------------------------
(***************************************************************************)
(* start and reload of the controller, forkSupervisedWorker.               *)
(***************************************************************************)
\* A plan may leave the worker out: then no daemon is spawned.
Reload ==
  /\ closing = Nobody
  /\ \/ live # Nobody /\ live' = Nobody /\ UNCHANGED place
     \/ \E g \in Generations :
          /\ place[g] = "none"
          /\ \A h \in Generations : place[h] = "none" => g <= h
          /\ live' = g
          /\ Puts(g, "spawned")
  /\ closing' = live
  /\ reloaded' = (reloaded \/ live # Nobody)
  /\ NoWorkerFault
  /\ UNCHANGED <<permit, daemonFlag, runFlag, journals>>

\* markDaemonStarted.
DaemonStarts(g) ==
  /\ place[g] = "spawned"
  /\ daemonFlag' = TRUE
  /\ Puts(g, "wait")
  /\ NoWorkerFault
  /\ UNCHANGED <<permit, scopes, runFlag, journals>>

Released(r) == permit' = IF permit = r THEN Nobody ELSE permit
PermitKept(r) == UNCHANGED permit  \* mutant
Abandons(r) == Released(r)

\* The interrupt reaches the daemon at some checkpoint: of the run only the permit is
\* given back, neither the monitor nor the journal hears of its end.
Interrupted(g) ==
  /\ closing = g
  /\ place[g] \in Daemons
  /\ Puts(g, IF place[g] = "spawned" THEN "ended" ELSE "stopping")
  /\ Abandons(g)
  /\ cutShort' = (cutShort \/ place[g] = "work")
  /\ NoWorkerFault
  /\ UNCHANGED <<scopes, daemonFlag, runFlag, journal>>

\* markDaemonStopped, of whichever generation.
DaemonStops(g) ==
  /\ place[g] = "stopping"
  /\ daemonFlag' = FALSE
  /\ runFlag' = FALSE
  /\ Puts(g, "ended")
  /\ NoWorkerFault
  /\ UNCHANGED <<permit, scopes, journals>>

\* The scope is closed once its daemon has ended.
Closed ==
  /\ closing # Nobody
  /\ place[closing] = "ended"
  /\ closing' = Nobody
  /\ NoWorkerFault
  /\ UNCHANGED <<place, permit, live, reloaded, daemonFlag, runFlag, journals>>
-------------------------------------------------------------------------------
(***************************************************************************)
(* withLockEffectOrFail and runJob.                                        *)
(***************************************************************************)
\* startLibraryScan, startRssProcessing, startMetadataRefresh.
RequestRun(m) ==
  /\ m \in Manuals
  /\ place[m] = "none"
  /\ Puts(m, "wait")
  /\ NoWorkerFault
  /\ UNCHANGED <<permit, scopes, daemonFlag, runFlag, journals>>

\* Back to the schedule; a manual task is over.
Rests(r) == IF r \in Generations THEN "wait" ELSE "ended"

\* The drop runner: a run begins, or it is skipped, for a manual task too.
Attempt(r) ==
  /\ place[r] = "wait"
  /\ IF permit = Nobody
     THEN permit' = r /\ runFlag' = TRUE /\ Puts(r, "begin")
     ELSE Puts(r, Rests(r)) /\ UNCHANGED <<permit, runFlag>>
  /\ NoWorkerFault
  /\ UNCHANGED <<scopes, daemonFlag, journals>>

\* markStarted of the journal.
JournalStarts(r) ==
  /\ place[r] = "begin"
  /\ \/ journal' = TRUE /\ cutShort' = FALSE /\ Puts(r, "work") /\ NoWorkerFault
     \/ WorkerFault /\ Puts(r, "failed") /\ UNCHANGED journals
  /\ UNCHANGED <<permit, scopes, daemonFlag, runFlag>>

\* The task succeeds or fails, and the journal says so, or that cannot be recorded.
JournalKept == UNCHANGED journals  \* mutant
JournalEnds == journal' = FALSE /\ UNCHANGED cutShort

WorkEnds(r) ==
  /\ place[r] = "work"
  /\ \/ JournalEnds /\ NoWorkerFault /\ (Puts(r, "succeeded") \/ Puts(r, "failed"))
     \/ WorkerFault /\ cutShort' = TRUE /\ Puts(r, "failed") /\ UNCHANGED journal
  /\ UNCHANGED <<permit, scopes, daemonFlag, runFlag>>

\* timeoutFail interrupts runJob, which leaves the row as it is.
TimesOut(r) ==
  /\ place[r] \in {"begin", "work"}
  /\ Puts(r, "failed")
  /\ cutShort' = (cutShort \/ place[r] = "work")
  /\ NoWorkerFault
  /\ UNCHANGED <<permit, scopes, daemonFlag, runFlag, journal>>

\* markRunSucceeded or markRunFailed; a daemon that failed backs off (keepWorkerAlive).
FailureEnds(r) == IF place[r] = "failed" THEN "ended" ELSE Rests(r)  \* mutant
AfterRun(r) == IF place[r] = "failed" /\ r \in Generations THEN "backoff" ELSE Rests(r)
FlagKept(r) == runFlag' = (place[r] = "failed")  \* mutant
MarkRunEnded(r) == runFlag' = FALSE

RunEnds(r) ==
  /\ place[r] \in {"succeeded", "failed"}
  /\ MarkRunEnded(r)
  /\ Released(r)
  /\ Puts(r, AfterRun(r))
  /\ NoWorkerFault
  /\ UNCHANGED <<scopes, daemonFlag, journals>>

BackOff(g) ==
  /\ place[g] = "backoff"
  /\ Puts(g, "wait")
  /\ NoWorkerFault
  /\ UNCHANGED <<permit, scopes, daemonFlag, runFlag, journals>>

\* At the next start clearStaleRunningJobs comes before the workers.
WorkerCrash ==
  /\ WorkerFault
  /\ place' = [r \in Runners |-> "none"]
  /\ permit' = Nobody
  /\ live' = Nobody /\ closing' = Nobody
  /\ daemonFlag' = FALSE /\ runFlag' = FALSE
  /\ journal' = FALSE /\ cutShort' = FALSE
  /\ reloaded' = FALSE

RunStep(r) ==
  \/ Attempt(r) \/ JournalStarts(r) \/ WorkEnds(r) \/ TimesOut(r) \/ RunEnds(r)
DaemonStep(g) == DaemonStarts(g) \/ BackOff(g)
CloseStep(g) == Interrupted(g) \/ DaemonStops(g)

WorkerNext ==
  \/ Reload \/ Closed \/ WorkerCrash
  \/ \E r \in Runners : RunStep(r)
  \/ \E g \in Generations : DaemonStep(g) \/ CloseStep(g)
  \/ \E m \in Manuals : RequestRun(m)

WorkerSpec == WorkerInit /\ [][WorkerNext]_workerVars

(***************************************************************************)
(* Time passes, every run ends, the timeout sees to it, and an interrupt   *)
(* arrives.                                                                *)
(***************************************************************************)
WorkerFairness ==
  /\ \A r \in Runners : WF_workerVars(RunStep(r))
  /\ \A g \in Generations : /\ WF_workerVars(DaemonStep(g))
                            /\ WF_workerVars(CloseStep(g))
WorkerFairSpec == WorkerSpec /\ WorkerFairness
-------------------------------------------------------------------------------
(***************************************************************************)
(* Properties.                                                             *)
(***************************************************************************)

(* The job row tells the truth: it says running while the task runs, even  *)
(* when daemons of two generations and manual tasks meet, and once nobody  *)
(* runs it only if the last run was cut short or could not be recorded.    *)
JournalHonest ==
  /\ \A r \in Runners : place[r] = "work" => journal
  /\ journal /\ (\A r \in Runners : place[r] # "work") => cutShort

(* The flags of the monitor tell the truth: it says that the worker runs   *)
(* only while it does or is about to be stopped; and until a reload has    *)
(* closed a generation, a daemon or a run that is there is shown.          *)
FlagsHonest ==
  /\ runFlag => permit # Nobody \/ closing # Nobody
  /\ ~reloaded => /\ daemonFlag <=> \E g \in Generations : Started(g)
                  /\ permit # Nobody => runFlag

(* No daemon is orphaned: the one of the configuration in force is there,  *)
(* however its runs end, and every other is the one that a reload is       *)
(* closing: replaced daemons do not pile up (resilientRun; spawnWorkers    *)
(* and the closing of the last scope in controller-core.ts).               *)
DaemonsKnown ==
  /\ live # Nobody => place[live] \in Daemons
  /\ \A g \in Generations : place[g] \in Daemons \cup {"stopping"} => g \in {live, closing}

(* The daemon of the configuration in force runs its task again and again, *)
(* however its runs end: failures, timeouts and manual tasks in between    *)
(* never leave the worker without one (resilientRun, "keeping daemon       *)
(* alive").                                                                *)
KeepsRunning == []<>(live = Nobody \/ \E g \in Generations : live = g /\ place[g] = "begin")
===============================================================================
