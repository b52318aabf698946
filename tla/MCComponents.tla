------------------------------ MODULE MCComponents ------------------------------
(***************************************************************************)
(* Instances of the components for TLC, checked in one run.  They share no *)
(* state: a behaviour is one of the component that the initial state       *)
(* names, the others stay in their initial states.                         *)
(***************************************************************************)
EXTENDS DownloadQueue, LibraryFileWrite, ProgressPublication, UnmappedScan, BackgroundWorker

VARIABLE component

MCContents == [h \in Releases |-> IF h = "b" THEN {1, 2} ELSE {1}]

componentVars == <<queueVars, fileVars, progressVars, scanVars, workerVars, component>>

ComponentsInit ==
  /\ QueueInit /\ FileInit /\ ProgressInit /\ ScanInit /\ WorkerInit
  /\ component \in {"queue", "file", "progress", "scan", "worker"}

ComponentsNext ==
  /\ UNCHANGED component
  /\ \/ /\ component = "queue" /\ QueueNext
        /\ UNCHANGED <<fileVars, progressVars, scanVars, workerVars>>
     \/ /\ component = "file" /\ FileNext
        /\ UNCHANGED <<queueVars, progressVars, scanVars, workerVars>>
     \/ /\ component = "progress" /\ ProgressNext
        /\ UNCHANGED <<queueVars, fileVars, scanVars, workerVars>>
     \/ /\ component = "scan" /\ ScanNext
        /\ UNCHANGED <<queueVars, fileVars, progressVars, workerVars>>
     \/ /\ component = "worker" /\ WorkerNext
        /\ UNCHANGED <<queueVars, fileVars, progressVars, scanVars>>

\* What waits in its initial state has no action that is enabled and fair.
ComponentsSpec ==
  /\ ComponentsInit /\ [][ComponentsNext]_componentVars
  /\ QueueFairness /\ ProgressFairness /\ ScanFairness /\ WorkerFairness

(* Every variable of the components has its type.                          *)
ComponentsTypeOK == FileTypeOK /\ ProgressTypeOK /\ ScanTypeOK /\ WorkerTypeOK
===============================================================================
