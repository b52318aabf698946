----------------------------- MODULE Components_proofs -----------------------------
(***************************************************************************)
(* What the components of MCComponents do together: a behaviour of the     *)
(* composition is one of every component, so that each theorem about a     *)
(* component is a theorem about the composition, ComponentsTypeOK among    *)
(* them.                                                                   *)
(***************************************************************************)
EXTENDS MCComponents, DownloadQueue_proofs, LibraryFileWrite_proofs, ProgressPublication_proofs,
        BackgroundWork_proofs

(* A step of the composition is one of the component it names, and leaves  *)
(* the others alone.                                                       *)
LEMMA ComponentStep ==
  ASSUME [ComponentsNext]_componentVars
  PROVE  /\ [QueueNext]_queueVars /\ [FileNext]_fileVars /\ [ProgressNext]_progressVars
         /\ [ScanNext]_scanVars /\ [WorkerNext]_workerVars
BY Zenon DEF ComponentsNext, componentVars

(* A behaviour of the composition is one of each of its components, with   *)
(* the fairness of each.                                                   *)
THEOREM ComponentsImplementEach ==
  ComponentsSpec
    => QueueFairSpec /\ FileSpec /\ ProgressFairSpec /\ ScanFairSpec /\ WorkerFairSpec
<1>1. ComponentsInit => QueueInit /\ FileInit /\ ProgressInit /\ ScanInit /\ WorkerInit
  BY DEF ComponentsInit
<1>2. [ComponentsNext]_componentVars
        => /\ [QueueNext]_queueVars /\ [FileNext]_fileVars /\ [ProgressNext]_progressVars
           /\ [ScanNext]_scanVars /\ [WorkerNext]_workerVars
  BY ComponentStep
<1>3. QED
  BY <1>1, <1>2, PTL DEF ComponentsSpec, QueueFairSpec, QueueSpec, FileSpec, ProgressFairSpec,
     ProgressSpec, ScanFairSpec, ScanSpec, WorkerFairSpec, WorkerSpec

(* Every variable of the composition has its type.                         *)
THEOREM ComponentsTypeCorrect == ComponentsSpec => []ComponentsTypeOK
<1>1. FileTypeOK /\ ProgressTypeOK /\ ScanTypeOK /\ WorkerTypeOK => ComponentsTypeOK
  BY DEF ComponentsTypeOK
<1>2. QED
  BY <1>1, ComponentsImplementEach, FileTypeCorrect, ProgressTypeCorrect, ScanTypeCorrect,
     WorkerTypeCorrect, PTL DEF ProgressFairSpec, ScanFairSpec, WorkerFairSpec
===============================================================================
