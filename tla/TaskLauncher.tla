----------------------------- MODULE TaskLauncher -----------------------------
(***************************************************************************)
(* Background operations started by a request                              *)
(* (features/operations/tasks/operations-task-launcher-service.ts,         *)
(* operations-task-service.ts, repository/task-repository.ts).             *)
(*                                                                         *)
(* launch answers at once: it inserts a row in operations_tasks, registers *)
(* the row under its task key and queues the work for one of the worker    *)
(* fibers; a launch whose key is registered is folded into the registered  *)
(* task.  The rows survive a restart; the queue, the registered keys and   *)
(* the workers do not, and no startup step looks at the rows.              *)
(*                                                                         *)
(* A task is named by the request that created it.  An action ends at the  *)
(* next await: what the code does between two awaits is one step.          *)
(***************************************************************************)
EXTENDS Naturals, Sequences, Functions

CONSTANTS
  Requests,   \* calls of launch, each made once
  Keys,       \* task keys
  Media,      \* media a task may be about
  None,       \* no media, no task
  Workers,    \* fibers of workerLoop
  Faults,     \* kinds of fault that may happen
  MaxFaults   \* bound on the number of faults

FaultKinds == {"crash", "interrupt", "create", "mark", "operation", "succeed", "final"}

ASSUME LauncherAssumption ==
  /\ None \notin Requests \cup Media
  /\ Faults \subseteq FaultKinds
  /\ MaxFaults \in Nat

VARIABLES
  input,    \* taskKey and mediaId every request passes to launch
  pc,       \* phase of every request
  answer,   \* the task_id it was answered with
  status,   \* column status of the row a request inserted
  active,   \* activeTaskIds
  queue,    \* taskQueue
  phase,    \* of every worker
  task,     \* the task it runs
  lost,     \* history: tasks whose final status was never written
  faults

vars == <<input, pc, answer, status, active, queue, phase, task, lost, faults>>
requests == <<pc, answer>>
workers == <<phase, task>>

Inputs == [key : Keys, media : Media \cup {None}]
Ended == {"succeeded", "failed"}
\* Phases in which a worker has not given back the key of its task.
HoldsKey == {"mark", "operate", "succeed", "finish"}

KeyOf(t) == input[t].key
\* Tasks the launcher still has to run, or is running.
Live == Range(queue) \cup {task[w] : w \in {v \in Workers : phase[v] \in HoldsKey}}

NoFault == UNCHANGED faults
Fault(kind) ==
  /\ kind \in Faults
  /\ faults < MaxFaults
  /\ faults' = faults + 1

TypeOK ==
  /\ input \in [Requests -> Inputs]
  /\ pc \in [Requests -> {"new", "create", "register", "accepted", "refused"}]
  /\ answer \in [Requests -> Requests \cup {None}]
  /\ \A r \in Requests : (answer[r] = None) <=> (pc[r] # "accepted")
  /\ status \in [Requests -> {"none", "queued", "running"} \cup Ended]
  /\ active \in [Keys -> Requests \cup {None}]
  /\ queue \in Seq(Requests)
  /\ phase \in [Workers -> {"take", "fail"} \cup HoldsKey]
  /\ task \in [Workers -> Requests \cup {None}]
  /\ \A w \in Workers : (task[w] = None) <=> (phase[w] = "take")
  /\ lost \subseteq Requests
  /\ faults \in 0..MaxFaults

Init ==
  /\ input \in [Requests -> Inputs]
  /\ pc = [r \in Requests |-> "new"]
  /\ answer = [r \in Requests |-> None]
  /\ status = [r \in Requests |-> "none"]
  /\ active = [k \in Keys |-> None]
  /\ queue = <<>>
  /\ phase = [w \in Workers |-> "take"]
  /\ task = [w \in Workers |-> None]
  /\ lost = {}
  /\ faults = 0

-------------------------------------------------------------------------------
(***************************************************************************)
(* launch, under launchSemaphore                                           *)
(***************************************************************************)
Anyone == TRUE  \* mutant
SemaphoreFree == \A r \in Requests : pc[r] \notin {"create", "register"}

AcceptOnly(r, t) ==  \* mutant
  /\ pc' = [pc EXCEPT ![r] = "accepted"]
  /\ UNCHANGED answer
Accept(r, t) ==
  /\ pc' = [pc EXCEPT ![r] = "accepted"]
  /\ answer' = [answer EXCEPT ![r] = t]

\* The key has an active task: that task is the answer.
Fold(r) ==
  /\ pc[r] = "new"
  /\ SemaphoreFree
  /\ active[KeyOf(r)] # None
  /\ Accept(r, active[KeyOf(r)])
  /\ NoFault
  /\ UNCHANGED <<input, status, active, queue, workers, lost>>

\* It has none: a row is to be created.
Check(r) ==
  /\ pc[r] = "new"
  /\ SemaphoreFree
  /\ active[KeyOf(r)] = None
  /\ pc' = [pc EXCEPT ![r] = "create"]
  /\ NoFault
  /\ UNCHANGED <<input, answer, status, active, queue, workers, lost>>

Insert(r) ==
  /\ pc[r] = "create"
  /\ status' = [status EXCEPT ![r] = "queued"]
  /\ pc' = [pc EXCEPT ![r] = "register"]
  /\ NoFault
  /\ UNCHANGED <<input, answer, active, queue, workers, lost>>

Register(r) ==
  /\ pc[r] = "register"
  /\ active' = [active EXCEPT ![KeyOf(r)] = r]
  /\ queue' = Append(queue, r)
  /\ Accept(r, r)
  /\ NoFault
  /\ UNCHANGED <<input, status, workers, lost>>

\* The insert fails, or the client goes away: a row that was inserted stays.
Abandon(r) ==
  /\ \/ pc[r] = "create" /\ Fault("create")
     \/ pc[r] \in {"create", "register"} /\ Fault("interrupt")
  /\ pc' = [pc EXCEPT ![r] = "refused"]
  /\ lost' = IF status[r] = "none" THEN lost ELSE lost \cup {r}
  /\ UNCHANGED <<input, answer, status, active, queue, workers>>

Launch(r) == Fold(r) \/ Check(r) \/ Insert(r) \/ Register(r) \/ Abandon(r)
-------------------------------------------------------------------------------
(***************************************************************************)
(* workerLoop and the task it runs                                         *)
(***************************************************************************)
GoTo(w, p) == phase' = [phase EXCEPT ![w] = p]
WriteStatus(w, s) == status' = [status EXCEPT ![task[w]] = s]

KeepKey(k) == UNCHANGED active  \* mutant
FreeKey(k) == active' = [active EXCEPT ![k] = None]

Idle(w) ==
  /\ GoTo(w, "take")
  /\ task' = [task EXCEPT ![w] = None]

Take(w) ==
  /\ phase[w] = "take"
  /\ queue # <<>>
  /\ task' = [task EXCEPT ![w] = Head(queue)]
  /\ queue' = Tail(queue)
  /\ GoTo(w, "mark")
  /\ NoFault
  /\ UNCHANGED <<input, requests, status, active, lost>>

MarkRunning(w) ==
  /\ phase[w] = "mark"
  /\ WriteStatus(w, "running")
  /\ GoTo(w, "operate")
  /\ NoFault
  /\ UNCHANGED <<input, requests, active, queue, task, lost>>

\* The operation returns; its progress writes leave the status as it is.
Operate(w) ==
  /\ phase[w] = "operate"
  /\ GoTo(w, "succeed")
  /\ NoFault
  /\ UNCHANGED <<input, requests, status, active, queue, task, lost>>

Succeed(w) ==
  /\ phase[w] = "succeed"
  /\ WriteStatus(w, "succeeded")
  /\ GoTo(w, "finish")
  /\ NoFault
  /\ UNCHANGED <<input, requests, active, queue, task, lost>>

\* The worker sees that the write went through.
Finish(w) ==
  /\ phase[w] = "finish"
  /\ FreeKey(KeyOf(task[w]))
  /\ Idle(w)
  /\ NoFault
  /\ UNCHANGED <<input, requests, status, queue, lost>>

FailsLate(w) ==  \* mutant
  \/ phase[w] = "mark" /\ Fault("mark")
  \/ phase[w] = "operate" /\ Fault("operation")
  \/ phase[w] \in {"succeed", "finish"} /\ Fault("succeed")
\* A write or the operation fails.
Fails(w) ==
  \/ phase[w] = "mark" /\ Fault("mark")
  \/ phase[w] = "operate" /\ Fault("operation")
  \/ phase[w] = "succeed" /\ Fault("succeed")

FailSilently(w) ==  \* mutant
  /\ Fails(w)
  /\ FreeKey(KeyOf(task[w]))
  /\ Idle(w)
  /\ UNCHANGED <<input, requests, status, queue, lost>>
\* The key is freed first, then the failure recorded.
Fail(w) ==
  /\ Fails(w)
  /\ FreeKey(KeyOf(task[w]))
  /\ GoTo(w, "fail")
  /\ UNCHANGED <<input, requests, status, queue, task, lost>>

WriteFailed(w) ==
  /\ phase[w] = "fail"
  /\ WriteStatus(w, "failed")
  /\ Idle(w)
  /\ NoFault
  /\ UNCHANGED <<input, requests, active, queue, lost>>

\* completeFailedTask fails in turn: runQueuedTask logs it and takes the next task.
LoseFailed(w) ==
  /\ phase[w] = "fail"
  /\ Fault("final")
  /\ lost' = lost \cup {task[w]}
  /\ Idle(w)
  /\ UNCHANGED <<input, requests, status, active, queue>>

Work(w) ==
  \/ Take(w) \/ MarkRunning(w) \/ Operate(w) \/ Succeed(w) \/ Finish(w)
  \/ Fail(w) \/ WriteFailed(w) \/ LoseFailed(w)
-------------------------------------------------------------------------------
\* The process stops, by a crash or a shutdown, and starts again.
Crash ==
  /\ Fault("crash")
  /\ pc' = [r \in Requests |-> IF pc[r] \in {"create", "register"} THEN "refused" ELSE pc[r]]
  /\ lost' = lost \cup {t \in Requests : status[t] \in {"queued", "running"}}
  /\ active' = [k \in Keys |-> None]
  /\ queue' = <<>>
  /\ phase' = [w \in Workers |-> "take"]
  /\ task' = [w \in Workers |-> None]
  /\ UNCHANGED <<input, answer, status>>

Next ==
  \/ \E r \in Requests : Launch(r)
  \/ \E w \in Workers : Work(w)
  \/ Crash

Spec == Init /\ [][Next]_vars

(***************************************************************************)
(* The database answers and an operation returns or fails; a fiber that    *)
(* can run does.  Nobody has to call launch.                               *)
(***************************************************************************)
Fairness ==
  /\ \A r \in Requests : WF_vars(Insert(r) \/ Register(r))
  /\ \A w \in Workers : WF_vars(Work(w))

FairSpec == Spec /\ Fairness
-------------------------------------------------------------------------------
(***************************************************************************)
(* Two tasks of one key never run at once, nor is one queued behind        *)
(* another: the comment on launchSemaphore promises that concurrent        *)
(* launches of a key enqueue no duplicate work.                            *)
(***************************************************************************)
SingleFlight ==
  /\ \A i, j \in DOMAIN queue : KeyOf(queue[i]) = KeyOf(queue[j]) => i = j
  /\ \A v, w \in Workers :
       phase[v] \in HoldsKey /\ phase[w] \in HoldsKey /\ v # w
         => KeyOf(task[v]) # KeyOf(task[w])
  /\ \A i \in DOMAIN queue, w \in Workers :
       phase[w] \in HoldsKey => KeyOf(queue[i]) # KeyOf(task[w])

(***************************************************************************)
(* A registered task is one the launcher will still run or is running, so  *)
(* no launch is folded into a task that failed or was given up, and a key  *)
(* is registered for every such task.                                      *)
(***************************************************************************)
ActiveIsLive ==
  /\ \A k \in Keys : active[k] # None => active[k] \in Live /\ KeyOf(active[k]) = k
  /\ \A t \in Live : active[KeyOf(t)] = t

(***************************************************************************)
(* Once a row says succeeded or failed it never says anything else: a      *)
(* late failure does not overwrite a recorded success.                     *)
(***************************************************************************)
EndedForever ==
  [][\A t \in Requests : status[t] \in Ended => status'[t] = status[t]]_status

(***************************************************************************)
(* The task a client was given ends in its row, unless the process stopped *)
(* or the last write failed.                                               *)
(***************************************************************************)
AcceptedEnds ==
  \A r, t \in Requests :
    answer[r] = t ~> status[t] \in Ended \/ t \in lost

(***************************************************************************)
(* A key is given back whatever happens to its task: no failure blocks the *)
(* key for the tasks to come.                                              *)
(***************************************************************************)
KeyFreed ==
  \A k \in Keys, t \in Requests : active[k] = t ~> active[k] # t

\* getTaskForTaskKey: what a client that asks for task t by key and media gets.
Owned(t, i) ==
  /\ KeyOf(t) = i.key
  /\ i.media = None \/ input[t].media = None \/ input[t].media = i.media

(***************************************************************************)
(* A client can read the task it was answered with: getTaskForTaskKey      *)
(* finds it under the key and the media of the client's own request.       *)
(***************************************************************************)
AnswerIsOwned ==
  \A r \in Requests : answer[r] # None => Owned(answer[r], input[r])

-------------------------------------------------------------------------------
(***************************************************************************)
(* What the semaphore, the keys, the queue and the rows come to: a caller  *)
(* sees a task per key that starts, ends and is recorded once, the steps   *)
(* from the check of the key to the registration being one step of it.  A  *)
(* crash or an interrupted launch between two of them shows nothing more   *)
(* (operations-task-launcher-service.ts, launchSemaphore and runTask).     *)
(***************************************************************************)
inputKeys == [r \in Requests |-> KeyOf(r)]
failingTasks == {task[w] : w \in {v \in Workers : phase[v] = "fail"}}
outcomes == [t \in Requests |-> IF status[t] \in Ended THEN status[t] ELSE "open"]

Flights == INSTANCE SingleFlight WITH Callers <- Requests, key <- inputKeys, given <- answer,
             flight <- active, failing <- failingTasks, outcome <- outcomes

ImplementsSingleFlight == Flights!Spec
===============================================================================
