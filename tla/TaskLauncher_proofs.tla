------------------------- MODULE TaskLauncher_proofs -------------------------
(***************************************************************************)
(* Theorems of TaskLauncher, for any number of requests, keys, media and   *)
(* workers and any faults: the invariants, the refinement of the abstract  *)
(* SingleFlight and what follows from it, and that no task is forgotten.   *)
(***************************************************************************)
EXTENDS TaskLauncher, TLAPS

Launching(r) == pc[r] \in {"create", "register"}
Holding(w) == phase[w] \in HoldsKey

\* launchSemaphore is held by one launch, whose key nobody has registered.
OneLaunch ==
  \A r \in Requests : Launching(r) =>
    /\ active[KeyOf(r)] = None
    /\ \A s \in Requests : Launching(s) => s = r

\* How far a request's row can be, by the phase of the request.
RowOfRequest ==
  \A r \in Requests :
    /\ pc[r] \in {"new", "create"} => status[r] = "none"
    /\ pc[r] = "register" => status[r] = "queued"

QueuedTasks ==
  \A i \in 1..Len(queue) :
    /\ pc[queue[i]] = "accepted"
    /\ status[queue[i]] = "queued"
    /\ active[KeyOf(queue[i])] = queue[i]

WorkedTasks ==
  \A w \in Workers : phase[w] # "take" =>
    /\ pc[task[w]] = "accepted"
    /\ Holding(w) => active[KeyOf(task[w])] = task[w]
    /\ phase[w] = "mark" => status[task[w]] = "queued"
    /\ phase[w] \in {"operate", "succeed"} => status[task[w]] = "running"
    /\ phase[w] = "finish" => status[task[w]] = "succeeded"
    /\ phase[w] = "fail" => status[task[w]] \in {"queued", "running"}

\* No task is in two places.
Distinct ==
  /\ \A i, j \in 1..Len(queue) : queue[i] = queue[j] => i = j
  /\ \A v, w \in Workers : phase[v] # "take" /\ task[v] = task[w] => v = w
  /\ \A i \in 1..Len(queue), w \in Workers : queue[i] # task[w]

InQueue(t) == \E i \in 1..Len(queue) : queue[i] = t
InWork(t) == \E w \in Workers : Holding(w) /\ task[w] = t

ActiveSomewhere ==
  \A k \in Keys : active[k] # None =>
    /\ KeyOf(active[k]) = k
    /\ InQueue(active[k]) \/ InWork(active[k])

Inv ==
  /\ TypeOK
  /\ OneLaunch
  /\ RowOfRequest
  /\ QueuedTasks
  /\ WorkedTasks
  /\ Distinct
  /\ ActiveSomewhere

USE DEF HoldsKey, Ended, KeyOf, Inputs

\* Appending to the queue keeps the tasks it has and adds one at its end.
LEMMA AppendQueue ==
  ASSUME NEW q \in Seq(Requests), NEW r \in Requests
  PROVE  /\ Append(q, r) \in Seq(Requests)
         /\ Len(Append(q, r)) = Len(q) + 1
         /\ Append(q, r)[Len(q) + 1] = r
         /\ \A i \in 1..Len(q) : Append(q, r)[i] = q[i]
  BY SMT

\* Taking the head of the queue shifts the tasks behind it.
LEMMA TailQueue ==
  ASSUME NEW q \in Seq(Requests), q # <<>>
  PROVE  /\ Head(q) = q[1] /\ Head(q) \in Requests
         /\ Tail(q) \in Seq(Requests)
         /\ 1 \in 1..Len(q)
         /\ \A i \in 1..Len(Tail(q)) : i + 1 \in 1..Len(q) /\ Tail(q)[i] = q[i + 1]
         /\ \A i \in 1..Len(q) : i # 1 => i - 1 \in 1..Len(Tail(q)) /\ Tail(q)[i - 1] = q[i]
  BY SMT

\* No request has been made, no task exists.
LEMMA InvInit == Init => Inv
<1> SUFFICES ASSUME Init PROVE Inv
  OBVIOUS
<1> USE LauncherAssumption DEF Init
<1>1. TypeOK
  BY DEF TypeOK
<1>2. OneLaunch /\ RowOfRequest
  BY DEF OneLaunch, RowOfRequest, Launching
<1>3. QueuedTasks /\ WorkedTasks /\ Distinct /\ ActiveSomewhere
  BY DEF QueuedTasks, WorkedTasks, Distinct, ActiveSomewhere
<1> QED
  BY <1>1, <1>2, <1>3 DEF Inv

\* A step of a launch keeps the invariant.
LEMMA LaunchStep ==
  ASSUME Inv, NEW r \in Requests, Launch(r)
  PROVE  Inv'
<1> USE LauncherAssumption DEF Inv, NoFault, Fault, requests, workers
<1>1. CASE Fold(r)
  <2> USE <1>1 DEF Fold, Accept
  <2>1. TypeOK'
    BY DEF TypeOK
  <2>2. OneLaunch'
    BY DEF OneLaunch, Launching, SemaphoreFree, TypeOK
  <2>3. RowOfRequest'
    BY DEF RowOfRequest, WorkedTasks, TypeOK
  <2>4. QueuedTasks'
    BY DEF QueuedTasks, TypeOK, OneLaunch, Launching, RowOfRequest, WorkedTasks, Distinct, Holding
  <2>5. WorkedTasks'
    BY DEF WorkedTasks, Holding, TypeOK, OneLaunch, Launching, QueuedTasks, Distinct, RowOfRequest
  <2>6. Distinct'
    BY DEF Distinct, TypeOK, WorkedTasks, QueuedTasks
  <2>7. ActiveSomewhere'
    BY DEF ActiveSomewhere, InQueue, InWork, Holding, TypeOK
  <2> QED
    BY <2>1, <2>2, <2>3, <2>4, <2>5, <2>6, <2>7 DEF Inv
<1>2. CASE Check(r)
  <2> USE <1>2 DEF Check
  <2>1. TypeOK'
    BY DEF TypeOK
  <2>2. OneLaunch'
    BY DEF OneLaunch, Launching, SemaphoreFree, TypeOK
  <2>3. RowOfRequest'
    BY DEF RowOfRequest, WorkedTasks, TypeOK
  <2>4. QueuedTasks'
    BY DEF QueuedTasks, TypeOK, OneLaunch, Launching, RowOfRequest, WorkedTasks, Distinct, Holding
  <2>5. WorkedTasks'
    BY DEF WorkedTasks, Holding, TypeOK, OneLaunch, Launching, QueuedTasks, Distinct, RowOfRequest
  <2>6. Distinct'
    BY DEF Distinct, TypeOK, WorkedTasks, QueuedTasks
  <2>7. ActiveSomewhere'
    BY DEF ActiveSomewhere, InQueue, InWork, Holding, TypeOK
  <2> QED
    BY <2>1, <2>2, <2>3, <2>4, <2>5, <2>6, <2>7 DEF Inv
<1>3. CASE Insert(r)
  <2> USE <1>3 DEF Insert
  <2>1. TypeOK'
    BY DEF TypeOK
  <2>2. OneLaunch'
    BY DEF OneLaunch, Launching, SemaphoreFree, TypeOK
  <2>3. RowOfRequest'
    BY DEF RowOfRequest, WorkedTasks, TypeOK
  <2>4. QueuedTasks'
    BY DEF QueuedTasks, TypeOK, OneLaunch, Launching, RowOfRequest, WorkedTasks, Distinct, Holding
  <2>5. WorkedTasks'
    BY DEF WorkedTasks, Holding, TypeOK, OneLaunch, Launching, QueuedTasks, Distinct, RowOfRequest
  <2>6. Distinct'
    BY DEF Distinct, TypeOK, WorkedTasks, QueuedTasks
  <2>7. ActiveSomewhere'
    BY DEF ActiveSomewhere, InQueue, InWork, Holding, TypeOK
  <2> QED
    BY <2>1, <2>2, <2>3, <2>4, <2>5, <2>6, <2>7 DEF Inv
<1>4. CASE Register(r)
  <2> USE <1>4 DEF Register, Accept
  <2>1. TypeOK'
    BY DEF TypeOK
  <2>2. OneLaunch'
    BY DEF OneLaunch, Launching, SemaphoreFree, TypeOK
  <2>3. RowOfRequest'
    BY DEF RowOfRequest, WorkedTasks, TypeOK
  <2>4. QueuedTasks'
    BY DEF QueuedTasks, TypeOK, OneLaunch, Launching, RowOfRequest, WorkedTasks, Distinct, Holding
  <2>5. WorkedTasks'
    BY DEF WorkedTasks, Holding, TypeOK, OneLaunch, Launching, QueuedTasks, Distinct, RowOfRequest
  <2>6. Distinct'
    BY DEF Distinct, TypeOK, WorkedTasks, QueuedTasks
  <2>7. ActiveSomewhere'
    <3> SUFFICES ASSUME NEW k \in Keys, active'[k] # None
                 PROVE  (KeyOf(active[k]) = k /\ (InQueue(active[k]) \/ InWork(active[k])))'
      BY DEF ActiveSomewhere
    <3>1. CASE k = KeyOf(r)
      <4>1. active'[k] = r /\ queue'[Len(queue) + 1] = r /\ Len(queue') = Len(queue) + 1
        BY <3>1, AppendQueue DEF TypeOK
      <4>2. Len(queue) + 1 \in 1..Len(queue')
        BY <4>1 DEF TypeOK
      <4> QED
        BY <3>1, <4>1, <4>2 DEF InQueue
    <3>2. CASE k # KeyOf(r)
      <4>1. active'[k] = active[k] /\ active[k] # None
        BY <3>2 DEF TypeOK
      <4>2. \A i \in 1..Len(queue) : i \in 1..Len(queue') /\ queue'[i] = queue[i]
        BY AppendQueue DEF TypeOK
      <4> QED
        BY <4>1, <4>2 DEF ActiveSomewhere, InQueue, InWork, Holding
    <3> QED
      BY <3>1, <3>2
  <2> QED
    BY <2>1, <2>2, <2>3, <2>4, <2>5, <2>6, <2>7 DEF Inv
<1>5. CASE Abandon(r)
  <2> USE <1>5 DEF Abandon
  <2>1. TypeOK'
    BY DEF TypeOK
  <2>2. OneLaunch'
    BY DEF OneLaunch, Launching, SemaphoreFree, TypeOK
  <2>3. RowOfRequest'
    BY DEF RowOfRequest, WorkedTasks, TypeOK
  <2>4. QueuedTasks'
    BY DEF QueuedTasks, TypeOK, OneLaunch, Launching, RowOfRequest, WorkedTasks, Distinct, Holding
  <2>5. WorkedTasks'
    BY DEF WorkedTasks, Holding, TypeOK, OneLaunch, Launching, QueuedTasks, Distinct, RowOfRequest
  <2>6. Distinct'
    BY DEF Distinct, TypeOK, WorkedTasks, QueuedTasks
  <2>7. ActiveSomewhere'
    BY DEF ActiveSomewhere, InQueue, InWork, Holding, TypeOK
  <2> QED
    BY <2>1, <2>2, <2>3, <2>4, <2>5, <2>6, <2>7 DEF Inv
<1> QED
  BY <1>1, <1>2, <1>3, <1>4, <1>5 DEF Launch

\* A step of a worker keeps the invariant.
LEMMA WorkStep ==
  ASSUME Inv, NEW w \in Workers, Work(w)
  PROVE  Inv'
<1> USE LauncherAssumption DEF Inv, NoFault, Fault, requests, workers
<1>1. CASE Take(w)
  <2> USE <1>1 DEF Take, GoTo
  <2>1. TypeOK'
    BY DEF TypeOK
  <2>2. OneLaunch'
    BY DEF OneLaunch, Launching, SemaphoreFree, TypeOK
  <2>3. RowOfRequest'
    BY DEF RowOfRequest, WorkedTasks, TypeOK
  <2>4. QueuedTasks'
    BY DEF QueuedTasks, TypeOK, OneLaunch, Launching, RowOfRequest, WorkedTasks, Distinct, Holding
  <2>5. WorkedTasks'
    BY DEF WorkedTasks, Holding, TypeOK, OneLaunch, Launching, QueuedTasks, Distinct, RowOfRequest
  <2>6. Distinct'
    BY DEF Distinct, TypeOK, WorkedTasks, QueuedTasks
  <2>7. ActiveSomewhere'
    <3> SUFFICES ASSUME NEW k \in Keys, active[k] # None
                 PROVE  InQueue(active[k])' \/ InWork(active[k])'
      BY DEF ActiveSomewhere
    <3>1. CASE InWork(active[k])
      BY <3>1 DEF InWork, Holding, TypeOK
    <3>2. CASE InQueue(active[k])
      <4>1. PICK i \in 1..Len(queue) : queue[i] = active[k]
        BY <3>2 DEF InQueue
      <4>2. CASE i = 1
        BY <4>1, <4>2, TailQueue DEF InWork, Holding, TypeOK
      <4>3. CASE i # 1
        <5>1. i - 1 \in 1..Len(queue') /\ queue'[i - 1] = active'[k]
          BY <4>1, <4>3, TailQueue DEF TypeOK
        <5> QED
          BY <5>1 DEF InQueue
      <4> QED
        BY <4>2, <4>3
    <3> QED
      BY <3>1, <3>2 DEF ActiveSomewhere
  <2> QED
    BY <2>1, <2>2, <2>3, <2>4, <2>5, <2>6, <2>7 DEF Inv
<1>2. CASE MarkRunning(w)
  <2> USE <1>2 DEF MarkRunning, GoTo, WriteStatus
  <2>1. TypeOK'
    BY DEF TypeOK
  <2>2. OneLaunch'
    BY DEF OneLaunch, Launching, SemaphoreFree, TypeOK
  <2>3. RowOfRequest'
    BY DEF RowOfRequest, WorkedTasks, TypeOK
  <2>4. QueuedTasks'
    BY DEF QueuedTasks, TypeOK, OneLaunch, Launching, RowOfRequest, WorkedTasks, Distinct, Holding
  <2>5. WorkedTasks'
    BY DEF WorkedTasks, Holding, TypeOK, OneLaunch, Launching, QueuedTasks, Distinct, RowOfRequest
  <2>6. Distinct'
    BY DEF Distinct, TypeOK, WorkedTasks, QueuedTasks
  <2>7. ActiveSomewhere'
    BY DEF ActiveSomewhere, InQueue, InWork, Holding, TypeOK
  <2> QED
    BY <2>1, <2>2, <2>3, <2>4, <2>5, <2>6, <2>7 DEF Inv
<1>3. CASE Operate(w)
  <2> USE <1>3 DEF Operate, GoTo
  <2>1. TypeOK'
    BY DEF TypeOK
  <2>2. OneLaunch'
    BY DEF OneLaunch, Launching, SemaphoreFree, TypeOK
  <2>3. RowOfRequest'
    BY DEF RowOfRequest, WorkedTasks, TypeOK
  <2>4. QueuedTasks'
    BY DEF QueuedTasks, TypeOK, OneLaunch, Launching, RowOfRequest, WorkedTasks, Distinct, Holding
  <2>5. WorkedTasks'
    BY DEF WorkedTasks, Holding, TypeOK, OneLaunch, Launching, QueuedTasks, Distinct, RowOfRequest
  <2>6. Distinct'
    BY DEF Distinct, TypeOK, WorkedTasks, QueuedTasks
  <2>7. ActiveSomewhere'
    BY DEF ActiveSomewhere, InQueue, InWork, Holding, TypeOK
  <2> QED
    BY <2>1, <2>2, <2>3, <2>4, <2>5, <2>6, <2>7 DEF Inv
<1>4. CASE Succeed(w)
  <2> USE <1>4 DEF Succeed, GoTo, WriteStatus
  <2>1. TypeOK'
    BY DEF TypeOK
  <2>2. OneLaunch'
    BY DEF OneLaunch, Launching, SemaphoreFree, TypeOK
  <2>3. RowOfRequest'
    BY DEF RowOfRequest, WorkedTasks, TypeOK
  <2>4. QueuedTasks'
    BY DEF QueuedTasks, TypeOK, OneLaunch, Launching, RowOfRequest, WorkedTasks, Distinct, Holding
  <2>5. WorkedTasks'
    BY DEF WorkedTasks, Holding, TypeOK, OneLaunch, Launching, QueuedTasks, Distinct, RowOfRequest
  <2>6. Distinct'
    BY DEF Distinct, TypeOK, WorkedTasks, QueuedTasks
  <2>7. ActiveSomewhere'
    BY DEF ActiveSomewhere, InQueue, InWork, Holding, TypeOK
  <2> QED
    BY <2>1, <2>2, <2>3, <2>4, <2>5, <2>6, <2>7 DEF Inv
<1>5. CASE Finish(w)
  <2> USE <1>5 DEF Finish, FreeKey, Idle, GoTo
  <2>1. TypeOK'
    BY DEF TypeOK
  <2>2. OneLaunch'
    BY DEF OneLaunch, Launching, SemaphoreFree, TypeOK
  <2>3. RowOfRequest'
    BY DEF RowOfRequest, WorkedTasks, TypeOK
  <2>4. QueuedTasks'
    BY DEF QueuedTasks, TypeOK, OneLaunch, Launching, RowOfRequest, WorkedTasks, Distinct, Holding
  <2>5. WorkedTasks'
    BY DEF WorkedTasks, Holding, TypeOK, OneLaunch, Launching, QueuedTasks, Distinct, RowOfRequest
  <2>6. Distinct'
    BY DEF Distinct, TypeOK, WorkedTasks, QueuedTasks
  <2>7. ActiveSomewhere'
    BY DEF ActiveSomewhere, InQueue, InWork, Holding, TypeOK
  <2> QED
    BY <2>1, <2>2, <2>3, <2>4, <2>5, <2>6, <2>7 DEF Inv
<1>6. CASE Fail(w)
  <2> USE <1>6 DEF Fail, Fails, FreeKey, GoTo
  <2>1. TypeOK'
    BY DEF TypeOK
  <2>2. OneLaunch'
    BY DEF OneLaunch, Launching, SemaphoreFree, TypeOK
  <2>3. RowOfRequest'
    BY DEF RowOfRequest, WorkedTasks, TypeOK
  <2>4. QueuedTasks'
    BY DEF QueuedTasks, TypeOK, OneLaunch, Launching, RowOfRequest, WorkedTasks, Distinct, Holding
  <2>5. WorkedTasks'
    BY DEF WorkedTasks, Holding, TypeOK, OneLaunch, Launching, QueuedTasks, Distinct, RowOfRequest
  <2>6. Distinct'
    BY DEF Distinct, TypeOK, WorkedTasks, QueuedTasks
  <2>7. ActiveSomewhere'
    BY DEF ActiveSomewhere, InQueue, InWork, Holding, TypeOK
  <2> QED
    BY <2>1, <2>2, <2>3, <2>4, <2>5, <2>6, <2>7 DEF Inv
<1>7. CASE WriteFailed(w)
  <2> USE <1>7 DEF WriteFailed, WriteStatus, Idle, GoTo
  <2>1. TypeOK'
    BY DEF TypeOK
  <2>2. OneLaunch'
    BY DEF OneLaunch, Launching, SemaphoreFree, TypeOK
  <2>3. RowOfRequest'
    BY DEF RowOfRequest, WorkedTasks, TypeOK
  <2>4. QueuedTasks'
    BY DEF QueuedTasks, TypeOK, OneLaunch, Launching, RowOfRequest, WorkedTasks, Distinct, Holding
  <2>5. WorkedTasks'
    BY DEF WorkedTasks, Holding, TypeOK, OneLaunch, Launching, QueuedTasks, Distinct, RowOfRequest
  <2>6. Distinct'
    BY DEF Distinct, TypeOK, WorkedTasks, QueuedTasks
  <2>7. ActiveSomewhere'
    BY DEF ActiveSomewhere, InQueue, InWork, Holding, TypeOK
  <2> QED
    BY <2>1, <2>2, <2>3, <2>4, <2>5, <2>6, <2>7 DEF Inv
<1>8. CASE LoseFailed(w)
  <2> USE <1>8 DEF LoseFailed, Idle, GoTo
  <2>1. TypeOK'
    BY DEF TypeOK
  <2>2. OneLaunch'
    BY DEF OneLaunch, Launching, SemaphoreFree, TypeOK
  <2>3. RowOfRequest'
    BY DEF RowOfRequest, WorkedTasks, TypeOK
  <2>4. QueuedTasks'
    BY DEF QueuedTasks, TypeOK, OneLaunch, Launching, RowOfRequest, WorkedTasks, Distinct, Holding
  <2>5. WorkedTasks'
    BY DEF WorkedTasks, Holding, TypeOK, OneLaunch, Launching, QueuedTasks, Distinct, RowOfRequest
  <2>6. Distinct'
    BY DEF Distinct, TypeOK, WorkedTasks, QueuedTasks
  <2>7. ActiveSomewhere'
    BY DEF ActiveSomewhere, InQueue, InWork, Holding, TypeOK
  <2> QED
    BY <2>1, <2>2, <2>3, <2>4, <2>5, <2>6, <2>7 DEF Inv
<1> QED
  BY <1>1, <1>2, <1>3, <1>4, <1>5, <1>6, <1>7, <1>8 DEF Work

\* A stop of the process keeps the invariant: it forgets queue, keys and workers.
LEMMA CrashStep ==
  ASSUME Inv, Crash
  PROVE  Inv'
<1> USE LauncherAssumption DEF Inv, Fault, Crash
<1>1. TypeOK'
  BY DEF TypeOK
<1>2. OneLaunch' /\ RowOfRequest'
  BY DEF OneLaunch, RowOfRequest, Launching, TypeOK
<1>3. QueuedTasks' /\ WorkedTasks' /\ Distinct' /\ ActiveSomewhere'
  BY DEF QueuedTasks, WorkedTasks, Distinct, ActiveSomewhere, Holding, TypeOK
<1> QED
  BY <1>1, <1>2, <1>3 DEF Inv

\* Every behaviour of the launcher stays within Inv.
THEOREM Invariance == Spec => []Inv
<1>1. Init => Inv
  BY InvInit
<1>2. Inv /\ [Next]_vars => Inv'
  <2> SUFFICES ASSUME Inv, [Next]_vars PROVE Inv'
    OBVIOUS
  <2>1. CASE Next
    BY <2>1, LaunchStep, WorkStep, CrashStep DEF Next
  <2>2. CASE UNCHANGED vars
    BY <2>2 DEF vars, Inv, TypeOK, OneLaunch, Launching, RowOfRequest, QueuedTasks,
                WorkedTasks, Holding, Distinct, ActiveSomewhere, InQueue, InWork
  <2> QED
    BY <2>1, <2>2
<1> QED
  BY <1>1, <1>2, PTL DEF Spec

\* Every variable keeps its type, and exactly the accepted requests have an answer.
THEOREM TypeCorrect == Spec => []TypeOK
<1>1. Inv => TypeOK
  BY DEF Inv
<1> QED
  BY <1>1, Invariance, PTL

(***************************************************************************)
(* However many launches and workers there are, no two tasks of one key    *)
(* are queued or running: both would be the task registered under the key, *)
(* and no task is in two places.                                           *)
(***************************************************************************)
THEOREM SingleFlightHolds == Spec => []SingleFlight
<1>1. Inv => SingleFlight
  <2> SUFFICES ASSUME Inv PROVE SingleFlight
    OBVIOUS
  <2>1. DOMAIN queue = 1..Len(queue)
    BY DEF Inv, TypeOK
  <2>2. \A w \in Workers : phase[w] \in HoldsKey =>
          phase[w] # "take" /\ active[KeyOf(task[w])] = task[w]
    BY DEF Inv, WorkedTasks, Holding
  <2>3. \A i, j \in DOMAIN queue : KeyOf(queue[i]) = KeyOf(queue[j]) => i = j
    BY <2>1 DEF Inv, QueuedTasks, Distinct
  <2>4. \A v, w \in Workers :
          phase[v] \in HoldsKey /\ phase[w] \in HoldsKey /\ v # w
            => KeyOf(task[v]) # KeyOf(task[w])
    BY <2>2 DEF Inv, Distinct
  <2>5. \A i \in DOMAIN queue, w \in Workers :
          phase[w] \in HoldsKey => KeyOf(queue[i]) # KeyOf(task[w])
    BY <2>1, <2>2 DEF Inv, QueuedTasks, Distinct
  <2> QED
    BY <2>3, <2>4, <2>5 DEF SingleFlight
<1> QED
  BY <1>1, Invariance, PTL

(***************************************************************************)
(* A launch is folded only into a task that is still queued or worked on,  *)
(* and every such task is registered.                                      *)
(***************************************************************************)
THEOREM ActiveTasksAreLive == Spec => []ActiveIsLive
<1>1. Inv => ActiveIsLive
  <2> SUFFICES ASSUME Inv PROVE ActiveIsLive
    OBVIOUS
  <2>1. DOMAIN queue = 1..Len(queue)
    BY DEF Inv, TypeOK
  <2>2. \A t : t \in Live <=> InQueue(t) \/ InWork(t)
    BY <2>1 DEF Live, Range, InQueue, InWork, Holding
  <2>3. \A k \in Keys : active[k] # None => active[k] \in Live /\ KeyOf(active[k]) = k
    BY <2>2 DEF Inv, ActiveSomewhere
  <2>4. \A t \in Live : active[KeyOf(t)] = t
    <3>1. \A t : InQueue(t) => active[KeyOf(t)] = t
      BY DEF Inv, QueuedTasks, InQueue
    <3>2. \A t : InWork(t) => active[KeyOf(t)] = t
      BY DEF Inv, WorkedTasks, InWork, Holding
    <3> QED
      BY <2>2, <3>1, <3>2
  <2> QED
    BY <2>3, <2>4 DEF ActiveIsLive
<1> QED
  BY <1>1, Invariance, PTL

(***************************************************************************)
(* A row that says succeeded or failed is final: each write of a status is *)
(* made by the one worker that has the task, before its last write.        *)
(***************************************************************************)
THEOREM EndedIsFinal == Spec => EndedForever
<1> DEFINE Final == \A t \in Requests : status[t] \in Ended => status'[t] = status[t]
<1>1. Inv /\ [Next]_vars => [Final]_status
  <2> SUFFICES ASSUME Inv, [Next]_vars, status' # status PROVE Final
    BY DEF Final
  <2>1. CASE \E r \in Requests : Launch(r)
    <3>1. PICK r \in Requests : Launch(r)
      BY <2>1
    <3> QED
      BY <3>1 DEF Inv, TypeOK, RowOfRequest, Launch, Fold, Check, Insert, Register, Abandon
  <2>2. CASE \E w \in Workers : Work(w)
    <3>1. PICK w \in Workers : Work(w)
      BY <2>2
    <3> QED
      BY <3>1 DEF Inv, TypeOK, WorkedTasks, WriteStatus, Work, Take, MarkRunning, Operate,
                  Succeed, Finish, Fail, WriteFailed, LoseFailed
  <2>3. CASE Crash
    BY <2>3 DEF Crash
  <2>4. CASE UNCHANGED vars
    BY <2>4 DEF vars
  <2> QED
    BY <2>1, <2>2, <2>3, <2>4 DEF Next
<1> QED
  BY <1>1, Invariance, PTL DEF Spec, EndedForever
-------------------------------------------------------------------------------
(***************************************************************************)
(* Refinement: the launcher implements SingleFlight.                       *)
(***************************************************************************)
USE DEF Flights!vars

\* A step after which the same workers fail in the same tasks.
LEMMA SameFailing ==
  ASSUME \A w \in Workers : \/ phase[w] # "fail" /\ phase'[w] # "fail"
                            \/ phase'[w] = phase[w] /\ task'[w] = task[w]
  PROVE  failingTasks' = failingTasks
BY DEF failingTasks

\* A worker that leaves its failed task is the only one that has it.
LEMMA LeavesFailing ==
  ASSUME Inv, NEW w \in Workers, phase[w] = "fail", phase'[w] # "fail",
         \A v \in Workers \ {w} : phase'[v] = phase[v] /\ task'[v] = task[v]
  PROVE  failingTasks' = failingTasks \ {task[w]} /\ task[w] \in failingTasks
<1>1. \A v \in Workers \ {w} : phase[v] = "fail" => task[v] # task[w]
  BY DEF Inv, Distinct
<1> QED
  BY <1>1 DEF failingTasks

\* Writing a status that is not final shows no outcome.
LEMMA SameOutcomes ==
  ASSUME TypeOK, NEW t \in Requests, NEW s \in {"queued", "running"},
         status[t] \notin Ended, status' = [status EXCEPT ![t] = s]
  PROVE  outcomes' = outcomes
<1>1. \A u \in Requests : outcomes'[u] = outcomes[u]
  BY DEF outcomes, TypeOK
<1> QED
  BY <1>1 DEF outcomes

\* Writing a final one shows it.
LEMMA NewOutcome ==
  ASSUME TypeOK, NEW t \in Requests, NEW s \in Ended, status' = [status EXCEPT ![t] = s]
  PROVE  outcomes' = [outcomes EXCEPT ![t] = s]
<1>1. \A u \in Requests : outcomes'[u] = IF u = t THEN s ELSE outcomes[u]
  BY DEF outcomes, TypeOK
<1> QED
  BY <1>1 DEF outcomes

\* A step that changes nothing a caller sees.
LEMMA FlightStutter ==
  ASSUME UNCHANGED <<input, answer, active>>, failingTasks' = failingTasks, outcomes' = outcomes
  PROVE  [Flights!Next]_(Flights!vars)
BY DEF inputKeys

\* A step of a launch starts a task, joins one, or is not seen.
LEMMA LaunchFlies ==
  ASSUME Inv, NEW r \in Requests, Launch(r)
  PROVE  [Flights!Next]_(Flights!vars)
<1> USE LauncherAssumption DEF requests, workers
<1>1. failingTasks' = failingTasks
  BY SameFailing DEF Launch, Fold, Check, Insert, Register, Abandon
<1>2. inputKeys' = inputKeys /\ inputKeys[r] = KeyOf(r) /\ KeyOf(r) \in Keys
  BY DEF Launch, Fold, Check, Insert, Register, Abandon, inputKeys, Inv, TypeOK
<1>3. CASE Fold(r)
  <2>1. outcomes' = outcomes /\ UNCHANGED active
    BY <1>3 DEF Fold, outcomes
  <2>2. answer[r] = None /\ active[inputKeys[r]] # None
    BY <1>2, <1>3 DEF Fold, Inv, TypeOK
  <2>3. answer' = [answer EXCEPT ![r] = active[inputKeys[r]]]
    BY <1>2, <1>3 DEF Fold, Accept
  <2>4. Flights!Join(r)
    BY <1>1, <1>2, <2>1, <2>2, <2>3 DEF Flights!Join
  <2> QED
    BY <2>4 DEF Flights!Next
<1>4. CASE Check(r) \/ Abandon(r)
  <2>1. UNCHANGED <<input, answer, active>> /\ outcomes' = outcomes
    BY <1>4 DEF Check, Abandon, outcomes
  <2> QED
    BY <1>1, <2>1, FlightStutter
<1>5. CASE Insert(r)
  <2>1. outcomes' = outcomes
    BY <1>5, SameOutcomes DEF Insert, Inv, RowOfRequest
  <2> QED
    BY <1>1, <1>5, <2>1, FlightStutter DEF Insert
<1>6. CASE Register(r)
  <2>1. outcomes' = outcomes
    BY <1>6 DEF Register, outcomes
  <2>2. answer[r] = None /\ active[inputKeys[r]] = None
    BY <1>2, <1>6 DEF Register, Inv, TypeOK, OneLaunch, Launching
  <2>3. outcomes[r] = "open"
    BY <1>6 DEF Register, Inv, RowOfRequest, outcomes
  <2>4. r \notin failingTasks
    BY <1>6 DEF Register, Inv, WorkedTasks, failingTasks
  <2>5. /\ answer' = [answer EXCEPT ![r] = r]
        /\ active' = [active EXCEPT ![inputKeys[r]] = r]
    BY <1>2, <1>6 DEF Register, Accept
  <2>6. Flights!Start(r)
    BY <1>1, <1>2, <2>1, <2>2, <2>3, <2>4, <2>5 DEF Flights!Start
  <2> QED
    BY <2>6 DEF Flights!Next
<1> QED
  BY <1>3, <1>4, <1>5, <1>6 DEF Launch

\* A step of a worker ends its task, records the end, or is not seen.
LEMMA WorkFlies ==
  ASSUME Inv, NEW w \in Workers, Work(w)
  PROVE  [Flights!Next]_(Flights!vars)
<1> DEFINE k == KeyOf(task[w])
<1> USE LauncherAssumption DEF requests, GoTo, Idle
<1>1. inputKeys' = inputKeys /\ UNCHANGED <<input, answer>>
  BY DEF Work, Take, MarkRunning, Operate, Succeed, Finish, Fail, WriteFailed, LoseFailed,
         inputKeys
<1>2. phase[w] # "take" => task[w] \in Requests /\ k \in Keys
  BY DEF Inv, TypeOK
<1>3. phase[w] \in HoldsKey => active[k] = task[w] /\ active[k] # None
  BY <1>2 DEF Inv, WorkedTasks, Holding
<1>4. CASE Take(w) \/ Operate(w)
  <2>1. outcomes' = outcomes /\ UNCHANGED active
    BY <1>4 DEF Take, Operate, outcomes
  <2>2. failingTasks' = failingTasks
    BY <1>4, SameFailing DEF Take, Operate, Inv, TypeOK
  <2> QED
    BY <1>1, <2>1, <2>2, FlightStutter
<1>5. CASE MarkRunning(w)
  <2>1. outcomes' = outcomes
    BY <1>2, <1>5, SameOutcomes DEF MarkRunning, WriteStatus, Inv, WorkedTasks
  <2>2. failingTasks' = failingTasks
    BY <1>5, SameFailing DEF MarkRunning, Inv, TypeOK
  <2> QED
    BY <1>1, <1>5, <2>1, <2>2, FlightStutter DEF MarkRunning
<1>6. CASE Succeed(w)
  <2>1. outcomes' = [outcomes EXCEPT ![active[k]] = "succeeded"]
    BY <1>2, <1>3, <1>6, NewOutcome DEF Succeed, WriteStatus, Inv
  <2>2. outcomes[active[k]] = "open"
    BY <1>2, <1>3, <1>6 DEF Succeed, Inv, WorkedTasks, outcomes
  <2>3. failingTasks' = failingTasks /\ UNCHANGED active
    BY <1>6, SameFailing DEF Succeed, Inv, TypeOK
  <2>4. Flights!Succeed(k)
    BY <1>1, <1>3, <1>6, <2>1, <2>2, <2>3 DEF Flights!Succeed, Succeed
  <2> QED
    BY <1>2, <1>6, <2>4 DEF Flights!Next, Succeed
<1>7. CASE Finish(w)
  <2>1. outcomes[active[k]] = "succeeded"
    BY <1>2, <1>3, <1>7 DEF Finish, Inv, WorkedTasks, outcomes
  <2>2. failingTasks' = failingTasks /\ outcomes' = outcomes
    BY <1>7, SameFailing DEF Finish, Inv, TypeOK, outcomes
  <2>3. active' = [active EXCEPT ![k] = None]
    BY <1>7 DEF Finish, FreeKey
  <2>4. Flights!Land(k)
    BY <1>1, <1>3, <1>7, <2>1, <2>2, <2>3 DEF Flights!Land, Finish
  <2> QED
    BY <1>2, <1>7, <2>4 DEF Flights!Next, Finish
<1>8. CASE Fail(w)
  <2>1. phase[w] \in {"mark", "operate", "succeed"}
    BY <1>8 DEF Fail, Fails
  <2>2. outcomes[active[k]] = "open" /\ outcomes' = outcomes
    BY <1>2, <1>3, <1>8, <2>1 DEF Fail, Inv, WorkedTasks, outcomes
  <2>3. failingTasks' = failingTasks \cup {active[k]}
    <3>1. phase' = [phase EXCEPT ![w] = "fail"] /\ task' = task
      BY <1>8 DEF Fail
    <3>2. \A v \in Workers : phase'[v] = "fail" <=> phase[v] = "fail" \/ v = w
      BY <3>1 DEF Inv, TypeOK
    <3> QED
      BY <1>3, <2>1, <3>1, <3>2 DEF failingTasks
  <2>4. active' = [active EXCEPT ![k] = None]
    BY <1>8 DEF Fail, FreeKey
  <2>5. Flights!Fail(k)
    BY <1>1, <1>3, <2>1, <2>2, <2>3, <2>4 DEF Flights!Fail
  <2> QED
    BY <1>2, <2>1, <2>5 DEF Flights!Next
<1>9. CASE WriteFailed(w)
  <2>1. task[w] \in Requests /\ outcomes[task[w]] = "open"
    BY <1>2, <1>9 DEF WriteFailed, Inv, WorkedTasks, outcomes
  <2>2. outcomes' = [outcomes EXCEPT ![task[w]] = "failed"]
    BY <1>9, <2>1, NewOutcome DEF WriteFailed, WriteStatus, Inv
  <2>3. failingTasks' = failingTasks \ {task[w]} /\ task[w] \in failingTasks
    BY <1>9, LeavesFailing DEF WriteFailed, Inv, TypeOK
  <2>4. Flights!Record(task[w])
    BY <1>1, <1>9, <2>1, <2>2, <2>3 DEF Flights!Record, WriteFailed
  <2> QED
    BY <2>1, <2>4 DEF Flights!Next
<1>10. CASE LoseFailed(w)
  <2>1. task[w] \in Requests /\ outcomes' = outcomes /\ UNCHANGED active
    BY <1>2, <1>10 DEF LoseFailed, outcomes
  <2>2. failingTasks' = failingTasks \ {task[w]} /\ task[w] \in failingTasks
    BY <1>10, LeavesFailing DEF LoseFailed, Inv, TypeOK
  <2>3. Flights!Lose(task[w])
    BY <1>1, <2>1, <2>2 DEF Flights!Lose
  <2> QED
    BY <2>1, <2>3 DEF Flights!Next
<1> QED
  BY <1>4, <1>5, <1>6, <1>7, <1>8, <1>9, <1>10 DEF Work

(***************************************************************************)
(* The launcher shows its callers one task per key that starts in one step *)
(* and is recorded once, whatever workers, launches and faults do: between *)
(* the check of a key and its registration nobody else can register it,    *)
(* and only the worker that has a task writes its end.                     *)
(***************************************************************************)
THEOREM LauncherImplementsSingleFlight == Spec => ImplementsSingleFlight
<1>1. Init => Flights!Init
  <2> SUFFICES ASSUME Init PROVE Flights!Init
    OBVIOUS
  <2>1. inputKeys \in [Requests -> Keys]
    BY DEF Init, inputKeys
  <2>2. failingTasks = {} /\ outcomes = [t \in Requests |-> "open"]
    BY DEF Init, failingTasks, outcomes
  <2> QED
    BY <2>1, <2>2 DEF Init, Flights!Init
<1>2. Inv /\ [Next]_vars => [Flights!Next]_(Flights!vars)
  <2> SUFFICES ASSUME Inv, [Next]_vars PROVE [Flights!Next]_(Flights!vars)
    OBVIOUS
  <2>1. CASE Crash
    <3>1. /\ active' = [k \in Keys |-> None]
          /\ failingTasks' = {} /\ outcomes' = outcomes
          /\ inputKeys' = inputKeys /\ answer' = answer
      BY <2>1 DEF Crash, failingTasks, outcomes, inputKeys
    <3> QED
      BY <3>1 DEF Flights!Restart, Flights!Next
  <2>2. CASE UNCHANGED vars
    BY <2>2, FlightStutter DEF vars, failingTasks, outcomes
  <2> QED
    BY <2>1, <2>2, LaunchFlies, WorkFlies DEF Next
<1> QED
  BY <1>1, <1>2, Invariance, PTL DEF Spec, ImplementsSingleFlight, Flights!Spec

(***************************************************************************)
(* What a single flight gives its callers: the task a caller is answered   *)
(* with is one of its own key, and no launch is folded into a task that    *)
(* has failed.  (That the media agree is not promised: FoldedLaunch.)      *)
(***************************************************************************)
THEOREM CallersGetTheirKey == Flights!Spec => [](Flights!TypeOK /\ Flights!AnswersMatch)
<1> DEFINE Safe == Flights!TypeOK /\ Flights!AnswersMatch
<1> USE LauncherAssumption DEF Flights!TypeOK, Flights!AnswersMatch
<1>1. Flights!Init => Safe
  BY DEF Flights!Init
<1>2. Safe /\ [Flights!Next]_(Flights!vars) => Safe'
  <2> SUFFICES ASSUME Safe, [Flights!Next]_(Flights!vars) PROVE Safe'
    OBVIOUS
  <2>1. ASSUME NEW c \in Requests, Flights!Start(c) PROVE Safe'
    BY <2>1 DEF Flights!Start
  <2>2. ASSUME NEW c \in Requests, Flights!Join(c) PROVE Safe'
    BY <2>2 DEF Flights!Join
  <2>3. ASSUME NEW t \in Requests, Flights!Record(t) \/ Flights!Lose(t) PROVE Safe'
    BY <2>3 DEF Flights!Record, Flights!Lose
  <2>4. ASSUME NEW k \in Keys, Flights!Succeed(k) PROVE Safe'
    BY <2>4 DEF Flights!Succeed
  <2>5. ASSUME NEW k \in Keys, Flights!Land(k) PROVE Safe'
    BY <2>5 DEF Flights!Land
  <2>6. ASSUME NEW k \in Keys, Flights!Fail(k) PROVE Safe'
    BY <2>6 DEF Flights!Fail
  <2>7. CASE Flights!Restart
    BY <2>7 DEF Flights!Restart
  <2>8. CASE UNCHANGED Flights!vars
    BY <2>8
  <2> QED
    BY <2>1, <2>2, <2>3, <2>4, <2>5, <2>6, <2>7, <2>8 DEF Flights!Next
<1> QED
  BY <1>1, <1>2, PTL DEF Flights!Spec

(***************************************************************************)
(* The launcher is such a single flight: no answer ever names a task of    *)
(* another key, and no key is registered for a task that has failed        *)
(* (launchTask, activeTaskIds).                                            *)
(***************************************************************************)
THEOREM AnswersKeepTheKey == Spec => []Flights!AnswersMatch
<1>1. Flights!Spec => []Flights!AnswersMatch
  BY CallersGetTheirKey, PTL
<1> QED
  BY <1>1, LauncherImplementsSingleFlight, PTL DEF ImplementsSingleFlight
-------------------------------------------------------------------------------
(***************************************************************************)
(* A row that says queued or running stands for a task that is about to be *)
(* registered, waits in the queue, is with a worker, or is counted lost:   *)
(* the safety half of AcceptedEnds, which leaves to the fairness of the    *)
(* workers only that they go on.                                           *)
(***************************************************************************)
WithWorker(t) == \E w \in Workers : phase[w] # "take" /\ task[w] = t
Accounted(t) == pc[t] = "register" \/ InQueue(t) \/ WithWorker(t) \/ t \in lost
RowsAccounted == \A t \in Requests : status[t] \in {"queued", "running"} => Accounted(t)

\* A step of a launch accounts for every row.
LEMMA LaunchAccounts ==
  ASSUME Inv, RowsAccounted, NEW r \in Requests, Launch(r) PROVE RowsAccounted'
<1> USE DEF requests, workers
<1> SUFFICES ASSUME NEW t \in Requests, status'[t] \in {"queued", "running"} PROVE Accounted(t)'
  BY DEF RowsAccounted
<1>1. CASE Insert(r)
  <2>1. CASE t = r
    BY <1>1, <2>1 DEF Insert, Accounted, Inv, TypeOK
  <2>2. CASE t # r
    BY <1>1, <2>2 DEF Insert, RowsAccounted, Accounted, InQueue, WithWorker, Inv, TypeOK
  <2> QED
    BY <2>1, <2>2
<1>2. CASE Register(r)
  <2>1. \A i \in 1..Len(queue) : i \in 1..Len(queue') /\ queue'[i] = queue[i]
    BY <1>2, AppendQueue DEF Register, Inv, TypeOK
  <2>2. Len(queue) + 1 \in 1..Len(queue') /\ queue'[Len(queue) + 1] = r
    BY <1>2, AppendQueue DEF Register, Inv, TypeOK
  <2>3. CASE t = r
    BY <2>2, <2>3 DEF Accounted, InQueue
  <2>4. CASE t # r
    BY <1>2, <2>1, <2>4
    DEF Register, Accept, RowsAccounted, Accounted, InQueue, WithWorker, Inv, TypeOK
  <2> QED
    BY <2>3, <2>4
<1>3. CASE Abandon(r)
  BY <1>3 DEF Abandon, RowsAccounted, Accounted, InQueue, WithWorker, Inv, TypeOK
<1>4. CASE Fold(r) \/ Check(r)
  BY <1>4 DEF Fold, Check, Accept, RowsAccounted, Accounted, InQueue, WithWorker, Inv, TypeOK
<1> QED
  BY <1>1, <1>2, <1>3, <1>4 DEF Launch

\* A step of a worker does: a task it lets go of has ended or is lost.
LEMMA WorkAccounts ==
  ASSUME Inv, RowsAccounted, NEW w \in Workers, Work(w) PROVE RowsAccounted'
<1> USE DEF requests, GoTo, Idle, WriteStatus
<1> SUFFICES ASSUME NEW t \in Requests, status'[t] \in {"queued", "running"} PROVE Accounted(t)'
  BY DEF RowsAccounted
<1>1. status[t] \in {"queued", "running"}
  BY DEF Work, Take, MarkRunning, Operate, Succeed, Finish, Fail, WriteFailed, LoseFailed,
         Inv, TypeOK, WorkedTasks
<1>2. pc'[t] = pc[t] /\ lost \subseteq lost'
  BY DEF Work, Take, MarkRunning, Operate, Succeed, Finish, Fail, WriteFailed, LoseFailed
<1>3. CASE pc[t] = "register" \/ t \in lost
  BY <1>2, <1>3 DEF Accounted
<1>4. CASE InQueue(t)
  <2>1. CASE Take(w)
    <3>1. PICK i \in 1..Len(queue) : queue[i] = t
      BY <1>4 DEF InQueue
    <3>2. CASE i = 1
      BY <2>1, <3>1, <3>2, TailQueue DEF Take, Accounted, WithWorker, Inv, TypeOK
    <3>3. CASE i # 1
      <4>1. i - 1 \in 1..Len(queue') /\ queue'[i - 1] = t
        BY <2>1, <3>1, <3>3, TailQueue DEF Take, Inv, TypeOK
      <4> QED
        BY <4>1 DEF Accounted, InQueue
    <3> QED
      BY <3>2, <3>3
  <2>2. CASE ~Take(w)
    <3>1. queue' = queue
      BY <2>2 DEF Work, MarkRunning, Operate, Succeed, Finish, Fail, WriteFailed, LoseFailed
    <3> QED
      BY <1>4, <3>1 DEF Accounted, InQueue
  <2> QED
    BY <2>1, <2>2
<1>5. CASE WithWorker(t)
  <2>1. PICK v \in Workers : phase[v] # "take" /\ task[v] = t
    BY <1>5 DEF WithWorker
  <2>2. CASE v # w
    <3>1. phase'[v] = phase[v] /\ task'[v] = task[v]
      BY <2>2 DEF Work, Take, MarkRunning, Operate, Succeed, Finish, Fail, WriteFailed,
                  LoseFailed, Inv, TypeOK
    <3> QED
      BY <2>1, <3>1 DEF Accounted, WithWorker
  <2>3. CASE v = w
    <3>1. CASE MarkRunning(w) \/ Operate(w) \/ Succeed(w) \/ Fail(w)
      BY <2>1, <2>3, <3>1
      DEF MarkRunning, Operate, Succeed, Fail, Accounted, WithWorker, Inv, TypeOK
    <3>2. CASE LoseFailed(w)
      BY <2>1, <2>3, <3>2 DEF LoseFailed, Accounted
    <3>3. CASE Finish(w) \/ WriteFailed(w)
      BY <1>1, <2>1, <2>3, <3>3 DEF Finish, WriteFailed, Inv, TypeOK, WorkedTasks
    <3> QED
      BY <2>1, <2>3, <3>1, <3>2, <3>3 DEF Work, Take
  <2> QED
    BY <2>2, <2>3
<1> QED
  BY <1>1, <1>3, <1>4, <1>5 DEF RowsAccounted, Accounted

(***************************************************************************)
(* No row is forgotten: whatever fails, and however launches, workers and  *)
(* crashes interleave, a row that is not final has its task somewhere, or  *)
(* is one of those the process is known to have lost.                      *)
(***************************************************************************)
THEOREM NoRowForgotten == Spec => []RowsAccounted
<1>1. Init => RowsAccounted
  BY DEF Init, RowsAccounted
<1>2. Inv /\ RowsAccounted /\ [Next]_vars => RowsAccounted'
  <2> SUFFICES ASSUME Inv, RowsAccounted, [Next]_vars PROVE RowsAccounted'
    OBVIOUS
  <2>1. CASE Crash
    BY <2>1 DEF Crash, RowsAccounted, Accounted
  <2>2. CASE UNCHANGED vars
    BY <2>2 DEF vars, RowsAccounted, Accounted, InQueue, WithWorker
  <2> QED
    BY <2>1, <2>2, LaunchAccounts, WorkAccounts DEF Next
<1> QED
  BY <1>1, <1>2, Invariance, PTL DEF Spec

\* An answer names a task whose row was inserted and whose launch is over.
AnswersInv ==
  \A r \in Requests : answer[r] # None =>
    pc[answer[r]] = "accepted" /\ status[answer[r]] # "none"

\* The task of a key that is registered has a row, and its launch is over.
LEMMA ActiveHasRow ==
  ASSUME Inv, NEW k \in Keys, active[k] # None
  PROVE  pc[active[k]] = "accepted" /\ status[active[k]] # "none"
BY DEF Inv, ActiveSomewhere, InQueue, InWork, QueuedTasks, WorkedTasks, Holding

\* Every step keeps what the answers name.
LEMMA AnswersStep ==
  ASSUME Inv, AnswersInv, [Next]_vars PROVE AnswersInv'
<1> USE DEF requests, workers, AnswersInv
<1>1. ASSUME NEW r \in Requests, Fold(r) PROVE AnswersInv'
  <2>1. /\ answer' = [answer EXCEPT ![r] = active[KeyOf(r)]]
        /\ pc' = [pc EXCEPT ![r] = "accepted"] /\ UNCHANGED status
        /\ active[KeyOf(r)] # None
    BY <1>1 DEF Fold, Accept
  <2>2. pc[active[KeyOf(r)]] = "accepted" /\ status[active[KeyOf(r)]] # "none"
    BY <2>1, ActiveHasRow DEF Inv, TypeOK
  <2> QED
    BY <2>1, <2>2 DEF Inv, TypeOK
<1>2. ASSUME NEW r \in Requests, Register(r) PROVE AnswersInv'
  BY <1>2 DEF Register, Accept, Inv, TypeOK, RowOfRequest
<1>3. ASSUME NEW r \in Requests, Check(r) \/ Insert(r) \/ Abandon(r) PROVE AnswersInv'
  BY <1>3 DEF Check, Insert, Abandon, Inv, TypeOK
<1>4. ASSUME NEW w \in Workers, Work(w) PROVE AnswersInv'
  BY <1>4
  DEF Work, Take, MarkRunning, Operate, Succeed, Finish, Fail, WriteFailed, LoseFailed, GoTo,
      Idle, WriteStatus, Inv, TypeOK
<1>5. CASE Crash
  BY <1>5 DEF Crash, Inv, TypeOK
<1>6. CASE UNCHANGED vars
  BY <1>6 DEF vars
<1> QED
  BY <1>1, <1>2, <1>3, <1>4, <1>5, <1>6 DEF Next, Launch

AnsweredAccounted ==
  \A r, t \in Requests :
    answer[r] = t => status[t] \in Ended \/ InQueue(t) \/ WithWorker(t) \/ t \in lost

(***************************************************************************)
(* The task a client was given, its own or one it was folded into, has     *)
(* ended, waits in the queue, is with a worker, or is counted lost: of     *)
(* AcceptedEnds only the fairness of the workers is left.                  *)
(***************************************************************************)
THEOREM AnsweredAreAccounted == Spec => []AnsweredAccounted
<1>1. Init => AnswersInv
  BY DEF Init, AnswersInv
<1>2. Inv /\ AnswersInv /\ [Next]_vars => AnswersInv'
  BY AnswersStep
<1>3. Inv /\ AnswersInv /\ RowsAccounted => AnsweredAccounted
  BY LauncherAssumption
  DEF Inv, TypeOK, AnswersInv, RowsAccounted, Accounted, AnsweredAccounted
<1> QED
  BY <1>1, <1>2, <1>3, Invariance, NoRowForgotten, PTL DEF Spec
-------------------------------------------------------------------------------
\* Requests of a key are about one medium, or about none.
OneMediumPerKey ==
  \A r, s \in Requests :
    KeyOf(r) = KeyOf(s) =>
      input[r].media = input[s].media \/ None \in {input[r].media, input[s].media}

(***************************************************************************)
(* A client can read the task it was answered with as long as no key is    *)
(* launched for two media: coalescing by the key alone (launch) is the     *)
(* only way to be answered with a task one may not read, which is what the *)
(* run FoldedLaunch meets.                                                 *)
(***************************************************************************)
THEOREM AnswersAreOwned == Spec => [](OneMediumPerKey => AnswerIsOwned)
<1>1. Inv /\ Flights!AnswersMatch => (OneMediumPerKey => AnswerIsOwned)
  <2> SUFFICES ASSUME Inv, Flights!AnswersMatch, OneMediumPerKey,
                      NEW r \in Requests, answer[r] # None
               PROVE  Owned(answer[r], input[r])
    BY DEF AnswerIsOwned
  <2>1. answer[r] \in Requests
    BY DEF Inv, TypeOK
  <2>2. inputKeys[answer[r]] = inputKeys[r]
    BY DEF Flights!AnswersMatch
  <2>3. KeyOf(answer[r]) = KeyOf(r)
    BY <2>1, <2>2 DEF inputKeys
  <2> QED
    BY <2>1, <2>3 DEF OneMediumPerKey, Owned
<1> QED
  BY <1>1, Invariance, AnswersKeepTheKey, PTL
===============================================================================
