------------------------ MODULE ConfigActivation_proofs ------------------------
(***************************************************************************)
(* Proofs about ConfigActivation, for every set of configurations, updates *)
(* and readers, every kind of fault and any number of them.                *)
(***************************************************************************)
EXTENDS ConfigActivation, TLAPS

USE DEF Fibers

IInv == TypeOK /\ ActivationInv

\* Before the first start no place holds anything of an update.
LEMMA IInvInit == Init => IInv
<1> SUFFICES ASSUME Init PROVE TypeOK /\ ActivationInv
  BY DEF IInv
<1>1. TypeOK
  <2>1. faults \in 0..MaxFaults /\ level \in Configs /\ stored \in Configs \cup {Corrupt}
    BY ConfigAssumption DEF Init
  <2>2. pc \in [Fibers -> UpdatePhases \cup ReadPhases] /\ \A f \in Fibers : pc[f] = "idle"
    BY DEF Init, UpdatePhases, ReadPhases
  <2>3. next \in [Updates -> Configs \cup {None}] /\ prev \in [Updates -> Configs \cup {Corrupt, None}]
    BY DEF Init
  <2>4. loaded \in [Readers -> Configs \cup {None}]
    BY DEF Init
  <2>5. QED
    BY <2>1, <2>2, <2>3, <2>4 DEF Init, TypeOK, UpdatePhases, ReadPhases, Updating
<1>2. ActivationInv
  BY DEF Init, ActivationInv, Updating, Progress
<1>3. QED
  BY <1>1, <1>2

\* Starting and crashing: the four places are set from the row, or forgotten.
LEMMA LifecycleStep ==
  ASSUME IInv, Start \/ Crash
  PROVE  IInv'
<1> USE ConfigAssumption DEF IInv, TypeOK, ActivationInv, UpdatePhases, ReadPhases, Updating,
        Progress, NoFault, Fault, memory, locals, Agree, Effective, Steady
<1>1. CASE Start
  <2>1. TypeOK'
    BY <1>1 DEF Start
  <2>2. \A f \in Fibers : pc'[f] = "idle"
    BY <1>1 DEF Start
  <2>3. workers' \in Configs /\ snapshot' \in {None, Effective(stored')} /\ level' = Effective(stored')
    BY <1>1 DEF Start
  <2>4. QED
    BY <1>1, <2>1, <2>2, <2>3 DEF Start
<1>2. CASE Crash
  <2>1. TypeOK'
    <3>1. faults' \in 0..MaxFaults /\ level' \in Configs
      BY <1>2 DEF Crash
    <3>2. pc' \in [Fibers -> UpdatePhases \cup ReadPhases] /\ \A f \in Fibers : pc'[f] = "idle"
      BY <1>2 DEF Crash
    <3>3. /\ next' \in [Updates -> Configs \cup {None}]
          /\ prev' \in [Updates -> Configs \cup {Corrupt, None}]
      BY <1>2 DEF Crash
    <3>4. loaded' \in [Readers -> Configs \cup {None}]
      BY <1>2 DEF Crash
    <3>5. QED
      BY <1>2, <3>1, <3>2, <3>3, <3>4 DEF Crash
  <2>2. ActivationInv'
    BY <1>2 DEF Crash
  <2>3. QED
    BY <2>1, <2>2
<1>3. QED
  BY <1>1, <1>2

\* A step of the update under the lock.
LEMMA UpdateStep ==
  ASSUME IInv, NEW u \in Updates, Update(u)
  PROVE  IInv'
<1> USE ConfigAssumption DEF IInv, TypeOK, ActivationInv, UpdatePhases, ReadPhases, Updating,
        Progress, NoFault, Fault, memory, locals, Agree, Effective, Steady, GoTo, End
<1>1. ASSUME NEW c \in Configs, Begin(u, c) PROVE IInv'
  BY <1>1 DEF Begin, LockFree, AtRest
<1>2. CASE Persist(u)
  BY <1>2 DEF Persist
<1>3. CASE PersistFails(u)
  BY <1>3 DEF PersistFails
<1>4. CASE ReplaceSnapshot(u)
  BY <1>4 DEF ReplaceSnapshot
<1>5. CASE Reload(u)
  BY <1>5 DEF Reload
<1>6. CASE ReloadFails(u)
  BY <1>6 DEF ReloadFails
<1>7. CASE Close(u)
  BY <1>7 DEF Close
<1>8. CASE SetLevel(u)
  BY <1>8 DEF SetLevel
<1>9. CASE AppendLog(u)
  BY <1>9 DEF AppendLog
<1>10. CASE Rollback(u)
  BY <1>10 DEF Rollback
<1>11. CASE Interrupt(u)
  <2>1. TypeOK'
    BY <1>11 DEF Interrupt
  <2>2. pc' = [pc EXCEPT ![u] = "idle"] /\ \A v \in Updates \ {u} : pc[v] = "idle" /\ pc'[v] = "idle"
    BY <1>11 DEF Interrupt
  <2>3. \A v \in Updates : pc'[v] = "idle"
    BY <2>2
  <2>4. ASSUME ~disturbed' PROVE Agree' /\ (snapshot' # None \/ stored' = stored)
    <3>1. CASE pc[u] = "log"
      <4>1. stored' = stored /\ snapshot' = stored /\ workers' = stored /\ level' = stored
        BY <1>11, <3>1 DEF Interrupt
      <4>2. QED
        BY <4>1, <3>1 DEF Interrupt
    <3>2. CASE pc[u] = "persist"
      <4>1. \A v \in Updates : Steady(v)
        BY <3>2, <2>2
      <4>2. stored' = stored /\ ~disturbed /\ up
        BY <1>11, <2>4, <3>2 DEF Interrupt
      <4>3. Agree
        BY <4>1, <4>2
      <4>4. QED
        BY <1>11, <4>2, <4>3 DEF Interrupt
    <3>3. CASE pc[u] \notin {"log", "persist"}
      <4>1. stored' = stored \/ pc[u] = "rollback"
        BY <1>11, <3>3 DEF Interrupt
      <4>2. CASE pc[u] = "rollback"
        BY <1>11, <2>4, <4>2 DEF Interrupt
      <4>3. CASE stored' = stored /\ pc[u] # "rollback"
        <5>1. stored = next[u]
          BY <1>11, <3>3, <4>3 DEF Interrupt
        <5>2. QED
          BY <1>11, <2>4, <3>3, <4>3, <5>1 DEF Interrupt
      <4>4. QED
        BY <4>1, <4>2, <4>3
    <3>4. QED
      BY <3>1, <3>2, <3>3
  <2>5. ASSUME ~disturbed', NEW r \in Readers, snapshot' = None, pc'[r] = "store"
        PROVE  loaded'[r] = stored'
    <3>1. stored' = stored /\ snapshot = None /\ pc[r] = "store" /\ loaded' = loaded /\ up
      BY <1>11, <2>2, <2>4, <2>5 DEF Interrupt
    <3>2. pc[u] = "persist" /\ ~disturbed
      <4>1. ~disturbed /\ (pc[u] = "log" \/ stored' # next[u])
        BY <1>11, <2>5 DEF Interrupt
      <4>2. pc[u] # "idle"
        BY <1>11 DEF Interrupt, Updating
      <4>3. QED
        BY <3>1, <4>1, <4>2
    <3>3. \A v \in Updates : Steady(v)
      BY <2>2, <3>2
    <3>4. QED
      BY <3>1, <3>2, <3>3
  <2>6. ActivationInv'
    <3>1. up' = up /\ up /\ workers' = workers
      BY <1>11 DEF Interrupt
    <3>2. QED
      BY <2>3, <2>4, <2>5, <3>1
  <2>7. QED
    BY <2>1, <2>6
<1>12. QED
  BY <1>1, <1>2, <1>3, <1>4, <1>5, <1>6, <1>7, <1>8, <1>9, <1>10, <1>11 DEF Update

\* A step of a reader.
LEMMA ReadStep ==
  ASSUME IInv, NEW r \in Readers, Read(r)
  PROVE  IInv'
<1> USE ConfigAssumption DEF IInv, TypeOK, ActivationInv, UpdatePhases, ReadPhases, Updating,
        Progress, NoFault, Fault, memory, locals, Agree, Effective, Steady, GoTo
<1>1. CASE StartLoad(r)
  BY <1>1 DEF StartLoad
<1>2. CASE Load(r)
  BY <1>2 DEF Load
<1>3. CASE LoadFails(r)
  BY <1>3 DEF LoadFails
<1>4. CASE StoreSnapshot(r)
  BY <1>4 DEF StoreSnapshot, Newer
<1>5. QED
  BY <1>1, <1>2, <1>3, <1>4 DEF Read

(***************************************************************************)
(* The invariant of the activation holds in every behaviour.               *)
(***************************************************************************)
THEOREM Invariance == Spec => []IInv
<1>1. IInv /\ [Next]_vars => IInv'
  <2> SUFFICES ASSUME IInv, [Next]_vars PROVE IInv'
    OBVIOUS
  <2>1. CASE UNCHANGED vars
    BY <2>1 DEF IInv, TypeOK, ActivationInv, vars, Updating, Progress, Agree, Steady
  <2>2. QED
    BY <2>1, LifecycleStep, UpdateStep, ReadStep DEF Next
<1>2. QED
  BY IInvInit, <1>1, PTL DEF Spec

(***************************************************************************)
(* Type correctness; its proof needs the mutual exclusion of updates: a    *)
(* reload in the middle of another one would close a generation twice.     *)
(***************************************************************************)
THEOREM TypeCorrect == Spec => []TypeOK
<1>1. IInv => TypeOK
  BY DEF IInv
<1>2. QED
  BY <1>1, Invariance, PTL

(***************************************************************************)
(* An update that reports success is in force in all four places.          *)
(***************************************************************************)
THEOREM Applied == Spec => []AppliedBeforeAnswer
<1>1. IInv => AppliedBeforeAnswer
  BY DEF IInv, ActivationInv, Progress, AppliedBeforeAnswer
<1>2. QED
  BY <1>1, Invariance, PTL

(***************************************************************************)
(* Only a failed or interrupted activation separates the four places.      *)
(***************************************************************************)
THEOREM Agreement == Spec => []AgreeUnlessDisturbed
<1>1. IInv => AgreeUnlessDisturbed
  BY DEF IInv, ActivationInv, AgreeUnlessDisturbed, AtRest, Updating, Steady
<1>2. QED
  BY <1>1, Invariance, PTL

(***************************************************************************)
(* The row leads: whenever the workers or the log level change, they       *)
(* change to what the row says at that moment, and only a stop of the      *)
(* process takes them away.  Two updates at once, or one that swapped the  *)
(* order of updateSystemConfigAtomic and reload, would break it.           *)
(***************************************************************************)
RowLeads ==
  [][up' => /\ workers' # workers => workers' = Effective(stored)
            /\ level' # level => level' = Effective(stored)]_vars

THEOREM WorkersFollowTheRow == Spec => RowLeads
<1>1. IInv /\ [Next]_vars =>
        [up' => /\ workers' # workers => workers' = Effective(stored)
                /\ level' # level => level' = Effective(stored)]_vars
  <2> SUFFICES ASSUME IInv, Next, up'
               PROVE  /\ workers' # workers => workers' = Effective(stored)
                      /\ level' # level => level' = Effective(stored)
    OBVIOUS
  <2> USE DEF memory
  <2>1. CASE Start
    BY <2>1 DEF Start
  <2>2. CASE Crash
    BY <2>2 DEF Crash
  <2>3. ASSUME NEW u \in Updates, Reload(u) \/ SetLevel(u)
        PROVE  /\ workers' # workers => workers' = Effective(stored)
               /\ level' # level => level' = Effective(stored)
    <3>1. stored = next[u] /\ next[u] \in Configs
      BY <2>3 DEF Reload, SetLevel, IInv, ActivationInv, Progress, TypeOK, Updating
    <3>2. Effective(stored) = next[u]
      BY <3>1, ConfigAssumption DEF Effective
    <3>3. QED
      BY <2>3, <3>2 DEF Reload, SetLevel
  <2>4. ASSUME NEW u \in Updates, Update(u), ~Reload(u), ~SetLevel(u)
        PROVE  UNCHANGED <<workers, level>>
    BY <2>4 DEF Update, Begin, Persist, PersistFails, ReplaceSnapshot, ReloadFails, Close,
                AppendLog, Rollback, Interrupt
  <2>5. ASSUME NEW r \in Readers, Read(r) PROVE UNCHANGED <<workers, level>>
    BY <2>5 DEF Read, StartLoad, Load, LoadFails, StoreSnapshot
  <2>6. QED
    BY <2>1, <2>2, <2>3, <2>4, <2>5 DEF Next
<1>2. QED
  BY <1>1, Invariance, PTL DEF Spec, RowLeads
-------------------------------------------------------------------------------
(* If every schedule can be spawned and no update is interrupted, the four *)
(* places agree between updates, after failed writes, loads and log rows,  *)
(* crashes and restarts: failed spawns and interrupts are the only causes  *)
(* of a disagreement.                                                      *)
THEOREM OnlyActivationsSeparate ==
  ASSUME Unspawnable = {}, "interrupt" \notin Faults
  PROVE  Spec => []AgreeAtRest
<1>1. Init => ~disturbed
  BY Zenon DEF Init
<1>2. ~disturbed /\ [Next]_vars => ~disturbed'
  <2> SUFFICES ASSUME ~disturbed, [Next]_vars PROVE ~disturbed'
    OBVIOUS
  <2>1. ASSUME NEW u \in Updates, Update(u) PROVE ~disturbed'
    <3>1. ~ReloadFails(u) /\ ~Interrupt(u)
      BY DEF ReloadFails, Interrupt, Fault
    <3>2. QED
      BY <2>1, <3>1, Zenon DEF Update, Begin, Persist, PersistFails, ReplaceSnapshot, Reload, Close,
                               SetLevel, AppendLog, Rollback
  <2>2. ASSUME NEW r \in Readers, Read(r) PROVE ~disturbed'
    BY <2>2, Zenon DEF Read, StartLoad, Load, LoadFails, StoreSnapshot
  <2>3. CASE Start \/ Crash \/ UNCHANGED vars
    BY <2>3, Zenon DEF Start, Crash, vars
  <2>4. QED
    BY <2>1, <2>2, <2>3, Zenon DEF Next
<1>3. ~disturbed /\ AgreeUnlessDisturbed => AgreeAtRest
  BY DEF AgreeUnlessDisturbed, AgreeAtRest
<1>4. QED
  BY <1>1, <1>2, <1>3, Agreement, PTL DEF Spec
===============================================================================
