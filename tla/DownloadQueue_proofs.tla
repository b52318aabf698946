-------------------------- MODULE DownloadQueue_proofs --------------------------
(***************************************************************************)
(* QueueTypeOK, GateInv, ListedIsFresh and OnlyPhantomsFail for any number *)
(* of units, releases, rows, triggers, requests and faults.  GateInv and   *)
(* ListedIsFresh are inductive given the types.  From GateInv follows the  *)
(* refinement of UnitReservation: the insertion of a row is the atomic     *)
(* reservation, everything else a release or a stutter.                    *)
(***************************************************************************)
EXTENDS DownloadQueue, TLAPS

USE DEF InFlight, TorrentStates, Statuses, IsInFlight, Present, NoFault, Fault, Request, Nothing

\* The tables are empty and nothing is under way.
LEMMA QueueInitType == ASSUME QueueInit PROVE QueueTypeOK
BY QueueAssumption
   DEF QueueInit, QueueTypeOK, TableTypeOK, TriggerTypeOK, ActorTypeOK, SyncTypeOK

\* Writing statuses keeps the types if no row comes or goes.
LEMMA WriteType ==
  ASSUME TableTypeOK, NEW after \in [Ids -> Statuses], WriteStatus(after),
         \A i \in Ids : after[i] = "absent" <=> status[i] = "absent",
         UNCHANGED <<release, covered, reconciled>>, old' \subseteq old
  PROVE  TableTypeOK'
BY DEF TableTypeOK, WriteStatus

\* With(i, s) writes one row.
LEMMA WithType ==
  ASSUME TableTypeOK, NEW i \in Ids, NEW s \in Statuses \ {"absent"}
  PROVE  /\ With(i, s) \in [Ids -> Statuses]
         /\ \A j \in Ids : With(i, s)[j] = "absent" <=> status[j] = "absent"
BY DEF TableTypeOK, With

\* Deleting a row takes all of it away.
LEMMA DeleteType ==
  ASSUME TableTypeOK, NEW i \in Ids, Delete(i) PROVE TableTypeOK'
BY DEF TableTypeOK, Delete, Uncover

\* An import writes the oldest row of its release.
LEMMA ImportType ==
  ASSUME QueueTypeOK, NEW h \in Releases, Import(h), UNCHANGED <<release, covered, old, reentered>>
  PROVE  TableTypeOK' /\ torrents' \in [Releases -> TorrentStates \cup {"absent"}]
         /\ faults' \in 0..MaxFaults
<1>1. faults' \in 0..MaxFaults
  BY QueueAssumption DEF QueueTypeOK, Import
<1>2. CASE UNCHANGED <<status, reconciled, torrents>>
  BY <1>1, <1>2 DEF QueueTypeOK, TableTypeOK
<1>3. ASSUME NEW i \in Ids \ reconciled,
             Oldest(h, i),
             status' = [status EXCEPT ![i] = "imported"],
             reconciled' = reconciled \cup {i},
             torrents' = [torrents EXCEPT ![h] = "absent"] \/ UNCHANGED torrents
      PROVE  TableTypeOK' /\ torrents' \in [Releases -> TorrentStates \cup {"absent"}]
  <2>1. status[i] # "absent" /\ release[i] = h
    BY <1>3 DEF Oldest, RowsOf
  <2>2. TableTypeOK'
    BY <1>3, <2>1 DEF QueueTypeOK, TableTypeOK
  <2>3. QED
    BY <1>3, <2>2 DEF QueueTypeOK
<1>4. QED
  BY <1>1, <1>2, <1>3 DEF Import

\* Every step keeps the types.
LEMMA TypeStep == ASSUME QueueTypeOK, [QueueNext]_queueVars PROVE QueueTypeOK'
<1> USE QueueAssumption DEF QueueTypeOK, table, trigger, actor, sync
<1>1. ASSUME NEW q \in Triggers, NEW h \in Releases, Trigger(q, h) PROVE QueueTypeOK'
  BY <1>1 DEF Trigger, TriggerGoTo, TableTypeOK, TriggerTypeOK, ActorTypeOK, SyncTypeOK
<1>2. ASSUME NEW q \in Triggers, CheckUnits(q) PROVE QueueTypeOK'
  BY <1>2 DEF CheckUnits, LeaveGate, TriggerGoTo, TableTypeOK, TriggerTypeOK, ActorTypeOK,
         SyncTypeOK
<1>3. ASSUME NEW q \in Triggers, Insert(q) PROVE QueueTypeOK'
  <2>1. CASE LeaveGate(q) /\ UNCHANGED table
    BY <1>3, <2>1 DEF Insert, LeaveGate, TriggerGoTo, TableTypeOK, TriggerTypeOK,
           ActorTypeOK, SyncTypeOK
  <2>2. CASE ~(LeaveGate(q) /\ UNCHANGED table)
    <3>1. PICK i \in Ids :
            /\ NextId(i)
            /\ release' = [release EXCEPT ![i] = chosen[q]]
            /\ status' = [status EXCEPT ![i] = "queued"]
            /\ covered' = [covered EXCEPT ![i] = StartUnits(chosen[q])]
            /\ old' = old \ {i}
            /\ inserted' = [inserted EXCEPT ![q] = i]
            /\ TriggerGoTo(q, "add")
            /\ UNCHANGED <<reconciled, reentered, chosen, granted>>
      BY <1>3, <2>2 DEF Insert
    <3>2. chosen[q] \in Releases
      BY <1>3 DEF Insert, TriggerTypeOK
    <3>3. StartUnits(chosen[q]) \subseteq Units
      BY <3>2 DEF StartUnits
    <3>4. TableTypeOK'
      BY <3>1, <3>2, <3>3 DEF TableTypeOK
    <3>5. TriggerTypeOK'
      BY <3>1, <3>2 DEF TriggerTypeOK, TriggerGoTo
    <3>6. ActorTypeOK'
      BY <1>3, <3>1, <3>2 DEF Insert, ActorTypeOK, TableTypeOK
    <3>7. QED
      BY <1>3, <3>4, <3>5, <3>6 DEF Insert, SyncTypeOK
  <2>3. QED
    BY <2>1, <2>2
<1>4. ASSUME NEW q \in Triggers, Add(q) PROVE QueueTypeOK'
  BY <1>4 DEF Add, Accept, TriggerGoTo, TableTypeOK, TriggerTypeOK, ActorTypeOK, SyncTypeOK
<1>5. ASSUME NEW q \in Triggers, DropRow(q) PROVE QueueTypeOK'
  <2>1. TableTypeOK'
    <3>1. CASE Delete(inserted[q])
      BY <1>5, <3>1, DeleteType DEF DropRow, TriggerTypeOK
    <3>2. CASE UNCHANGED table
      BY <3>2 DEF TableTypeOK
    <3>3. QED
      BY <1>5, <3>1, <3>2 DEF DropRow
  <2>2. UNCHANGED release
    BY <1>5 DEF DropRow, Delete
  <2>3. QED
    BY <1>5, <2>1, <2>2 DEF DropRow, LeaveGate, TriggerGoTo, TriggerTypeOK, ActorTypeOK,
           SyncTypeOK
<1>6. ASSUME NEW q \in Triggers, Finalize(q) PROVE QueueTypeOK'
  <2>1. TableTypeOK'
    <3>1. CASE WriteStatus(With(inserted[q], granted[q]))
      <4>1. inserted[q] \in Ids /\ granted[q] \in Statuses \ {"absent"}
        BY <1>6 DEF Finalize, TriggerTypeOK
      <4>2. QED
        BY <1>6, <3>1, <4>1, WithType, WriteType DEF Finalize
    <3>2. CASE UNCHANGED <<status, reentered>>
      BY <1>6, <3>2 DEF Finalize, TableTypeOK
    <3>3. QED
      BY <1>6, <3>1, <3>2 DEF Finalize
  <2>2. QED
    BY <1>6, <2>1 DEF Finalize, LeaveGate, TriggerGoTo, TriggerTypeOK, ActorTypeOK, SyncTypeOK
<1>7. ASSUME NEW a \in Actors, NEW action \in {"pause", "resume", "delete", "retry"}, Load(a, action)
      PROVE  QueueTypeOK'
  BY <1>7 DEF Load, TableTypeOK, TriggerTypeOK, ActorTypeOK, SyncTypeOK
<1>8. ASSUME NEW a \in Actors, Call(a) PROVE QueueTypeOK'
  BY <1>8 DEF Call, Moved, Accept, TableTypeOK, TriggerTypeOK, ActorTypeOK, SyncTypeOK
<1>9. ASSUME NEW a \in Actors, CallDisabled(a) PROVE QueueTypeOK'
  BY <1>9 DEF CallDisabled, ActorDone, TableTypeOK, TriggerTypeOK, ActorTypeOK, SyncTypeOK
<1>10. ASSUME NEW a \in Actors, CallFails(a) PROVE QueueTypeOK'
  BY <1>10 DEF CallFails, ActorDone, TableTypeOK, TriggerTypeOK, ActorTypeOK, SyncTypeOK
<1>11. ASSUME NEW a \in Actors, Write(a) PROVE QueueTypeOK'
  <2>1. TableTypeOK'
    <3>1. CASE WriteStatus(With(target[a], seen[a])) /\ old' \subseteq old
      <4>1. target[a] \in Ids /\ seen[a] \in Statuses \ {"absent"}
        BY <1>11 DEF Write, ActorTypeOK
      <4>2. QED
        BY <1>11, <3>1, <4>1, WithType, WriteType DEF Write
    <3>2. CASE UNCHANGED <<status, old, reentered>>
      BY <1>11, <3>2 DEF Write, TableTypeOK
    <3>3. QED
      BY <1>11, <3>1, <3>2 DEF Write
  <2>2. QED
    BY <1>11, <2>1 DEF Write, ActorDone, TriggerTypeOK, ActorTypeOK, SyncTypeOK
<1>12. ASSUME NEW a \in Actors, Remove(a) PROVE QueueTypeOK'
  <2>1. TableTypeOK' /\ UNCHANGED release
    BY <1>12, DeleteType DEF Remove, ActorTypeOK, Delete
  <2>2. QED
    BY <1>12, <2>1 DEF Remove, ActorDone, TriggerTypeOK, ActorTypeOK, SyncTypeOK
<1>13. CASE SyncList
  BY <1>13 DEF SyncList, TableTypeOK, TriggerTypeOK, ActorTypeOK, SyncTypeOK
<1>14. CASE SyncRows
  BY <1>14 DEF SyncRows, TableTypeOK, TriggerTypeOK, ActorTypeOK, SyncTypeOK
<1>15. CASE SyncWrite
  <2>1. /\ Synced \in [Ids -> Statuses]
        /\ \A i \in Ids : Synced[i] = "absent" <=> status[i] = "absent"
    BY DEF Synced, Listed, TableTypeOK, SyncTypeOK
  <2>2. TableTypeOK'
    BY <1>15, <2>1, WriteType DEF SyncWrite, Refreshed
  <2>3. QED
    BY <1>15, <2>2 DEF SyncWrite, TriggerTypeOK, ActorTypeOK, SyncTypeOK
<1>16. CASE SyncConflict
  BY <1>16 DEF SyncConflict, EndPass, TableTypeOK, TriggerTypeOK, ActorTypeOK, SyncTypeOK
<1>17. CASE SyncFailStale
  BY <1>17 DEF SyncFailStale, SweptQueue, Phantoms, TableTypeOK, TriggerTypeOK,
         ActorTypeOK, SyncTypeOK
<1>18. CASE SyncRefine
  <2>1. PICK i \in toRefine :
          /\ toRefine' = toRefine \ {i}
          /\ \/ /\ Present(i)
                /\ torrents[release[i]] # "absent"
                /\ covered' = [covered EXCEPT ![i] = Contents[release[i]]]
                /\ reentered' = IF covered'[i] # covered[i] THEN reentered \cup {i} ELSE reentered
             \/ UNCHANGED <<covered, reentered>>
          /\ faults' \in 0..MaxFaults
    BY <1>18 DEF SyncRefine
  <2>2. i \in Ids
    BY <2>1 DEF SyncTypeOK
  <2>3. TableTypeOK'
    <3>1. CASE UNCHANGED <<covered, reentered>>
      BY <1>18, <3>1 DEF SyncRefine, TableTypeOK
    <3>2. CASE ~UNCHANGED <<covered, reentered>>
      <4>1. release[i] \in Releases /\ status[i] # "absent"
        BY <2>1, <2>2, <3>2 DEF TableTypeOK
      <4>2. Contents[release[i]] \subseteq Units
        BY <4>1
      <4>3. /\ covered' = [covered EXCEPT ![i] = Contents[release[i]]]
            /\ reentered' \in {reentered, reentered \cup {i}}
        BY <2>1, <3>2
      <4>4. \A j \in Ids : covered'[j] = IF j = i THEN Contents[release[i]] ELSE covered[j]
        BY <4>3 DEF TableTypeOK
      <4>5. covered' \in [Ids -> SUBSET Units] /\ reentered' \subseteq Ids
        BY <2>2, <4>2, <4>3 DEF TableTypeOK
      <4>6. QED
        BY <1>18, <4>1, <4>4, <4>5 DEF SyncRefine, TableTypeOK
    <3>3. QED
      BY <3>1, <3>2
  <2>4. QED
    BY <1>18, <2>1, <2>3 DEF SyncRefine, TriggerTypeOK, ActorTypeOK, SyncTypeOK
<1>19. CASE SyncRefined
  BY <1>19 DEF SyncRefined, TableTypeOK, TriggerTypeOK, ActorTypeOK, SyncTypeOK
<1>20. CASE SyncReconcile
  <2>1. PICK h \in toReconcile : Import(h) /\ toReconcile' = toReconcile \ {h}
    BY <1>20 DEF SyncReconcile
  <2>2. /\ TableTypeOK' /\ torrents' \in [Releases -> TorrentStates \cup {"absent"}]
        /\ faults' \in 0..MaxFaults
    BY <1>20, <2>1, ImportType DEF SyncReconcile, SyncTypeOK
  <2>3. QED
    BY <1>20, <2>1, <2>2 DEF SyncReconcile, TriggerTypeOK, ActorTypeOK, SyncTypeOK
<1>21. CASE SyncEnd
  BY <1>21 DEF SyncEnd, EndPass, TableTypeOK, TriggerTypeOK, ActorTypeOK, SyncTypeOK
<1>22. CASE SyncFails
  BY <1>22 DEF SyncFails, EndPass, TableTypeOK, TriggerTypeOK, ActorTypeOK, SyncTypeOK
<1>23. ASSUME NEW h \in Releases, RequestImport(h) PROVE QueueTypeOK'
  BY <1>23, ImportType DEF RequestImport, TriggerTypeOK, ActorTypeOK, SyncTypeOK
<1>24. ASSUME NEW h \in Releases, Complete(h) PROVE QueueTypeOK'
  BY <1>24 DEF Complete, TableTypeOK, TriggerTypeOK, ActorTypeOK, SyncTypeOK
<1>25. ASSUME NEW h \in Releases, Disturb(h) PROVE QueueTypeOK'
  BY <1>25 DEF Disturb, Moved, TableTypeOK, TriggerTypeOK, ActorTypeOK, SyncTypeOK
<1>26. ASSUME NEW i \in Ids, Age(i) PROVE QueueTypeOK'
  BY <1>26 DEF Age, TableTypeOK, TriggerTypeOK, ActorTypeOK, SyncTypeOK
<1>27. CASE QueueCrash
  BY <1>27 DEF QueueCrash, EndPass, TableTypeOK, TriggerTypeOK, ActorTypeOK, SyncTypeOK
<1>28. CASE UNCHANGED queueVars
  BY <1>28 DEF queueVars, TableTypeOK, TriggerTypeOK, ActorTypeOK, SyncTypeOK
<1>29. QED
  BY <1>1, <1>2, <1>3, <1>4, <1>5, <1>6, <1>7, <1>8, <1>9, <1>10, <1>11, <1>12, <1>13, <1>14,
     <1>15, <1>16, <1>17, <1>18, <1>19, <1>20, <1>21, <1>22, <1>23, <1>24, <1>25, <1>26, <1>27,
     <1>28 DEF QueueNext, TriggerStep, ActorStep, SyncStep

(* Every variable has its type, and only a row that exists has units, a    *)
(* release or the mark of reconciliation (insertQueuedDownloadRow,         *)
(* deleteDownloadWithEventTx).                                             *)
THEOREM QueueTypeCorrect == QueueSpec => []QueueTypeOK
<1>1. QueueInit => QueueTypeOK
  BY QueueInitType
<1>2. QueueTypeOK /\ [QueueNext]_queueVars => QueueTypeOK'
  BY TypeStep
<1>3. QED
  BY <1>1, <1>2, PTL DEF QueueSpec
-------------------------------------------------------------------------------
\* Where neither the rows nor their coverage change, the units in flight do not either.
LEMMA SteadyStays ==
  ASSUME GateInv,
         \A i \in Ids : Steady(i)' => Steady(i) /\ covered'[i] = covered[i],
         \A q \in Triggers : tpc'[q] # "idle" => tpc[q] # "idle",
         \A q \in Triggers : tpc'[q] = "insert" => tpc[q] = "insert" /\ chosen'[q] = chosen[q]
  PROVE  GateInv'
<1>1. NoUnitTwice'
  BY DEF GateInv, NoUnitTwice
<1>2. OneTrigger'
  BY DEF GateInv, OneTrigger
<1>3. ChosenIsFree'
  BY DEF GateInv, ChosenIsFree, StartUnits
<1>4. QED
  BY <1>1, <1>2, <1>3 DEF GateInv

\* A row that is not put in flight covers nothing new.
LEMMA SteadyWrite ==
  ASSUME TableTypeOK, NEW after \in [Ids -> Statuses], WriteStatus(after)
  PROVE  \A i \in Ids : Steady(i)' => Steady(i)
BY DEF WriteStatus, Steady, TableTypeOK

\* A row that goes covers nothing.
LEMMA SteadyDelete ==
  ASSUME TableTypeOK, NEW i \in Ids, Delete(i)
  PROVE  \A j \in Ids : Steady(j)' => Steady(j) /\ covered'[j] = covered[j]
BY DEF Delete, Uncover, Steady, TableTypeOK

\* An imported row is not in flight.
LEMMA SteadyImport ==
  ASSUME TableTypeOK, NEW h \in Releases, Import(h), UNCHANGED reentered
  PROVE  \A j \in Ids : Steady(j)' => Steady(j)
BY DEF Import, Steady, TableTypeOK

\* A new row covers the units its trigger has looked up; the other rows stay as they are.
Inserted(q, i) ==
  /\ tpc[q] = "insert"
  /\ NextId(i)
  /\ release' = [release EXCEPT ![i] = chosen[q]]
  /\ status' = [status EXCEPT ![i] = "queued"]
  /\ covered' = [covered EXCEPT ![i] = StartUnits(chosen[q])]
  /\ tpc' = [tpc EXCEPT ![q] = "add"]
  /\ UNCHANGED <<reentered, chosen>>

\* No row comes to be, none comes into flight, and those in flight keep their coverage.
NothingReserved ==
  /\ UNCHANGED release
  /\ \A i \in Ids : Steady(i)' => Steady(i) /\ covered'[i] = covered[i]

\* The only step that reserves anything is the insertion of a row.
LEMMA TableStep ==
  ASSUME QueueTypeOK, [QueueNext]_queueVars
  PROVE  NothingReserved \/ \E q \in Triggers, i \in Ids : Inserted(q, i)
<1> USE DEF table, trigger, actor, sync, NothingReserved
<1> TableTypeOK /\ TriggerTypeOK
  BY DEF QueueTypeOK
<1>a. ASSUME UNCHANGED <<release, status, covered, reentered>> PROVE NothingReserved
  BY <1>a DEF Steady
<1>1. ASSUME NEW q \in Triggers, NEW h \in Releases, Trigger(q, h) PROVE NothingReserved
  BY <1>1, <1>a DEF Trigger
<1>2. ASSUME NEW q \in Triggers, CheckUnits(q) \/ Add(q) PROVE NothingReserved
  BY <1>2, <1>a DEF CheckUnits, Add
<1>3. ASSUME NEW q \in Triggers, Insert(q)
      PROVE  NothingReserved \/ \E i \in Ids : Inserted(q, i)
  BY <1>3, <1>a DEF Insert, Inserted, TriggerGoTo
<1>5. ASSUME NEW q \in Triggers, DropRow(q) PROVE NothingReserved
  <2>1. CASE Delete(inserted[q])
    BY <1>5, <2>1, SteadyDelete DEF DropRow, TriggerTypeOK, Delete
  <2>2. QED
    BY <1>5, <1>a, <2>1 DEF DropRow
<1>6. ASSUME NEW q \in Triggers, Finalize(q) PROVE NothingReserved
  <2>1. CASE WriteStatus(With(inserted[q], granted[q]))
    <3>1. inserted[q] \in Ids /\ granted[q] \in Statuses \ {"absent"}
      BY <1>6 DEF Finalize, TriggerTypeOK
    <3>2. QED
      BY <1>6, <2>1, <3>1, WithType, SteadyWrite DEF Finalize
  <2>2. QED
    BY <1>6, <1>a, <2>1 DEF Finalize
<1>11. ASSUME NEW a \in Actors, Write(a) PROVE NothingReserved
  <2>1. CASE WriteStatus(With(target[a], seen[a]))
    <3>1. target[a] \in Ids /\ seen[a] \in Statuses \ {"absent"}
      BY <1>11 DEF Write, QueueTypeOK, ActorTypeOK
    <3>2. QED
      BY <1>11, <2>1, <3>1, WithType, SteadyWrite DEF Write
  <2>2. QED
    BY <1>11, <1>a, <2>1 DEF Write
<1>12. ASSUME NEW a \in Actors, Remove(a) PROVE NothingReserved
  BY <1>12, SteadyDelete DEF Remove, Delete, QueueTypeOK, ActorTypeOK
<1>15. CASE SyncWrite
  <2>1. Synced \in [Ids -> Statuses]
    BY DEF Synced, Listed, TableTypeOK, QueueTypeOK, SyncTypeOK
  <2>2. QED
    BY <1>15, <2>1, SteadyWrite DEF SyncWrite
<1>17. CASE SyncFailStale
  BY <1>17 DEF SyncFailStale, SweptQueue, Steady, TableTypeOK
<1>18. CASE SyncRefine
  <2>1. PICK i \in toRefine :
          \/ /\ covered' = [covered EXCEPT ![i] = Contents[release[i]]]
             /\ reentered' = IF covered'[i] # covered[i] THEN reentered \cup {i} ELSE reentered
          \/ UNCHANGED <<covered, reentered>>
    BY <1>18 DEF SyncRefine
  <2>2. QED
    BY <1>18, <2>1 DEF SyncRefine, Steady, TableTypeOK
<1>20. CASE SyncReconcile
  BY <1>20, SteadyImport DEF SyncReconcile, QueueTypeOK, SyncTypeOK
<1>23. ASSUME NEW h \in Releases, RequestImport(h) PROVE NothingReserved
  BY <1>23, SteadyImport DEF RequestImport
<1>28. CASE \E a \in Actors : \/ \E action \in {"pause", "resume", "delete", "retry"} : Load(a, action)
                               \/ Call(a) \/ CallDisabled(a) \/ CallFails(a)
  BY <1>28, <1>a DEF Load, Call, CallDisabled, CallFails
<1>29. CASE \/ SyncList \/ SyncRows \/ SyncConflict \/ SyncRefined \/ SyncEnd \/ SyncFails
            \/ \E h \in Releases : Complete(h) \/ Disturb(h)
            \/ \E i \in Ids : Age(i)
            \/ QueueCrash \/ UNCHANGED queueVars
  BY <1>29, <1>a
     DEF SyncList, SyncRows, SyncConflict, SyncRefined, SyncEnd, SyncFails, Complete, Disturb,
         Age, QueueCrash, queueVars
<1>31. QED
  BY <1>1, <1>2, <1>3, <1>5, <1>6, <1>11, <1>12, <1>15, <1>17, <1>18, <1>20, <1>23, <1>28, <1>29
     DEF QueueNext, TriggerStep, ActorStep, SyncStep

\* Only CheckUnits lets a trigger go to the insertion, only Trigger lets one in.
LEMMA TriggersStep ==
  ASSUME QueueTypeOK, [QueueNext]_queueVars,
         \A q \in Triggers, h \in Releases : ~Trigger(q, h),
         \A q \in Triggers : ~CheckUnits(q)
  PROVE  /\ \A q \in Triggers : tpc'[q] # "idle" => tpc[q] # "idle"
         /\ \A q \in Triggers : tpc'[q] = "insert" => tpc[q] = "insert" /\ chosen'[q] = chosen[q]
<1> USE DEF table, trigger, actor, sync
<1> TriggerTypeOK
  BY DEF QueueTypeOK
<1>1. ASSUME NEW q \in Triggers, Insert(q) \/ Add(q) \/ DropRow(q) \/ Finalize(q)
      PROVE  /\ tpc[q] # "idle" /\ tpc'[q] # "insert"
             /\ \A r \in Triggers \ {q} : tpc'[r] = tpc[r] /\ chosen'[r] = chosen[r]
  BY <1>1 DEF Insert, Add, DropRow, Finalize, LeaveGate, TriggerGoTo, TriggerTypeOK
<1>2. CASE UNCHANGED <<tpc, chosen>>
  BY <1>2
<1>3. CASE QueueCrash
  BY <1>3 DEF QueueCrash
<1>4. ASSUME NEW a \in Actors,
             \/ \E action \in {"pause", "resume", "delete", "retry"} : Load(a, action)
             \/ ActorStep(a) \/ CallDisabled(a) \/ CallFails(a)
      PROVE  UNCHANGED trigger
  BY <1>4 DEF Load, ActorStep, Call, Write, Remove, CallDisabled, CallFails
<1>5. CASE SyncStep \/ SyncFails
  BY <1>2, <1>5 DEF SyncStep, SyncList, SyncRows, SyncWrite, SyncConflict, SyncFailStale, SyncRefine,
                    SyncRefined, SyncReconcile, SyncEnd, SyncFails
<1>6. CASE \/ \E h \in Releases : RequestImport(h) \/ Complete(h) \/ Disturb(h)
           \/ \E i \in Ids : Age(i)
           \/ UNCHANGED queueVars
  BY <1>2, <1>6 DEF RequestImport, Complete, Disturb, Age, queueVars
<1>7. QED
  BY <1>1, <1>2, <1>3, <1>4, <1>5, <1>6 DEF QueueNext, TriggerStep

\* Every step keeps what the holder of the gate has looked up.
LEMMA GateStep == ASSUME QueueTypeOK, GateInv, [QueueNext]_queueVars PROVE GateInv'
<1> USE QueueAssumption
<1> TableTypeOK /\ TriggerTypeOK
  BY DEF QueueTypeOK
<1>1. ASSUME NEW q \in Triggers, NEW h \in Releases, Trigger(q, h) PROVE GateInv'
  <2>1. \A r \in Triggers : tpc'[r] = IF r = q THEN "units" ELSE "idle"
    BY <1>1 DEF Trigger, GateOpen, TriggerGoTo, TriggerTypeOK
  <2>2. NoUnitTwice'
    BY <1>1 DEF Trigger, table, GateInv, NoUnitTwice, Steady
  <2>3. QED
    BY <2>1, <2>2 DEF GateInv, OneTrigger, ChosenIsFree
<1>2. ASSUME NEW q \in Triggers, CheckUnits(q) PROVE GateInv'
  <2>1. CASE Overlaps(chosen[q])
    BY <1>2, <2>1, SteadyStays
    DEF CheckUnits, table, LeaveGate, TriggerGoTo, TriggerTypeOK, Steady
  <2>2. CASE ~Overlaps(chosen[q])
    <3>1. /\ tpc[q] = "units" /\ tpc' = [tpc EXCEPT ![q] = "insert"]
          /\ UNCHANGED <<table, chosen>>
      BY <1>2, <2>2 DEF CheckUnits, TriggerGoTo
    <3>2. NoUnitTwice'
      BY <3>1 DEF table, GateInv, NoUnitTwice, Steady
    <3>3. OneTrigger'
      BY <3>1 DEF GateInv, OneTrigger, TriggerTypeOK
    <3>4. ChosenIsFree'
      BY <2>2, <3>1
      DEF table, GateInv, ChosenIsFree, Overlaps, Steady, StartUnits, TriggerTypeOK
    <3>5. QED
      BY <3>2, <3>3, <3>4 DEF GateInv
  <2>3. QED
    BY <2>1, <2>2
<1>3. ASSUME NEW q \in Triggers, NEW i \in Ids, Inserted(q, i) PROVE GateInv'
  <2>1. \A j \in Ids : Steady(j) => covered[j] \cap StartUnits(chosen[q]) = {}
    BY <1>3 DEF Inserted, GateInv, ChosenIsFree
  <2>2. \A j \in Ids : j # i /\ Steady(j)' => Steady(j) /\ covered'[j] = covered[j]
    BY <1>3 DEF Inserted, Steady, TableTypeOK
  <2>3. covered'[i] = StartUnits(chosen[q])
    BY <1>3 DEF Inserted, TableTypeOK
  <2>4. NoUnitTwice'
    <3>1. SUFFICES ASSUME NEW j \in Ids, NEW k \in Ids, Steady(j)', Steady(k)', j # k
                   PROVE  covered'[j] \cap covered'[k] = {}
      BY DEF NoUnitTwice
    <3>2. CASE j = i
      <4>1. covered'[k] = covered[k] /\ covered[k] \cap StartUnits(chosen[q]) = {}
        BY <2>1, <2>2, <3>1, <3>2
      <4>2. QED
        BY <2>3, <3>2, <4>1
    <3>3. CASE k = i
      <4>1. covered'[j] = covered[j] /\ covered[j] \cap StartUnits(chosen[q]) = {}
        BY <2>1, <2>2, <3>1, <3>3
      <4>2. QED
        BY <2>3, <3>3, <4>1
    <3>4. CASE j # i /\ k # i
      BY <2>2, <3>1, <3>4 DEF GateInv, NoUnitTwice
    <3>5. QED
      BY <3>2, <3>3, <3>4
  <2>5. OneTrigger' /\ \A r \in Triggers : tpc'[r] # "insert"
    BY <1>3 DEF Inserted, GateInv, OneTrigger, TriggerTypeOK
  <2>6. QED
    BY <2>4, <2>5 DEF GateInv, ChosenIsFree
<1>4. CASE /\ NothingReserved
           /\ \A q \in Triggers, h \in Releases : ~Trigger(q, h)
           /\ \A q \in Triggers : ~CheckUnits(q)
  BY <1>4, TriggersStep, SteadyStays DEF NothingReserved
<1>5. QED
  BY <1>1, <1>2, <1>3, <1>4, TableStep

(* Rows that were queued and have been in flight ever since cover no unit  *)
(* in common, because one trigger holds the gate and nothing comes to      *)
(* cover the units of its release between its check and its insertion      *)
(* (queueDownload under DownloadTriggerGate).                              *)
THEOREM GateHolds == QueueSpec => []GateInv
<1>1. QueueInit => GateInv
  BY QueueAssumption DEF QueueInit, GateInv, NoUnitTwice, OneTrigger, ChosenIsFree, Steady
<1>2. QueueTypeOK /\ GateInv /\ [QueueNext]_queueVars => GateInv'
  BY GateStep
<1>3. QED
  BY <1>1, <1>2, QueueTypeCorrect, PTL DEF QueueSpec
-------------------------------------------------------------------------------
\* Every step keeps the list of the pass fresh.
LEMMA FreshStep == ASSUME QueueTypeOK, ListedIsFresh, [QueueNext]_queueVars PROVE ListedIsFresh'
<1> USE DEF Listed, table, trigger, actor, sync
<1> SUFFICES ASSUME syncPhase' = "fail", NEW i \in Ids, Listed(i)' PROVE i \notin old'
  BY DEF ListedIsFresh
<1> TableTypeOK
  BY DEF QueueTypeOK
<1>1. CASE SyncWrite
  <2>1. Listed(i)
    BY <1>1 DEF SyncWrite, WriteStatus, Synced
  <2>2. QED
    BY <1>1, <2>1 DEF SyncWrite, Refreshed
<1>2. CASE UNCHANGED <<syncPhase, plan>> /\ (Present(i)' => Present(i)) /\ release'[i] = release[i]
           /\ old' \subseteq old
  BY <1>2 DEF ListedIsFresh
<1>3. ASSUME NEW q \in Triggers, TriggerStep(q) \/ \E h \in Releases : Trigger(q, h)
      PROVE  i \notin old'
  <2>1. CASE Insert(q)
    <3>1. CASE UNCHANGED table
      BY <1>2, <2>1, <3>1 DEF Insert
    <3>2. CASE ~UNCHANGED table
      <4>1. PICK j \in Ids : /\ release' = [release EXCEPT ![j] = chosen[q]]
                             /\ status' = [status EXCEPT ![j] = "queued"]
                             /\ old' = old \ {j}
        BY <2>1, <3>2 DEF Insert
      <4>2. CASE i = j
        BY <4>1, <4>2
      <4>3. CASE i # j
        BY <1>2, <2>1, <4>1, <4>3 DEF Insert, TableTypeOK
      <4>4. QED
        BY <4>2, <4>3
    <3>3. QED
      BY <3>1, <3>2
  <2>2. CASE DropRow(q)
    BY <1>2, <2>2 DEF DropRow, Delete, TableTypeOK
  <2>3. CASE Finalize(q)
    BY <1>2, <2>3 DEF Finalize, WriteStatus, With, TableTypeOK
  <2>4. CASE CheckUnits(q) \/ Add(q) \/ \E h \in Releases : Trigger(q, h)
    BY <1>2, <2>4 DEF CheckUnits, Add, Trigger
  <2>5. QED
    BY <1>3, <2>1, <2>2, <2>3, <2>4 DEF TriggerStep
<1>4. ASSUME NEW a \in Actors,
             \/ \E action \in {"pause", "resume", "delete", "retry"} : Load(a, action)
             \/ ActorStep(a) \/ CallDisabled(a) \/ CallFails(a)
      PROVE  i \notin old'
  <2>1. CASE Write(a)
    BY <1>2, <2>1 DEF Write, WriteStatus, With, TableTypeOK
  <2>2. CASE Remove(a)
    BY <1>2, <2>2 DEF Remove, Delete, TableTypeOK
  <2>3. CASE \/ \E action \in {"pause", "resume", "delete", "retry"} : Load(a, action)
             \/ Call(a) \/ CallDisabled(a) \/ CallFails(a)
    BY <1>2, <2>3 DEF Load, Call, CallDisabled, CallFails
  <2>4. QED
    BY <1>4, <2>1, <2>2, <2>3 DEF ActorStep
<1>5. CASE \/ SyncList \/ SyncRows \/ SyncConflict \/ SyncFailStale \/ SyncRefine \/ SyncRefined
           \/ SyncReconcile \/ SyncEnd \/ SyncFails \/ QueueCrash \/ \E j \in Ids : Age(j)
  BY <1>5 DEF SyncList, SyncRows, SyncConflict, SyncFailStale, SyncRefine, SyncRefined,
              SyncReconcile, SyncEnd, SyncFails, QueueCrash, EndPass, Age
<1>6. ASSUME NEW h \in Releases, RequestImport(h) \/ Complete(h) \/ Disturb(h)
      PROVE  i \notin old'
  <2>1. Present(i)' => Present(i)
    BY <1>6 DEF RequestImport, Complete, Disturb, Import, Oldest, RowsOf, TableTypeOK
  <2>2. QED
    BY <1>2, <1>6, <2>1 DEF RequestImport, Complete, Disturb
<1>7. CASE UNCHANGED queueVars
  BY <1>2, <1>7 DEF queueVars
<1>8. QED
  BY <1>1, <1>3, <1>4, <1>5, <1>6, <1>7 DEF QueueNext, SyncStep

(* Once a pass has written the statuses, no row of a torrent it has listed *)
(* is old, so that failStaleQueuedDownloads does not take it for a         *)
(* phantom.                                                                *)
THEOREM ListedStaysFresh == QueueSpec => []ListedIsFresh
<1>1. QueueInit => ListedIsFresh
  BY DEF QueueInit, ListedIsFresh
<1>2. QueueTypeOK /\ ListedIsFresh /\ [QueueNext]_queueVars => ListedIsFresh'
  BY FreshStep
<1>3. QED
  BY <1>1, <1>2, QueueTypeCorrect, PTL DEF QueueSpec

\* No step of the pass fails any other row.
LEMMA PhantomStep ==
  ASSUME QueueTypeOK, ListedIsFresh, [QueueNext]_queueVars,
         NEW i \in Ids, status[i] = "queued", status'[i] = "failed", sync' # sync
  PROVE  plan[release[i]] = "absent"
<1> USE DEF table, trigger, actor
<1> TableTypeOK
  BY DEF QueueTypeOK
<1>1. CASE SyncFailStale
  <2>1. i \in old /\ syncPhase = "fail"
    BY <1>1 DEF SyncFailStale, SweptQueue, Phantoms
  <2>2. QED
    BY <2>1 DEF ListedIsFresh, Listed
<1>2. CASE SyncWrite
  <2>1. status'[i] = IF Listed(i) THEN plan[release[i]] ELSE status[i]
    BY <1>2 DEF SyncWrite, WriteStatus, Synced
  <2>2. Listed(i) => plan[release[i]] # "failed"
    BY DEF QueueTypeOK, SyncTypeOK, TableTypeOK
  <2>3. QED
    BY <2>1, <2>2
<1>3. CASE SyncReconcile
  BY <1>3 DEF SyncReconcile, Import, TableTypeOK
<1>4. CASE \/ SyncList \/ SyncRows \/ SyncConflict \/ SyncRefine \/ SyncRefined \/ SyncEnd
           \/ SyncFails \/ QueueCrash
  BY <1>4 DEF SyncList, SyncRows, SyncConflict, SyncRefine, SyncRefined, SyncEnd, SyncFails,
              QueueCrash
<1>5. ASSUME NEW q \in Triggers, TriggerStep(q) \/ \E h \in Releases : Trigger(q, h)
      PROVE  UNCHANGED sync
  BY <1>5 DEF TriggerStep, Trigger, CheckUnits, Insert, Add, DropRow, Finalize
<1>6. ASSUME NEW a \in Actors,
             \/ \E action \in {"pause", "resume", "delete", "retry"} : Load(a, action)
             \/ ActorStep(a) \/ CallDisabled(a) \/ CallFails(a)
      PROVE  UNCHANGED sync
  BY <1>6 DEF Load, ActorStep, Call, Write, Remove, CallDisabled, CallFails
<1>7. CASE \/ \E h \in Releases : RequestImport(h) \/ Complete(h) \/ Disturb(h)
           \/ \E j \in Ids : Age(j)
  BY <1>7 DEF RequestImport, Complete, Disturb, Age, sync
<1>8. CASE UNCHANGED queueVars
  BY <1>8 DEF queueVars, sync
<1>9. QED
  BY <1>1, <1>2, <1>3, <1>4, <1>5, <1>6, <1>7, <1>8 DEF QueueNext, SyncStep

(* No step of a sync pass fails a queued row whose torrent the pass has    *)
(* seen (failStaleQueuedDownloads).                                        *)
THEOREM PhantomsOnlyFail == QueueSpec => OnlyPhantomsFail
<1>1. QueueTypeOK /\ ListedIsFresh /\ [QueueNext]_queueVars
        => [\A i \in Ids : status[i] = "queued" /\ status'[i] = "failed" /\ sync' # sync
                              => plan[release[i]] = "absent"]_queueVars
  BY PhantomStep
<1>2. QED
  BY <1>1, QueueTypeCorrect, ListedStaysFresh, PTL DEF QueueSpec, OnlyPhantomsFail

\* A row that waits in the queue and is old, so that the end of a pass fails it, and a
\* retry about to write it, which alone may make it new and leave it queued.
Phantom(i) == status[i] = "queued" /\ i \in old
Retried(i) == \E a \in Actors : apc[a] = "rewrite" /\ target[a] = i

PhantomsStay ==
  [][\A i \in Ids : Phantom(i) => \/ Phantom(i)' \/ status'[i] # "queued"
                                  \/ Retried(i)]_queueVars
PhantomsSwept ==
  [][syncPhase = "fail" /\ syncPhase' = "refine" => \A i \in Ids : ~Phantom(i)']_queueVars

\* Nobody but a retry makes a row new and leaves it in the queue.
LEMMA StayStep ==
  ASSUME QueueTypeOK, [QueueNext]_queueVars, NEW i \in Ids, Phantom(i), ~Retried(i)
  PROVE  i \in old' \/ status'[i] # "queued"
<1> USE DEF table, Phantom
<1> TableTypeOK
  BY DEF QueueTypeOK
<1>1. CASE SyncWrite
  <2>1. old' = old \ {j \in Ids : Listed(j)} /\ (Listed(i) => status'[i] = plan[release[i]])
    BY <1>1 DEF SyncWrite, WriteStatus, Synced, Refreshed
  <2>2. Listed(i) => plan[release[i]] # "queued"
    BY DEF QueueTypeOK, SyncTypeOK, TableTypeOK, TorrentStates
  <2>3. QED
    BY <2>1, <2>2
<1>2. ASSUME NEW q \in Triggers, Insert(q) PROVE i \in old'
  <2>1. ASSUME NEW j \in Ids, NextId(j), old' = old \ {j} PROVE i \in old'
    BY <2>1 DEF NextId, TableTypeOK
  <2>2. QED
    BY <1>2, <2>1 DEF Insert
<1>3. ASSUME NEW q \in Triggers, DropRow(q) PROVE i \in old' \/ status'[i] # "queued"
  BY <1>3 DEF DropRow, Delete, TableTypeOK
<1>4. ASSUME NEW q \in Triggers, \/ CheckUnits(q) \/ Add(q) \/ Finalize(q)
                                 \/ \E h \in Releases : Trigger(q, h)
      PROVE  i \in old'
  BY <1>4 DEF CheckUnits, Add, Finalize, Trigger
<1>5. ASSUME NEW a \in Actors, Write(a) PROVE i \in old'
  BY <1>5 DEF Write, Retried
<1>6. ASSUME NEW a \in Actors, Remove(a) PROVE i \in old' \/ status'[i] # "queued"
  BY <1>6 DEF Remove, Delete, TableTypeOK
<1>7. ASSUME NEW a \in Actors,
             \/ \E action \in {"pause", "resume", "delete", "retry"} : Load(a, action)
             \/ Call(a) \/ CallDisabled(a) \/ CallFails(a)
      PROVE  i \in old'
  BY <1>7 DEF Load, Call, CallDisabled, CallFails
<1>8. CASE \/ SyncList \/ SyncRows \/ SyncConflict \/ SyncFailStale \/ SyncRefine \/ SyncRefined
           \/ SyncReconcile \/ SyncEnd \/ SyncFails \/ QueueCrash
  BY <1>8 DEF SyncList, SyncRows, SyncConflict, SyncFailStale, SyncRefine, SyncRefined,
              SyncReconcile, SyncEnd, SyncFails, QueueCrash
<1>9. CASE \/ \E h \in Releases : RequestImport(h) \/ Complete(h) \/ Disturb(h)
           \/ \E j \in Ids : Age(j)
  BY <1>9 DEF RequestImport, Complete, Disturb, Age
<1>10. CASE UNCHANGED queueVars
  BY <1>10 DEF queueVars
<1>11. QED
  BY <1>1, <1>2, <1>3, <1>4, <1>5, <1>6, <1>7, <1>8, <1>9, <1>10
  DEF QueueNext, SyncStep, TriggerStep, ActorStep

\* Only the statement that fails stale rows ends its phase and begins the next.
LEMMA SweptStep ==
  ASSUME QueueTypeOK, [QueueNext]_queueVars, syncPhase = "fail", syncPhase' = "refine",
         NEW i \in Ids
  PROVE  ~Phantom(i)'
<1> USE DEF table, trigger, actor, sync
<1>1. CASE SyncFailStale
  BY <1>1 DEF SyncFailStale, SweptQueue, Phantoms, Phantom
<1>2. CASE \/ SyncList \/ SyncRows \/ SyncWrite \/ SyncConflict \/ SyncRefine \/ SyncRefined
           \/ SyncReconcile \/ SyncEnd \/ SyncFails \/ QueueCrash
  BY <1>2 DEF SyncList, SyncRows, SyncWrite, SyncConflict, SyncRefine, SyncRefined,
              SyncReconcile, SyncEnd, SyncFails, QueueCrash, EndPass
<1>3. ASSUME NEW q \in Triggers, TriggerStep(q) \/ \E h \in Releases : Trigger(q, h)
      PROVE  FALSE
  BY <1>3 DEF TriggerStep, Trigger, CheckUnits, Insert, Add, DropRow, Finalize
<1>4. ASSUME NEW a \in Actors,
             \/ \E action \in {"pause", "resume", "delete", "retry"} : Load(a, action)
             \/ ActorStep(a) \/ CallDisabled(a) \/ CallFails(a)
      PROVE  FALSE
  BY <1>4 DEF Load, ActorStep, Call, Write, Remove, CallDisabled, CallFails
<1>5. CASE \/ \E h \in Releases : RequestImport(h) \/ Complete(h) \/ Disturb(h)
           \/ \E j \in Ids : Age(j)
  BY <1>5 DEF RequestImport, Complete, Disturb, Age
<1>6. CASE UNCHANGED queueVars
  BY <1>6 DEF queueVars
<1>7. QED
  BY <1>1, <1>2, <1>3, <1>4, <1>5, <1>6 DEF QueueNext, SyncStep

(* Nothing keeps a phantom alive: a queued row whose last_synced_at is     *)
(* past the threshold stays so through passes, actions and crashes until   *)
(* its status changes, unless a user retries it, and no pass gets beyond   *)
(* failStaleQueuedDownloads with one left.                                 *)
THEOREM PhantomsDoNotRecover == QueueSpec => PhantomsStay /\ PhantomsSwept
<1>1. QueueTypeOK /\ [QueueNext]_queueVars
        => [\A i \in Ids : Phantom(i) => \/ Phantom(i)' \/ status'[i] # "queued"
                                         \/ Retried(i)]_queueVars
  <2> SUFFICES ASSUME QueueTypeOK, [QueueNext]_queueVars, NEW i \in Ids, Phantom(i), ~Retried(i)
               PROVE  i \in old' \/ status'[i] # "queued"
    BY DEF Phantom
  <2>1. QED
    BY StayStep
<1>2. QueueTypeOK /\ [QueueNext]_queueVars
        => [syncPhase = "fail" /\ syncPhase' = "refine"
              => \A i \in Ids : ~Phantom(i)']_queueVars
  BY SweptStep
<1>3. QED
  BY <1>1, <1>2, QueueTypeCorrect, PTL DEF QueueSpec, PhantomsStay, PhantomsSwept
-------------------------------------------------------------------------------
(***************************************************************************)
(* Refinement: queueing implements UnitReservation.                        *)
(***************************************************************************)
USE DEF Reservation!vars, Steady

\* The insertion of a row is a reservation: what is in flight does not have its units.
LEMMA InsertReserves ==
  ASSUME QueueTypeOK, GateInv, NEW q \in Triggers, NEW i \in Ids, Inserted(q, i)
  PROVE  Reservation!Reserve(i, heldUnits'[i])
<1> USE QueueAssumption
<1> TableTypeOK /\ TriggerTypeOK
  BY DEF QueueTypeOK
<1>1. release[i] = NoRelease /\ chosen[q] \in Releases
  BY DEF Inserted, NextId, TriggerTypeOK
<1>2. usedRows' = usedRows \cup {i} /\ i \notin usedRows
  BY <1>1 DEF Inserted, usedRows, TableTypeOK
<1>3. heldUnits'[i] \subseteq StartUnits(chosen[q])
  BY DEF Inserted, heldUnits, TableTypeOK
<1>4. \A j \in Ids : heldUnits[j] \cap heldUnits'[i] = {}
  BY <1>3 DEF heldUnits, Inserted, GateInv, ChosenIsFree
<1>5. \A j \in Ids : j # i => heldUnits'[j] = heldUnits[j]
  BY DEF Inserted, heldUnits, Steady, TableTypeOK
<1>6. heldUnits' = [heldUnits EXCEPT ![i] = heldUnits'[i]]
  BY <1>5 DEF heldUnits
<1>7. QED
  BY <1>2, <1>4, <1>6 DEF Reservation!Reserve

\* Whatever else happens, downloads only lose units.
LEMMA OthersRelease ==
  ASSUME NothingReserved
  PROVE  \E gone \in SUBSET Ids : Reservation!Release(gone)
<1> DEFINE gone == {i \in Ids : ~Steady(i)'}
<1>1. \A i \in Ids : heldUnits'[i] = IF i \in gone THEN {} ELSE heldUnits[i]
  BY DEF NothingReserved, heldUnits
<1>2. heldUnits' = [i \in Ids |-> IF i \in gone THEN {} ELSE heldUnits[i]]
  BY <1>1 DEF heldUnits
<1>3. usedRows' = usedRows
  BY DEF NothingReserved, usedRows
<1>4. QED
  BY <1>2, <1>3 DEF Reservation!Release

(* Queueing a download under the gate takes its units in one step and only *)
(* if no download that is in flight since its own queueing has one of      *)
(* them; nothing else that writes the table gives any row a unit           *)
(* (queueDownload, DownloadTriggerGate).                                   *)
THEOREM QueueImplementsReservation == QueueSpec => ImplementsReservation
<1>1. QueueInit => Reservation!Init
  BY DEF QueueInit, Reservation!Init, usedRows, heldUnits, Steady
<1>2. QueueTypeOK /\ GateInv /\ [QueueNext]_queueVars => [Reservation!Next]_(Reservation!vars)
  <2> SUFFICES ASSUME QueueTypeOK, GateInv, [QueueNext]_queueVars PROVE Reservation!Next
    OBVIOUS
  <2>1. CASE NothingReserved
    BY <2>1, OthersRelease DEF Reservation!Next
  <2>2. ASSUME NEW q \in Triggers, NEW i \in Ids, Inserted(q, i) PROVE Reservation!Next
    <3>1. Reservation!Reserve(i, heldUnits'[i])
      BY <2>2, InsertReserves
    <3>2. heldUnits'[i] \in SUBSET Units
      BY TypeStep DEF QueueTypeOK, TableTypeOK, heldUnits
    <3>3. QED
      BY <3>1, <3>2 DEF Reservation!Next
  <2>3. QED
    BY <2>1, <2>2, TableStep
<1>3. QED
  BY <1>1, <1>2, QueueTypeCorrect, GateHolds, PTL
  DEF QueueSpec, ImplementsReservation, Reservation!Spec

(* What a reservation is for: no unit is ever reserved by two downloads,   *)
(* so that whatever implements it fetches no unit twice.                   *)
THEOREM ReservationExcludes == Reservation!Spec => []Reservation!NoneTwice
<1>1. Reservation!Init => Reservation!NoneTwice
  BY DEF Reservation!Init, Reservation!NoneTwice
<1>2. Reservation!NoneTwice /\ [Reservation!Next]_(Reservation!vars) => Reservation!NoneTwice'
  <2> SUFFICES ASSUME Reservation!NoneTwice, [Reservation!Next]_(Reservation!vars)
               PROVE  Reservation!NoneTwice'
    OBVIOUS
  <2>1. ASSUME NEW i \in Ids, NEW wanted \in SUBSET Units, Reservation!Reserve(i, wanted)
        PROVE  Reservation!NoneTwice'
    <3>1. \A j \in Ids : heldUnits'[j] = IF j = i THEN wanted ELSE heldUnits[j]
      BY <2>1 DEF Reservation!Reserve, heldUnits
    <3>2. QED
      BY <2>1, <3>1 DEF Reservation!Reserve, Reservation!NoneTwice
  <2>2. ASSUME NEW gone \in SUBSET Ids, Reservation!Release(gone) PROVE Reservation!NoneTwice'
    BY <2>2 DEF Reservation!Release, Reservation!NoneTwice
  <2>3. CASE UNCHANGED <<usedRows, heldUnits>>
    BY <2>3 DEF Reservation!NoneTwice
  <2>4. QED
    BY <2>1, <2>2, <2>3 DEF Reservation!Next
<1>3. QED
  BY <1>1, <1>2, PTL DEF Reservation!Spec
===============================================================================
