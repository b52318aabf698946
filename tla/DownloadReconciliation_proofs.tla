--------------------- MODULE DownloadReconciliation_proofs ---------------------
(***************************************************************************)
(* Proofs about DownloadReconciliation, for every set of rows, fibers and  *)
(* tokens, every kind of fault and any number of them.                     *)
(***************************************************************************)
EXTENDS DownloadReconciliation, TLAPS

\* A claim token that is made up is nobody's yet.
LEMMA FreshTokenIsFresh ==
  ASSUME \E t \in Tokens : ~InUse(t)
  PROVE  FreshToken \in Tokens /\ ~InUse(FreshToken)
BY DEF FreshToken

USE DEF Fibers, Covers, hash

\* Removing a torrent takes files and content roots away and adds none.
LEMMA DropTorrentType ==
  ASSUME TypeOK, NEW h, NEW deleteFiles, DropTorrent(h, deleteFiles)
  PROVE  /\ torrents' \subseteq Hashes /\ fetching' \subseteq Hashes /\ roots' \subseteq Hashes
         /\ source' \in [Hashes -> SUBSET Units]
BY DEF TypeOK, DropTorrent

(***************************************************************************)
(* Type correctness: every step keeps every variable in its type; a fiber  *)
(* at work always knows its row and its token.                             *)
(***************************************************************************)
THEOREM TypeCorrect == Spec => []TypeOK
<1>1. Init => TypeOK
  BY ReconciliationAssumption DEF Init, TypeOK, Phases
<1>2. TypeOK /\ [Next]_vars => TypeOK'
  <2> SUFFICES ASSUME TypeOK, [Next]_vars PROVE TypeOK'
    OBVIOUS
  <2> USE ReconciliationAssumption
  <2>1. ASSUME NEW f \in Requests, Request(f) PROVE TypeOK'
    BY <2>1, FreshTokenIsFresh DEF Request, Lookup, GoTo, NoFault, TypeOK, Phases, db, files, sync
  <2>2. ASSUME NEW f \in Fibers, Step(f) PROVE TypeOK'
    <3> USE DEF TypeOK, Phases, GoTo, NoFault, Fault, db, files, sync, fiber
    <3>1. CASE WinClaim(f)
      BY <3>1 DEF WinClaim, WriteClaim, Claimed
    <3>2. CASE LoseClaim(f)
      BY <3>2 DEF LoseClaim, Forget
    <3>3. CASE PlanNothing(f)
      BY <3>3 DEF PlanNothing
    <3>4. CASE PlanBatch(f)
      BY <3>4 DEF PlanBatch, Remaining
    <3>5. CASE PlanSingle(f)
      <4>1. row[f] \in Ids /\ UnitNumber[row[f]] \in Units
        BY <3>5 DEF PlanSingle
      <4>2. PICK phase \in Phases \ {"commit", "upsert"} : pc' = [pc EXCEPT ![f] = phase]
        BY <3>5 DEF PlanSingle
      <4>3. todo' \in [Fibers -> SUBSET Units]
        BY <3>5, <4>1 DEF PlanSingle
      <4>4. QED
        BY <3>5, <4>1, <4>2, <4>3 DEF PlanSingle
    <3>6. CASE Stage(f)
      <4>1. PICK u \in todo[f] : /\ unit' = [unit EXCEPT ![f] = u]
                                /\ source' = IF ImportMode = "move"
                                             THEN [source EXCEPT ![hash(f)] = @ \ {u}] ELSE source
        BY <3>6 DEF Stage
      <4>2. u \in Units /\ hash(f) \in Hashes
        BY <3>6 DEF Stage
      <4>3. source' \in [Hashes -> SUBSET Units]
        BY <4>1, <4>2
      <4>4. QED
        BY <3>6, <4>1, <4>2, <4>3 DEF Stage
    <3>7. CASE StageFails(f)
      BY <3>7 DEF StageFails
    <3>8. CASE Commit(f)
      BY <3>8 DEF Commit
    <3>9. CASE Upsert(f)
      BY <3>9 DEF Upsert
    <3>10. CASE UpsertFails(f)
      BY <3>10 DEF UpsertFails
    <3>11. CASE Finalize(f)
      BY <3>11 DEF Finalize, StampRow
    <3>12. CASE Mark(f)
      BY <3>12 DEF Mark, StampRow
    <3>13. CASE CleanupTorrent(f)
      BY <3>13 DEF CleanupTorrent, DropTorrent
    <3>14. CASE Exit(f)
      BY <3>14 DEF Exit
    <3>15. CASE Release(f)
      BY <3>15 DEF Release, ReleaseClaim, Forget
    <3>16. QED
      BY <2>2, <3>1, <3>2, <3>3, <3>4, <3>5, <3>6, <3>7, <3>8, <3>9, <3>10, <3>11, <3>12,
         <3>13, <3>14, <3>15 DEF Step
  <2>3. ASSUME NEW f \in Fibers, FailClaim(f) \/ InterruptClaim(f) \/ Interrupt(f)
        PROVE  TypeOK'
    <3> USE DEF TypeOK, Phases, GoTo, Fault, EndPassOf, EndPass, Forget, db, files, sync
    <3>1. CASE FailClaim(f)
      BY <3>1 DEF FailClaim
    <3>2. CASE InterruptClaim(f)
      BY <3>2 DEF InterruptClaim, WriteClaim, Claimed
    <3>3. CASE Interrupt(f)
      BY <3>3 DEF Interrupt
    <3>4. QED
      BY <2>3, <3>1, <3>2, <3>3
  <2>4. ASSUME Pass PROVE TypeOK'
    <3> USE DEF TypeOK, Phases, NoFault, EndPass, db, files, fiber
    <3>1. CASE SyncList
      BY <3>1 DEF SyncList, IsStaleClaim
    <3>2. CASE SweepCheck
      BY <3>2 DEF SweepCheck
    <3>3. CASE SweepRelease
      BY <3>3 DEF SweepRelease, ReleaseClaim
    <3>4. CASE SweepEnd
      BY <3>4 DEF SweepEnd
    <3>5. CASE SyncRefused \/ SyncEnd
      BY <3>5 DEF SyncRefused, SyncEnd
    <3>6. ASSUME NEW h \in Hashes, SyncReconcile(h) PROVE TypeOK'
      BY <3>6, FreshTokenIsFresh DEF SyncReconcile, Lookup, GoTo
    <3>7. ASSUME NEW h \in Hashes, SyncSkip(h) PROVE TypeOK'
      BY <3>7 DEF SyncSkip
    <3>8. QED
      BY <2>4, <3>1, <3>2, <3>3, <3>4, <3>5, <3>6, <3>7 DEF Pass, Sweep
  <2>5. ASSUME SyncFails PROVE TypeOK'
    BY <2>5 DEF SyncFails, EndPass, Fault, TypeOK, db, files, fiber
  <2>6. ASSUME NEW i \in Ids, DeleteTorrent(i) \/ DeleteRow(i) PROVE TypeOK'
    <3>1. CASE DeleteTorrent(i)
      <4>1. PICK deleteFiles \in BOOLEAN : DropTorrent(HashOf[i], deleteFiles)
        BY <3>1 DEF DeleteTorrent
      <4>2. /\ torrents' \subseteq Hashes /\ fetching' \subseteq Hashes /\ roots' \subseteq Hashes
            /\ source' \in [Hashes -> SUBSET Units]
        BY <4>1, DropTorrentType
      <4>3. QED
        BY <3>1, <4>2 DEF DeleteTorrent, Fault, TypeOK, db, fiber, sync
    <3>2. CASE DeleteRow(i)
      BY <3>2 DEF DeleteRow, NoFault, TypeOK, files, fiber, sync
    <3>3. QED
      BY <2>6, <3>1, <3>2
  <2>7. ASSUME NEW t \in Tokens, Age(t) PROVE TypeOK'
    BY <2>7 DEF Age, NoFault, TypeOK, db, files, fiber, sync
  <2>8. ASSUME Crash PROVE TypeOK'
    BY <2>8 DEF Crash, EndPass, Fault, TypeOK, Phases, db, files
  <2>9. ASSUME NEW i \in Ids, Fetch(i) PROVE TypeOK'
    <3>1. faults' \in 0..MaxFaults
      BY <2>9 DEF Fetch, NoFault, Fault, TypeOK
    <3>2. fetching' \subseteq fetching \cup {HashOf[i]} /\ deleting' \subseteq deleting \cup {i}
      BY <2>9 DEF Fetch
    <3>3. reconciledAt' \in [Ids -> Tokens \cup {Null, Stamp, NotYet, Absent}]
      BY <2>9 DEF Fetch, TypeOK
    <3>4. QED
      BY <2>9, <3>1, <3>2, <3>3 DEF Fetch, TypeOK, fiber, sync
  <2>10. ASSUME NEW h \in Hashes, Arrive(h) PROVE TypeOK'
    BY <2>10 DEF Arrive, NoFault, TypeOK, db, fiber, sync
  <2>11. CASE UNCHANGED vars
    BY <2>11 DEF vars, TypeOK
  <2>12. QED
    BY <2>1, <2>2, <2>3, <2>4, <2>5, <2>6, <2>7, <2>8, <2>9, <2>10, <2>11 DEF Next
<1>3. QED
  BY <1>1, <1>2, PTL DEF Spec

(***************************************************************************)
(* Mutual exclusion of imports, and all that stands between it and the     *)
(* code.  A claim writes every row of the hash and the fiber imports the   *)
(* row it has loaded: it may win through a row that was fetched again      *)
(* meanwhile.  And a sweep may release a token whose fiber is still        *)
(* importing (the run SlowImport).  Nothing else lets two imports of one   *)
(* row overlap, no crash, failure, deletion or interruption.               *)
(***************************************************************************)
WinsItsRow == \A f \in Fibers : WinClaim(f) => row[f] \in Claimed(f)
ClaimsWinTheirRow == [][WinsItsRow]_vars

SparesImports == SweepRelease => \A c \in checked, f \in Fibers : Holding(f) => token[f] # c.token
SweepsSpareImports == [][SparesImports]_vars

\* What makes ImportExclusion inductive then: a fiber at work finds its own token in its
\* row, unless the row is final or gone.
ClaimInv ==
  /\ ImportExclusion
  /\ \A f \in Fibers : Holding(f) => reconciledAt[row[f]] \in {token[f], Stamp, Absent}

\* Steps that leave the rows alone and move fibers at most from one phase of their import to
\* another, or out of it.
LEMMA QuietStep ==
  ASSUME ClaimInv,
         \A f \in Fibers : Holding(f)' => Holding(f) /\ UNCHANGED <<row[f], token[f]>>,
         \A f \in Fibers : Holding(f) => reconciledAt'[row[f]] = reconciledAt[row[f]]
  PROVE  ClaimInv'
BY DEF ClaimInv, ImportExclusion

\* Every step of the fibers, the sync pass and the world around keeps ClaimInv.
LEMMA ClaimInvStep ==
  ASSUME TypeOK, ClaimInv, [Next]_vars, WinsItsRow, SparesImports
  PROVE  ClaimInv'
<1> USE ReconciliationAssumption
<1>1. ASSUME NEW f \in Requests, Request(f) PROVE ClaimInv'
  BY <1>1, QuietStep DEF Request, Lookup, GoTo, Holding, TypeOK, db
<1>2. ASSUME NEW f \in Fibers, Step(f) PROVE ClaimInv'
  <2>1. CASE WinClaim(f)
    <3>1. row[f] \in Ids /\ token[f] \in Tokens /\ row[f] \in Claimed(f)
      BY <2>1 DEF WinClaim, WinsItsRow, TypeOK
    <3>2. reconciledAt[row[f]] = Null /\ reconciledAt'[row[f]] = token[f]
      BY <2>1, <3>1 DEF WinClaim, WriteClaim, Claimed
    <3>3. \A g \in Fibers : Holding(g) =>
             row[g] \in Ids /\ reconciledAt[row[g]] # Null /\ token[g] \in Tokens
      BY DEF ClaimInv, Holding, TypeOK
    <3>4. \A g \in Fibers : Holding(g) => reconciledAt'[row[g]] = reconciledAt[row[g]]
      BY <2>1, <3>3 DEF WinClaim, WriteClaim, Claimed
    <3>5. /\ UNCHANGED <<row, token>>
          /\ \A g \in Fibers : Holding(g)' => Holding(g) \/ g = f
      BY <2>1 DEF WinClaim, GoTo, Holding, TypeOK
    <3>6. \A g \in Fibers : Holding(g) => row[g] # row[f]
      BY <3>2, <3>3
    <3>7. QED
      BY <3>2, <3>4, <3>5, <3>6 DEF ClaimInv, ImportExclusion
  <2>2. CASE LoseClaim(f)
    BY <2>2, QuietStep DEF LoseClaim, Forget, Holding, TypeOK, db
  <2>3. CASE PlanNothing(f) \/ PlanBatch(f) \/ PlanSingle(f)
    BY <2>3, QuietStep DEF PlanNothing, PlanBatch, PlanSingle, GoTo, Holding, TypeOK, db
  <2>4. CASE Stage(f) \/ StageFails(f) \/ Commit(f)
    BY <2>4, QuietStep DEF Stage, StageFails, Commit, GoTo, Holding, TypeOK, db
  <2>5. CASE Upsert(f) \/ UpsertFails(f) \/ CleanupTorrent(f) \/ Exit(f)
    BY <2>5, QuietStep DEF Upsert, UpsertFails, CleanupTorrent, Exit, GoTo, Holding, TypeOK, db
  <2>6. CASE Finalize(f) \/ Mark(f)
    <3>1. UNCHANGED <<row, token>> /\ \A g \in Fibers : Holding(g)' => Holding(g)
      BY <2>6 DEF Finalize, Mark, GoTo, Holding, TypeOK
    <3>2. \A i \in Ids : reconciledAt'[i] \in {reconciledAt[i], Stamp}
      BY <2>6 DEF Finalize, Mark, StampRow, TypeOK
    <3>3. \A g \in Fibers : Holding(g) => row[g] \in Ids
      BY DEF Holding, TypeOK
    <3>4. QED
      BY <3>1, <3>2, <3>3 DEF ClaimInv, ImportExclusion
  <2>7. CASE Release(f)
    <3>1. /\ row[f] \in Ids /\ Holding(f) /\ ~Holding(f)'
          /\ \A g \in Fibers \ {f} : pc'[g] = pc[g] /\ UNCHANGED <<row[g], token[g]>>
      BY <2>7 DEF Release, Forget, Holding, TypeOK
    <3>2. \A i \in Ids \ {row[f]} : reconciledAt'[i] = reconciledAt[i]
      BY <2>7, <3>1 DEF Release, ReleaseClaim, TypeOK
    <3>3. \A g \in Fibers : Holding(g)' => g # f /\ Holding(g) /\ UNCHANGED <<row[g], token[g]>>
      BY <3>1 DEF Holding
    <3>4. \A g \in Fibers \ {f} : Holding(g) =>
             row[g] \in Ids \ {row[f]} /\ reconciledAt'[row[g]] = reconciledAt[row[g]]
      BY <3>1, <3>2 DEF ClaimInv, ImportExclusion, Holding, TypeOK
    <3>5. QED
      BY <3>3, <3>4 DEF ClaimInv, ImportExclusion
  <2>8. QED
    BY <1>2, <2>1, <2>2, <2>3, <2>4, <2>5, <2>6, <2>7 DEF Step
<1>3. ASSUME NEW f \in Fibers, FailClaim(f) \/ InterruptClaim(f) PROVE ClaimInv'
  <2>1. \A g \in Fibers : Holding(g)' => Holding(g) /\ UNCHANGED <<row[g], token[g]>>
    BY <1>3 DEF FailClaim, InterruptClaim, Forget, Holding, TypeOK
  <2>2. \A g \in Fibers : Holding(g) => row[g] \in Ids /\ reconciledAt[row[g]] # Null
    BY DEF ClaimInv, Holding, TypeOK
  <2>3. \A i \in Ids : reconciledAt[i] # Null => reconciledAt'[i] = reconciledAt[i]
    BY <1>3 DEF FailClaim, InterruptClaim, WriteClaim, Claimed, db
  <2>4. \A g \in Fibers : Holding(g) => reconciledAt'[row[g]] = reconciledAt[row[g]]
    BY <2>2, <2>3
  <2>5. QED
    BY <2>1, <2>4, QuietStep
<1>4. ASSUME NEW f \in Fibers, Interrupt(f) PROVE ClaimInv'
  BY <1>4, QuietStep DEF Interrupt, GoTo, Holding, Phases, TypeOK, db
<1>5. ASSUME Pass \/ SyncFails PROVE ClaimInv'
  <2>1. CASE SweepRelease
    <3>1. PICK c \in checked : ReleaseClaim(c.id, c.token)
      BY <2>1 DEF SweepRelease
    <3>2. c.id \in Ids /\ c.token \in Tokens
      BY <3>1 DEF TypeOK
    <3>3. \A f \in Fibers : Holding(f) => row[f] \in Ids /\ reconciledAt[row[f]] # c.token
      BY <2>1, <3>2 DEF SparesImports, ClaimInv, Holding, TypeOK
    <3>4. \A f \in Fibers : Holding(f) => reconciledAt'[row[f]] = reconciledAt[row[f]]
      BY <3>1, <3>2, <3>3 DEF ReleaseClaim, TypeOK
    <3>5. QED
      BY <2>1, <3>4, QuietStep DEF SweepRelease, Holding, fiber
  <2>2. ASSUME NEW h \in Hashes, SyncReconcile(h) PROVE ClaimInv'
    BY <2>2, QuietStep DEF SyncReconcile, Lookup, GoTo, Holding, TypeOK, db
  <2>3. CASE \/ SyncList \/ SweepCheck \/ SweepEnd \/ SyncRefused \/ SyncEnd \/ SyncFails
             \/ \E h \in Hashes : SyncSkip(h)
    BY <2>3, QuietStep
    DEF SyncList, SweepCheck, SweepEnd, SyncRefused, SyncEnd, SyncFails, SyncSkip, Holding, db, fiber
  <2>4. QED
    BY <1>5, <2>1, <2>2, <2>3 DEF Pass, Sweep
<1>6. ASSUME NEW i \in Ids, DeleteTorrent(i) PROVE ClaimInv'
  BY <1>6, QuietStep DEF DeleteTorrent, Holding, db, fiber
<1>7. ASSUME NEW i \in Ids, DeleteRow(i) PROVE ClaimInv'
  BY <1>7 DEF DeleteRow, ClaimInv, ImportExclusion, Holding, TypeOK, fiber
<1>8. ASSUME NEW i \in Ids, Fetch(i) PROVE ClaimInv'
  <2>1. \A g \in Fibers : Holding(g) => row[g] \in Ids /\ reconciledAt[row[g]] # NotYet
    BY DEF ClaimInv, Holding, TypeOK
  <2>2. \A g \in Fibers : Holding(g) => reconciledAt'[row[g]] = reconciledAt[row[g]]
    BY <1>8, <2>1 DEF Fetch, NextRow, TypeOK
  <2>3. QED
    BY <1>8, <2>2, QuietStep DEF Fetch, Holding, fiber
<1>9. ASSUME (\E t \in Tokens : Age(t)) \/ (\E h \in Hashes : Arrive(h)) PROVE ClaimInv'
  BY <1>9, QuietStep DEF Age, Arrive, Holding, db, fiber
<1>10. ASSUME Crash PROVE ClaimInv'
  BY <1>10, QuietStep DEF Crash, Holding, db
<1>11. CASE UNCHANGED vars
  BY <1>11, QuietStep DEF vars, Holding
<1>12. QED
  BY <1>1, <1>2, <1>3, <1>4, <1>5, <1>6, <1>7, <1>8, <1>9, <1>10, <1>11 DEF Next

(* No two fibers ever import the same row, unless a claim is won through   *)
(* another row of its hash or a sweep releases the token of a fiber that   *)
(* is still importing: these two are the only ways to break                *)
(* ImportExclusion (claimDownloadReconciliation, the sweep of              *)
(* download-torrent-sync-service.ts).                                      *)
THEOREM Exclusion ==
  Spec /\ ClaimsWinTheirRow /\ SweepsSpareImports => []ImportExclusion
<1>1. Init => ClaimInv
  BY DEF Init, ClaimInv, ImportExclusion, Holding
<1>2. TypeOK /\ ClaimInv /\ [Next]_vars /\ [WinsItsRow]_vars /\ [SparesImports]_vars => ClaimInv'
  <2>1. CASE UNCHANGED vars
    BY <2>1, QuietStep DEF vars, Holding
  <2>2. CASE WinsItsRow /\ SparesImports
    BY <2>2, ClaimInvStep
  <2>3. QED
    BY <2>1, <2>2, ClaimInvStep
<1>3. ClaimInv => ImportExclusion
  BY DEF ClaimInv
<1>4. QED
  BY TypeCorrect, <1>1, <1>2, <1>3, PTL DEF Spec, ClaimsWinTheirRow, SweepsSpareImports

(***************************************************************************)
(* A finalization is never undone: the only statements that take a row out *)
(* of a value name the token they expect to find there.                    *)
(***************************************************************************)
LEMMA StampStays ==
  ASSUME TypeOK, Next, NEW i \in Ids, reconciledAt[i] = Stamp
  PROVE  reconciledAt'[i] = Stamp \/ (i \in deleting /\ reconciledAt'[i] = Absent)
<1> USE ReconciliationAssumption
<1>1. ASSUME NEW f \in Requests, Request(f) PROVE reconciledAt'[i] = Stamp
  BY <1>1 DEF Request, db
<1>2. ASSUME NEW f \in Fibers, Step(f) PROVE reconciledAt'[i] = Stamp
  <2>1. CASE WinClaim(f)
    BY <2>1 DEF WinClaim, WriteClaim, Claimed
  <2>2. CASE Finalize(f) \/ Mark(f)
    BY <2>2 DEF Finalize, Mark, StampRow, TypeOK
  <2>3. CASE Release(f)
    BY <2>3 DEF Release, ReleaseClaim, TypeOK
  <2>4. CASE Upsert(f)
    BY <2>4 DEF Upsert
  <2>5. CASE \/ LoseClaim(f) \/ PlanNothing(f) \/ PlanBatch(f) \/ PlanSingle(f) \/ Stage(f)
             \/ StageFails(f) \/ Commit(f) \/ UpsertFails(f) \/ CleanupTorrent(f) \/ Exit(f)
    BY <2>5 DEF LoseClaim, PlanNothing, PlanBatch, PlanSingle, Stage, StageFails, Commit,
       UpsertFails, CleanupTorrent, Exit, db
  <2>6. QED
    BY <1>2, <2>1, <2>2, <2>3, <2>4, <2>5 DEF Step
<1>3. ASSUME NEW f \in Fibers, FailClaim(f) \/ InterruptClaim(f) \/ Interrupt(f)
      PROVE  reconciledAt'[i] = Stamp
  BY <1>3 DEF FailClaim, InterruptClaim, Interrupt, WriteClaim, Claimed, db
<1>4. ASSUME Pass \/ SyncFails PROVE reconciledAt'[i] = Stamp
  <2>1. CASE SweepRelease
    <3>1. PICK c \in checked : ReleaseClaim(c.id, c.token)
      BY <2>1 DEF SweepRelease
    <3>2. c.id \in Ids /\ c.token # Stamp
      BY <3>1 DEF TypeOK
    <3>3. QED
      BY <3>1, <3>2 DEF ReleaseClaim, TypeOK
  <2>2. CASE SyncList \/ SweepCheck \/ SweepEnd \/ SyncRefused \/ SyncEnd \/ SyncFails
    BY <2>2 DEF SyncList, SweepCheck, SweepEnd, SyncRefused, SyncEnd, SyncFails, db
  <2>3. ASSUME NEW h \in Hashes, SyncReconcile(h) \/ SyncSkip(h) PROVE reconciledAt'[i] = Stamp
    BY <2>3 DEF SyncReconcile, SyncSkip, db
  <2>4. QED
    BY <1>4, <2>1, <2>2, <2>3 DEF Pass, Sweep
<1>5. ASSUME NEW j \in Ids, DeleteTorrent(j) \/ DeleteRow(j)
      PROVE  reconciledAt'[i] = Stamp \/ (i \in deleting /\ reconciledAt'[i] = Absent)
  BY <1>5 DEF DeleteTorrent, DeleteRow, TypeOK, db
<1>6. ASSUME (\E t \in Tokens : Age(t)) \/ (\E h \in Hashes : Arrive(h)) \/ Crash
      PROVE  reconciledAt'[i] = Stamp
  BY <1>6 DEF Age, Arrive, Crash, db
<1>7. ASSUME NEW j \in Ids, Fetch(j) PROVE reconciledAt'[i] = Stamp
  BY <1>7 DEF Fetch, NextRow, TypeOK
<1>8. QED
  BY <1>1, <1>2, <1>3, <1>4, <1>5, <1>6, <1>7 DEF Next

\* A reconciled download stays reconciled until its row is deleted.
THEOREM ReconciliationIsFinal == Spec => ReconciledForever
<1>1. TypeOK /\ [Next]_vars =>
        [\A i \in Ids : reconciledAt[i] = Stamp => reconciledAt'[i] \in {Stamp, Absent}]_vars
  BY StampStays
<1>2. QED
  BY TypeCorrect, <1>1, PTL DEF Spec, ReconciledForever

(***************************************************************************)
(* Refinement: the claims implement ImportLease.                           *)
(***************************************************************************)

\* What the lease rests on: no two fibers at work have the same token, and none that has yet
\* to claim finds its token anywhere.
TokenInv ==
  /\ \A f, g \in Fibers : pc[f] # "idle" /\ pc[g] # "idle" /\ token[f] = token[g] => f = g
  /\ \A f \in Fibers, i \in Ids : pc[f] = "claim" => reconciledAt[i] # token[f]

\* A step that starts no fiber and writes no token into a row keeps the tokens apart.
LEMMA TokensKept ==
  ASSUME TokenInv,
         \A f \in Fibers : /\ pc'[f] # "idle" => pc[f] # "idle" /\ token'[f] = token[f]
                           /\ pc'[f] = "claim" => pc[f] = "claim",
         \A f \in Fibers, i \in Ids : pc'[f] = "claim" /\ reconciledAt'[i] = token[f]
           => reconciledAt[i] = token[f]
  PROVE  TokenInv'
BY DEF TokenInv

\* A token that is made up is nobody's and nowhere.
LEMMA TokensMadeUp ==
  ASSUME TypeOK, TokenInv, NEW f \in Fibers, NEW h, Lookup(f, h), UNCHANGED reconciledAt
  PROVE  TokenInv'
<1>1. ~InUse(FreshToken)
  BY FreshTokenIsFresh DEF Lookup
<1>2. /\ token' = [token EXCEPT ![f] = FreshToken]
      /\ \A g \in Fibers \ {f} : pc'[g] = pc[g]
  BY DEF Lookup, GoTo, TypeOK
<1>3. \A g \in Fibers : pc[g] # "idle" => token[g] # FreshToken
  BY <1>1 DEF InUse
<1>4. \A i \in Ids : reconciledAt[i] # FreshToken
  BY <1>1 DEF InUse
<1>5. token'[f] = FreshToken /\ \A g \in Fibers \ {f} : token'[g] = token[g]
  BY <1>2 DEF TypeOK
<1>6. QED
  BY <1>2, <1>3, <1>4, <1>5 DEF TokenInv

\* Every step keeps the tokens apart.
LEMMA TokenInvStep ==
  ASSUME TypeOK, TokenInv, [Next]_vars
  PROVE  TokenInv'
<1> USE ReconciliationAssumption
<1>1. ASSUME NEW f \in Requests, Request(f) PROVE TokenInv'
  BY <1>1, TokensMadeUp DEF Request, db
<1>2. ASSUME NEW f \in Fibers, WinClaim(f) \/ InterruptClaim(f) PROVE TokenInv'
  <2>1. /\ pc[f] = "claim"
        /\ pc'[f] # "claim"
        /\ \A g \in Fibers : pc'[g] # "idle" => pc[g] # "idle" /\ token'[g] = token[g]
        /\ \A g \in Fibers \ {f} : pc'[g] = pc[g]
    BY <1>2 DEF WinClaim, InterruptClaim, GoTo, Forget, TypeOK
  <2>2. \A i \in Ids : reconciledAt'[i] \in {reconciledAt[i], token[f]}
    BY <1>2 DEF WinClaim, InterruptClaim, WriteClaim
  <2>3. \A g \in Fibers, i \in Ids :
           pc'[g] = "claim" /\ reconciledAt'[i] = token[g] => reconciledAt[i] = token[g]
    BY <2>1, <2>2 DEF TokenInv
  <2>4. QED
    BY <2>1, <2>3, TokensKept
<1>3. ASSUME NEW f \in Fibers, LoseClaim(f) \/ FailClaim(f) PROVE TokenInv'
  BY <1>3, TokensKept DEF LoseClaim, FailClaim, Forget, TypeOK, db
<1>4. ASSUME NEW f \in Fibers, PlanNothing(f) \/ PlanBatch(f) \/ PlanSingle(f) PROVE TokenInv'
  BY <1>4, TokensKept DEF PlanNothing, PlanBatch, PlanSingle, GoTo, TypeOK, db
<1>5. ASSUME NEW f \in Fibers, Stage(f) \/ StageFails(f) \/ Commit(f) PROVE TokenInv'
  BY <1>5, TokensKept DEF Stage, StageFails, Commit, GoTo, TypeOK, db
<1>6. ASSUME NEW f \in Fibers, Upsert(f) \/ UpsertFails(f) \/ CleanupTorrent(f) \/ Exit(f)
      PROVE  TokenInv'
  BY <1>6, TokensKept DEF Upsert, UpsertFails, CleanupTorrent, Exit, GoTo, TypeOK, db
<1>7. ASSUME NEW f \in Fibers, Interrupt(f) PROVE TokenInv'
  BY <1>7, TokensKept DEF Interrupt, GoTo, TypeOK, db
<1>8. ASSUME NEW f \in Fibers, Finalize(f) \/ Mark(f) PROVE TokenInv'
  <2>1. UNCHANGED token /\ \A g \in Fibers : /\ pc'[g] # "idle" => pc[g] # "idle"
                                             /\ pc'[g] = "claim" => pc[g] = "claim"
    BY <1>8 DEF Finalize, Mark, GoTo, TypeOK
  <2>2. \A i \in Ids : reconciledAt'[i] \in {reconciledAt[i], Stamp}
    BY <1>8 DEF Finalize, Mark, StampRow, TypeOK
  <2>3. \A g \in Fibers : pc[g] = "claim" => token[g] # Stamp
    BY DEF TypeOK
  <2>4. QED
    BY <2>1, <2>2, <2>3, TokensKept
<1>9. ASSUME \/ \E f \in Fibers : Release(f)
             \/ SweepRelease
      PROVE  TokenInv'
  <2>1. \A g \in Fibers : /\ pc'[g] # "idle" => pc[g] # "idle" /\ token'[g] = token[g]
                          /\ pc'[g] = "claim" => pc[g] = "claim"
    BY <1>9 DEF Release, SweepRelease, Forget, TypeOK, fiber
  <2>2. \A i \in Ids : reconciledAt'[i] \in {reconciledAt[i], Null}
    BY <1>9 DEF Release, SweepRelease, ReleaseClaim, TypeOK
  <2>3. \A g \in Fibers : pc[g] = "claim" => token[g] # Null
    BY DEF TypeOK
  <2>4. QED
    BY <2>1, <2>2, <2>3, TokensKept
<1>10. ASSUME NEW h \in Hashes, SyncReconcile(h) PROVE TokenInv'
  BY <1>10, TokensMadeUp DEF SyncReconcile, db
<1>11. CASE \/ SyncList \/ SweepCheck \/ SweepEnd \/ SyncRefused \/ SyncEnd \/ SyncFails
            \/ \E h \in Hashes : SyncSkip(h) \/ Arrive(h)
            \/ \E i \in Ids : DeleteTorrent(i)
            \/ \E t \in Tokens : Age(t)
            \/ UNCHANGED vars
  <2>1. UNCHANGED <<pc, token, reconciledAt>>
    BY <1>11 DEF SyncList, SweepCheck, SweepEnd, SyncRefused, SyncEnd, SyncFails, SyncSkip, Arrive,
       DeleteTorrent, Age, vars, db, fiber
  <2>2. QED
    BY <2>1, TokensKept
<1>12. ASSUME NEW i \in Ids, DeleteRow(i) \/ Fetch(i) PROVE TokenInv'
  <2>1. UNCHANGED <<pc, token>>
    BY <1>12 DEF DeleteRow, Fetch, fiber
  <2>2. \A j \in Ids : reconciledAt'[j] \in {reconciledAt[j], Null, Absent}
    BY <1>12 DEF DeleteRow, Fetch, TypeOK
  <2>3. \A g \in Fibers : pc[g] = "claim" => token[g] \notin {Null, Absent}
    BY DEF TypeOK
  <2>4. QED
    BY <2>1, <2>2, <2>3, TokensKept
<1>13. ASSUME Crash PROVE TokenInv'
  BY <1>13, TokensKept DEF Crash, db
<1>14. QED
  BY <1>1, <1>2, <1>3, <1>4, <1>5, <1>6, <1>7, <1>8, <1>9, <1>10, <1>11, <1>12, <1>13
  DEF Next, Step, Pass, Sweep

\* What the lease sees does not change if fibers keep their rows and the rows of the fibers
\* at work their tokens.
LEMMA SameHolders ==
  ASSUME \A f \in Fibers : /\ Holding(f)' <=> Holding(f)
                           /\ Holding(f) => UNCHANGED <<row[f], token[f]>>,
         \A f \in Fibers : Holding(f) =>
           (reconciledAt'[row[f]] = token[f] <=> reconciledAt[row[f]] = token[f])
  PROVE  leaseHolders' = leaseHolders
<1>1. \A i \in Ids, f \in Fibers : Owns(f, i)' <=> Owns(f, i)
  BY DEF Owns
<1>2. QED
  BY <1>1 DEF leaseHolders

\* Rows whose claims only change hands keep their outcome in the lease.
LEMMA SameOutcome ==
  ASSUME \A i \in Ids : \/ reconciledAt'[i] = reconciledAt[i]
                        \/ {reconciledAt[i], reconciledAt'[i]} \cap {Stamp, Absent} = {}
  PROVE  leaseOutcome' = leaseOutcome
BY DEF leaseOutcome

\* A step that changes no holder and no outcome is a stuttering step of the lease.
LEMMA LeaseStutter ==
  ASSUME leaseHolders' = leaseHolders, leaseOutcome' = leaseOutcome
  PROVE  [Lease!Next]_(Lease!vars)
BY DEF Lease!vars

\* The holders of one row change.
LEMMA HoldersChange ==
  ASSUME NEW i \in Ids, NEW S,
         \A g \in Fibers : Owns(g, i)' <=> g \in S,
         S \subseteq Fibers,
         \A j \in Ids \ {i}, g \in Fibers : Owns(g, j)' <=> Owns(g, j)
  PROVE  leaseHolders' = [leaseHolders EXCEPT ![i] = S]
<1>1. leaseHolders'[i] = S
  BY DEF leaseHolders
<1>2. \A j \in Ids \ {i} : leaseHolders'[j] = leaseHolders[j]
  BY DEF leaseHolders
<1>3. QED
  BY <1>1, <1>2, ZenonT(60) DEF leaseHolders

\* Nobody but the fiber itself owns what it owns.
LEMMA OneOwner ==
  ASSUME TokenInv, NEW f \in Fibers, NEW i \in Ids, Owns(f, i)
  PROVE  leaseHolders[i] = {f}
<1>1. \A g \in Fibers : Owns(g, i) => g = f
  BY DEF Owns, Holding, TokenInv
<1>2. QED
  BY <1>1 DEF leaseHolders

\* A claim that wins the row its fiber has loaded takes the download; one that wins through
\* another row of the hash, only, takes nothing.
LEMMA ClaimIsLeaseStep ==
  ASSUME TypeOK, TokenInv, NEW f \in Fibers, WinClaim(f)
  PROVE  [Lease!Next]_(Lease!vars)
<1> USE ReconciliationAssumption
<1>1. row[f] \in Ids /\ token[f] \in Tokens /\ pc[f] = "claim"
  BY DEF WinClaim, TypeOK
<1>2. \A i \in Ids : \/ i \in Claimed(f) /\ reconciledAt[i] = Null /\ reconciledAt'[i] = token[f]
                     \/ i \notin Claimed(f) /\ reconciledAt'[i] = reconciledAt[i]
  BY DEF WinClaim, WriteClaim, Claimed
<1>3. /\ UNCHANGED <<row, token>>
      /\ \A g \in Fibers \ {f} : Holding(g)' <=> Holding(g)
      /\ ~Holding(f) /\ Holding(f)'
  BY <1>1 DEF WinClaim, GoTo, Holding, TypeOK
<1>4. leaseOutcome' = leaseOutcome
  BY <1>1, <1>2, SameOutcome
<1>5. \A g \in Fibers \ {f} : Holding(g) => token[g] \in Tokens /\ token[g] # token[f]
  BY <1>1 DEF TokenInv, Holding, TypeOK
<1>6. \A g \in Fibers \ {f}, i \in Ids : Owns(g, i)' <=> Owns(g, i)
  BY <1>2, <1>3, <1>5 DEF Owns
<1>7. reconciledAt[row[f]] # token[f]
  BY <1>1 DEF TokenInv
<1>8. \A i \in Ids : ~Owns(f, i) /\ (Owns(f, i)' <=> i = row[f] /\ row[f] \in Claimed(f))
  BY <1>1, <1>2, <1>3, <1>7 DEF Owns
<1>9. CASE row[f] \in Claimed(f)
  <2>1. reconciledAt[row[f]] = Null
    BY <1>1, <1>2, <1>9
  <2>2. \A g \in Fibers : ~Owns(g, row[f])
    BY <2>1 DEF Owns, Holding, TypeOK
  <2>3. leaseHolders' = [leaseHolders EXCEPT ![row[f]] = {f}]
    <3>1. PICK i \in Ids : i = row[f]
      BY <1>1
    <3>2. \A g \in Fibers : Owns(g, i)' <=> g \in {f}
      BY <1>6, <1>8, <1>9, <2>2, <3>1
    <3>3. \A j \in Ids \ {i}, g \in Fibers : Owns(g, j)' <=> Owns(g, j)
      BY <1>6, <1>8, <3>1
    <3>4. QED
      BY <3>1, <3>2, <3>3, HoldersChange
  <2>4. leaseHolders[row[f]] = {} /\ leaseOutcome[row[f]] = "pending"
    BY <1>1, <2>1, <2>2 DEF leaseHolders, leaseOutcome
  <2>5. Lease!Acquire(row[f], f)
    BY <1>4, <2>3, <2>4 DEF Lease!Acquire
  <2>6. QED
    BY <1>1, <2>5 DEF Lease!Next
<1>10. CASE row[f] \notin Claimed(f)
  <2>1. \A i \in Ids, g \in Fibers : Owns(g, i)' <=> Owns(g, i)
    BY <1>6, <1>8, <1>10
  <2>2. leaseHolders' = leaseHolders
    BY <2>1 DEF leaseHolders
  <2>3. QED
    BY <1>4, <2>2, LeaseStutter
<1>11. QED
  BY <1>9, <1>10

\* A release, of a fiber or of a sweep, gives back or takes away what it finds held.
LEMMA ReleaseIsLeaseStep ==
  ASSUME TypeOK, TokenInv, NEW f \in Fibers, Release(f)
  PROVE  [Lease!Next]_(Lease!vars)
<1> USE ReconciliationAssumption
<1>1. row[f] \in Ids /\ token[f] \in Tokens /\ Holding(f)
  BY DEF Release, Holding, TypeOK
<1>2. /\ ~Holding(f)'
      /\ \A g \in Fibers \ {f} : (Holding(g)' <=> Holding(g)) /\ UNCHANGED <<row[g], token[g]>>
  BY DEF Release, Forget, Holding, TypeOK
<1>3. \A i \in Ids : \/ reconciledAt'[i] = reconciledAt[i]
                     \/ i = row[f] /\ reconciledAt[i] = token[f] /\ reconciledAt'[i] = Null
  BY <1>1 DEF Release, ReleaseClaim, TypeOK
<1>4. leaseOutcome' = leaseOutcome
  BY <1>1, <1>3, SameOutcome
<1>5. \A g \in Fibers \ {f} : Holding(g) => token[g] \in Tokens /\ token[g] # token[f]
  BY <1>1 DEF TokenInv, Holding, TypeOK
<1>6. \A g \in Fibers \ {f}, i \in Ids : Owns(g, i)' <=> Owns(g, i)
  BY <1>2, <1>3, <1>5 DEF Owns
<1>7. \A i \in Ids : ~Owns(f, i)' /\ (Owns(f, i) => i = row[f])
  BY <1>2 DEF Owns
<1>8. leaseHolders[row[f]] = {g \in Fibers : Owns(g, row[f])}
  BY <1>1 DEF leaseHolders
<1>9. leaseHolders' = [leaseHolders EXCEPT ![row[f]] = @ \ {f}]
  <2>1. PICK i \in Ids, S \in SUBSET Fibers : i = row[f] /\ S = leaseHolders[row[f]] \ {f}
    BY <1>1, <1>8
  <2>2. \A g \in Fibers : Owns(g, i)' <=> g \in S
    BY <1>6, <1>7, <1>8, <2>1
  <2>3. \A j \in Ids \ {i}, g \in Fibers : Owns(g, j)' <=> Owns(g, j)
    BY <1>6, <1>7, <2>1
  <2>4. leaseHolders' = [leaseHolders EXCEPT ![i] = S]
    BY <2>2, <2>3, HoldersChange
  <2>5. QED
    BY <2>1, <2>4
<1>10. Lease!Release(row[f], f)
  BY <1>4, <1>9 DEF Lease!Release
<1>11. QED
  BY <1>1, <1>10 DEF Lease!Next

LEMMA SweepIsLeaseStep ==
  ASSUME TypeOK, TokenInv, SweepRelease
  PROVE  [Lease!Next]_(Lease!vars)
<1> USE ReconciliationAssumption
<1>1. PICK c \in checked : ReleaseClaim(c.id, c.token)
  BY DEF SweepRelease
<1>2. c.id \in Ids /\ c.token \in Tokens
  BY <1>1 DEF TypeOK
<1>3. \A f \in Fibers : (Holding(f)' <=> Holding(f)) /\ UNCHANGED <<row[f], token[f]>>
  BY DEF SweepRelease, Holding, fiber
<1>4. \A i \in Ids : \/ reconciledAt'[i] = reconciledAt[i]
                     \/ i = c.id /\ reconciledAt[i] = c.token /\ reconciledAt'[i] = Null
  BY <1>1, <1>2 DEF ReleaseClaim, TypeOK
<1>5. leaseOutcome' = leaseOutcome
  BY <1>2, <1>4, SameOutcome
<1>6. CASE reconciledAt'[c.id] = reconciledAt[c.id]
  <2>1. \A i \in Ids, g \in Fibers : Owns(g, i)' <=> Owns(g, i)
    BY <1>3, <1>4, <1>6 DEF Owns
  <2>2. leaseHolders' = leaseHolders
    BY <2>1 DEF leaseHolders
  <2>3. QED
    BY <1>5, <2>2, LeaseStutter
<1>7. CASE reconciledAt'[c.id] # reconciledAt[c.id]
  <2>1. reconciledAt'[c.id] = Null
    BY <1>2, <1>4, <1>7
  <2>2. \A g \in Fibers : ~Owns(g, c.id)'
    BY <1>3, <2>1 DEF Owns, Holding, TypeOK
  <2>3. \A j \in Ids \ {c.id}, g \in Fibers : Owns(g, j)' <=> Owns(g, j)
    BY <1>3, <1>4 DEF Owns
  <2>4. leaseHolders' = [leaseHolders EXCEPT ![c.id] = {}]
    BY <1>2, <2>2, <2>3, HoldersChange
  <2>5. CASE \A g \in Fibers : ~Owns(g, c.id)
    <3>1. \A i \in Ids, g \in Fibers : Owns(g, i)' <=> Owns(g, i)
      BY <2>2, <2>3, <2>5
    <3>2. leaseHolders' = leaseHolders
      BY <3>1 DEF leaseHolders
    <3>3. QED
      BY <1>5, <3>2, LeaseStutter
  <2>6. ASSUME NEW g \in Fibers, Owns(g, c.id) PROVE [Lease!Next]_(Lease!vars)
    <3>1. leaseHolders[c.id] \ {g} = {}
      BY <1>2, <2>6, OneOwner
    <3>2. leaseHolders' = [leaseHolders EXCEPT ![c.id] = @ \ {g}]
      BY <2>4, <3>1
    <3>3. Lease!Release(c.id, g)
      BY <1>5, <3>2 DEF Lease!Release
    <3>4. QED
      BY <1>2, <3>3 DEF Lease!Next
  <2>7. QED
    BY <2>5, <2>6
<1>8. QED
  BY <1>6, <1>7

\* Only a fiber that owns its row makes it final.
LEMMA StampIsLeaseStep ==
  ASSUME TypeOK, TokenInv, NEW f \in Fibers, Finalize(f) \/ Mark(f)
  PROVE  [Lease!Next]_(Lease!vars)
<1> USE ReconciliationAssumption
<1>1. /\ row[f] \in Ids /\ token[f] \in Tokens /\ Holding(f)
      /\ UNCHANGED <<row, token>>
      /\ \A g \in Fibers : Holding(g)' <=> Holding(g)
  BY DEF Finalize, Mark, GoTo, Holding, TypeOK
<1>2. CASE UNCHANGED reconciledAt
  <2>1. leaseHolders' = leaseHolders
    BY <1>1, <1>2, SameHolders
  <2>2. QED
    BY <1>2, <2>1, LeaseStutter DEF leaseOutcome
<1>3. CASE OwnsClaim(f) /\ reconciledAt' = StampRow(f)
  <2>1. reconciledAt[row[f]] = token[f] /\ reconciledAt'[row[f]] = Stamp
    BY <1>1, <1>3 DEF OwnsClaim, StampRow, TypeOK
  <2>2. \A i \in Ids \ {row[f]} : reconciledAt'[i] = reconciledAt[i]
    BY <1>1, <1>3 DEF StampRow, TypeOK
  <2>3. Owns(f, row[f]) /\ leaseHolders[row[f]] = {f} /\ f \in leaseHolders[row[f]]
    BY <1>1, <2>1, OneOwner DEF Owns
  <2>4. \A g \in Fibers : ~Owns(g, row[f])'
    BY <1>1, <2>1 DEF Owns, Holding, TypeOK
  <2>5. \A j \in Ids \ {row[f]}, g \in Fibers : Owns(g, j)' <=> Owns(g, j)
    BY <1>1, <2>2 DEF Owns
  <2>6. leaseHolders' = [leaseHolders EXCEPT ![row[f]] = {}]
    BY <1>1, <2>4, <2>5, HoldersChange
  <2>7. leaseHolders[row[f]] \ {f} = {}
    BY <2>3
  <2>8. leaseHolders' = [leaseHolders EXCEPT ![row[f]] = @ \ {f}]
    BY <2>6, <2>7
  <2>9. leaseOutcome[row[f]] = "pending"
    BY <1>1, <2>1 DEF leaseOutcome
  <2>10. leaseOutcome' = [leaseOutcome EXCEPT ![row[f]] = "imported"]
    BY <1>1, <2>1, <2>2 DEF leaseOutcome
  <2>11. Lease!Finish(row[f], f)
    BY <2>3, <2>8, <2>9, <2>10 DEF Lease!Finish
  <2>12. QED
    BY <1>1, <2>11 DEF Lease!Next
<1>4. QED
  BY <1>2, <1>3 DEF Finalize, Mark

\* Every step is a step of the lease or changes nothing it sees.
LEMMA LeaseStep ==
  ASSUME TypeOK, TokenInv, [Next]_vars
  PROVE  [Lease!Next]_(Lease!vars)
<1> USE ReconciliationAssumption
<1>1. ASSUME NEW f \in Fibers, NEW h, Lookup(f, h), UNCHANGED reconciledAt
      PROVE  [Lease!Next]_(Lease!vars)
  <2>1. leaseHolders' = leaseHolders
    BY <1>1, SameHolders DEF Lookup, GoTo, Holding, TypeOK
  <2>2. QED
    BY <1>1, <2>1, LeaseStutter DEF leaseOutcome
<1>2. ASSUME NEW f \in Requests, Request(f) PROVE [Lease!Next]_(Lease!vars)
  BY <1>1, <1>2 DEF Request, db
<1>3. ASSUME NEW f \in Fibers, LoseClaim(f) \/ FailClaim(f) \/ InterruptClaim(f)
      PROVE  [Lease!Next]_(Lease!vars)
  <2>1. /\ pc[f] = "claim" /\ token[f] \in Tokens
        /\ \A g \in Fibers : /\ Holding(g)' <=> Holding(g)
                             /\ Holding(g) => g # f /\ UNCHANGED <<row[g], token[g]>>
    BY <1>3 DEF LoseClaim, FailClaim, InterruptClaim, Forget, Holding, TypeOK
  <2>2. \A i \in Ids : \/ reconciledAt'[i] = reconciledAt[i]
                       \/ reconciledAt[i] = Null /\ reconciledAt'[i] = token[f]
    BY <1>3 DEF LoseClaim, FailClaim, InterruptClaim, WriteClaim, Claimed, db
  <2>3. leaseOutcome' = leaseOutcome
    BY <2>1, <2>2, SameOutcome
  <2>4. \A g \in Fibers : Holding(g) => row[g] \in Ids /\ token[g] # token[f] /\ token[g] # Null
    BY <2>1 DEF TokenInv, Holding, TypeOK
  <2>5. leaseHolders' = leaseHolders
    BY <2>1, <2>2, <2>4, SameHolders
  <2>6. QED
    BY <2>3, <2>5, LeaseStutter
<1>4. ASSUME NEW f \in Fibers, Holding(f), Holding(f)', UNCHANGED <<reconciledAt, row, token>>,
             \A g \in Fibers \ {f} : pc'[g] = pc[g]
      PROVE  [Lease!Next]_(Lease!vars)
  <2>1. leaseHolders' = leaseHolders
    BY <1>4, SameHolders DEF Holding
  <2>2. QED
    BY <1>4, <2>1, LeaseStutter DEF leaseOutcome
<1>5. ASSUME NEW f \in Fibers, PlanNothing(f) \/ PlanBatch(f) \/ PlanSingle(f)
      PROVE  [Lease!Next]_(Lease!vars)
  BY <1>4, <1>5 DEF PlanNothing, PlanBatch, PlanSingle, GoTo, Holding, TypeOK, db
<1>6. ASSUME NEW f \in Fibers, Stage(f) \/ StageFails(f) \/ Commit(f)
      PROVE  [Lease!Next]_(Lease!vars)
  BY <1>4, <1>6 DEF Stage, StageFails, Commit, GoTo, Holding, TypeOK, db
<1>7. ASSUME NEW f \in Fibers, Upsert(f) \/ UpsertFails(f) \/ CleanupTorrent(f) \/ Exit(f)
      PROVE  [Lease!Next]_(Lease!vars)
  BY <1>4, <1>7 DEF Upsert, UpsertFails, CleanupTorrent, Exit, GoTo, Holding, TypeOK, db
<1>8. ASSUME NEW f \in Fibers, Interrupt(f) PROVE [Lease!Next]_(Lease!vars)
  BY <1>4, <1>8 DEF Interrupt, GoTo, Holding, Phases, TypeOK, db
<1>9. ASSUME NEW h \in Hashes, SyncReconcile(h) PROVE [Lease!Next]_(Lease!vars)
  BY <1>9, <1>1 DEF SyncReconcile, db
<1>10. CASE \/ SyncList \/ SweepCheck \/ SweepEnd \/ SyncRefused \/ SyncEnd \/ SyncFails
            \/ \E h \in Hashes : SyncSkip(h) \/ Arrive(h)
            \/ \E i \in Ids : DeleteTorrent(i)
            \/ \E t \in Tokens : Age(t)
            \/ UNCHANGED vars
  <2>1. UNCHANGED <<pc, row, token, reconciledAt>>
    BY <1>10 DEF SyncList, SweepCheck, SweepEnd, SyncRefused, SyncEnd, SyncFails, SyncSkip, Arrive,
       DeleteTorrent, Age, vars, db, fiber
  <2>2. leaseHolders' = leaseHolders
    BY <2>1, SameHolders DEF Holding
  <2>3. QED
    BY <2>1, <2>2, LeaseStutter DEF leaseOutcome
<1>11. ASSUME NEW i \in Ids, DeleteRow(i) PROVE [Lease!Next]_(Lease!vars)
  <2>1. /\ UNCHANGED <<pc, row, token>>
        /\ reconciledAt'[i] = Absent /\ \A j \in Ids \ {i} : reconciledAt'[j] = reconciledAt[j]
    BY <1>11 DEF DeleteRow, TypeOK, fiber
  <2>2. \A g \in Fibers : ~Owns(g, i)'
    BY <2>1 DEF Owns, Holding, TypeOK
  <2>3. \A j \in Ids \ {i}, g \in Fibers : Owns(g, j)' <=> Owns(g, j)
    BY <2>1 DEF Owns, Holding
  <2>4. leaseHolders' = [leaseHolders EXCEPT ![i] = {}]
    BY <2>2, <2>3, HoldersChange
  <2>5. leaseOutcome' = [leaseOutcome EXCEPT ![i] = "deleted"]
    BY <2>1 DEF leaseOutcome
  <2>6. QED
    BY <2>4, <2>5 DEF Lease!Delete, Lease!Next
<1>12. ASSUME NEW i \in Ids, Fetch(i) PROVE [Lease!Next]_(Lease!vars)
  <2>1. /\ UNCHANGED <<pc, row, token>>
        /\ reconciledAt[i] = NotYet /\ reconciledAt'[i] = Null
        /\ \A j \in Ids \ {i} : reconciledAt'[j] = reconciledAt[j]
    BY <1>12 DEF Fetch, NextRow, TypeOK, fiber
  <2>2. \A j \in Ids, g \in Fibers : Owns(g, j)' <=> Owns(g, j)
    BY <2>1 DEF Owns, Holding, TypeOK
  <2>3. leaseHolders' = leaseHolders
    BY <2>2 DEF leaseHolders
  <2>4. QED
    BY <2>1, <2>3, SameOutcome, LeaseStutter
<1>13. ASSUME Crash PROVE [Lease!Next]_(Lease!vars)
  <2>1. leaseHolders' = [i \in Ids |-> {}]
    BY <1>13 DEF Crash, leaseHolders, Owns, Holding
  <2>2. leaseOutcome' = leaseOutcome
    BY <1>13 DEF Crash, leaseOutcome, db
  <2>3. QED
    BY <2>1, <2>2 DEF Lease!ReleaseAll, Lease!Next
<1>14. QED
  BY <1>2, <1>3, <1>5, <1>6, <1>7, <1>8, <1>9, <1>10, <1>11, <1>12, <1>13, ClaimIsLeaseStep,
     ReleaseIsLeaseStep, SweepIsLeaseStep, StampIsLeaseStep
  DEF Next, Step, Pass, Sweep

(* The claims implement the lease, on every schedule and after every      *)
(* fault: whatever a sweep released under a running import and whichever  *)
(* row of the hash a claim was won through, at most one fiber has the     *)
(* right to finalize a download and only that fiber does.                 *)
THEOREM Refinement == Spec => ImplementsLease
<1>1. Init => Lease!Init /\ TokenInv
  BY ReconciliationAssumption
  DEF Init, Lease!Init, leaseHolders, leaseOutcome, Owns, Holding, TokenInv
<1>2. TypeOK /\ TokenInv /\ [Next]_vars => [Lease!Next]_(Lease!vars)
  BY LeaseStep
<1>3. TypeOK /\ TokenInv /\ [Next]_vars => TokenInv'
  BY TokenInvStep
<1>4. QED
  BY TypeCorrect, <1>1, <1>2, <1>3, PTL DEF Spec, ImplementsLease, Lease!Spec

(***************************************************************************)
(* In copy mode a reconciled download is in the library with every unit it *)
(* covers.  The argument follows one import: what it does not have to do   *)
(* any more is mapped, and what is mapped is in the library.  It needs no  *)
(* exclusion of imports: copies do not take the source away.               *)
(***************************************************************************)
AtWork == {"stage", "commit", "upsert", "finalize", "mark", "cleanup"}

ImportInv ==
  /\ mapped \subseteq library
  /\ \A h \in Hashes : source[h] \subseteq Contents[h] /\ (h \in roots => source[h] = Contents[h])
  /\ \A i \in Ids : reconciledAt[i] = Stamp => Covers(i) \subseteq mapped
  /\ \A f \in Fibers :
       /\ pc[f] \in {"stage", "commit", "upsert"} => Covers(row[f]) \subseteq mapped \cup todo[f]
       /\ pc[f] = "upsert" => unit[f] \in library
       /\ pc[f] \in {"finalize", "mark", "cleanup"} => Covers(row[f]) \subseteq mapped

\* Steps that neither import nor finalize anything.
LEMMA ImportFrame ==
  ASSUME ImportInv, UNCHANGED <<mapped, library, roots, source>>,
         \A i \in Ids : reconciledAt'[i] = Stamp => reconciledAt[i] = Stamp,
         \A f \in Fibers :
            \/ pc'[f] \notin AtWork
            \/ UNCHANGED <<pc[f], row[f], todo[f], unit[f]>>
  PROVE  ImportInv'
BY DEF ImportInv, AtWork

\* Steps that remove a torrent, perhaps with its data.
LEMMA DropTorrentKeepsImportInv ==
  ASSUME TypeOK, ImportInv, UNCHANGED <<mapped, library, reconciledAt, row, todo, unit>>,
         \A f \in Fibers : pc'[f] \notin AtWork \/ UNCHANGED pc[f],
         (\E h \in Hashes, d \in BOOLEAN : DropTorrent(h, d)) \/ UNCHANGED <<roots, source>>
  PROVE  ImportInv'
<1>1. \A g \in Hashes : source'[g] \subseteq Contents[g] /\ (g \in roots' => source'[g] = Contents[g])
  <2>1. CASE UNCHANGED <<roots, source>>
    BY <2>1 DEF ImportInv
  <2>2. ASSUME NEW h \in Hashes, NEW d \in BOOLEAN, DropTorrent(h, d), NEW g \in Hashes
        PROVE  source'[g] \subseteq Contents[g] /\ (g \in roots' => source'[g] = Contents[g])
    BY <2>2 DEF DropTorrent, ImportInv, TypeOK
  <2>3. QED
    BY <2>1, <2>2
<1>2. QED
  BY <1>1 DEF ImportInv, AtWork

\* Every step keeps what the files, the units and the plan have in common.
LEMMA ImportInvStep ==
  ASSUME ImportMode = "copy", TypeOK, ImportInv, [Next]_vars
  PROVE  ImportInv'
<1> USE ReconciliationAssumption
<1>1. ASSUME NEW f \in Requests, Request(f) PROVE ImportInv'
  BY <1>1, ImportFrame DEF Request, Lookup, GoTo, AtWork, TypeOK, db, files
<1>2. ASSUME NEW f \in Fibers, WinClaim(f) \/ LoseClaim(f) \/ FailClaim(f) \/ InterruptClaim(f)
      PROVE  ImportInv'
  <2>1. \A i \in Ids : reconciledAt'[i] = Stamp => reconciledAt[i] = Stamp
    BY <1>2 DEF WinClaim, LoseClaim, FailClaim, InterruptClaim, WriteClaim, Claimed, TypeOK, db
  <2>2. \A g \in Fibers : pc'[g] \notin AtWork \/ UNCHANGED <<pc[g], row[g], todo[g], unit[g]>>
    BY <1>2 DEF WinClaim, LoseClaim, FailClaim, InterruptClaim, Forget, GoTo, AtWork, TypeOK
  <2>3. QED
    BY <1>2, <2>1, <2>2, ImportFrame
    DEF WinClaim, LoseClaim, FailClaim, InterruptClaim, db, files
<1>3. ASSUME NEW f \in Fibers,
             PlanNothing(f) \/ StageFails(f) \/ UpsertFails(f) \/ Exit(f) \/ Interrupt(f)
      PROVE  ImportInv'
  BY <1>3, ImportFrame
  DEF PlanNothing, StageFails, UpsertFails, Exit, Interrupt, GoTo, AtWork, TypeOK, db, files
<1>4. ASSUME NEW f \in Fibers, PlanBatch(f) PROVE ImportInv'
  <2>1. row[f] \in Ids /\ hash(f) \in Hashes /\ source[hash(f)] = Covers(row[f])
    BY <1>4 DEF PlanBatch, TypeOK, ImportInv
  <2>2. todo' = [todo EXCEPT ![f] = Covers(row[f]) \ mapped]
    BY <1>4, <2>1 DEF PlanBatch, Remaining
  <2>3. /\ pc'[f] \in {"stage", "finalize", "exit"}
        /\ pc'[f] = "finalize" => todo'[f] = {}
        /\ \A g \in Fibers \ {f} : UNCHANGED <<pc[g], todo[g]>>
    BY <1>4, <2>2 DEF PlanBatch, GoTo, TypeOK
  <2>4. Covers(row[f]) \subseteq mapped \cup todo'[f]
    BY <2>2 DEF TypeOK
  <2>5. UNCHANGED <<reconciledAt, mapped, library, roots, source, row, unit>>
    BY <1>4 DEF PlanBatch, db, files
  <2>6. QED
    BY <2>3, <2>4, <2>5 DEF ImportInv
<1>5. ASSUME NEW f \in Fibers, PlanSingle(f) PROVE ImportInv'
  <2>1. row[f] \in Ids /\ hash(f) \in Hashes /\ source[hash(f)] = Covers(row[f])
    BY <1>5 DEF PlanSingle, TypeOK, ImportInv
  <2>2. Covers(row[f]) = {UnitNumber[row[f]]}
    BY <1>5, <2>1 DEF PlanSingle, BatchHasFiles
  <2>3. \/ pc'[f] = "mark" /\ UnitNumber[row[f]] \in mapped /\ UNCHANGED todo
        \/ pc'[f] = "exit" /\ UNCHANGED todo
        \/ pc'[f] = "stage" /\ todo' = [todo EXCEPT ![f] = {UnitNumber[row[f]]}]
    BY <1>5 DEF PlanSingle, GoTo, TypeOK
  <2>4. \A g \in Fibers \ {f} : UNCHANGED pc[g]
    BY <1>5 DEF PlanSingle, GoTo, TypeOK
  <2>5. UNCHANGED <<reconciledAt, mapped, library, roots, source, row, unit>>
    BY <1>5 DEF PlanSingle, db, files
  <2>6. QED
    BY <2>2, <2>3, <2>4, <2>5 DEF ImportInv, TypeOK
<1>6. ASSUME NEW f \in Fibers, Stage(f) PROVE ImportInv'
  <2>1. source' = source /\ pc' = [pc EXCEPT ![f] = "commit"] /\ pc[f] = "stage"
    BY <1>6 DEF Stage, GoTo
  <2>2. \A g \in Fibers \ {f} : UNCHANGED unit[g]
    BY <1>6 DEF Stage, TypeOK
  <2>3. UNCHANGED <<reconciledAt, mapped, library, roots, row, todo>>
    BY <1>6 DEF Stage, db
  <2>4. QED
    BY <2>1, <2>2, <2>3 DEF ImportInv, TypeOK
<1>7. ASSUME NEW f \in Fibers, Commit(f) PROVE ImportInv'
  <2>1. pc[f] = "commit" /\ \A g \in Fibers \ {f} : UNCHANGED pc[g]
    BY <1>7 DEF Commit, GoTo, TypeOK
  <2>2. library \subseteq library'
    BY <1>7 DEF Commit
  <2>3. pc'[f] = "upsert" => unit[f] \in library'
    BY <1>7 DEF Commit, GoTo, TypeOK
  <2>4. pc'[f] \in {"upsert", "exit"}
    BY <1>7 DEF Commit, GoTo, TypeOK
  <2>5. UNCHANGED <<reconciledAt, mapped, roots, source, row, todo, unit>>
    BY <1>7 DEF Commit, db
  <2>6. QED
    BY <2>1, <2>2, <2>3, <2>4, <2>5 DEF ImportInv
<1>8. ASSUME NEW f \in Fibers, Upsert(f) PROVE ImportInv'
  <2>1. pc[f] = "upsert" /\ mapped' = mapped \cup {unit[f]}
    BY <1>8 DEF Upsert
  <2>2. todo' = [todo EXCEPT ![f] = @ \ {unit[f]}]
    BY <1>8 DEF Upsert
  <2>3. /\ pc'[f] \in {"stage", "finalize"}
        /\ pc'[f] = "finalize" => todo'[f] = {}
        /\ \A g \in Fibers \ {f} : UNCHANGED <<pc[g], todo[g]>>
    BY <1>8, <2>2 DEF Upsert, GoTo, TypeOK
  <2>4. Covers(row[f]) \subseteq mapped' \cup todo'[f]
    BY <2>1, <2>2 DEF ImportInv, TypeOK
  <2>5. mapped' \subseteq library /\ mapped \subseteq mapped'
    BY <2>1 DEF ImportInv
  <2>6. UNCHANGED <<reconciledAt, library, roots, source, row, unit>>
    BY <1>8 DEF Upsert, files
  <2>7. QED
    BY <2>3, <2>4, <2>5, <2>6 DEF ImportInv
<1>9. ASSUME NEW f \in Fibers, Finalize(f) \/ Mark(f) PROVE ImportInv'
  <2>1. row[f] \in Ids /\ Covers(row[f]) \subseteq mapped
    BY <1>9 DEF Finalize, Mark, ImportInv, TypeOK
  <2>2. \A i \in Ids : reconciledAt'[i] = Stamp => reconciledAt[i] = Stamp \/ i = row[f]
    BY <1>9, <2>1 DEF Finalize, Mark, StampRow, TypeOK
  <2>3. pc'[f] \in {"cleanup", "exit"} /\ \A g \in Fibers \ {f} : UNCHANGED pc[g]
    BY <1>9 DEF Finalize, Mark, GoTo, TypeOK
  <2>4. UNCHANGED <<mapped, library, roots, source, row, todo, unit>>
    BY <1>9 DEF Finalize, Mark, files
  <2>5. QED
    BY <2>1, <2>2, <2>3, <2>4 DEF ImportInv, AtWork
<1>10. ASSUME NEW f \in Fibers, CleanupTorrent(f) PROVE ImportInv'
  <2>1. row[f] \in Ids /\ hash(f) \in Hashes
    BY <1>10 DEF CleanupTorrent, TypeOK
  <2>2. (\E h \in Hashes, d \in BOOLEAN : DropTorrent(h, d)) \/ UNCHANGED <<roots, source>>
    BY <1>10, <2>1 DEF CleanupTorrent
  <2>3. QED
    BY <1>10, <2>2, DropTorrentKeepsImportInv DEF CleanupTorrent, GoTo, AtWork, TypeOK, db
<1>11. ASSUME NEW f \in Fibers, Release(f) PROVE ImportInv'
  <2>1. \A i \in Ids : reconciledAt'[i] = Stamp => reconciledAt[i] = Stamp
    BY <1>11 DEF Release, ReleaseClaim, TypeOK
  <2>2. QED
    BY <1>11, <2>1, ImportFrame DEF Release, Forget, AtWork, TypeOK, files
<1>12. ASSUME Pass \/ SyncFails PROVE ImportInv'
  <2>1. CASE SweepRelease
    <3>1. \A i \in Ids : reconciledAt'[i] = Stamp => reconciledAt[i] = Stamp
      BY <2>1 DEF SweepRelease, ReleaseClaim, TypeOK
    <3>2. QED
      BY <2>1, <3>1, ImportFrame DEF SweepRelease, files, fiber
  <2>2. ASSUME NEW h \in Hashes, SyncReconcile(h) PROVE ImportInv'
    BY <2>2, ImportFrame DEF SyncReconcile, Lookup, GoTo, AtWork, TypeOK, db, files
  <2>3. CASE \/ SyncList \/ SweepCheck \/ SweepEnd \/ SyncRefused \/ SyncEnd \/ SyncFails
             \/ \E h \in Hashes : SyncSkip(h)
    BY <2>3, ImportFrame
    DEF SyncList, SweepCheck, SweepEnd, SyncRefused, SyncEnd, SyncFails, SyncSkip, db, files, fiber
  <2>4. QED
    BY <1>12, <2>1, <2>2, <2>3 DEF Pass, Sweep
<1>13. ASSUME NEW i \in Ids, DeleteTorrent(i) PROVE ImportInv'
  BY <1>13, DropTorrentKeepsImportInv DEF DeleteTorrent, db, fiber
<1>14. ASSUME NEW i \in Ids, DeleteRow(i) \/ Fetch(i) PROVE ImportInv'
  <2>1. \A j \in Ids : reconciledAt'[j] \in {reconciledAt[j], Null, Absent}
    BY <1>14 DEF DeleteRow, Fetch, TypeOK
  <2>2. QED
    BY <1>14, <2>1, ImportFrame DEF DeleteRow, Fetch, files, fiber
<1>15. ASSUME NEW t \in Tokens, Age(t) PROVE ImportInv'
  BY <1>15, ImportFrame DEF Age, db, files, fiber
<1>16. ASSUME Crash PROVE ImportInv'
  BY <1>16, ImportFrame DEF Crash, AtWork, db, files
<1>17. ASSUME NEW h \in Hashes, Arrive(h) PROVE ImportInv'
  <2>1. \A g \in Hashes : source'[g] \subseteq Contents[g] /\ (g \in roots' => source'[g] = Contents[g])
    BY <1>17 DEF Arrive, ImportInv, TypeOK
  <2>2. QED
    BY <1>17, <2>1 DEF Arrive, ImportInv, db, fiber
<1>18. CASE UNCHANGED vars
  BY <1>18, ImportFrame DEF vars
<1>19. QED
  BY <1>1, <1>2, <1>3, <1>4, <1>5, <1>6, <1>7, <1>8, <1>9, <1>10, <1>11, <1>12, <1>13, <1>14,
     <1>15, <1>16, <1>17, <1>18 DEF Next, Step

\* With copies, whatever fails or crashes on the way, a download that is recorded as
\* reconciled has all its units in the library and mapped to their files.
THEOREM ReconciledMeansImported ==
  ASSUME ImportMode = "copy"
  PROVE  Spec => []ReconciledIsImported
<1>1. Init => ImportInv
  BY ReconciliationAssumption DEF Init, ImportInv
<1>2. TypeOK /\ ImportInv /\ [Next]_vars => ImportInv'
  BY ImportInvStep
<1>3. ImportInv => ReconciledIsImported
  BY DEF ImportInv, ReconciledIsImported
<1>4. QED
  BY TypeCorrect, <1>1, <1>2, <1>3, PTL DEF Spec

CleanupRemovesImported(f) ==
  CleanupTorrent(f) => \A h \in Hashes : source[h] \ source'[h] \subseteq library \cap mapped

(* With copies the clean-up of a torrent (maybeCleanupImportedTorrent)     *)
(* removes no file that is not in the library and mapped, also of a hash   *)
(* with several rows, whatever failed, was deleted or crashed and even if  *)
(* imports overlapped.                                                     *)
THEOREM CleanupIsSafe ==
  ASSUME ImportMode = "copy"
  PROVE  Spec => [][\A f \in Fibers : CleanupRemovesImported(f)]_vars
<1>1. Init => ImportInv
  BY ReconciliationAssumption DEF Init, ImportInv
<1>2. TypeOK /\ ImportInv /\ [Next]_vars => ImportInv'
  BY ImportInvStep
<1>3. TypeOK /\ ImportInv => \A f \in Fibers : CleanupRemovesImported(f)
  <2> SUFFICES ASSUME TypeOK, ImportInv, NEW f \in Fibers, CleanupTorrent(f), NEW h \in Hashes
               PROVE  source[h] \ source'[h] \subseteq library \cap mapped
    BY DEF CleanupRemovesImported
  <2>1. h = hash(f) \/ source'[h] = source[h]
    BY DEF CleanupTorrent, DropTorrent, TypeOK
  <2>2. source[hash(f)] \subseteq Covers(row[f])
    BY ReconciliationAssumption DEF CleanupTorrent, ImportInv, TypeOK
  <2>3. Covers(row[f]) \subseteq mapped /\ mapped \subseteq library
    BY DEF CleanupTorrent, ImportInv
  <2>4. QED
    BY <2>1, <2>2, <2>3
<1>4. QED
  BY TypeCorrect, <1>1, <1>2, <1>3, PTL DEF Spec
-------------------------------------------------------------------------------
(***************************************************************************)
(* What OrphanReleased rests on: the mark that keeps a sweep away from the *)
(* token of a row is that of a fiber at work with this token, which will   *)
(* still remove it, so that no orphan is shielded.  A fiber interrupted    *)
(* while it waits for its claim leaves its mark behind (the run            *)
(* LeakedClaim), and a claim won through another row of the hash writes    *)
(* its token into a row somebody else may have marked.                     *)
(***************************************************************************)
Unmarks(f, i) == Holding(f) /\ pc[f] # "release" /\ row[f] = i /\ token[f] = reconciledAt[i]

NoOrphanShielded ==
  \A i \in live : reconciledAt[i] \in Tokens => \E f \in Fibers : Unmarks(f, i)

\* A claim writes all rows of a hash.  It does not come upon a marked row that is not its
\* own: only the oldest row of a hash is marked and loaded, ids grow, and what is deleted
\* stays deleted.
OldestMarked ==
  /\ \A i, j \in Ids :
       HashOf[i] = HashOf[j] /\ reconciledAt[i] = NotYet /\ reconciledAt[j] # NotYet => j < i
  /\ \A i, j \in Ids :
       /\ HashOf[i] = HashOf[j] /\ i < j
       /\ j \in live \/ \E f \in Fibers : pc[f] = "claim" /\ row[f] = j
       => reconciledAt[i] = Absent
  /\ \A i \in deleting : reconciledAt[i] # NotYet

\* No row is inserted or loaded, none comes back.
LEMMA AgesKept ==
  ASSUME TypeOK, OldestMarked,
         \A i \in Ids : reconciledAt[i] = NotYet <=> reconciledAt'[i] = NotYet,
         \A i \in Ids : reconciledAt[i] = Absent => reconciledAt'[i] = Absent,
         live' \subseteq live,
         \A i \in deleting' \ deleting : i \in Ids /\ Present(i),
         \A f \in Fibers : pc'[f] = "claim" => pc[f] = "claim" /\ row'[f] = row[f]
  PROVE  OldestMarked'
BY DEF OldestMarked, Present, TypeOK

\* A fiber loads and marks the oldest row.
LEMMA LookupAges ==
  ASSUME TypeOK, OldestMarked, NEW f \in Fibers, NEW h, Lookup(f, h),
         UNCHANGED <<reconciledAt, deleting>>
  PROVE  OldestMarked'
<1>1. PICK i \in Ids : /\ IsFirstRow(i, h) /\ reconciledAt[i] = Null
                       /\ live' = live \cup {i} /\ row' = [row EXCEPT ![f] = i]
  BY DEF Lookup
<1>2. \A j \in Ids : HashOf[j] = HashOf[i] /\ j < i => reconciledAt[j] \in {NotYet, Absent}
  BY <1>1, ReconciliationAssumption DEF IsFirstRow, RowsOf, Present
<1>3. \A j \in Ids : HashOf[j] = HashOf[i] /\ j < i => reconciledAt[j] = Absent
  BY <1>1, <1>2, ReconciliationAssumption DEF OldestMarked
<1>4. \A g \in Fibers : pc'[g] = "claim" => row'[g] = i \/ (pc[g] = "claim" /\ row'[g] = row[g])
  BY <1>1 DEF Lookup, GoTo, TypeOK
<1>5. QED
  BY <1>1, <1>3, <1>4 DEF OldestMarked

\* Every step but an insertion leaves a row inserted or not, and none brings one back.
LEMMA RowsStayGone ==
  ASSUME TypeOK, OldestMarked, [Next]_vars, \A i \in Ids : ~Fetch(i), NEW i \in Ids
  PROVE  /\ reconciledAt[i] = NotYet <=> reconciledAt'[i] = NotYet
         /\ reconciledAt[i] = Absent => reconciledAt'[i] = Absent
<1> USE ReconciliationAssumption
<1>1. ASSUME NEW f \in Fibers, WinClaim(f) \/ InterruptClaim(f)
      PROVE  reconciledAt'[i] = reconciledAt[i] \/ (reconciledAt[i] = Null /\ reconciledAt'[i] \in Tokens)
  BY <1>1 DEF WinClaim, InterruptClaim, WriteClaim, Claimed, TypeOK
<1>2. ASSUME NEW f \in Fibers, Finalize(f) \/ Mark(f)
      PROVE  reconciledAt'[i] = reconciledAt[i] \/ (reconciledAt[i] \in Tokens /\ reconciledAt'[i] = Stamp)
  BY <1>2 DEF Finalize, Mark, OwnsClaim, StampRow, TypeOK
<1>3. ASSUME SweepRelease \/ \E f \in Fibers : Release(f)
      PROVE  reconciledAt'[i] = reconciledAt[i] \/ (reconciledAt[i] \in Tokens /\ reconciledAt'[i] = Null)
  <2>1. CASE SweepRelease
    <3>1. PICK c \in checked : ReleaseClaim(c.id, c.token)
      BY <2>1 DEF SweepRelease
    <3>2. c.id \in Ids /\ c.token \in Tokens
      BY <3>1 DEF TypeOK
    <3>3. QED
      BY <3>1, <3>2 DEF ReleaseClaim, TypeOK
  <2>2. ASSUME NEW f \in Fibers, Release(f)
        PROVE  reconciledAt'[i] = reconciledAt[i] \/ (reconciledAt[i] \in Tokens /\ reconciledAt'[i] = Null)
    BY <2>2 DEF Release, ReleaseClaim, TypeOK
  <2>3. QED
    BY <1>3, <2>1, <2>2
<1>4. ASSUME NEW j \in Ids, DeleteRow(j)
      PROVE  reconciledAt'[i] = reconciledAt[i] \/ (reconciledAt[i] # NotYet /\ reconciledAt'[i] = Absent)
  BY <1>4 DEF DeleteRow, OldestMarked, TypeOK
<1>5. ASSUME NEW f \in Fibers,
             \/ LoseClaim(f) \/ FailClaim(f) \/ PlanNothing(f) \/ PlanBatch(f) \/ PlanSingle(f)
             \/ Stage(f) \/ StageFails(f) \/ Commit(f) \/ Upsert(f) \/ UpsertFails(f)
             \/ CleanupTorrent(f) \/ Exit(f) \/ Interrupt(f)
      PROVE  UNCHANGED reconciledAt
  BY <1>5 DEF LoseClaim, FailClaim, PlanNothing, PlanBatch, PlanSingle, Stage, StageFails, Commit,
     Upsert, UpsertFails, CleanupTorrent, Exit, Interrupt, db
<1>6. ASSUME \/ \E f \in Requests : Request(f)
             \/ SyncList \/ SweepCheck \/ SweepEnd \/ SyncRefused \/ SyncEnd \/ SyncFails \/ Crash
             \/ \E h \in Hashes : SyncReconcile(h) \/ SyncSkip(h) \/ Arrive(h)
             \/ \E j \in Ids : DeleteTorrent(j)
             \/ \E t \in Tokens : Age(t)
             \/ UNCHANGED vars
      PROVE  UNCHANGED reconciledAt
  BY <1>6 DEF Request, SyncList, SweepCheck, SweepEnd, SyncRefused, SyncEnd, SyncFails, Crash,
     SyncReconcile, SyncSkip, Arrive, DeleteTorrent, Age, vars, db
<1>7. QED
  BY <1>1, <1>2, <1>3, <1>4, <1>5, <1>6 DEF Next, Step, Pass, Sweep
\* Every step keeps marks and loaded rows the oldest of their hashes.
LEMMA OldestMarkedStep ==
  ASSUME TypeOK, OldestMarked, [Next]_vars
  PROVE  OldestMarked'
<1> USE ReconciliationAssumption
<1>1. ASSUME NEW f \in Requests, Request(f) PROVE OldestMarked'
  BY <1>1, LookupAges DEF Request, db
<1>2. ASSUME NEW h \in Hashes, SyncReconcile(h) PROVE OldestMarked'
  BY <1>2, LookupAges DEF SyncReconcile, db
<1>3. ASSUME NEW i \in Ids, Fetch(i) PROVE OldestMarked'
  <2>1. /\ UNCHANGED <<live, pc, row>> /\ deleting' \subseteq deleting \cup {i}
        /\ reconciledAt[i] = NotYet /\ reconciledAt'[i] = Null
        /\ \A j \in Ids \ {i} : reconciledAt'[j] = reconciledAt[j]
    BY <1>3 DEF Fetch, NextRow, TypeOK, fiber
  <2>2. \A j \in Ids : HashOf[j] = HashOf[i] /\ reconciledAt'[j] = NotYet => i < j
    BY <1>3, <2>1 DEF Fetch, NextRow
  <2>3. \A j, k \in Ids : HashOf[j] = HashOf[k] /\ reconciledAt'[j] = NotYet /\ reconciledAt'[k] # NotYet
                           => k < j
    <3> SUFFICES ASSUME NEW j \in Ids, NEW k \in Ids, HashOf[j] = HashOf[k],
                        reconciledAt'[j] = NotYet, reconciledAt'[k] # NotYet
                 PROVE  k < j
      OBVIOUS
    <3>1. j # i /\ reconciledAt[j] = NotYet
      BY <2>1
    <3>2. CASE k = i
      BY <2>2, <3>2
    <3>3. CASE k # i
      BY <2>1, <3>1, <3>3 DEF OldestMarked
    <3>4. QED
      BY <3>2, <3>3
  <2>4. \A j, k \in Ids :
           /\ HashOf[j] = HashOf[k] /\ j < k
           /\ k \in live' \/ \E f \in Fibers : pc'[f] = "claim" /\ row'[f] = k
           => reconciledAt'[j] = Absent
    BY <2>1 DEF OldestMarked
  <2>5. \A j \in deleting' : reconciledAt'[j] # NotYet
    BY <2>1 DEF OldestMarked, TypeOK
  <2>6. QED
    BY <2>3, <2>4, <2>5 DEF OldestMarked
<1>4. CASE ~\E i \in Ids : Fetch(i)
  <2>a. \A i \in Ids : /\ reconciledAt[i] = NotYet <=> reconciledAt'[i] = NotYet
                       /\ reconciledAt[i] = Absent => reconciledAt'[i] = Absent
    BY <1>4, RowsStayGone
  <2>b. ASSUME live' \subseteq live, \A i \in deleting' \ deleting : i \in Ids /\ Present(i),
               \A f \in Fibers : pc'[f] = "claim" => pc[f] = "claim" /\ row'[f] = row[f]
        PROVE  OldestMarked'
    BY <2>a, <2>b, AgesKept
  <2>1. ASSUME NEW f \in Fibers, WinClaim(f) \/ LoseClaim(f) \/ FailClaim(f) \/ InterruptClaim(f)
        PROVE  OldestMarked'
    BY <2>1, <2>b DEF WinClaim, LoseClaim, FailClaim, InterruptClaim, GoTo, Forget, TypeOK
  <2>2. ASSUME NEW f \in Fibers, PlanNothing(f) \/ PlanBatch(f) \/ PlanSingle(f)
        PROVE  OldestMarked'
    BY <2>2, <2>b DEF PlanNothing, PlanBatch, PlanSingle, GoTo, TypeOK
  <2>3. ASSUME NEW f \in Fibers, Stage(f) \/ StageFails(f) \/ Commit(f) PROVE OldestMarked'
    BY <2>3, <2>b DEF Stage, StageFails, Commit, GoTo, TypeOK
  <2>4. ASSUME NEW f \in Fibers, Upsert(f) \/ UpsertFails(f) \/ CleanupTorrent(f) \/ Exit(f)
        PROVE  OldestMarked'
    BY <2>4, <2>b DEF Upsert, UpsertFails, CleanupTorrent, Exit, GoTo, TypeOK
  <2>5. ASSUME NEW f \in Fibers, Finalize(f) \/ Mark(f) \/ Release(f) \/ Interrupt(f)
        PROVE  OldestMarked'
    BY <2>5, <2>b DEF Finalize, Mark, Release, Interrupt, Forget, GoTo, TypeOK
  <2>6. CASE \/ SyncList \/ Sweep \/ SyncEnd \/ SyncFails
             \/ \E h \in Hashes : SyncSkip(h) \/ Arrive(h)
             \/ \E i \in Ids : DeleteTorrent(i) \/ DeleteRow(i)
             \/ \E t \in Tokens : Age(t)
             \/ UNCHANGED vars
    <3>1. /\ UNCHANGED <<live, pc, row>>
          /\ \A i \in deleting' \ deleting : i \in Ids /\ Present(i)
      BY <2>6 DEF SyncList, Sweep, SweepCheck, SweepRelease, SweepEnd, SyncRefused, SyncEnd,
         SyncFails, SyncSkip, Arrive, DeleteTorrent, DeleteRow, Age, vars, fiber
    <3>2. QED
      BY <3>1, <2>b
  <2>7. CASE Crash
    BY <2>7, <2>b DEF Crash
  <2>8. QED
    BY <1>1, <1>2, <1>4, <2>1, <2>2, <2>3, <2>4, <2>5, <2>6, <2>7 DEF Next, Step, Pass
<1>5. QED
  BY <1>3, <1>4

\* No mark is added, no token written, and a fiber moves within its import.
LEMMA MarksKept ==
  ASSUME NoOrphanShielded, TypeOK,
         live' \subseteq live,
         \A i \in live' : reconciledAt'[i] \in Tokens => reconciledAt'[i] = reconciledAt[i],
         \A f \in Fibers : Holding(f) /\ pc[f] # "release" =>
            \/ /\ Holding(f)' /\ pc'[f] # "release"
               /\ UNCHANGED <<row[f], token[f]>>
            \/ row[f] \notin live'
  PROVE  NoOrphanShielded'
BY DEF NoOrphanShielded, Unmarks

\* A fiber that begins marks a row without a token.
LEMMA LookupMarks ==
  ASSUME NoOrphanShielded, TypeOK, NEW f \in Fibers, NEW h, Lookup(f, h), UNCHANGED reconciledAt
  PROVE  NoOrphanShielded'
<1>1. PICK i \in Ids : reconciledAt[i] = Null /\ live' = live \cup {i}
  BY DEF Lookup
<1>2. \A g \in Fibers : Holding(g) => Holding(g)' /\ UNCHANGED <<pc[g], row[g], token[g]>>
  BY DEF Lookup, GoTo, Holding, TypeOK
<1>3. QED
  BY <1>1, <1>2, ReconciliationAssumption DEF NoOrphanShielded, Unmarks, TypeOK

\* Every step keeps orphans within reach of the sweep.
LEMMA ShieldStep ==
  ASSUME "claimInterrupt" \notin Faults,
         TypeOK, OldestMarked, NoOrphanShielded, [Next]_vars, WinsItsRow
  PROVE  NoOrphanShielded'
<1> USE ReconciliationAssumption
<1>1. ASSUME NEW f \in Requests, Request(f) PROVE NoOrphanShielded'
  BY <1>1, LookupMarks DEF Request, db
<1>2. ASSUME NEW f \in Fibers, WinClaim(f) PROVE NoOrphanShielded'
  <2>1. row[f] \in Ids /\ token[f] \in Tokens
    BY <1>2 DEF WinClaim, TypeOK
  <2>2. row[f] \in Claimed(f) /\ pc[f] = "claim"
    BY <1>2 DEF WinClaim, WinsItsRow
  <2>3. \A i \in live : reconciledAt'[i] # reconciledAt[i] => i = row[f]
    <3> SUFFICES ASSUME NEW i \in live, i \in Claimed(f), i # row[f] PROVE FALSE
      BY <1>2 DEF WinClaim, WriteClaim, TypeOK
    <3>1. i \in Ids /\ HashOf[i] = HashOf[row[f]] /\ Present(i) /\ Present(row[f])
      BY <2>1, <2>2 DEF Claimed, RowsOf, TypeOK
    <3>2. i \in Nat /\ row[f] \in Nat
      BY <2>1, <3>1
    <3>3. QED
      <4>1. i < row[f] \/ row[f] < i
        BY <3>2
      <4>2. QED
        BY <2>1, <2>2, <3>1, <4>1 DEF OldestMarked, Present
  <2>4. reconciledAt'[row[f]] = token[f]
    BY <1>2, <2>1, <2>2 DEF WinClaim, WriteClaim
  <2>5. Unmarks(f, row[f])'
    BY <1>2, <2>4 DEF WinClaim, GoTo, Unmarks, Holding, TypeOK
  <2>6. \A g \in Fibers \ {f} : UNCHANGED <<pc[g], row[g], token[g]>>
    BY <1>2 DEF WinClaim, GoTo, TypeOK
  <2>7. pc[f] = "claim" /\ row'[f] = row[f] /\ live' = live
    BY <1>2 DEF WinClaim
  <2>8. \A i \in live, g \in Fibers : i # row[f] /\ Unmarks(g, i) => Unmarks(g, i)'
    BY <2>3, <2>6, <2>7 DEF Unmarks, Holding, TypeOK
  <2>9. ASSUME NEW i \in live', reconciledAt'[i] \in Tokens
        PROVE  \E g \in Fibers : Unmarks(g, i)'
    <3>1. CASE i = row[f]
      BY <2>5, <2>7, <3>1 DEF Unmarks
    <3>2. CASE i # row[f]
      <4>1. i \in live /\ reconciledAt'[i] = reconciledAt[i]
        BY <2>3, <2>7, <3>2 DEF TypeOK
      <4>2. PICK g \in Fibers : Unmarks(g, i)
        BY <2>9, <4>1 DEF NoOrphanShielded
      <4>3. QED
        BY <2>8, <3>2, <4>1, <4>2
    <3>3. QED
      BY <3>1, <3>2
  <2>10. QED
    BY <2>9 DEF NoOrphanShielded
<1>3. ASSUME NEW f \in Fibers, LoseClaim(f) \/ FailClaim(f) PROVE NoOrphanShielded'
  BY <1>3, MarksKept DEF LoseClaim, FailClaim, Forget, Holding, TypeOK, db
<1>4. ASSUME NEW f \in Fibers, PlanNothing(f) \/ PlanBatch(f) \/ PlanSingle(f) PROVE NoOrphanShielded'
  BY <1>4, MarksKept DEF PlanNothing, PlanBatch, PlanSingle, GoTo, Holding, TypeOK, db
<1>5. ASSUME NEW f \in Fibers,
             Stage(f) \/ StageFails(f) \/ Commit(f) \/ Upsert(f) \/ UpsertFails(f)
      PROVE  NoOrphanShielded'
  BY <1>5, MarksKept DEF Stage, StageFails, Commit, Upsert, UpsertFails, GoTo, Holding, TypeOK, db
<1>6. ASSUME NEW f \in Fibers, Finalize(f) \/ Mark(f) PROVE NoOrphanShielded'
  <2>1. \A i \in Ids : reconciledAt'[i] \in {reconciledAt[i], Stamp}
    BY <1>6 DEF Finalize, Mark, StampRow, TypeOK
  <2>2. QED
    BY <1>6, <2>1, MarksKept DEF Finalize, Mark, GoTo, Holding, TypeOK
<1>7. ASSUME NEW f \in Fibers, CleanupTorrent(f) \/ Interrupt(f) PROVE NoOrphanShielded'
  BY <1>7, MarksKept DEF CleanupTorrent, Interrupt, GoTo, Holding, TypeOK, db
<1>8. ASSUME NEW f \in Fibers, Exit(f) PROVE NoOrphanShielded'
  <2>1. /\ live' = live \ {row[f]} /\ UNCHANGED <<reconciledAt, row, token>>
        /\ \A g \in Fibers \ {f} : UNCHANGED pc[g]
    BY <1>8 DEF Exit, GoTo, TypeOK, db
  <2>2. QED
    BY <2>1, MarksKept DEF Holding
<1>9. ASSUME NEW f \in Fibers, Release(f) PROVE NoOrphanShielded'
  <2>1. \A i \in Ids : reconciledAt'[i] \in {reconciledAt[i], Null}
    BY <1>9 DEF Release, ReleaseClaim, TypeOK
  <2>2. QED
    BY <1>9, <2>1, MarksKept DEF Release, Forget, Holding, TypeOK
<1>10. ASSUME NEW f \in Fibers, InterruptClaim(f) PROVE NoOrphanShielded'
  BY <1>10 DEF InterruptClaim, Fault
<1>11. ASSUME Pass \/ SyncFails PROVE NoOrphanShielded'
  <2>1. CASE SweepRelease
    <3>1. \A i \in Ids : reconciledAt'[i] \in {reconciledAt[i], Null}
      BY <2>1 DEF SweepRelease, ReleaseClaim, TypeOK
    <3>2. QED
      BY <2>1, <3>1, MarksKept DEF SweepRelease, Holding, TypeOK, fiber
  <2>2. ASSUME NEW h \in Hashes, SyncReconcile(h) PROVE NoOrphanShielded'
    BY <2>2, LookupMarks DEF SyncReconcile, db
  <2>3. CASE \/ SyncList \/ SweepCheck \/ SweepEnd \/ SyncRefused \/ SyncEnd \/ SyncFails
             \/ \E h \in Hashes : SyncSkip(h)
    BY <2>3, MarksKept
    DEF SyncList, SweepCheck, SweepEnd, SyncRefused, SyncEnd, SyncFails, SyncSkip, Holding, db, fiber
  <2>4. QED
    BY <1>11, <2>1, <2>2, <2>3 DEF Pass, Sweep
<1>12. ASSUME NEW i \in Ids, DeleteTorrent(i) \/ DeleteRow(i) PROVE NoOrphanShielded'
  <2>1. \A j \in Ids : reconciledAt'[j] \in {reconciledAt[j], Absent}
    BY <1>12 DEF DeleteTorrent, DeleteRow, TypeOK, db
  <2>2. UNCHANGED <<live, pc, row, token>>
    BY <1>12 DEF DeleteTorrent, DeleteRow, fiber
  <2>3. QED
    BY <2>1, <2>2, MarksKept DEF Holding, TypeOK
<1>13. ASSUME (\E t \in Tokens : Age(t)) \/ (\E h \in Hashes : Arrive(h)) PROVE NoOrphanShielded'
  BY <1>13, MarksKept DEF Age, Arrive, Holding, db, fiber
<1>14. ASSUME Crash PROVE NoOrphanShielded'
  BY <1>14 DEF Crash, NoOrphanShielded
<1>15. ASSUME NEW i \in Ids, Fetch(i) PROVE NoOrphanShielded'
  <2>1. \A j \in Ids : reconciledAt'[j] \in {reconciledAt[j], Null}
    BY <1>15 DEF Fetch, TypeOK
  <2>2. QED
    BY <1>15, <2>1, MarksKept DEF Fetch, Holding, TypeOK, fiber
<1>16. CASE UNCHANGED vars
  BY <1>16, MarksKept DEF vars, Holding
<1>17. QED
  BY <1>1, <1>2, <1>3, <1>4, <1>5, <1>6, <1>7, <1>8, <1>9, <1>10, <1>11, <1>12, <1>13, <1>14,
     <1>15, <1>16 DEF Next, Step

(* A token that nobody holds is not shielded from the sweep by a mark      *)
(* (liveClaimIds), whatever crashed, failed, was deleted or fetched again  *)
(* or overran the threshold: the safety core of OrphanReleased.  Two       *)
(* things can break it, and nothing else: an interruption at a claim, and  *)
(* a claim won through another row of its hash.                            *)
THEOREM OrphansAreSweepable ==
  ASSUME "claimInterrupt" \notin Faults
  PROVE  Spec /\ ClaimsWinTheirRow => []NoOrphanShielded
<1>1. Init => OldestMarked /\ NoOrphanShielded
  <2>1. Init => NoOrphanShielded
    BY DEF Init, NoOrphanShielded
  <2>2. Init => OldestMarked
    BY ReconciliationAssumption DEF Init, OldestMarked
  <2>3. QED
    BY <2>1, <2>2
<1>2. TypeOK /\ OldestMarked /\ [Next]_vars => OldestMarked'
  BY OldestMarkedStep
<1>3. TypeOK /\ OldestMarked /\ NoOrphanShielded /\ [Next]_vars /\ [WinsItsRow]_vars
        => NoOrphanShielded'
  <2>1. CASE UNCHANGED vars
    BY <2>1, MarksKept DEF vars, Holding
  <2>2. CASE WinsItsRow
    BY <2>2, ShieldStep
  <2>3. QED
    BY <2>1, <2>2, ShieldStep
<1>4. QED
  BY TypeCorrect, <1>1, <1>2, <1>3, PTL DEF Spec, ClaimsWinTheirRow
-------------------------------------------------------------------------------
(***************************************************************************)
(* Where the content of a release is: in its content root, in the library, *)
(* or in the hands of an import that has moved it to a temporary file.  An *)
(* import has in todo what the library has not, so that nothing is left to *)
(* lose when it cleans up.                                                 *)
(***************************************************************************)
Importing == {"stage", "commit", "upsert", "finalize", "cleanup"}
Moved(f) == ImportMode = "move" /\ pc[f] = "commit"

\* safe[h]: units in the library, or in the hands of an import of torrent h.
safe == [h \in Hashes |-> library \cup {unit[f] : f \in {g \in Fibers : Moved(g) /\ hash(g) = h}}]
Available(u, h) == u \in source[h] \cup safe[h]

ContentInv ==
  /\ mapped \subseteq library
  /\ \A h \in Hashes \cap roots : Contents[h] \subseteq source[h] \cup safe[h]
  /\ \A h \in Hashes \ roots : source[h] = {}
  /\ \A f \in Fibers :
       /\ pc[f] \in Importing => Covers(row[f]) \subseteq safe[hash(f)] \cup todo[f]
       /\ pc[f] = "commit" => unit[f] \in todo[f]
       /\ pc[f] = "upsert" => unit[f] \in library
       /\ pc[f] \in {"finalize", "cleanup"} => todo[f] = {}

StagedIsCommitted(f) == pc[f] = "commit" /\ pc'[f] # "commit" => pc'[f] = "upsert"
StagedCommits == [][\A f \in Fibers : StagedIsCommitted(f)]_vars

\* What a fiber does with a file it has moved, and what happens to the library.
LEMMA LibraryStays ==
  ASSUME TypeOK, [Next]_vars
  PROVE  /\ library \subseteq library'
         /\ \A f \in Fibers : pc[f] = "commit" /\ pc'[f] = "commit" => UNCHANGED <<row[f], unit[f]>>
         /\ \A f \in Fibers : pc[f] = "commit" /\ pc'[f] = "upsert" => unit[f] \in library'
<1> USE ReconciliationAssumption
<1> DEFINE Goal == /\ library \subseteq library'
                   /\ \A f \in Fibers : pc[f] = "commit" /\ pc'[f] = "commit"
                                          => UNCHANGED <<row[f], unit[f]>>
                   /\ \A f \in Fibers : pc[f] = "commit" /\ pc'[f] = "upsert" => unit[f] \in library'
<1>1. ASSUME NEW f \in Fibers, NEW h, Lookup(f, h), UNCHANGED <<library, unit>> PROVE Goal
  BY <1>1 DEF Lookup, GoTo, TypeOK
<1>2. ASSUME NEW f \in Fibers, Commit(f) PROVE Goal
  <2>1. library \subseteq library' /\ (pc'[f] = "upsert" => unit[f] \in library')
    BY <1>2 DEF Commit, GoTo, TypeOK
  <2>2. UNCHANGED <<row, unit>> /\ \A g \in Fibers \ {f} : UNCHANGED pc[g]
    BY <1>2 DEF Commit, GoTo, TypeOK
  <2>3. QED
    BY <2>1, <2>2
<1>3. ASSUME NEW f \in Fibers, Stage(f) PROVE Goal
  BY <1>3 DEF Stage, GoTo, TypeOK
<1>4. ASSUME NEW f \in Fibers, WinClaim(f) \/ LoseClaim(f) \/ FailClaim(f) \/ InterruptClaim(f)
      PROVE  Goal
  BY <1>4 DEF WinClaim, LoseClaim, FailClaim, InterruptClaim, GoTo, Forget, TypeOK, files
<1>5. ASSUME NEW f \in Fibers, PlanNothing(f) \/ PlanBatch(f) \/ PlanSingle(f) \/ StageFails(f)
      PROVE  Goal
  BY <1>5 DEF PlanNothing, PlanBatch, PlanSingle, StageFails, GoTo, TypeOK, files
<1>6. ASSUME NEW f \in Fibers, Upsert(f) \/ UpsertFails(f) \/ Finalize(f) \/ Mark(f) PROVE Goal
  BY <1>6 DEF Upsert, UpsertFails, Finalize, Mark, GoTo, TypeOK, files
<1>7. ASSUME NEW f \in Fibers, CleanupTorrent(f) \/ Exit(f) \/ Release(f) \/ Interrupt(f) PROVE Goal
  BY <1>7 DEF CleanupTorrent, Exit, Release, Interrupt, GoTo, Forget, TypeOK, files
<1>8. CASE \/ SyncList \/ Sweep \/ SyncEnd \/ SyncFails
           \/ \E h \in Hashes : SyncSkip(h) \/ Arrive(h)
           \/ \E i \in Ids : DeleteTorrent(i) \/ DeleteRow(i) \/ Fetch(i)
           \/ \E t \in Tokens : Age(t)
           \/ UNCHANGED vars
  <2>1. UNCHANGED <<library, pc, row, unit>>
    BY <1>8 DEF SyncList, Sweep, SweepCheck, SweepRelease, SweepEnd, SyncRefused, SyncEnd,
       SyncFails, SyncSkip, Arrive, DeleteTorrent, DeleteRow, Fetch, Age, vars, fiber, files
  <2>2. QED
    BY <2>1
<1>9. CASE Crash
  BY <1>9 DEF Crash, files
<1>10. ASSUME NEW h \in Hashes, SyncReconcile(h) PROVE Goal
  BY <1>1, <1>10 DEF SyncReconcile, files
<1>11. ASSUME NEW f \in Requests, Request(f) PROVE Goal
  BY <1>1, <1>11 DEF Request, files
<1>12. QED
  BY <1>2, <1>3, <1>4, <1>5, <1>6, <1>7, <1>8, <1>9, <1>10, <1>11 DEF Next, Step, Pass

\* What is safe stays safe, if a file that was moved out of its root is committed.
LEMMA SafeStays ==
  ASSUME TypeOK, [Next]_vars, ImportMode = "copy" \/ \A f \in Fibers : StagedIsCommitted(f),
         NEW h \in Hashes
  PROVE  safe[h] \subseteq safe'[h]
<1>1. ASSUME NEW f \in Fibers, Moved(f), hash(f) = h
      PROVE  unit[f] \in safe'[h]
  <2>1. pc[f] = "commit" /\ pc'[f] \in {"commit", "upsert"}
    BY <1>1 DEF Moved, StagedIsCommitted
  <2>2. CASE pc'[f] = "commit"
    <3>1. row'[f] = row[f] /\ unit'[f] = unit[f]
      BY <2>1, <2>2, LibraryStays
    <3>2. Moved(f)' /\ HashOf[row'[f]] = h
      BY <1>1, <2>2, <3>1 DEF Moved
    <3>3. unit'[f] \in safe'[h]
      BY <3>2 DEF safe
    <3>4. QED
      BY <3>1, <3>3
  <2>3. CASE pc'[f] = "upsert"
    BY <2>1, <2>3, LibraryStays DEF safe
  <2>4. QED
    BY <2>1, <2>2, <2>3
<1>2. library \subseteq safe'[h]
  BY LibraryStays DEF safe
<1>3. QED
  BY <1>1, <1>2 DEF safe

\* Steps that move no file.
LEMMA ContentFrame ==
  ASSUME TypeOK, ContentInv,
         library \subseteq library', \A h \in Hashes : safe[h] \subseteq safe'[h],
         UNCHANGED <<mapped, roots, source>>,
         \A f \in Fibers : \/ pc'[f] \notin Importing
                           \/ UNCHANGED <<pc[f], row[f], todo[f], unit[f]>>
  PROVE  ContentInv'
<1>1. mapped' \subseteq library'
  BY DEF ContentInv
<1>2. /\ \A h \in Hashes \cap roots' : Contents[h] \subseteq source'[h] \cup safe'[h]
      /\ \A h \in Hashes \ roots' : source'[h] = {}
  BY DEF ContentInv
<1>3. ASSUME NEW f \in Fibers
      PROVE  /\ pc'[f] \in Importing => Covers(row'[f]) \subseteq safe'[hash(f)'] \cup todo'[f]
             /\ pc'[f] = "commit" => unit'[f] \in todo'[f]
             /\ pc'[f] = "upsert" => unit'[f] \in library'
             /\ pc'[f] \in {"finalize", "cleanup"} => todo'[f] = {}
  <2>1. CASE pc'[f] \notin Importing
    BY <2>1 DEF Importing
  <2>2. CASE pc'[f] \in Importing
    <3>1. UNCHANGED <<pc[f], row[f], todo[f], unit[f]>>
      BY <2>2
    <3>2. row[f] \in Ids /\ hash(f) \in Hashes
      BY <2>2, <3>1, ReconciliationAssumption DEF TypeOK, Importing
    <3>3. QED
      BY <2>2, <3>1, <3>2 DEF ContentInv
  <2>3. QED
    BY <2>1, <2>2
<1>4. QED
  BY <1>1, <1>2, <1>3 DEF ContentInv

\* Steps of one import that move no file either.
LEMMA ContentFiberStep ==
  ASSUME TypeOK, ContentInv, NEW f \in Fibers,
         \A h \in Hashes : safe[h] \subseteq safe'[h],
         UNCHANGED <<library, roots, source, row>>,
         mapped' \subseteq library,
         \A g \in Fibers \ {f} : UNCHANGED <<pc[g], todo[g], unit[g]>>,
         /\ pc'[f] \in Importing => Covers(row[f]) \subseteq safe'[hash(f)] \cup todo'[f]
         /\ pc'[f] = "commit" => unit'[f] \in todo'[f]
         /\ pc'[f] = "upsert" => unit'[f] \in library
         /\ pc'[f] \in {"finalize", "cleanup"} => todo'[f] = {}
  PROVE  ContentInv'
<1>1. mapped' \subseteq library'
  OBVIOUS
<1>2. /\ \A h \in Hashes \cap roots' : Contents[h] \subseteq source'[h] \cup safe'[h]
      /\ \A h \in Hashes \ roots' : source'[h] = {}
  BY DEF ContentInv
<1>3. ASSUME NEW g \in Fibers
      PROVE  /\ pc'[g] \in Importing => Covers(row'[g]) \subseteq safe'[hash(g)'] \cup todo'[g]
             /\ pc'[g] = "commit" => unit'[g] \in todo'[g]
             /\ pc'[g] = "upsert" => unit'[g] \in library'
             /\ pc'[g] \in {"finalize", "cleanup"} => todo'[g] = {}
  <2>1. CASE g = f
    BY <2>1
  <2>2. CASE g # f
    <3>1. UNCHANGED <<pc[g], row[g], todo[g], unit[g]>>
      BY <2>2
    <3>2. pc[g] \in Importing => row[g] \in Ids /\ hash(g) \in Hashes
      BY ReconciliationAssumption DEF TypeOK, Importing
    <3>3. QED
      BY <3>1, <3>2 DEF ContentInv
  <2>3. QED
    BY <2>1, <2>2
<1>4. QED
  BY <1>1, <1>2, <1>3 DEF ContentInv

OnlyDeleted ==
  \A h \in Hashes : \/ source[h] \cap Contents[h] \subseteq source'[h] \cup safe'[h]
                    \/ \E i \in Ids : HashOf[i] = h /\ DeleteTorrent(i)

\* Every step keeps the content, but a deletion that takes the files with it.
LEMMA ContentStep ==
  ASSUME TypeOK, ContentInv, [Next]_vars,
         library \subseteq library', \A h \in Hashes : safe[h] \subseteq safe'[h]
  PROVE  ContentInv' /\ OnlyDeleted
<1> USE ReconciliationAssumption
<1>a. UNCHANGED source => OnlyDeleted
  BY DEF OnlyDeleted
<1>1. ASSUME NEW f \in Requests, Request(f) PROVE ContentInv' /\ OnlyDeleted
  BY <1>1, <1>a, ContentFrame DEF Request, Lookup, GoTo, Importing, TypeOK, db, files
<1>2. ASSUME NEW f \in Fibers, WinClaim(f) \/ LoseClaim(f) \/ FailClaim(f) \/ InterruptClaim(f)
      PROVE  ContentInv' /\ OnlyDeleted
  <2>1. \A g \in Fibers : \/ pc'[g] \notin Importing
                          \/ UNCHANGED <<pc[g], row[g], todo[g], unit[g]>>
    BY <1>2 DEF WinClaim, LoseClaim, FailClaim, InterruptClaim, Forget, GoTo, Importing, TypeOK
  <2>2. QED
    BY <1>2, <1>a, <2>1, ContentFrame
    DEF WinClaim, LoseClaim, FailClaim, InterruptClaim, db, files
<1>3. ASSUME NEW f \in Fibers,
             PlanNothing(f) \/ StageFails(f) \/ UpsertFails(f) \/ Mark(f) \/ Exit(f) \/ Interrupt(f)
      PROVE  ContentInv' /\ OnlyDeleted
  <2>1. \A g \in Fibers : \/ pc'[g] \notin Importing
                          \/ UNCHANGED <<pc[g], row[g], todo[g], unit[g]>>
    BY <1>3 DEF PlanNothing, StageFails, UpsertFails, Mark, Exit, Interrupt, GoTo, Importing, TypeOK
  <2>2. QED
    BY <1>3, <1>a, <2>1, ContentFrame
    DEF PlanNothing, StageFails, UpsertFails, Mark, Exit, Interrupt, db, files
<1>4. ASSUME NEW f \in Fibers, Release(f) PROVE ContentInv' /\ OnlyDeleted
  BY <1>4, <1>a, ContentFrame DEF Release, Forget, Importing, TypeOK, files
<1>5. ASSUME NEW f \in Fibers, PlanBatch(f) PROVE ContentInv' /\ OnlyDeleted
  <2>1. /\ row[f] \in Ids /\ hash(f) \in Hashes \cap roots /\ pc[f] = "plan"
        /\ todo' = [todo EXCEPT ![f] = source[hash(f)] \ mapped]
    BY <1>5 DEF PlanBatch, Remaining, TypeOK
  <2>2. /\ pc'[f] \in {"stage", "finalize", "exit"}
        /\ pc'[f] = "finalize" => todo'[f] = {}
        /\ \A g \in Fibers \ {f} : UNCHANGED <<pc[g], todo[g]>>
    BY <1>5, <2>1 DEF PlanBatch, GoTo, TypeOK
  <2>3. library \subseteq safe[hash(f)]
    BY <2>1 DEF safe
  <2>4. Covers(row[f]) \subseteq safe'[hash(f)] \cup todo'[f]
    BY <2>1, <2>3 DEF ContentInv, TypeOK
  <2>5. UNCHANGED <<mapped, library, roots, source, row, unit>> /\ mapped' \subseteq library
    BY <1>5 DEF PlanBatch, ContentInv, db, files
  <2>6. QED
    BY <1>a, <2>2, <2>4, <2>5, ContentFiberStep
<1>6. ASSUME NEW f \in Fibers, PlanSingle(f) PROVE ContentInv' /\ OnlyDeleted
  <2>1. /\ row[f] \in Ids /\ hash(f) \in Hashes /\ pc[f] = "plan"
    BY <1>6 DEF PlanSingle, TypeOK
  <2>2. \/ pc'[f] \in {"mark", "exit"} /\ UNCHANGED todo
        \/ /\ pc'[f] = "stage" /\ todo' = [todo EXCEPT ![f] = {UnitNumber[row[f]]}]
           /\ source[hash(f)] # {}
    BY <1>6 DEF PlanSingle, GoTo, TypeOK
  <2>3. \A g \in Fibers \ {f} : UNCHANGED <<pc[g], todo[g]>>
    BY <1>6, <2>2 DEF PlanSingle, GoTo, TypeOK
  <2>4. source[hash(f)] # {} => Covers(row[f]) = {UnitNumber[row[f]]}
    BY <1>6, <2>1 DEF PlanSingle, BatchHasFiles
  <2>5. pc'[f] \in Importing => Covers(row[f]) \subseteq safe'[hash(f)] \cup todo'[f]
    BY <2>1, <2>2, <2>4 DEF Importing, TypeOK
  <2>6. UNCHANGED <<mapped, library, roots, source, row, unit>> /\ mapped' \subseteq library
    BY <1>6 DEF PlanSingle, ContentInv, db, files
  <2>7. pc'[f] \notin {"commit", "upsert", "finalize", "cleanup"}
    BY <2>2
  <2>8. QED
    BY <1>a, <2>3, <2>5, <2>6, <2>7, ContentFiberStep
<1>7. ASSUME NEW f \in Fibers, Stage(f) PROVE ContentInv' /\ OnlyDeleted
  <2>1. PICK u \in todo[f] \cap source[hash(f)] :
          /\ unit' = [unit EXCEPT ![f] = u]
          /\ source' = IF ImportMode = "move"
                       THEN [source EXCEPT ![hash(f)] = @ \ {u}] ELSE source
    BY <1>7 DEF Stage
  <2>2. /\ row[f] \in Ids /\ hash(f) \in Hashes
        /\ pc[f] = "stage" /\ pc' = [pc EXCEPT ![f] = "commit"]
        /\ UNCHANGED <<mapped, library, roots, row, todo>>
    BY <1>7 DEF Stage, GoTo, TypeOK, db
  <2>3. /\ pc'[f] = "commit" /\ unit'[f] = u /\ u \in todo'[f]
        /\ \A g \in Fibers \ {f} : UNCHANGED <<pc[g], unit[g]>>
    BY <2>1, <2>2 DEF TypeOK
  <2>4. ImportMode = "move" => u \in safe'[hash(f)]
    <3> SUFFICES ASSUME ImportMode = "move" PROVE u \in safe'[hash(f)]
      OBVIOUS
    <3>1. Moved(f)' /\ HashOf[row'[f]] = hash(f)
      BY <2>2, <2>3 DEF Moved
    <3>2. unit'[f] \in safe'[hash(f)]
      BY <2>2, <3>1 DEF safe
    <3>3. QED
      BY <2>3, <3>2
  <2>5. \A h \in Hashes : /\ source'[h] \subseteq source[h]
                          /\ source[h] \subseteq source'[h] \cup safe'[h]
    BY <2>1, <2>2, <2>4 DEF TypeOK
  <2>6. /\ \A h \in Hashes \cap roots' : Contents[h] \subseteq source'[h] \cup safe'[h]
        /\ \A h \in Hashes \ roots' : source'[h] = {}
    BY <2>2, <2>5 DEF ContentInv
  <2>7. ASSUME NEW g \in Fibers
        PROVE  /\ pc'[g] \in Importing => Covers(row'[g]) \subseteq safe'[hash(g)'] \cup todo'[g]
               /\ pc'[g] = "commit" => unit'[g] \in todo'[g]
               /\ pc'[g] = "upsert" => unit'[g] \in library'
               /\ pc'[g] \in {"finalize", "cleanup"} => todo'[g] = {}
    <3>1. pc[g] \in Importing => row[g] \in Ids /\ hash(g) \in Hashes
      BY DEF TypeOK, Importing
    <3>2. CASE g = f
      BY <2>2, <2>3, <3>1, <3>2 DEF ContentInv, Importing
    <3>3. CASE g # f
      BY <2>2, <2>3, <3>1, <3>3 DEF ContentInv
    <3>4. QED
      BY <3>2, <3>3
  <2>8. mapped' \subseteq library'
    BY <2>2 DEF ContentInv
  <2>9. ContentInv'
    BY <2>6, <2>7, <2>8 DEF ContentInv
  <2>10. QED
    BY <2>5, <2>9 DEF OnlyDeleted
<1>8. ASSUME NEW f \in Fibers, Commit(f) PROVE ContentInv' /\ OnlyDeleted
  <2>1. pc[f] = "commit" /\ pc'[f] \in {"upsert", "exit"} /\ \A g \in Fibers \ {f} : UNCHANGED pc[g]
    BY <1>8 DEF Commit, GoTo, TypeOK
  <2>2. pc'[f] = "upsert" => unit[f] \in library'
    BY <1>8 DEF Commit, GoTo, TypeOK
  <2>3. UNCHANGED <<mapped, roots, source, row, todo, unit>>
    BY <1>8 DEF Commit, db
  <2>4. ASSUME NEW g \in Fibers
        PROVE  /\ pc'[g] \in Importing => Covers(row'[g]) \subseteq safe'[hash(g)'] \cup todo'[g]
               /\ pc'[g] = "commit" => unit'[g] \in todo'[g]
               /\ pc'[g] = "upsert" => unit'[g] \in library'
               /\ pc'[g] \in {"finalize", "cleanup"} => todo'[g] = {}
    <3>1. pc[g] \in Importing => row[g] \in Ids /\ hash(g) \in Hashes
      BY DEF TypeOK, Importing
    <3>2. CASE g = f
      BY <2>1, <2>2, <2>3, <3>1, <3>2 DEF ContentInv, Importing
    <3>3. CASE g # f
      BY <2>1, <2>3, <3>1, <3>3 DEF ContentInv
    <3>4. QED
      BY <3>2, <3>3
  <2>5. /\ \A h \in Hashes \cap roots' : Contents[h] \subseteq source'[h] \cup safe'[h]
        /\ \A h \in Hashes \ roots' : source'[h] = {}
        /\ mapped' \subseteq library'
    BY <2>3 DEF ContentInv
  <2>6. ContentInv'
    BY <2>4, <2>5 DEF ContentInv
  <2>7. QED
    BY <1>a, <2>3, <2>6
<1>9. ASSUME NEW f \in Fibers, Upsert(f) PROVE ContentInv' /\ OnlyDeleted
  <2>1. /\ pc[f] = "upsert" /\ mapped' = mapped \cup {unit[f]}
        /\ todo' = [todo EXCEPT ![f] = @ \ {unit[f]}]
        /\ row[f] \in Ids /\ hash(f) \in Hashes
    BY <1>9 DEF Upsert, TypeOK
  <2>2. /\ pc'[f] \in {"stage", "finalize"} /\ (pc'[f] = "finalize" => todo'[f] = {})
        /\ \A g \in Fibers \ {f} : UNCHANGED <<pc[g], todo[g]>>
    BY <1>9, <2>1 DEF Upsert, GoTo, TypeOK
  <2>3. UNCHANGED <<library, roots, source, row, unit>>
    BY <1>9 DEF Upsert, files
  <2>4. unit[f] \in library /\ Covers(row[f]) \subseteq safe[hash(f)] \cup todo[f]
    BY <2>1 DEF ContentInv, Importing
  <2>5. library \subseteq safe[hash(f)]
    BY <2>1 DEF safe
  <2>6. Covers(row[f]) \subseteq safe'[hash(f)] \cup todo'[f]
    BY <2>1, <2>4, <2>5 DEF TypeOK
  <2>7. mapped' \subseteq library
    BY <2>1, <2>4 DEF ContentInv
  <2>8. QED
    BY <1>a, <2>2, <2>3, <2>6, <2>7, ContentFiberStep
<1>10. ASSUME NEW f \in Fibers, Finalize(f) PROVE ContentInv' /\ OnlyDeleted
  <2>1. /\ pc[f] = "finalize" /\ pc'[f] \in {"cleanup", "exit"}
        /\ \A g \in Fibers \ {f} : UNCHANGED pc[g]
        /\ row[f] \in Ids /\ hash(f) \in Hashes
    BY <1>10 DEF Finalize, GoTo, TypeOK
  <2>2. UNCHANGED <<mapped, library, roots, source, row, todo, unit>> /\ mapped' \subseteq library
    BY <1>10 DEF Finalize, ContentInv, files
  <2>3. Covers(row[f]) \subseteq safe'[hash(f)] \cup todo'[f] /\ todo'[f] = {}
    BY <2>1, <2>2 DEF ContentInv, Importing
  <2>4. QED
    BY <1>a, <2>1, <2>2, <2>3, ContentFiberStep
<1>11. ASSUME NEW f \in Fibers, CleanupTorrent(f) PROVE ContentInv' /\ OnlyDeleted
  <2>1. /\ row[f] \in Ids /\ hash(f) \in Hashes /\ pc[f] = "cleanup" /\ pc'[f] = "exit"
        /\ \A g \in Fibers \ {f} : UNCHANGED pc[g]
    BY <1>11 DEF CleanupTorrent, GoTo, TypeOK
  <2>2. UNCHANGED <<mapped, library, row, todo, unit>>
    BY <1>11 DEF CleanupTorrent, db
  <2>3. Covers(row[f]) \subseteq safe'[hash(f)]
    BY <2>1 DEF ContentInv, Importing
  <2>4. \A h \in Hashes : \/ UNCHANGED source[h] /\ (h \in roots' <=> h \in roots)
                          \/ h = hash(f) /\ h \notin roots' /\ source'[h] = {}
    BY <1>11, <2>1 DEF CleanupTorrent, DropTorrent, TypeOK
  <2>5. /\ \A h \in Hashes \cap roots' : Contents[h] \subseteq source'[h] \cup safe'[h]
        /\ \A h \in Hashes \ roots' : source'[h] = {}
        /\ mapped' \subseteq library'
    BY <2>2, <2>4 DEF ContentInv
  <2>6. ASSUME NEW g \in Fibers
        PROVE  /\ pc'[g] \in Importing => Covers(row'[g]) \subseteq safe'[hash(g)'] \cup todo'[g]
               /\ pc'[g] = "commit" => unit'[g] \in todo'[g]
               /\ pc'[g] = "upsert" => unit'[g] \in library'
               /\ pc'[g] \in {"finalize", "cleanup"} => todo'[g] = {}
    <3>1. pc[g] \in Importing => row[g] \in Ids /\ hash(g) \in Hashes
      BY DEF TypeOK, Importing
    <3>2. QED
      BY <2>1, <2>2, <3>1 DEF ContentInv, Importing
  <2>7. ContentInv'
    BY <2>5, <2>6 DEF ContentInv
  <2>8. OnlyDeleted
    BY <2>3, <2>4 DEF OnlyDeleted
  <2>9. QED
    BY <2>7, <2>8
<1>12. ASSUME Pass \/ SyncFails PROVE ContentInv' /\ OnlyDeleted
  <2>1. ASSUME NEW h \in Hashes, SyncReconcile(h) PROVE ContentInv' /\ OnlyDeleted
    BY <2>1, <1>a, ContentFrame DEF SyncReconcile, Lookup, GoTo, Importing, TypeOK, db, files
  <2>2. CASE \/ SyncList \/ Sweep \/ SyncEnd \/ SyncFails \/ \E h \in Hashes : SyncSkip(h)
    BY <2>2, <1>a, ContentFrame
    DEF SyncList, Sweep, SweepCheck, SweepRelease, SweepEnd, SyncRefused, SyncEnd, SyncFails,
        SyncSkip, db, files, fiber
  <2>3. QED
    BY <1>12, <2>1, <2>2 DEF Pass
<1>13. ASSUME NEW h \in Hashes, \/ Arrive(h)
                                \/ \E i \in Ids, d \in BOOLEAN :
                                     DropTorrent(h, d) /\ DeleteTorrent(i)
       PROVE  ContentInv'
  <2>1. UNCHANGED <<mapped, library, pc, row, todo, unit>>
    BY <1>13 DEF Arrive, DeleteTorrent, db, fiber
  <2>2. \A g \in Hashes : \/ UNCHANGED source[g] /\ (g \in roots' <=> g \in roots)
                          \/ g \notin roots' /\ source'[g] = {}
                          \/ g \in roots' /\ source'[g] = Contents[g]
    BY <1>13 DEF Arrive, DropTorrent, TypeOK
  <2>3. /\ \A g \in Hashes \cap roots' : Contents[g] \subseteq source'[g] \cup safe'[g]
        /\ \A g \in Hashes \ roots' : source'[g] = {}
        /\ mapped' \subseteq library'
    BY <2>1, <2>2 DEF ContentInv
  <2>4. ASSUME NEW g \in Fibers
        PROVE  /\ pc'[g] \in Importing => Covers(row'[g]) \subseteq safe'[hash(g)'] \cup todo'[g]
               /\ pc'[g] = "commit" => unit'[g] \in todo'[g]
               /\ pc'[g] = "upsert" => unit'[g] \in library'
               /\ pc'[g] \in {"finalize", "cleanup"} => todo'[g] = {}
    <3>1. pc[g] \in Importing => row[g] \in Ids /\ hash(g) \in Hashes
      BY DEF TypeOK, Importing
    <3>2. QED
      BY <2>1, <3>1 DEF ContentInv
  <2>5. QED
    BY <2>3, <2>4 DEF ContentInv
<1>14. ASSUME NEW i \in Ids, DeleteTorrent(i) PROVE ContentInv' /\ OnlyDeleted
  <2>1. HashOf[i] \in Hashes
    OBVIOUS
  <2>2. PICK d \in BOOLEAN : DropTorrent(HashOf[i], d)
    BY <1>14 DEF DeleteTorrent
  <2>3. ContentInv'
    BY <1>13, <1>14, <2>1, <2>2
  <2>4. \A h \in Hashes : h = HashOf[i] \/ source'[h] = source[h]
    BY <2>1, <2>2 DEF DropTorrent, TypeOK
  <2>5. QED
    BY <1>14, <2>3, <2>4 DEF OnlyDeleted
<1>15. ASSUME NEW h \in Hashes, Arrive(h) PROVE OnlyDeleted
  BY <1>15 DEF Arrive, OnlyDeleted, TypeOK
<1>16. ASSUME NEW i \in Ids, DeleteRow(i) \/ Fetch(i) PROVE ContentInv' /\ OnlyDeleted
  BY <1>16, <1>a, ContentFrame DEF DeleteRow, Fetch, files, fiber
<1>17. ASSUME NEW t \in Tokens, Age(t) PROVE ContentInv' /\ OnlyDeleted
  BY <1>17, <1>a, ContentFrame DEF Age, db, files, fiber
<1>18. ASSUME Crash PROVE ContentInv' /\ OnlyDeleted
  BY <1>18, <1>a, ContentFrame DEF Crash, Importing, db, files
<1>19. CASE UNCHANGED vars
  BY <1>19, <1>a, ContentFrame DEF vars
<1>20. QED
  BY <1>1, <1>2, <1>3, <1>4, <1>5, <1>6, <1>7, <1>8, <1>9, <1>10, <1>11, <1>12, <1>13, <1>14,
     <1>15, <1>16, <1>17, <1>18, <1>19 DEF Next, Step

OnlyDeletionsLose ==
  \A h \in Hashes : \A u \in Contents[h] :
    Available(u, h) /\ ~(u \in source'[h] \cup safe'[h])
      => \E i \in Ids : HashOf[i] = h /\ DeleteTorrent(i)

(* The content of a release is in its root, in the library or about to be  *)
(* renamed to its place there, and is lost only when a user deletes the    *)
(* download: not by a clean-up (maybeCleanupImportedTorrent), whichever    *)
(* rows share the torrent, however many imports overlap and whatever       *)
(* fails.  With import_mode "move" this rests on one thing: that the file  *)
(* an import has staged is committed.  When the rename fails, or the       *)
(* import is interrupted or crashes right then, cleanupStagedTempFile or   *)
(* nobody at all has the only copy.                                        *)
THEOREM ContentNeverLost ==
  Spec /\ (ImportMode = "copy" \/ StagedCommits) => [][OnlyDeletionsLose]_vars
<1>1. Init => ContentInv
  BY ReconciliationAssumption DEF Init, ContentInv, Importing
<1>2. ASSUME TypeOK, ContentInv, [Next]_vars, ImportMode = "copy" \/ \A f \in Fibers : StagedIsCommitted(f)
      PROVE  ContentInv' /\ OnlyDeletionsLose
  <2>1. library \subseteq library' /\ \A h \in Hashes : safe[h] \subseteq safe'[h]
    BY <1>2, LibraryStays, SafeStays
  <2>2. ContentInv' /\ OnlyDeleted
    BY <1>2, <2>1, ContentStep
  <2>3. OnlyDeletionsLose
    BY <2>1, <2>2 DEF OnlyDeleted, OnlyDeletionsLose, Available
  <2>4. QED
    BY <2>2, <2>3
<1>3. CASE ImportMode = "copy"
  <2>1. TypeOK /\ ContentInv /\ [Next]_vars => ContentInv' /\ OnlyDeletionsLose
    BY <1>2, <1>3
  <2>2. QED
    BY TypeCorrect, <1>1, <2>1, PTL DEF Spec
<1>4. CASE ~(ImportMode = "copy")
  <2>1. TypeOK /\ ContentInv /\ [Next]_vars /\ [\A f \in Fibers : StagedIsCommitted(f)]_vars
          => ContentInv' /\ [OnlyDeletionsLose]_vars
    <3>1. UNCHANGED vars => \A f \in Fibers : StagedIsCommitted(f)
      BY DEF vars, StagedIsCommitted
    <3>2. QED
      BY <1>2, <3>1
  <2>2. QED
    BY TypeCorrect, <1>1, <1>4, <2>1, PTL DEF Spec, StagedCommits
<1>5. QED
  BY <1>3, <1>4
-------------------------------------------------------------------------------
(* What the lease is for: whoever implements it never has two workers with *)
(* the right to record an import, nor one once the download is imported or *)
(* deleted, never takes such a download up again, and records an import    *)
(* only by a worker that had the right while the download was pending      *)
(* (claimDownloadReconciliation, finalizeDownloadImport).                  *)
THEOREM LeaseExcludes ==
  Lease!Spec => [](Lease!OneHolder /\ Lease!HeldWhilePending) /\ Lease!TakenWhilePending
<1> DEFINE LInv == Lease!TypeOK /\ Lease!OneHolder /\ Lease!HeldWhilePending
<1>1. Lease!Init => LInv
  BY DEF Lease!Init, Lease!TypeOK, Lease!OneHolder, Lease!HeldWhilePending
<1>2. LInv /\ [Lease!Next]_(Lease!vars) => LInv'
  <2> SUFFICES ASSUME LInv, [Lease!Next]_(Lease!vars) PROVE LInv'
    OBVIOUS
  <2> USE DEF Lease!TypeOK, Lease!OneHolder, Lease!HeldWhilePending
  <2>1. ASSUME NEW d \in Ids, NEW w \in Fibers, Lease!Acquire(d, w) PROVE LInv'
    BY <2>1 DEF Lease!Acquire
  <2>2. ASSUME NEW d \in Ids, NEW w \in Fibers, Lease!Finish(d, w) PROVE LInv'
    <3>1. leaseHolders[d] \ {w} = {}
      BY <2>2 DEF Lease!Finish
    <3>2. QED
      BY <2>2, <3>1 DEF Lease!Finish
  <2>3. ASSUME NEW d \in Ids, NEW w \in Fibers, Lease!Release(d, w) PROVE LInv'
    BY <2>3 DEF Lease!Release
  <2>4. ASSUME NEW d \in Ids, Lease!Delete(d) PROVE LInv'
    BY <2>4 DEF Lease!Delete
  <2>5. CASE Lease!ReleaseAll
    BY <2>5 DEF Lease!ReleaseAll
  <2>6. CASE UNCHANGED Lease!vars
    BY <2>6 DEF Lease!vars
  <2>7. QED
    BY <2>1, <2>2, <2>3, <2>4, <2>5, <2>6 DEF Lease!Next
<1>3. LInv /\ [Lease!Next]_(Lease!vars) => [Lease!WhilePending]_(Lease!vars)
  <2> SUFFICES ASSUME LInv, Lease!Next, NEW d \in Ids
      PROVE  /\ leaseOutcome[d] # "pending" => leaseOutcome'[d] # "pending"
             /\ leaseOutcome'[d] = "imported" /\ leaseOutcome[d] # "imported"
                  => leaseOutcome[d] = "pending" /\ leaseHolders[d] # {}
    BY DEF Lease!WhilePending
  <2> USE DEF Lease!TypeOK
  <2>1. ASSUME NEW e \in Ids, NEW w \in Fibers, Lease!Acquire(e, w) \/ Lease!Release(e, w)
        PROVE  leaseOutcome' = leaseOutcome
    BY <2>1 DEF Lease!Acquire, Lease!Release
  <2>2. ASSUME NEW e \in Ids, NEW w \in Fibers, Lease!Finish(e, w)
        PROVE  /\ e # d => leaseOutcome'[d] = leaseOutcome[d]
               /\ e = d => /\ leaseOutcome[d] = "pending" /\ leaseHolders[d] # {}
                           /\ leaseOutcome'[d] = "imported"
    BY <2>2 DEF Lease!Finish
  <2>3. ASSUME NEW e \in Ids, Lease!Delete(e)
        PROVE  leaseOutcome'[d] \in {leaseOutcome[d], "deleted"}
    BY <2>3 DEF Lease!Delete
  <2>4. CASE Lease!ReleaseAll
    BY <2>4 DEF Lease!ReleaseAll
  <2>5. QED
    BY <2>1, <2>2, <2>3, <2>4 DEF Lease!Next
<1>4. QED
  BY <1>1, <1>2, <1>3, PTL DEF Lease!Spec, Lease!TakenWhilePending
================================================================================
