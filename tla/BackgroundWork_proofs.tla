-------------------------- MODULE BackgroundWork_proofs --------------------------
(***************************************************************************)
(* The two components whose work is under a lease or a permit.             *)
(*                                                                         *)
(* BackgroundWorker: WorkerTypeOK, JournalHonest, FlagsHonest and          *)
(* DaemonsKnown for any number of generations, manual tasks and faults.    *)
(*                                                                         *)
(* UnmappedScan: ScanTypeOK, OneScan, JobRowHonest and PauseRespected for  *)
(* any number of folders, attempts, starts, requests and faults; and the   *)
(* limit on attempts that every pass obeys, whatever the folders' rows say *)
(* when it starts.                                                         *)
(***************************************************************************)
EXTENDS BackgroundWorker, UnmappedScan, Integers, TLAPS

\* Faults are counted.
LEMMA FaultsBounded ==
  ASSUME workerFaults \in 0..MaxWorkerFaults, WorkerFault \/ NoWorkerFault
  PROVE  workerFaults' \in 0..MaxWorkerFaults
BY WorkerAssumption DEF WorkerFault, NoWorkerFault

\* Every step keeps the types.
LEMMA WorkerTypeStep ==
  ASSUME WorkerTypeOK, [WorkerNext]_workerVars PROVE WorkerTypeOK'
<1> USE WorkerAssumption
    DEF WorkerTypeOK, Runners, InRun, Daemons, Puts, NoWorkerFault, journals, scopes
<1>1. CASE Reload
  BY <1>1 DEF Reload
<1>2. CASE Closed
  BY <1>2 DEF Closed
<1>3. CASE WorkerCrash
  <2>1. workerFaults' \in 0..MaxWorkerFaults
    BY <1>3, FaultsBounded DEF WorkerCrash
  <2>2. /\ daemonFlag' \in BOOLEAN /\ runFlag' \in BOOLEAN
        /\ journal' \in BOOLEAN /\ cutShort' \in BOOLEAN /\ reloaded' \in BOOLEAN
    BY <1>3, Zenon DEF WorkerCrash
  <2>3. /\ place' \in [Runners -> Daemons \cup {"none", "stopping", "ended"}]
        /\ permit' \in Runners \cup {Nobody}
        /\ \A s \in Runners : permit' = s <=> place'[s] \in InRun
        /\ live' \in Generations \cup {Nobody} /\ closing' \in Generations \cup {Nobody}
    BY <1>3 DEF WorkerCrash
  <2>4. QED
    BY <2>1, <2>2, <2>3, Zenon
<1>4. ASSUME NEW r \in Runners, Attempt(r) PROVE WorkerTypeOK'
  BY <1>4 DEF Attempt, Rests
<1>5. ASSUME NEW r \in Runners, JournalStarts(r) PROVE WorkerTypeOK'
  <2>1. workerFaults' \in 0..MaxWorkerFaults
    BY <1>5, FaultsBounded DEF JournalStarts
  <2>2. /\ daemonFlag' \in BOOLEAN /\ runFlag' \in BOOLEAN
        /\ journal' \in BOOLEAN /\ cutShort' \in BOOLEAN /\ reloaded' \in BOOLEAN
    BY <1>5, Zenon DEF JournalStarts
  <2>3. /\ place' \in [Runners -> Daemons \cup {"none", "stopping", "ended"}]
        /\ permit' \in Runners \cup {Nobody}
        /\ \A s \in Runners : permit' = s <=> place'[s] \in InRun
        /\ live' \in Generations \cup {Nobody} /\ closing' \in Generations \cup {Nobody}
    BY <1>5 DEF JournalStarts
  <2>4. QED
    BY <2>1, <2>2, <2>3, Zenon
<1>6. ASSUME NEW r \in Runners, WorkEnds(r) PROVE WorkerTypeOK'
  <2>1. workerFaults' \in 0..MaxWorkerFaults
    BY <1>6, FaultsBounded DEF WorkEnds
  <2>2. /\ daemonFlag' \in BOOLEAN /\ runFlag' \in BOOLEAN
        /\ journal' \in BOOLEAN /\ cutShort' \in BOOLEAN /\ reloaded' \in BOOLEAN
    BY <1>6, Zenon DEF WorkEnds, JournalEnds
  <2>3. /\ place' \in [Runners -> Daemons \cup {"none", "stopping", "ended"}]
        /\ permit' \in Runners \cup {Nobody}
        /\ \A s \in Runners : permit' = s <=> place'[s] \in InRun
        /\ live' \in Generations \cup {Nobody} /\ closing' \in Generations \cup {Nobody}
    BY <1>6 DEF WorkEnds
  <2>4. QED
    BY <2>1, <2>2, <2>3, Zenon
<1>7. ASSUME NEW r \in Runners, TimesOut(r) PROVE WorkerTypeOK'
  BY <1>7 DEF TimesOut
<1>8. ASSUME NEW r \in Runners, RunEnds(r) PROVE WorkerTypeOK'
  BY <1>8 DEF RunEnds, MarkRunEnded, Released, AfterRun, Rests
<1>9. ASSUME NEW g \in Generations, DaemonStarts(g) \/ BackOff(g) PROVE WorkerTypeOK'
  BY <1>9 DEF DaemonStarts, BackOff
<1>10. ASSUME NEW g \in Generations, Interrupted(g) PROVE WorkerTypeOK'
  BY <1>10 DEF Interrupted, Abandons, Released
<1>11. ASSUME NEW g \in Generations, DaemonStops(g) PROVE WorkerTypeOK'
  BY <1>11 DEF DaemonStops
<1>12. ASSUME NEW m \in Manuals, RequestRun(m) PROVE WorkerTypeOK'
  BY <1>12 DEF RequestRun
<1>13. CASE UNCHANGED workerVars
  BY <1>13 DEF workerVars
<1>14. QED
  BY <1>1, <1>2, <1>3, <1>4, <1>5, <1>6, <1>7, <1>8, <1>9, <1>10, <1>11, <1>12, <1>13
     DEF WorkerNext, RunStep, DaemonStep, CloseStep

(* Every variable has its type, and who is in a run, and nobody else, has  *)
(* the permit.                                                             *)
THEOREM WorkerTypeCorrect == WorkerSpec => []WorkerTypeOK
<1>1. ASSUME WorkerInit PROVE WorkerTypeOK
  <2>1. workerFaults \in 0..MaxWorkerFaults
    BY <1>1, WorkerAssumption DEF WorkerInit
  <2>2. /\ place \in [Runners -> Daemons \cup {"none", "stopping", "ended"}]
        /\ \A r \in Runners : permit = r <=> place[r] \in InRun
    BY <1>1, WorkerAssumption DEF WorkerInit, InRun, Daemons
  <2>3. QED
    BY <1>1, <2>1, <2>2, Zenon DEF WorkerInit, WorkerTypeOK
<1>2. WorkerTypeOK /\ [WorkerNext]_workerVars => WorkerTypeOK'
  BY WorkerTypeStep
<1>3. QED
  BY <1>1, <1>2, PTL DEF WorkerSpec
-------------------------------------------------------------------------------
\* Who works has the permit, so that nobody else does.
LEMMA OneWorks ==
  ASSUME WorkerTypeOK, NEW r \in Runners, NEW s \in Runners,
         place[r] \in InRun, place[s] \in InRun
  PROVE  r = s
BY DEF WorkerTypeOK

\* Every step keeps the journal honest.
LEMMA JournalStep ==
  ASSUME WorkerTypeOK, JournalHonest, [WorkerNext]_workerVars PROVE JournalHonest'
<1> USE WorkerAssumption DEF JournalHonest, Puts, journals
<1> place \in [Runners -> Daemons \cup {"none", "stopping", "ended"}]
  BY DEF WorkerTypeOK
<1>a. CASE UNCHANGED journals /\ \A r \in Runners : place'[r] = "work" <=> place[r] = "work"
  BY <1>a
<1>1. CASE Reload
  BY <1>1, <1>a DEF Reload, Runners
<1>2. CASE Closed
  BY <1>2, <1>a DEF Closed
<1>3. CASE WorkerCrash
  BY <1>3 DEF WorkerCrash
<1>4. ASSUME NEW r \in Runners, Attempt(r) PROVE JournalHonest'
  BY <1>4, <1>a DEF Attempt, Rests
<1>5. ASSUME NEW r \in Runners, JournalStarts(r) PROVE JournalHonest'
  <2>1. CASE journal' = TRUE /\ Puts(r, "work")
    BY <2>1
  <2>2. CASE Puts(r, "failed") /\ UNCHANGED journals
    BY <1>5, <1>a, <2>2 DEF JournalStarts
  <2>3. QED
    BY <1>5, <2>1, <2>2 DEF JournalStarts
<1>6. ASSUME NEW r \in Runners, WorkEnds(r) PROVE JournalHonest'
  <2>1. place[r] = "work" /\ \A s \in Runners : place[s] = "work" => s = r
    BY <1>6, OneWorks DEF WorkEnds, InRun
  <2>2. \A s \in Runners : place'[s] # "work"
    BY <1>6, <2>1 DEF WorkEnds
  <2>3. QED
    BY <1>6, <2>2 DEF WorkEnds, JournalEnds
<1>7. ASSUME NEW r \in Runners, TimesOut(r) PROVE JournalHonest'
  <2>1. CASE place[r] = "begin"
    BY <1>7, <1>a, <2>1 DEF TimesOut
  <2>2. CASE place[r] = "work"
    BY <1>7, <2>2 DEF TimesOut
  <2>3. QED
    BY <1>7, <2>1, <2>2 DEF TimesOut
<1>8. ASSUME NEW r \in Runners, RunEnds(r) PROVE JournalHonest'
  BY <1>8, <1>a DEF RunEnds, AfterRun, Rests
<1>9. ASSUME NEW g \in Generations, DaemonStarts(g) \/ BackOff(g) \/ DaemonStops(g)
      PROVE  JournalHonest'
  BY <1>9, <1>a DEF DaemonStarts, BackOff, DaemonStops, Runners
<1>10. ASSUME NEW g \in Generations, Interrupted(g) PROVE JournalHonest'
  <2>1. CASE place[g] = "work"
    BY <1>10, <2>1 DEF Interrupted
  <2>2. CASE place[g] # "work"
    BY <1>10, <2>2 DEF Interrupted
  <2>3. QED
    BY <2>1, <2>2
<1>11. ASSUME NEW m \in Manuals, RequestRun(m) PROVE JournalHonest'
  BY <1>11, <1>a DEF RequestRun, Runners
<1>12. CASE UNCHANGED workerVars
  BY <1>12, <1>a DEF workerVars
<1>13. QED
  BY <1>1, <1>2, <1>3, <1>4, <1>5, <1>6, <1>7, <1>8, <1>9, <1>10, <1>11, <1>12
     DEF WorkerNext, RunStep, DaemonStep, CloseStep

(* The job row says running while the task runs; when nobody runs it, only *)
(* after a run that was cut short or could not be recorded.                *)
THEOREM JournalTold == WorkerSpec => []JournalHonest
<1>1. WorkerInit => JournalHonest
  BY DEF WorkerInit, JournalHonest
<1>2. WorkerTypeOK /\ JournalHonest /\ [WorkerNext]_workerVars => JournalHonest'
  BY JournalStep
<1>3. QED
  BY <1>1, <1>2, WorkerTypeCorrect, PTL DEF WorkerSpec
-------------------------------------------------------------------------------
(***************************************************************************)
(* FlagsHonest is not inductive: the flag of a run outlives its permit     *)
(* only between the interrupt of a daemon and the finalizer that stops it, *)
(* and only the daemon that a reload is closing is there.                  *)
(***************************************************************************)
Stopping(g) == place[g] = "stopping"
FlagInv ==
  /\ runFlag => permit # Nobody \/ \E g \in Generations : Stopping(g)
  /\ \A g \in Generations : Stopping(g) => closing = g
  /\ ~reloaded => /\ closing = Nobody
                  /\ daemonFlag <=> \E g \in Generations : Started(g)
                  /\ permit # Nobody => runFlag

\* Every step keeps the flags honest.
LEMMA FlagStep ==
  ASSUME WorkerTypeOK, FlagInv, [WorkerNext]_workerVars PROVE FlagInv'
<1> USE WorkerAssumption DEF FlagInv, Stopping, Started, Daemons, InRun, Puts, scopes, Runners
<1> place \in [Runners -> Daemons \cup {"none", "stopping", "ended"}]
  BY DEF WorkerTypeOK
<1>a. CASE /\ UNCHANGED <<permit, scopes, daemonFlag, runFlag>>
           /\ \A g \in Generations : /\ Stopping(g)' <=> Stopping(g)
                                     /\ Started(g)' <=> Started(g)
  BY <1>a
<1>1. CASE Reload
  BY <1>1 DEF Reload
<1>2. CASE Closed
  BY <1>2 DEF Closed, WorkerTypeOK
<1>3. CASE WorkerCrash
  BY <1>3 DEF WorkerCrash
<1>4. ASSUME NEW r \in Runners, Attempt(r) PROVE FlagInv'
  BY <1>4 DEF Attempt, Rests
<1>5. ASSUME NEW r \in Runners, JournalStarts(r) \/ WorkEnds(r) \/ TimesOut(r) PROVE FlagInv'
  BY <1>5, <1>a DEF JournalStarts, WorkEnds, TimesOut
<1>6. ASSUME NEW r \in Runners, RunEnds(r) PROVE FlagInv'
  BY <1>6 DEF RunEnds, MarkRunEnded, Released, AfterRun, Rests, WorkerTypeOK
<1>7. ASSUME NEW g \in Generations, DaemonStarts(g) PROVE FlagInv'
  BY <1>7 DEF DaemonStarts
<1>8. ASSUME NEW g \in Generations, BackOff(g) PROVE FlagInv'
  BY <1>8, <1>a DEF BackOff
<1>9. ASSUME NEW g \in Generations, Interrupted(g) PROVE FlagInv'
  BY <1>9 DEF Interrupted, Abandons, Released, WorkerTypeOK
<1>10. ASSUME NEW g \in Generations, DaemonStops(g) PROVE FlagInv'
  BY <1>10 DEF DaemonStops
<1>11. ASSUME NEW m \in Manuals, RequestRun(m) PROVE FlagInv'
  BY <1>11, <1>a DEF RequestRun
<1>12. CASE UNCHANGED workerVars
  BY <1>12, <1>a DEF workerVars
<1>13. QED
  BY <1>1, <1>2, <1>3, <1>4, <1>5, <1>6, <1>7, <1>8, <1>9, <1>10, <1>11, <1>12
     DEF WorkerNext, RunStep, DaemonStep, CloseStep

(* The monitor shows a run only while there is one or its daemon is about  *)
(* to stop, and until a reload has closed a generation it shows every      *)
(* daemon and every run.                                                   *)
THEOREM FlagsTold == WorkerSpec => []FlagsHonest
<1>1. WorkerInit => FlagInv
  BY DEF WorkerInit, FlagInv, Stopping, Started, Daemons, InRun, Runners
<1>2. WorkerTypeOK /\ FlagInv /\ [WorkerNext]_workerVars => FlagInv'
  BY FlagStep
<1>3. FlagInv => FlagsHonest
  BY WorkerAssumption DEF FlagInv, FlagsHonest, Stopping, Runners
<1>4. QED
  BY <1>1, <1>2, <1>3, WorkerTypeCorrect, PTL DEF WorkerSpec
-------------------------------------------------------------------------------
(***************************************************************************)
(* DaemonsKnown is inductive once the generation in force is not the one   *)
(* that a reload is closing: an interrupt then never takes its daemon.     *)
(***************************************************************************)
KnownInv ==
  /\ DaemonsKnown
  /\ live # Nobody => live # closing

\* Only Reload brings a daemon into being.
There(g) == place[g] \in Daemons \cup {"stopping"}

\* A fiber that moves within its life, its daemon going no further than stopping.
LEMMA Moves ==
  ASSUME WorkerTypeOK, KnownInv, NEW r \in Runners, NEW somewhere,
         place' = [place EXCEPT ![r] = somewhere], live' = live, closing' = closing,
         r \in Generations /\ live = r => somewhere \in Daemons,
         r \in Generations /\ somewhere \in Daemons \cup {"stopping"} => There(r)
  PROVE  KnownInv'
BY WorkerAssumption DEF WorkerTypeOK, KnownInv, DaemonsKnown, There, Runners

\* Every step keeps every daemon known.
LEMMA KnownStep ==
  ASSUME WorkerTypeOK, KnownInv, [WorkerNext]_workerVars PROVE KnownInv'
<1> USE DEF Puts, scopes
<1>1. CASE Reload
  <2> USE WorkerAssumption DEF WorkerTypeOK, KnownInv, DaemonsKnown, Runners
  <2>1. closing = Nobody /\ closing' = live
    BY <1>1 DEF Reload
  <2>2. \A g \in Generations : There(g) => g = live
    BY <2>1 DEF There
  <2>3. CASE live # Nobody /\ live' = Nobody /\ UNCHANGED place
    BY <2>1, <2>2, <2>3 DEF There
  <2>4. ASSUME NEW g \in Generations, place[g] = "none", live' = g, Puts(g, "spawned")
        PROVE  KnownInv'
    <3>1. g # live /\ g # Nobody
      BY <2>4 DEF Daemons, InRun
    <3>2. place' = [place EXCEPT ![g] = "spawned"] /\ "spawned" \in Daemons
      BY <2>4 DEF Daemons
    <3>3. QED
      BY <2>1, <2>2, <2>4, <3>1, <3>2 DEF There
  <2>5. QED
    BY <1>1, <2>3, <2>4 DEF Reload
<1>2. CASE Closed
  BY <1>2, WorkerAssumption DEF Closed, WorkerTypeOK, KnownInv, DaemonsKnown, Daemons, InRun
<1>3. CASE WorkerCrash
  BY <1>3, WorkerAssumption
     DEF WorkerCrash, KnownInv, DaemonsKnown, Daemons, InRun, Runners
<1>4. ASSUME NEW r \in Runners, RunStep(r) PROVE KnownInv'
  <2>1. place[r] \in Daemons /\ UNCHANGED <<live, closing>>
    BY <1>4, Zenon
       DEF RunStep, Attempt, JournalStarts, WorkEnds, TimesOut, RunEnds, Daemons, InRun
  <2>2. PICK somewhere :
          /\ place' = [place EXCEPT ![r] = somewhere]
          /\ r \in Generations => somewhere \in Daemons
    BY <1>4 DEF RunStep, Attempt, JournalStarts, WorkEnds, TimesOut, RunEnds, AfterRun, Rests,
                Daemons, InRun
  <2>3. QED
    BY <2>1, <2>2, Moves DEF There
<1>5. ASSUME NEW g \in Generations, DaemonStep(g) PROVE KnownInv'
  BY <1>5, Moves DEF DaemonStep, DaemonStarts, BackOff, There, Daemons, Runners
<1>6. ASSUME NEW g \in Generations, Interrupted(g) PROVE KnownInv'
  <2>1. g # live
    BY <1>6, WorkerAssumption DEF Interrupted, KnownInv, Runners
  <2>2. There(g)
    BY <1>6 DEF Interrupted, There
  <2>3. QED
    BY <1>6, <2>1, <2>2, Moves DEF Interrupted, Runners
<1>7. ASSUME NEW g \in Generations, DaemonStops(g) PROVE KnownInv'
  <2>1. g # live
    BY <1>7, WorkerAssumption
       DEF DaemonStops, KnownInv, DaemonsKnown, Daemons, InRun, Runners
  <2>2. QED
    BY <1>7, <2>1, Moves DEF DaemonStops, Runners, Daemons, InRun
<1>8. ASSUME NEW m \in Manuals, RequestRun(m) PROVE KnownInv'
  BY <1>8, WorkerAssumption, Moves DEF RequestRun, Runners
<1>9. CASE UNCHANGED workerVars
  BY <1>9 DEF workerVars, KnownInv, DaemonsKnown
<1>10. QED
  BY <1>1, <1>2, <1>3, <1>4, <1>5, <1>6, <1>7, <1>8, <1>9 DEF WorkerNext, CloseStep

(* The daemon of the configuration in force is there, whatever its runs    *)
(* meet, and every other daemon is the one that a reload is closing: the   *)
(* safety core of KeepsRunning.                                            *)
THEOREM NoDaemonOrphaned == WorkerSpec => []DaemonsKnown
<1>1. WorkerInit => KnownInv
  BY DEF WorkerInit, KnownInv, DaemonsKnown, Daemons, InRun, Runners
<1>2. WorkerTypeOK /\ KnownInv /\ [WorkerNext]_workerVars => KnownInv'
  BY KnownStep
<1>3. KnownInv => DaemonsKnown
  BY DEF KnownInv
<1>4. QED
  BY <1>1, <1>2, <1>3, WorkerTypeCorrect, PTL DEF WorkerSpec
-------------------------------------------------------------------------------
USE DEF MatchStatuses, MatchRows, NoRow, passVars, jobVars, controls

\* Every step keeps the lease with one scan.
LEMMA LeaseStep ==
  ASSUME OneScan, [ScanNext]_scanVars PROVE OneScan'
<1> USE DEF OneScan
<1>1. ASSUME NEW s \in Starters, Start(s) PROVE OneScan'
  BY <1>1 DEF Start
<1>2. ASSUME NEW s \in Starters, Launch(s) PROVE OneScan'
  <2>1. loop = "none" /\ lease
    BY <1>2 DEF Launch
  <2>2. starting' = {}
    BY <1>2 DEF Launch
  <2>3. CASE lease' = FALSE /\ loop' = loop
    BY <2>1, <2>2, <2>3
  <2>4. CASE lease' = lease /\ loop' = "begin"
    BY <2>1, <2>2, <2>4
  <2>5. QED
    BY <1>2, <2>3, <2>4 DEF Launch, GivesBack
<1>3. ASSUME NEW s \in Starters, LaunchFails(s) PROVE OneScan'
  BY <1>3 DEF LaunchFails, GivesBack
<1>4. CASE LoopStep
  BY <1>4 DEF LoopStep, PassBegins, PassLoads, PassSaves, PassTakes, PassMatches,
              PassRecords, PassSleeps, PassFinds, LoopEnds
<1>5. CASE PassDies
  BY <1>5 DEF PassDies, LoopEnds
<1>6. CASE (\E f \in Folders : Control(f)) \/ BulkControl \/ ListFolders
  <2>1. UNCHANGED <<lease, starting, loop>>
    BY <1>6, Zenon DEF Control, BulkControl, ListFolders, Writes
  <2>2. QED
    BY <2>1
<1>7. CASE RequestStep
  BY <1>7 DEF RequestStep, ControlWrites, RefreshLoads, RefreshMarks, RefreshMatches
<1>8. CASE ScanCrash
  BY <1>8 DEF ScanCrash
<1>9. CASE UNCHANGED scanVars
  BY <1>9 DEF scanVars
<1>10. QED
  BY <1>1, <1>2, <1>3, <1>4, <1>5, <1>6, <1>7, <1>8, <1>9 DEF ScanNext

(* The lease goes with exactly one scan, and is free when none is under    *)
(* way, whatever has failed.                                               *)
THEOREM LeaseKept == ScanSpec => []OneScan
<1>1. ScanInit => OneScan
  BY DEF ScanInit, OneScan
<1>2. OneScan /\ [ScanNext]_scanVars => OneScan'
  BY LeaseStep
<1>3. QED
  BY <1>1, <1>2, PTL DEF ScanSpec
-------------------------------------------------------------------------------
\* Requests and faults are counted.
LEMMA Counted ==
  ASSUME ScanTypeOK
  PROVE  /\ ScanRequest => scanRequests' \in 0..MaxScanRequests
         /\ ScanFault => scanFaults' \in 0..MaxScanFaults
BY ScanAssumption DEF ScanTypeOK, ScanRequest, ScanFault

\* What becomes of a row is a row.
LEMMA RowType ==
  ASSUME NEW row \in MatchRows
  PROVE  /\ \A status \in MatchStatuses : As(row, status) \in MatchRows
         /\ Fresh \in MatchRows /\ Matched \in MatchRows /\ Unmatched(row) \in MatchRows
         /\ Prepare(row) \in MatchRows
BY DEF As, Fresh, Matched, Unmatched, Prepare

\* A request has rows in hand.
LEMMA WritesType ==
  ASSUME ScanTypeOK, NEW written, NEW phase \in {"write", "refresh"}, Writes(written, phase),
         DOMAIN written \subseteq Folders, \A f \in DOMAIN written : written[f] \in MatchRows,
         refreshing' \in Folders \cup {NoFolder}, phase = "refresh" => refreshing' \in Folders
  PROVE  ScanTypeOK'
BY Counted DEF ScanTypeOK, Writes

\* Every step keeps the types, as long as the lease goes with one scan.
LEMMA ScanTypeStep ==
  ASSUME ScanTypeOK, OneScan, [ScanNext]_scanVars PROVE ScanTypeOK'
<1> USE ScanAssumption
<1>1. ASSUME NEW s \in Starters, Start(s) PROVE ScanTypeOK'
  BY <1>1, Counted, ZenonT(60) DEF Start, ScanTypeOK
<1>2. ASSUME NEW s \in Starters, Launch(s) PROVE ScanTypeOK'
  <2>1. loop = "none"
    BY <1>2 DEF Launch, OneScan
  <2>2. lease' \in BOOLEAN /\ loop' \in {"none", "begin"}
    BY <1>2, <2>1, Zenon DEF Launch, GivesBack, ScanTypeOK
  <2>3. QED
    BY <1>2, <2>1, <2>2 DEF Launch, ScanTypeOK
<1>3. ASSUME NEW s \in Starters, LaunchFails(s) PROVE ScanTypeOK'
  BY <1>3, Counted, ZenonT(60) DEF LaunchFails, GivesBack, ScanTypeOK
<1>4. CASE PassBegins
  BY <1>4 DEF PassBegins, ScanTypeOK
<1>5. CASE PassLoads
  <2>1. Prepared \in [Folders -> MatchRows]
    BY RowType DEF Prepared, ScanTypeOK
  <2>2. QED
    BY <1>5, <2>1 DEF PassLoads, ScanTypeOK
<1>6. CASE PassSaves
  BY <1>6 DEF PassSaves, QueuedIn, ScanTypeOK
<1>7. ASSUME NEW f \in Folders, PassTakes(f) PROVE ScanTypeOK'
  <2>1. As(snap[f], "matching") \in MatchRows
    BY RowType DEF ScanTypeOK
  <2>2. QED
    BY <1>7, <2>1 DEF PassTakes, ScanTypeOK
<1>8. CASE PassMatches
  <2>1. matching \in Folders
    BY <1>8 DEF PassMatches, ScanTypeOK
  <2>2. Matched \in MatchRows /\ Unmatched(snap[matching]) \in MatchRows
    BY <2>1, RowType DEF ScanTypeOK
  <2>3. rows' \in [Folders -> MatchRows]
    BY <1>8, <2>1, <2>2 DEF PassMatches, ScanTypeOK
  <2>4. QED
    BY <1>8, <2>3 DEF PassMatches, Forgotten, ScanTypeOK
<1>9. CASE PassRecords \/ PassSleeps
  BY <1>9 DEF PassRecords, PassSleeps, ScanTypeOK
<1>10. CASE PassFinds
  BY <1>10 DEF PassFinds, JobEnds, LoopEnds, ScanTypeOK
<1>11. CASE PassDies
  BY <1>11, Counted DEF PassDies, LoopEnds, ScanTypeOK
<1>12. ASSUME NEW f \in Folders, Control(f) PROVE ScanTypeOK'
  <2>1. /\ As(rows[f], "paused") \in MatchRows /\ As(rows[f], "pending") \in MatchRows
        /\ Fresh \in MatchRows
    BY RowType DEF ScanTypeOK
  <2>2. CASE Writes(Setting({f}, "paused"), "write") /\ UNCHANGED refreshing
    BY <2>1, <2>2, WritesType DEF Setting, ScanTypeOK
  <2>3. CASE Writes(Setting({f}, "pending"), "write") /\ UNCHANGED refreshing
    BY <2>1, <2>3, WritesType DEF Setting, ScanTypeOK
  <2>4. CASE Writes(Resetting({f}), "write") /\ UNCHANGED refreshing
    BY <2>1, <2>4, WritesType DEF Resetting, ScanTypeOK
  <2>5. CASE Writes(Resetting({f}), "refresh") /\ refreshing' = f
    BY <2>1, <2>5, WritesType DEF Resetting
  <2>6. QED
    BY <1>12, <2>2, <2>3, <2>4, <2>5 DEF Control
<1>13. CASE BulkControl \/ ListFolders
  <2>1. \A f \in Folders : /\ As(rows[f], "paused") \in MatchRows
                           /\ As(rows[f], "pending") \in MatchRows
                           /\ Fresh \in MatchRows
    BY RowType DEF ScanTypeOK
  <2>2. CASE Writes(Setting(InStatus("pending"), "paused"), "write") /\ UNCHANGED refreshing
    BY <2>1, <2>2, WritesType DEF Setting, InStatus, ScanTypeOK
  <2>3. CASE Writes(Setting(InStatus("paused"), "pending"), "write") /\ UNCHANGED refreshing
    BY <2>1, <2>3, WritesType DEF Setting, InStatus, ScanTypeOK
  <2>4. CASE Writes(Resetting(InStatus("failed")), "write") /\ UNCHANGED refreshing
    BY <2>1, <2>4, WritesType DEF Resetting, InStatus, ScanTypeOK
  <2>5. CASE Writes(Resetting(InStatus("none")), "write") /\ UNCHANGED refreshing
    BY <2>1, <2>5, WritesType DEF Resetting, InStatus, ScanTypeOK
  <2>6. QED
    BY <1>13, <2>2, <2>3, <2>4, <2>5 DEF BulkControl, ListFolders
<1>14. CASE ControlWrites
  BY <1>14 DEF ControlWrites, NoWrites, ScanTypeOK
<1>15. CASE RefreshLoads
  BY <1>15 DEF RefreshLoads, ScanTypeOK
<1>16. CASE RefreshMarks
  <2>1. refreshing \in Folders /\ writes[refreshing] \in MatchRows
    BY <1>16 DEF RefreshMarks, ScanTypeOK
  <2>2. As(writes[refreshing], "matching") \in MatchRows
    BY <2>1, RowType
  <2>3. QED
    BY <1>16, <2>1, <2>2 DEF RefreshMarks, ScanTypeOK
<1>17. CASE RefreshMatches
  <2>1. refreshing \in Folders /\ writes[refreshing] \in MatchRows
    BY <1>17 DEF RefreshMatches, ScanTypeOK
  <2>2. Matched \in MatchRows /\ Unmatched(writes[refreshing]) \in MatchRows
    BY <2>1, RowType
  <2>3. rows' \in [Folders -> MatchRows]
    BY <1>17, <2>1, <2>2 DEF RefreshMatches, ScanTypeOK
  <2>4. QED
    BY <1>17, <2>3 DEF RefreshMatches, NoWrites, ScanTypeOK
<1>18. CASE ScanCrash
  BY <1>18, Counted DEF ScanCrash, Unprepared, NoWrites, ScanTypeOK
<1>19. CASE UNCHANGED scanVars
  BY <1>19 DEF scanVars, ScanTypeOK
<1>20. QED
  BY <1>1, <1>2, <1>3, <1>4, <1>5, <1>6, <1>7, <1>8, <1>9, <1>10, <1>11, <1>12, <1>13, <1>14,
     <1>15, <1>16, <1>17, <1>18, <1>19 DEF ScanNext, LoopStep, RequestStep

(* Every variable has its type; a folder is being matched by the pass      *)
(* exactly while it waits for the answer, and a refresh has loaded the row *)
(* it is about to write.                                                   *)
THEOREM ScanTypeCorrect == ScanSpec => []ScanTypeOK
<1>1. ScanInit => ScanTypeOK
  <2>1. Unprepared \in [Folders -> MatchRows] /\ DOMAIN NoWrites = {}
    BY DEF Unprepared, NoWrites
  <2>2. 0 \in 0..MaxScanRequests /\ 0 \in 0..MaxScanFaults
    BY ScanAssumption DEF ScanAssumption
  <2>3. QED
    BY <2>1, <2>2, ScanAssumption, Zenon DEF ScanInit, ScanTypeOK, ScanAssumption
<1>2. ScanTypeOK /\ OneScan /\ [ScanNext]_scanVars => ScanTypeOK'
  BY ScanTypeStep
<1>3. QED
  BY <1>1, <1>2, LeaseKept, PTL DEF ScanSpec
-------------------------------------------------------------------------------
\* Every step keeps the job row honest.
LEMMA JobRowStep ==
  ASSUME JobRowHonest, [ScanNext]_scanVars PROVE JobRowHonest'
<1> USE DEF JobRowHonest
<1>1. ASSUME NEW s \in Starters, Start(s) \/ Launch(s) \/ LaunchFails(s) PROVE JobRowHonest'
  BY <1>1 DEF Start, Launch, LaunchFails
<1>2. CASE LoopStep
  BY <1>2 DEF LoopStep, PassBegins, PassLoads, PassSaves, PassTakes, PassMatches,
              PassRecords, PassSleeps, PassFinds, JobEnds
<1>3. CASE PassDies
  BY <1>3, Zenon DEF PassDies
<1>4. CASE (\E f \in Folders : Control(f)) \/ BulkControl \/ ListFolders
  BY <1>4 DEF Control, BulkControl, ListFolders, Writes
<1>5. CASE RequestStep
  BY <1>5 DEF RequestStep, ControlWrites, RefreshLoads, RefreshMarks, RefreshMatches
<1>6. CASE ScanCrash
  BY <1>6 DEF ScanCrash
<1>7. CASE UNCHANGED scanVars
  BY <1>7 DEF scanVars
<1>8. QED
  BY <1>1, <1>2, <1>3, <1>4, <1>5, <1>6, <1>7 DEF ScanNext

(* When no loop runs, the job row does not say running, unless the end of  *)
(* a run could not be recorded.                                            *)
THEOREM JobRowTold == ScanSpec => []JobRowHonest
<1>1. ScanInit => JobRowHonest
  BY DEF ScanInit, JobRowHonest
<1>2. JobRowHonest /\ [ScanNext]_scanVars => JobRowHonest'
  BY JobRowStep
<1>3. QED
  BY <1>1, <1>2, PTL DEF ScanSpec
-------------------------------------------------------------------------------
(***************************************************************************)
(* What the pass has in hand: the folders it found paused are paused in    *)
(* its snapshot, and what it matches was pending there.                    *)
(***************************************************************************)
PassInv ==
  /\ \A f \in pausedThen : snap[f].status = "paused"
  /\ \A f \in targets : snap[f].status = "pending"
  /\ loop = "match" => snap[matching].status = "pending"
  /\ loop \notin {"target", "match", "record"} => targets = {}

\* Every step keeps what the pass has in hand.
LEMMA PassStep ==
  ASSUME ScanTypeOK, OneScan, PassInv, [ScanNext]_scanVars PROVE PassInv'
<1> USE DEF PassInv
<1>1. ASSUME NEW s \in Starters, Start(s) \/ Launch(s) \/ LaunchFails(s) PROVE PassInv'
  BY <1>1 DEF Start, Launch, LaunchFails, OneScan
<1>2. CASE PassBegins \/ PassRecords \/ PassSleeps
  BY <1>2 DEF PassBegins, PassRecords, PassSleeps
<1>3. CASE PassLoads
  BY <1>3 DEF PassLoads, Prepared, Prepare, ScanTypeOK
<1>4. CASE PassSaves
  BY <1>4 DEF PassSaves, QueuedIn
<1>5. ASSUME NEW f \in Folders, PassTakes(f) PROVE PassInv'
  BY <1>5 DEF PassTakes
<1>6. CASE PassMatches
  BY <1>6 DEF PassMatches
<1>7. CASE PassFinds \/ PassDies
  BY <1>7 DEF PassFinds, PassDies, LoopEnds
<1>8. CASE (\E f \in Folders : Control(f)) \/ BulkControl \/ ListFolders
  BY <1>8 DEF Control, BulkControl, ListFolders, Writes
<1>9. CASE RequestStep
  BY <1>9 DEF RequestStep, ControlWrites, RefreshLoads, RefreshMarks, RefreshMatches
<1>10. CASE ScanCrash
  BY <1>10 DEF ScanCrash
<1>11. CASE UNCHANGED scanVars
  BY <1>11 DEF scanVars
<1>12. QED
  BY <1>1, <1>2, <1>3, <1>4, <1>5, <1>6, <1>7, <1>8, <1>9, <1>10, <1>11 DEF ScanNext, LoopStep

\* A step that resumes such a folder is not one of the loop.
LEMMA PauseStep ==
  ASSUME ScanTypeOK, PassInv, [ScanNext]_scanVars, NEW f \in pausedThen,
         rows[f].status = "paused", rows'[f].status # "paused"
  PROVE  loop' = loop
<1> f \in Folders
  BY DEF ScanTypeOK
<1>1. CASE PassSaves
  BY <1>1 DEF PassSaves, PassInv
<1>2. ASSUME NEW g \in Folders, PassTakes(g) PROVE FALSE
  BY <1>2 DEF PassTakes, PassInv, ScanTypeOK
<1>3. CASE PassMatches
  <2>1. matching \in Folders /\ matching # f
    BY <1>3 DEF PassMatches, PassInv, ScanTypeOK
  <2>2. QED
    BY <1>3, <2>1 DEF PassMatches, ScanTypeOK
<1>4. CASE \/ PassBegins \/ PassLoads \/ PassRecords \/ PassSleeps \/ PassFinds
           \/ PassDies \/ ScanCrash
           \/ \E s \in Starters : Start(s) \/ Launch(s) \/ LaunchFails(s)
  BY <1>4 DEF PassBegins, PassLoads, PassRecords, PassSleeps, PassFinds, PassDies, ScanCrash, Start,
              Launch, LaunchFails
<1>5. CASE (\E g \in Folders : Control(g)) \/ BulkControl \/ ListFolders \/ RequestStep
  BY <1>5 DEF Control, BulkControl, ListFolders, Writes, RequestStep, ControlWrites,
              RefreshLoads, RefreshMarks, RefreshMatches
<1>6. CASE UNCHANGED scanVars
  BY <1>6 DEF scanVars
<1>7. QED
  BY <1>1, <1>2, <1>3, <1>4, <1>5, <1>6 DEF ScanNext, LoopStep

(* No step of a pass resumes a folder that the pass has found paused.      *)
THEOREM PauseKept == ScanSpec => PauseRespected
<1>1. ScanInit => PassInv
  BY DEF ScanInit, PassInv
<1>2. ScanTypeOK /\ OneScan /\ PassInv /\ [ScanNext]_scanVars => PassInv'
  BY PassStep
<1>3. ScanTypeOK /\ PassInv /\ [ScanNext]_scanVars
        => [\A f \in pausedThen :
              rows[f].status = "paused" /\ rows'[f].status # "paused" => loop' = loop]_scanVars
  BY PauseStep
<1>4. QED
  BY <1>1, <1>2, <1>3, ScanTypeCorrect, LeaseKept, PTL DEF ScanSpec, PauseRespected
-------------------------------------------------------------------------------
(***************************************************************************)
(* How often a folder is tried.  A row within the limit n has failed at    *)
(* most n times, and fewer if it may still be matched.                     *)
(***************************************************************************)
WithinLimit(row, n) == row.attempts <= n /\ (row.status # "failed" => row.attempts < n)

AttemptsWithin(n) ==
  /\ \A f \in Folders : WithinLimit(rows[f], n) /\ WithinLimit(snap[f], n)
  /\ request \in {"write", "refresh"} => \A f \in DOMAIN writes : WithinLimit(writes[f], n)
  /\ request \in {"mark", "match"} => writes[refreshing].attempts < n

\* Steps after which a folder may be tried once more than before.
Costly ==
  \/ RefreshLoads
  \/ BulkControl
  \/ (\E f \in Folders : Control(f)) /\ request' = "write"

\* Rows that are loaded, prepared, written, matched or given up stay within the limit.
LEMMA LimitKept ==
  ASSUME NEW n \in Nat, n >= MaxAttempts, NEW row \in MatchRows, WithinLimit(row, n)
  PROVE  /\ WithinLimit(Prepare(row), n)
         /\ WithinLimit(Fresh, n) /\ WithinLimit(Matched, n)
         /\ row.attempts < n => WithinLimit(Unmatched(row), n) /\ WithinLimit(As(row, "matching"), n)
BY ScanAssumption DEF WithinLimit, Prepare, RetryLeft, As, Fresh, Matched, Unmatched

\* A higher limit holds where a lower one does.
LEMMA LimitRaised ==
  ASSUME ScanTypeOK, NEW n \in Nat, NEW m \in Nat, n <= m, AttemptsWithin(n)
  PROVE  AttemptsWithin(m)
BY DEF AttemptsWithin, WithinLimit, ScanTypeOK

\* One more covers a request that puts failed folders back.
LEMMA PutBack ==
  ASSUME NEW n \in Nat, n >= MaxAttempts, NEW row \in MatchRows, WithinLimit(row, n)
  PROVE  /\ \A status \in MatchStatuses : WithinLimit(As(row, status), n + 1)
         /\ WithinLimit(Fresh, n) /\ row.attempts < n + 1
BY ScanAssumption DEF WithinLimit, As, Fresh

\* Every other step keeps the limit.
LEMMA AttemptsKept ==
  ASSUME ScanTypeOK, OneScan, PassInv, NEW n \in Nat, n >= MaxAttempts, AttemptsWithin(n),
         [ScanNext]_scanVars, ~Costly
  PROVE  AttemptsWithin(n)'
<1> USE DEF AttemptsWithin
<1>1. ASSUME NEW s \in Starters, Start(s) \/ Launch(s) \/ LaunchFails(s) PROVE AttemptsWithin(n)'
  BY <1>1 DEF Start, Launch, LaunchFails
<1>2. CASE PassBegins \/ PassRecords \/ PassSleeps \/ PassFinds
  BY <1>2 DEF PassBegins, PassRecords, PassSleeps, PassFinds
<1>3. CASE PassLoads
  <2>1. \A f \in Folders : WithinLimit(Prepare(rows[f]), n)
    BY LimitKept DEF ScanTypeOK
  <2>2. \A f \in Folders : WithinLimit(snap'[f], n)
    BY <1>3, <2>1 DEF PassLoads, Prepared
  <2>3. QED
    BY <1>3, <2>2 DEF PassLoads
<1>4. CASE PassSaves
  BY <1>4 DEF PassSaves
<1>5. ASSUME NEW f \in Folders, PassTakes(f) PROVE AttemptsWithin(n)'
  <2>1. WithinLimit(As(snap[f], "matching"), n)
    BY <1>5, LimitKept DEF PassTakes, PassInv, WithinLimit, ScanTypeOK
  <2>2. \A g \in Folders : WithinLimit(rows'[g], n)
    BY <1>5, <2>1 DEF PassTakes, ScanTypeOK
  <2>3. QED
    BY <1>5, <2>2 DEF PassTakes
<1>6. CASE PassMatches
  <2>1. matching \in Folders /\ snap[matching].status = "pending"
    BY <1>6 DEF PassMatches, PassInv, ScanTypeOK
  <2>2. WithinLimit(Matched, n) /\ WithinLimit(Unmatched(snap[matching]), n)
    BY <2>1, LimitKept DEF WithinLimit, ScanTypeOK
  <2>3. \A g \in Folders : WithinLimit(rows'[g], n)
    BY <1>6, <2>1, <2>2 DEF PassMatches, ScanTypeOK
  <2>4. QED
    BY <1>6, <2>3 DEF PassMatches
<1>7. CASE PassDies
  BY <1>7 DEF PassDies
<1>8. CASE ListFolders
  <2>1. WithinLimit(Fresh, n)
    BY ScanAssumption DEF WithinLimit, Fresh
  <2>2. request' = "write" /\ UNCHANGED <<rows, snap>> /\ \A f \in DOMAIN writes' : writes'[f] = Fresh
    BY <1>8 DEF ListFolders, Writes, Resetting
  <2>3. QED
    BY <2>1, <2>2
<1>9. CASE ControlWrites
  <2>1. \A f \in Folders : WithinLimit(rows'[f], n)
    BY <1>9 DEF ControlWrites
  <2>2. request' \in {"load", "idle"} /\ snap' = snap
    BY <1>9 DEF ControlWrites
  <2>3. QED
    BY <2>1, <2>2
<1>10. CASE RefreshMarks
  <2>1. refreshing \in Folders /\ writes[refreshing] \in MatchRows /\ writes[refreshing].attempts < n
    BY <1>10 DEF RefreshMarks, ScanTypeOK
  <2>2. WithinLimit(As(writes[refreshing], "matching"), n)
    BY <2>1, LimitKept DEF WithinLimit
  <2>3. \A g \in Folders : WithinLimit(rows'[g], n)
    BY <1>10, <2>1, <2>2 DEF RefreshMarks, ScanTypeOK
  <2>4. QED
    BY <1>10, <2>1, <2>3 DEF RefreshMarks
<1>11. CASE RefreshMatches
  <2>1. refreshing \in Folders /\ writes[refreshing] \in MatchRows /\ writes[refreshing].attempts < n
    BY <1>11 DEF RefreshMatches, ScanTypeOK
  <2>2. WithinLimit(Matched, n) /\ WithinLimit(Unmatched(writes[refreshing]), n)
    BY <2>1, LimitKept DEF WithinLimit
  <2>3. \A g \in Folders : WithinLimit(rows'[g], n)
    BY <1>11, <2>1, <2>2 DEF RefreshMatches, ScanTypeOK
  <2>4. QED
    BY <1>11, <2>3 DEF RefreshMatches
<1>12. CASE ScanCrash
  <2>1. \A f \in Folders : WithinLimit(snap'[f], n)
    BY <1>12, ScanAssumption DEF ScanCrash, Unprepared, WithinLimit
  <2>2. QED
    BY <1>12, <2>1 DEF ScanCrash
<1>13. CASE UNCHANGED scanVars
  BY <1>13 DEF scanVars
<1>14. ASSUME NEW f \in Folders, Control(f), request' # "write" PROVE AttemptsWithin(n)'
  <2>1. WithinLimit(Fresh, n)
    BY ScanAssumption DEF WithinLimit, Fresh
  <2>2. Writes(Resetting({f}), "refresh")
    BY <1>14, Zenon DEF Control, Writes
  <2>3. QED
    BY <2>1, <2>2 DEF Writes, Resetting
<1>15. QED
  BY <1>1, <1>2, <1>3, <1>4, <1>5, <1>6, <1>7, <1>8, <1>9, <1>10, <1>11, <1>12, <1>13, <1>14
     DEF Costly, ScanNext, LoopStep, RequestStep

\* These raise it by one.
LEMMA AttemptsRaised ==
  ASSUME ScanTypeOK, NEW n \in Nat, n >= MaxAttempts, AttemptsWithin(n),
         Costly
  PROVE  AttemptsWithin(n + 1)'
<1> USE DEF AttemptsWithin
<1>1. \A f \in Folders : /\ \A status \in MatchStatuses : WithinLimit(As(rows[f], status), n + 1)
                         /\ WithinLimit(Fresh, n + 1) /\ rows[f].attempts < n + 1
  BY PutBack DEF WithinLimit, Fresh, ScanTypeOK
<1>2. \A f \in Folders : WithinLimit(rows[f], n + 1) /\ WithinLimit(snap[f], n + 1)
  BY LimitRaised, n + 1 \in Nat, n <= n + 1
<1>3. ASSUME NEW written, NEW phase \in {"write", "refresh"}, Writes(written, phase),
             \A f \in DOMAIN written : WithinLimit(written[f], n + 1)
      PROVE  AttemptsWithin(n + 1)'
  BY <1>2, <1>3 DEF Writes
<1>4. ASSUME NEW f \in Folders, Control(f) PROVE AttemptsWithin(n + 1)'
  <2>1. CASE Writes(Setting({f}, "paused"), "write") \/ Writes(Setting({f}, "pending"), "write")
    BY <1>1, <1>3, <2>1 DEF Setting
  <2>2. CASE Writes(Resetting({f}), "write") \/ Writes(Resetting({f}), "refresh")
    BY <1>1, <1>3, <2>2 DEF Resetting
  <2>3. QED
    BY <1>4, <2>1, <2>2 DEF Control
<1>5. CASE BulkControl
  <2>1. CASE \/ Writes(Setting(InStatus("pending"), "paused"), "write")
             \/ Writes(Setting(InStatus("paused"), "pending"), "write")
    BY <1>1, <1>3, <2>1 DEF Setting, InStatus
  <2>2. CASE Writes(Resetting(InStatus("failed")), "write")
    BY <1>1, <1>3, <2>2 DEF Resetting, InStatus
  <2>3. QED
    BY <1>5, <2>1, <2>2 DEF BulkControl
<1>6. CASE RefreshLoads
  <2>1. refreshing \in Folders
    BY <1>6 DEF RefreshLoads, ScanTypeOK
  <2>2. writes'[refreshing'] = rows[refreshing]
    BY <1>6, <2>1 DEF RefreshLoads
  <2>3. QED
    BY <1>1, <1>2, <1>6, <2>1, <2>2 DEF RefreshLoads
<1>7. QED
  BY <1>4, <1>5, <1>6 DEF Costly

\* What a refresh may still cost is not yet allowed for.
Allowed == MaxAttempts + scanRequests - (IF request \in {"refresh", "load"} THEN 1 ELSE 0)
AttemptsInv == Allowed \in Nat /\ Allowed >= MaxAttempts /\ AttemptsWithin(Allowed)

AttemptsBounded == \A f \in Folders : rows[f].attempts <= MaxAttempts + scanRequests

\* A costly step raises it by one, and no step lowers it.
Raises == (Costly => Allowed' = Allowed + 1) /\ Allowed' \in Int /\ Allowed' >= Allowed

LEMMA AllowedRaises ==
  ASSUME ScanTypeOK, [ScanNext]_scanVars PROVE Raises
<1>1. scanRequests \in Nat /\ MaxAttempts \in Nat
  BY ScanAssumption DEF ScanTypeOK
<1>2. CASE UNCHANGED <<request, scanRequests>>
  <2>1. ~Costly
    BY <1>1, <1>2 DEF Costly, RefreshLoads, BulkControl, Control, Writes, ScanRequest
  <2>2. QED
    BY <1>1, <1>2, <2>1 DEF Raises, Allowed
<1>3. CASE request' = request /\ scanRequests' = scanRequests + 1
  <2>1. ~Costly
    BY <1>3 DEF Costly, RefreshLoads, BulkControl, Control, Writes
  <2>2. QED
    BY <1>1, <1>3, <2>1 DEF Raises, Allowed
<1>4. CASE /\ request = "idle" /\ request' \in {"write", "refresh"}
           /\ scanRequests' = scanRequests + 1
  <2>1. Costly => request' = "write"
    BY <1>4 DEF Costly, RefreshLoads, BulkControl, Writes
  <2>2. QED
    BY <1>1, <1>4, <2>1 DEF Raises, Allowed
<1>5. CASE /\ \/ request # "idle" /\ request' \in {"idle", "match"}
              \/ request = "refresh" /\ request' = "load"
           /\ UNCHANGED scanRequests
  <2>1. ~Costly
    BY <1>5 DEF Costly, RefreshLoads, BulkControl, Control, Writes
  <2>2. QED
    BY <1>1, <1>5, <2>1 DEF Raises, Allowed
<1>6. CASE request = "load" /\ request' = "mark" /\ UNCHANGED scanRequests
  BY <1>1, <1>6 DEF Raises, Allowed
<1>7. ASSUME NEW s \in Starters, Start(s) \/ Launch(s) \/ LaunchFails(s) PROVE Raises
  BY <1>2, <1>3, <1>7 DEF Start, Launch, LaunchFails, ScanRequest, controls
<1>8. CASE LoopStep \/ PassDies
  BY <1>2, <1>8 DEF LoopStep, PassDies, PassBegins, PassLoads, PassSaves, PassTakes, PassMatches,
                    PassRecords, PassSleeps, PassFinds, controls
<1>9. CASE (\E f \in Folders : Control(f)) \/ BulkControl \/ ListFolders
  <2>1. ASSUME NEW written, NEW phase \in {"write", "refresh"}, Writes(written, phase)
        PROVE  Raises
    BY <1>4, <2>1 DEF Writes, ScanRequest
  <2>2. QED
    BY <1>9, <2>1, Zenon DEF Control, BulkControl, ListFolders
<1>10. CASE RequestStep
  <2>1. CASE RefreshLoads
    BY <1>6, <2>1 DEF RefreshLoads
  <2>2. CASE ControlWrites \/ RefreshMarks \/ RefreshMatches
    BY <1>5, <2>2 DEF ControlWrites, RefreshMarks, RefreshMatches
  <2>3. QED
    BY <1>10, <2>1, <2>2 DEF RequestStep
<1>11. CASE ScanCrash
  BY <1>2, <1>5, <1>11 DEF ScanCrash
<1>12. CASE UNCHANGED scanVars
  BY <1>2, <1>12 DEF scanVars
<1>13. QED
  BY <1>7, <1>8, <1>9, <1>10, <1>11, <1>12 DEF ScanNext

\* Every step keeps that.
LEMMA AttemptsStep ==
  ASSUME ScanTypeOK, OneScan, PassInv, AttemptsInv, [ScanNext]_scanVars
  PROVE  AttemptsInv'
<1>1. Allowed \in Nat /\ Allowed >= MaxAttempts /\ AttemptsWithin(Allowed)
  BY DEF AttemptsInv
<1>2. Raises /\ MaxAttempts \in Nat
  BY AllowedRaises, ScanAssumption
<1>3. Allowed' \in Nat /\ Allowed' >= MaxAttempts
  BY <1>1, <1>2 DEF Raises
<1>4. ScanTypeOK'
  BY ScanTypeStep
<1>5. PICK n \in Nat : n = Allowed
  BY <1>1
<1>6. PICK m \in Nat : m = Allowed'
  BY <1>3
<1>7. CASE Costly
  <2>1. AttemptsWithin(n + 1)'
    BY <1>1, <1>5, <1>7, AttemptsRaised
  <2>2. m = n + 1
    BY <1>2, <1>5, <1>6, <1>7 DEF Raises
  <2>3. QED
    BY <1>3, <1>6, <2>1, <2>2 DEF AttemptsInv
<1>8. CASE ~Costly
  <2>1. AttemptsWithin(n)'
    BY <1>1, <1>5, <1>8, AttemptsKept
  <2>2. n <= m
    BY <1>2, <1>5, <1>6 DEF Raises
  <2>3. AttemptsWithin(m)'
    BY <1>4, <2>1, <2>2 DEF AttemptsWithin, WithinLimit, ScanTypeOK
  <2>4. QED
    BY <1>3, <1>6, <2>3 DEF AttemptsInv
<1>9. QED
  BY <1>7, <1>8

(* A folder is tried MaxAttempts times, and at most once more for every    *)
(* request meanwhile, however snapshots and requests overwrite each        *)
(* other's rows: the safety core of ScanEnds.                              *)
THEOREM FolderGivenUp == ScanSpec => []AttemptsBounded
<1>1. ScanInit => AttemptsInv
  BY ScanAssumption
     DEF ScanInit, AttemptsInv, Allowed, AttemptsWithin, WithinLimit, Unprepared, NoWrites
<1>2. ScanInit => PassInv
  BY DEF ScanInit, PassInv
<1>3. ScanTypeOK /\ OneScan /\ PassInv /\ [ScanNext]_scanVars => PassInv'
  BY PassStep
<1>4. ScanTypeOK /\ OneScan /\ PassInv /\ AttemptsInv /\ [ScanNext]_scanVars => AttemptsInv'
  BY AttemptsStep
<1>5. ScanTypeOK /\ AttemptsInv => AttemptsBounded
  <2> SUFFICES ASSUME ScanTypeOK, AttemptsInv, NEW f \in Folders
               PROVE  rows[f].attempts <= MaxAttempts + scanRequests
    BY DEF AttemptsBounded
  <2>1. rows[f].attempts \in Nat /\ scanRequests \in Nat /\ MaxAttempts \in Nat
    BY ScanAssumption DEF ScanTypeOK
  <2>2. rows[f].attempts <= Allowed
    BY DEF AttemptsInv, AttemptsWithin, WithinLimit
  <2>3. QED
    BY <2>1, <2>2 DEF Allowed
<1>6. QED
  BY <1>1, <1>2, <1>3, <1>4, <1>5, ScanTypeCorrect, LeaseKept, PTL DEF ScanSpec

\* Nobody puts a folder back in the queue or asks for one to be matched again.
NoRequestRetries == [][~(\E f \in Folders : Control(f)) /\ ~BulkControl]_scanVars
TriedInTime == \A f \in Folders : rows[f].attempts <= MaxAttempts

(* As long as nobody puts a folder back or refreshes one, no folder is     *)
(* tried more than MaxAttempts times, across passes, scans and restarts.   *)
THEOREM PassTriesInTime == ScanSpec /\ NoRequestRetries => []TriedInTime
<1> DEFINE I == AttemptsWithin(MaxAttempts) /\ request \in {"idle", "write"}
<1>1. ScanInit => I /\ PassInv
  BY ScanAssumption
     DEF ScanInit, PassInv, AttemptsWithin, WithinLimit, Unprepared, NoWrites
<1>2. ScanTypeOK /\ OneScan /\ PassInv /\ [ScanNext]_scanVars => PassInv'
  BY PassStep
<1>3. ASSUME ScanTypeOK, OneScan, PassInv, I, [ScanNext]_scanVars,
             [~(\E f \in Folders : Control(f)) /\ ~BulkControl]_scanVars
      PROVE  I'
  <2>1. ~Costly
    BY <1>3 DEF Costly, scanVars, RefreshLoads, BulkControl, Control, Writes
  <2>2. AttemptsWithin(MaxAttempts)'
    BY <1>3, <2>1, AttemptsKept, ScanAssumption
  <2>3. request' \in {"idle", "write"}
    <3>1. CASE LoopStep \/ PassDies \/ ScanCrash
      BY <1>3, <3>1 DEF LoopStep, PassDies, ScanCrash, PassBegins, PassLoads, PassSaves, PassTakes,
                        PassMatches, PassRecords, PassSleeps, PassFinds
    <3>2. CASE ListFolders \/ \E s \in Starters : Start(s) \/ Launch(s) \/ LaunchFails(s)
      BY <1>3, <3>2, Zenon DEF ListFolders, Writes, Start, Launch, LaunchFails, controls
    <3>3. CASE RequestStep
      BY <1>3, <3>3 DEF RequestStep, ControlWrites, RefreshLoads, RefreshMarks, RefreshMatches
    <3>4. CASE UNCHANGED scanVars
      BY <1>3, <3>4 DEF scanVars
    <3>5. QED
      BY <1>3, <3>1, <3>2, <3>3, <3>4 DEF ScanNext, scanVars
  <2>4. QED
    BY <2>2, <2>3
<1>4. I => TriedInTime
  BY DEF AttemptsWithin, WithinLimit, TriedInTime
<1>5. QED
  BY <1>1, <1>2, <1>3, <1>4, ScanTypeCorrect, LeaseKept, PTL DEF ScanSpec, NoRequestRetries
===============================================================================
