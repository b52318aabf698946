--------------------------- MODULE ConfigActivation ---------------------------
(***************************************************************************)
(* Replacing the system configuration of a running process                 *)
(* (features/system/system-config-update-service.ts, config-activation.ts, *)
(* runtime-config-snapshot-service.ts, background/controller-core.ts, and  *)
(* the part of app/startup.ts that loads it).                              *)
(*                                                                         *)
(* The configuration lives in four places: the row of table app_config,    *)
(* the cached snapshot every feature reads, the generation of background   *)
(* workers that was spawned from it, and the log level.  An update writes  *)
(* them one after the other under updateSemaphore, while readers fill the  *)
(* snapshot on demand under loadSemaphore.                                 *)
(*                                                                         *)
(* A configuration is a value: the core row and the profile rows are       *)
(* written in one transaction and stand for one value here.  The runtime   *)
(* may switch fibers between any two actions.                              *)
(***************************************************************************)
EXTENDS Naturals

CONSTANTS
  Configs,        \* configurations that pass validateConfigUpdate
  Default,        \* makeDefaultConfig
  Unspawnable,    \* those whose schedule makes the spawn of the workers fail
  Corrupt,        \* a row that cannot be decoded
  None,           \* no value
  Updates,        \* fibers of PUT /system/config
  Readers,        \* fibers that call getRuntimeConfig
  SpawnFailures,  \* how a spawn fails: "failure" (typed) or "defect"
  Faults,         \* kinds of fault that may happen
  MaxFaults       \* bound on the number of faults

FaultKinds == {"crash", "interrupt", "persist", "load", "log"}

ASSUME ConfigAssumption ==
  /\ Default \in Configs \ Unspawnable
  /\ Unspawnable \subseteq Configs
  /\ Corrupt \notin Configs /\ None \notin Configs /\ Corrupt # None
  /\ Updates \cap Readers = {}
  /\ SpawnFailures \subseteq {"failure", "defect"}
  /\ Faults \subseteq FaultKinds
  /\ MaxFaults \in Nat

VARIABLES
  stored,     \* row of app_config
  up,         \* the process has started its workers and serves requests
  snapshot,   \* configRef
  workers,    \* scopeRef: the configuration the current workers were spawned from
  closing,    \* the generation of workers reload is closing
  leftover,   \* generations an interrupted close has left running
  level,      \* the configuration whose log level is applied
  pc,         \* phase of every fiber
  next, prev, \* of an update: nextState and previousState
  loaded,     \* of a reader: what getConfig returned
  disturbed,  \* history: an activation failed or was cut short since the last
              \* one that went through, or since the start
  faults

vars == <<stored, up, snapshot, workers, closing, leftover, level, pc, next, prev,
          loaded, disturbed, faults>>
memory == <<snapshot, workers, closing, leftover, level>>
locals == <<next, prev, loaded>>

Fibers == Updates \cup Readers
UpdatePhases == {"idle", "persist", "snapshot", "reload", "close", "level", "log", "rollback"}
ReadPhases   == {"idle", "load", "store"}

NoFallback(c) == c  \* mutant
\* What getConfig makes of the row, with the fallback of startBackgroundWorkers.
Effective(c) == IF c = Corrupt THEN Default ELSE c

Updating(u) == pc[u] # "idle"
AtRest == \A u \in Updates : ~Updating(u)

NoFault == UNCHANGED faults
Fault(kind) ==
  /\ kind \in Faults
  /\ faults < MaxFaults
  /\ faults' = faults + 1

TypeOK ==
  /\ stored \in Configs \cup {Corrupt}
  /\ up \in BOOLEAN
  /\ snapshot \in Configs \cup {None}
  /\ workers \in Configs \cup {None}
  /\ closing \in Configs \cup {None}
  /\ leftover \subseteq Configs
  /\ level \in Configs
  /\ pc \in [Fibers -> UpdatePhases \cup ReadPhases]
  /\ \A u \in Updates : pc[u] \in UpdatePhases
  /\ \A r \in Readers : pc[r] \in ReadPhases
  /\ next \in [Updates -> Configs \cup {None}]
  /\ prev \in [Updates -> Configs \cup {Corrupt, None}]
  /\ loaded \in [Readers -> Configs \cup {None}]
  /\ disturbed \in BOOLEAN
  /\ faults \in 0..MaxFaults
  /\ \A u \in Updates : Updating(u) =>
       next[u] \in Configs /\ prev[u] \in Configs \cup {Corrupt}
  /\ \A r \in Readers : pc[r] = "store" => loaded[r] \in Configs

Init ==
  /\ stored \in (Configs \ Unspawnable) \cup {Corrupt}
  /\ up = FALSE
  /\ snapshot = None
  /\ workers = None
  /\ closing = None
  /\ leftover = {}
  /\ level = Default
  /\ pc = [f \in Fibers |-> "idle"]
  /\ next = [u \in Updates |-> None]
  /\ prev = [u \in Updates |-> None]
  /\ loaded = [r \in Readers |-> None]
  /\ disturbed = FALSE
  /\ faults = 0

GoTo(f, phase) == pc' = [pc EXCEPT ![f] = phase]

\* The fiber of an update ends, with an answer or an error.
End(u) ==
  /\ GoTo(u, "idle")
  /\ next' = [next EXCEPT ![u] = None]
  /\ prev' = [prev EXCEPT ![u] = None]
-------------------------------------------------------------------------------
(***************************************************************************)
(* Startup, before the first request: bootstrapProgram applies the log     *)
(* level, startBackgroundWorkers loads the row and spawns the workers.     *)
(* Under a row that cannot be decoded the process runs on the defaults;    *)
(* under one whose workers cannot be spawned it does not come up.          *)
(***************************************************************************)
Start ==
  /\ ~up
  /\ Effective(stored) \notin Unspawnable
  /\ up' = TRUE
  /\ workers' = Effective(stored)
  /\ snapshot' = IF stored = Corrupt THEN Default ELSE snapshot
  /\ level' = Effective(stored)
  /\ disturbed' = FALSE
  /\ NoFault
  /\ UNCHANGED <<stored, closing, leftover, pc, locals>>

\* The database survives, everything else is gone.
Crash ==
  /\ up
  /\ Fault("crash")
  /\ up' = FALSE
  /\ snapshot' = None
  /\ workers' = None
  /\ closing' = None
  /\ leftover' = {}
  /\ level' = Default
  /\ pc' = [f \in Fibers |-> "idle"]
  /\ next' = [u \in Updates |-> None]
  /\ prev' = [u \in Updates |-> None]
  /\ loaded' = [r \in Readers |-> None]
  /\ UNCHANGED <<stored, disturbed>>
-------------------------------------------------------------------------------
(***************************************************************************)
(* updateConfig.                                                           *)
(***************************************************************************)
IgnoreLock == TRUE  \* mutant
LockFree == AtRest

\* Under updateSemaphore: read the rows, validate, build nextState and previousState.
Begin(u, c) ==
  /\ up
  /\ pc[u] = "idle"
  /\ LockFree
  /\ next' = [next EXCEPT ![u] = c]
  /\ prev' = [prev EXCEPT ![u] = stored]
  /\ GoTo(u, "persist")
  /\ NoFault
  /\ UNCHANGED <<stored, up, memory, loaded, disturbed>>

\* updateSystemConfigAtomic(nextState)
Persist(u) ==
  /\ pc[u] = "persist"
  /\ stored' = next[u]
  /\ GoTo(u, "snapshot")
  /\ NoFault
  /\ UNCHANGED <<up, memory, locals, disturbed>>

PersistFails(u) ==
  /\ pc[u] = "persist"
  /\ Fault("persist")
  /\ End(u)
  /\ UNCHANGED <<stored, up, memory, loaded, disturbed>>

ReplaceSnapshot(u) ==
  /\ pc[u] = "snapshot"
  /\ snapshot' = next[u]
  /\ GoTo(u, "reload")
  /\ NoFault
  /\ UNCHANGED <<stored, up, workers, closing, leftover, level, locals, disturbed>>

\* reload: spawn the new generation, then swap it in, then close the old one.
Reload(u) ==
  /\ pc[u] = "reload"
  /\ next[u] \notin Unspawnable
  /\ workers' = next[u]
  /\ closing' = workers
  /\ GoTo(u, "close")
  /\ NoFault
  /\ UNCHANGED <<stored, up, snapshot, leftover, level, locals, disturbed>>

\* spawnWorkerScope closes what it has spawned and fails with the same cause.  Of
\* the two causes Effect.either turns only the typed one into a rollback.
ReloadFails(u) ==
  /\ pc[u] = "reload"
  /\ next[u] \in Unspawnable
  /\ \/ "failure" \in SpawnFailures /\ GoTo(u, "rollback") /\ UNCHANGED <<next, prev>>
     \/ "defect" \in SpawnFailures /\ End(u)
  /\ disturbed' = TRUE
  /\ NoFault
  /\ UNCHANGED <<stored, up, memory, loaded>>

Close(u) ==
  /\ pc[u] = "close"
  /\ closing' = None
  /\ GoTo(u, "level")
  /\ NoFault
  /\ UNCHANGED <<stored, up, snapshot, workers, leftover, level, locals, disturbed>>

SetLevel(u) ==
  /\ pc[u] = "level"
  /\ level' = next[u]
  /\ disturbed' = FALSE
  /\ GoTo(u, "log")
  /\ NoFault
  /\ UNCHANGED <<stored, up, snapshot, workers, closing, leftover, locals>>

\* appendLog: the update succeeds, or is reported as failed with everything applied.
AppendLog(u) ==
  /\ pc[u] = "log"
  /\ NoFault \/ Fault("log")
  /\ End(u)
  /\ UNCHANGED <<stored, up, memory, loaded, disturbed>>

\* updateSystemConfigAtomic(previousState)
Rollback(u) ==
  /\ pc[u] = "rollback"
  /\ \/ stored' = prev[u] /\ NoFault
     \/ Fault("persist") /\ UNCHANGED stored
  /\ End(u)
  /\ UNCHANGED <<up, memory, loaded, disturbed>>

\* The client goes away.  A transaction on its way may still commit; Scope.close
\* stops the workers one by one and leaves those it has not come to.
Interrupt(u) ==
  /\ Updating(u)
  /\ Fault("interrupt")
  /\ \/ pc[u] = "persist" /\ stored' = next[u]
     \/ pc[u] = "rollback" /\ stored' = prev[u]
     \/ UNCHANGED stored
  /\ IF pc[u] = "close"
     THEN closing' = None /\ leftover' \in {leftover, leftover \cup {closing}}
     ELSE UNCHANGED <<closing, leftover>>
  /\ disturbed' = (disturbed \/ (pc[u] # "log" /\ stored' = next[u]))
  /\ End(u)
  /\ UNCHANGED <<up, snapshot, workers, level, loaded>>
-------------------------------------------------------------------------------
(***************************************************************************)
(* getRuntimeConfig, when the snapshot is empty.                           *)
(***************************************************************************)
StartLoad(r) ==
  /\ up
  /\ snapshot = None
  /\ \A f \in Readers : pc[f] = "idle"
  /\ GoTo(r, "load")
  /\ NoFault
  /\ UNCHANGED <<stored, up, memory, locals, disturbed>>

Load(r) ==
  /\ pc[r] = "load"
  /\ stored # Corrupt
  /\ loaded' = [loaded EXCEPT ![r] = stored]
  /\ GoTo(r, "store")
  /\ NoFault
  /\ UNCHANGED <<stored, up, memory, next, prev, disturbed>>

LoadFails(r) ==
  /\ pc[r] = "load"
  /\ \/ stored = Corrupt /\ NoFault
     \/ Fault("load")
  /\ GoTo(r, "idle")
  /\ UNCHANGED <<stored, up, memory, locals, disturbed>>

\* The lost-update guard: a configuration put there meanwhile stays.
TakeLoaded(r) == loaded[r]  \* mutant
Newer(r) == IF snapshot = None THEN loaded[r] ELSE snapshot

StoreSnapshot(r) ==
  /\ pc[r] = "store"
  /\ snapshot' = Newer(r)
  /\ loaded' = [loaded EXCEPT ![r] = None]
  /\ GoTo(r, "idle")
  /\ NoFault
  /\ UNCHANGED <<stored, up, workers, closing, leftover, level, next, prev, disturbed>>

Update(u) ==
  \/ \E c \in Configs : Begin(u, c)
  \/ Persist(u) \/ PersistFails(u) \/ ReplaceSnapshot(u)
  \/ Reload(u) \/ ReloadFails(u) \/ Close(u) \/ SetLevel(u) \/ AppendLog(u)
  \/ Rollback(u) \/ Interrupt(u)

Read(r) == StartLoad(r) \/ Load(r) \/ LoadFails(r) \/ StoreSnapshot(r)

Next ==
  \/ Start \/ Crash
  \/ \E u \in Updates : Update(u)
  \/ \E r \in Readers : Read(r)

Spec == Init /\ [][Next]_vars
-------------------------------------------------------------------------------
(***************************************************************************)
(* Properties.                                                             *)
(***************************************************************************)

\* The row, the snapshot, the workers and the log level are those of one configuration.
Agree ==
  /\ snapshot \in {None, Effective(stored)}
  /\ workers = Effective(stored)
  /\ level = Effective(stored)

(* An update that is about to report success has put its configuration in  *)
(* all four places, whatever other updates and loads went on meanwhile.    *)
AppliedBeforeAnswer ==
  \A u \in Updates : pc[u] = "log" =>
    /\ stored = next[u] /\ snapshot = next[u] /\ workers = next[u] /\ level = next[u]
    /\ closing = None

(* Why: the phases of the one update under the lock say how far its        *)
(* configuration has got, and outside of them nothing but a disturbance    *)
(* separates the four places.  A load that would fill the snapshot holds   *)
(* the current row, unless an update has yet to replace the snapshot.      *)
Steady(u) == pc[u] \in {"idle", "persist"}
Progress(u) ==
  /\ pc[u] = "snapshot" => stored = next[u]
  /\ pc[u] \in {"reload", "close", "level", "log"} => stored = next[u] /\ snapshot = next[u]
  /\ pc[u] \in {"close", "level", "log"} => workers = next[u]
  /\ pc[u] = "close" => closing \in Configs
  /\ pc[u] \in {"level", "log"} => closing = None
  /\ pc[u] = "log" => level = next[u]
  /\ pc[u] = "rollback" => disturbed
ActivationInv ==
  /\ up => workers \in Configs
  /\ ~up => snapshot = None /\ \A f \in Fibers : pc[f] = "idle"
  /\ \A u, v \in Updates : Updating(u) /\ Updating(v) => u = v
  /\ \A u \in Updates : Progress(u)
  /\ up /\ (\A u \in Updates : Steady(u)) /\ ~disturbed =>
       /\ Agree
       /\ \A r \in Readers : snapshot = None /\ pc[r] = "store" => loaded[r] = stored

(* Between updates the four places agree, after failed writes, failed      *)
(* loads, crashes and restarts; and if an activation has failed or was cut *)
(* short, the next update that goes through brings them back together.     *)
AgreeUnlessDisturbed == up /\ AtRest /\ ~disturbed => Agree

(* "a failure then leaves a consistent old state for the DB rollback to    *)
(* restore" (system-config-update-service.ts, updateConfig): an update     *)
(* that has ended, well or not, leaves the four places in agreement.       *)
AgreeAtRest == up /\ AtRest => Agree

(* "BackgroundWorkerController reload spawns new workers and stops old"    *)
(* (background/workers_test.ts): between updates one generation runs.      *)
OneGeneration == AtRest => leftover = {}
===============================================================================
