-------------------------- MODULE ProgressPublication --------------------------
(***************************************************************************)
(* Publishing the progress of downloads.  Whoever changes the table        *)
(* downloads publishes a snapshot of it afterwards: at once                *)
(* (publishDownloadProgressNow of operations-progress-service.ts) or       *)
(* coalesced, through the drain runner of                                  *)
(* infra/effect/serialized-runner.ts.  The event bus (event-bus.ts) gives  *)
(* the event to the queue of every subscriber; a client of /api/events     *)
(* (system-events-service.ts) subscribes, loads a snapshot itself, folds   *)
(* what was buffered meanwhile into it and then follows the queue.  One    *)
(* that comes back later is one that comes later.  The queue carries the   *)
(* notifications of the whole program, progress of scans and of RSS checks *)
(* and messages beside the snapshots.                                      *)
(*                                                                         *)
(* The table is the number of changes made to it, a snapshot the number it *)
(* has seen.  Publishers read all the active rows, a client loads 200 of   *)
(* them at most.  A Deferred is named after the fiber that made it.        *)
(***************************************************************************)
EXTENDS Naturals, Sequences

CONSTANTS
  Immediate,          \* fibers that publish at once: sync pass, trigger, action, reconcile
  Coalesced,          \* fibers that trigger the runner: the RSS worker, the missing search
  Capacity,           \* of the queue of a subscriber, DEFAULT_EVENT_BUS_CAPACITY
  NoFiber,
  Notice,             \* an event that is not a snapshot of the downloads
  Crowded,            \* the changes after which the table has more rows than a client loads
  MaxProgressFaults   \* bound on failing reads and interruptions

Changers == Immediate \cup Coalesced

ASSUME ProgressAssumption ==
  /\ Immediate \cap Coalesced = {}
  /\ NoFiber \notin Changers
  /\ Notice \notin Nat
  /\ Capacity \in Nat \ {0}
  /\ Crowded \subseteq Nat
  /\ MaxProgressFaults \in Nat

VARIABLES
  version,        \* the table downloads
  doing,          \* doing[f]: where fiber f is
  mine,           \* mine[f]: the table with the change of f in it
  snapshot,       \* snapshot[f]: what f has read and is about to publish
  completion, pending,  \* state of the runner: the Deferred of the lead or NoFiber
  awaits,         \* awaits[f]: the Deferred that f follows
  clientAt, view, \* the client, and what it shows
  partial,        \* it shows what it loaded, and the limit has cut rows off
  queue,          \* its subscription
  published,      \* the snapshot published last
  newest,         \* the newest snapshot published
  byRunner,       \* the snapshot published last by the runner
  evicted,        \* its queue has lost the last snapshot in it to another event
  preempted,      \* a fiber has come to lead before the last lead had settled
  progressFaults

runner == <<completion, pending>>
client == <<clientAt, view, partial>>
bus    == <<queue, evicted, published, newest, byRunner, preempted>>
progressVars == <<version, doing, mine, snapshot, completion, pending, awaits, clientAt,
                  view, partial, queue, evicted, published, newest, byRunner, preempted,
                  progressFaults>>

Versions == Nat
Events == Versions \cup {Notice}
Settled == {"ok", "failed"}

ProgressTypeOK ==
  /\ version \in Versions
  /\ doing \in [Changers -> {"idle", "trigger", "read", "publish", "follow", "settle"} \cup Settled]
  /\ mine \in [Changers -> Versions]
  /\ snapshot \in [Changers -> Versions]
  /\ completion \in Coalesced \cup {NoFiber}
  /\ pending \in BOOLEAN
  /\ awaits \in [Changers -> Coalesced \cup {NoFiber}]
  /\ clientAt \in {"away", "subscribed", "loaded", "live"} /\ view \in Versions
  /\ partial \in BOOLEAN /\ evicted \in BOOLEAN
  /\ queue \in Seq(Events) /\ Len(queue) <= Capacity
  /\ published \in Versions /\ newest \in Versions /\ byRunner \in Versions
  /\ preempted \in BOOLEAN
  /\ progressFaults \in 0..MaxProgressFaults

ProgressInit ==
  /\ version = 0
  /\ doing = [f \in Changers |-> "idle"]
  /\ mine = [f \in Changers |-> 0]
  /\ snapshot = [f \in Changers |-> 0]
  /\ completion = NoFiber /\ pending = FALSE
  /\ awaits = [f \in Changers |-> NoFiber]
  /\ clientAt = "away" /\ view = 0 /\ partial = FALSE
  /\ queue = <<>> /\ evicted = FALSE
  /\ published = 0 /\ newest = 0 /\ byRunner = 0
  /\ preempted = FALSE
  /\ progressFaults = 0

NoProgressFault == UNCHANGED progressFaults
ProgressFault == progressFaults < MaxProgressFaults /\ progressFaults' = progressFaults + 1
Turns(f, place) == doing' = [doing EXCEPT ![f] = place]
-------------------------------------------------------------------------------
(***************************************************************************)
(* publishDownloadProgressNow.                                             *)
(***************************************************************************)
\* The change a fiber publishes afterwards.
Change(f) ==
  /\ doing[f] = "idle"
  /\ version' = version + 1
  /\ mine' = [mine EXCEPT ![f] = version']
  /\ Turns(f, IF f \in Coalesced THEN "trigger" ELSE "read")
  /\ NoProgressFault
  /\ UNCHANGED <<snapshot, runner, awaits, client, bus>>

\* getDownloadProgress.
Read(f) ==
  /\ doing[f] = "read"
  /\ snapshot' = [snapshot EXCEPT ![f] = version]
  /\ Turns(f, "publish")
  /\ NoProgressFault
  /\ UNCHANGED <<version, mine, runner, awaits, client, bus>>

\* PubSub.sliding: a full queue loses its oldest event.
Dropping(q, e) == IF Len(q) = Capacity THEN q ELSE Append(q, e)  \* mutant
Sliding(q, e) == Append(IF Len(q) = Capacity THEN Tail(q) ELSE q, e)

Publish(f) ==
  /\ published' = snapshot[f]
  /\ newest' = IF snapshot[f] > newest THEN snapshot[f] ELSE newest
  /\ queue' = IF clientAt = "away" THEN queue ELSE Sliding(queue, snapshot[f])
  /\ evicted' = FALSE
  /\ snapshot' = [snapshot EXCEPT ![f] = 0]

\* Every snapshot in the queue q has gone.
NoSnapshot(q) == \A i \in 1..Len(q) : q[i] = Notice

\* Another notification: of a scan, an RSS check, a failure, a message.
Notify ==
  /\ clientAt # "away"
  /\ queue' = Sliding(queue, Notice)
  /\ evicted' = (evicted \/ (~NoSnapshot(queue) /\ NoSnapshot(queue')))
  /\ NoProgressFault
  /\ UNCHANGED <<version, doing, mine, snapshot, runner, awaits, client, published, newest,
                 byRunner, preempted>>

PublishNow(f) ==
  /\ f \in Immediate
  /\ doing[f] = "publish"
  /\ Publish(f)
  /\ Turns(f, "ok")
  /\ NoProgressFault
  /\ UNCHANGED <<version, mine, runner, awaits, client, byRunner, preempted>>

ReadFails(f) ==
  /\ doing[f] = "read"
  /\ f \in Immediate
  /\ ProgressFault
  /\ Turns(f, "failed")
  /\ UNCHANGED <<version, mine, snapshot, runner, awaits, client, bus>>
-------------------------------------------------------------------------------
(***************************************************************************)
(* makeSerializedDrainEffectRunner.                                        *)
(***************************************************************************)
FollowSilently == UNCHANGED pending  \* mutant
FollowMarks == pending' = TRUE

FreeAlways == TRUE  \* mutant
Free == completion = NoFiber

\* trigger: lead, or follow the one who leads and ask for another run.
Claim(f) ==
  /\ doing[f] = "trigger"
  /\ IF Free
     THEN /\ completion' = f
          /\ pending' = FALSE
          /\ Turns(f, "read")
          /\ preempted' = (preempted \/ \E g \in Coalesced : doing[g] = "settle")
          /\ UNCHANGED awaits
     ELSE /\ awaits' = [awaits EXCEPT ![f] = completion]
          /\ FollowMarks
          /\ Turns(f, "follow")
          /\ UNCHANGED <<completion, preempted>>
  /\ NoProgressFault
  /\ UNCHANGED <<version, mine, snapshot, client, queue, evicted, published, newest,
                 byRunner>>

\* settle: the state is reset, whoever leads by now, and all who await the Deferred of f
\* get the outcome.
KeepsFollowers(f, outcome) == Turns(f, outcome)  \* mutant
Answer(f, outcome) ==
  doing' = [g \in Changers |->
              IF g = f \/ (doing[g] = "follow" /\ awaits[g] = f) THEN outcome ELSE doing[g]]

Reset == completion' = NoFiber /\ pending' = FALSE

\* The run publishes; then shouldDrain resets the state or asks for another run.
PublishRun(f) ==
  /\ f \in Coalesced
  /\ doing[f] = "publish"
  /\ Publish(f)
  /\ byRunner' = snapshot[f]
  /\ IF pending
     THEN Turns(f, "read") /\ pending' = FALSE /\ UNCHANGED completion
     ELSE Reset /\ Turns(f, "settle")
  /\ NoProgressFault
  /\ UNCHANGED <<version, mine, awaits, client, preempted>>

\* The scheduler seldom runs others between the reset and settle, but it may.
Settle(f) ==
  /\ doing[f] = "settle"
  /\ Reset
  /\ Answer(f, "ok")
  /\ NoProgressFault
  /\ UNCHANGED <<version, mine, snapshot, awaits, client, bus>>

\* The run fails, or the lead is interrupted: all who wait fail with it.
RunFails(f) ==
  /\ f \in Coalesced
  /\ doing[f] \in {"read", "publish"}
  /\ ProgressFault
  /\ Reset
  /\ snapshot' = [snapshot EXCEPT ![f] = 0]
  /\ Answer(f, "failed")
  /\ UNCHANGED <<version, mine, awaits, client, bus>>

FollowerInterrupted(f) ==
  /\ doing[f] = "follow"
  /\ ProgressFault
  /\ Turns(f, "failed")
  /\ UNCHANGED <<version, mine, snapshot, runner, awaits, client, bus>>
-------------------------------------------------------------------------------
(***************************************************************************)
(* buildEventsStream.                                                      *)
(***************************************************************************)
Subscribe ==
  /\ clientAt = "away"
  /\ clientAt' = "subscribed"
  /\ NoProgressFault
  /\ UNCHANGED <<version, doing, mine, snapshot, runner, awaits, view, partial, bus>>

\* getDownloadProgressBootstrap.
Bootstrap ==
  /\ clientAt = "subscribed"
  /\ view' = version
  /\ partial' = (version \in Crowded)
  /\ evicted' = FALSE
  /\ clientAt' = "loaded"
  /\ NoProgressFault
  /\ UNCHANGED <<version, doing, mine, snapshot, runner, awaits, queue, published, newest, byRunner,
                 preempted>>

IsLastSnapshot(i) == queue[i] # Notice /\ \A j \in i + 1..Len(queue) : queue[j] = Notice

\* takeBufferedOnce: the last snapshot replaces what was loaded, even by an older one.
Fold ==
  /\ clientAt = "loaded"
  /\ \/ NoSnapshot(queue) /\ UNCHANGED <<view, partial>>
     \/ \E i \in 1..Len(queue) : IsLastSnapshot(i) /\ view' = queue[i] /\ partial' = FALSE
  /\ queue' = <<>>
  /\ clientAt' = "live"
  /\ NoProgressFault
  /\ UNCHANGED <<version, doing, mine, snapshot, runner, awaits, evicted, published, newest,
                 byRunner, preempted>>

Show ==
  /\ clientAt = "live"
  /\ queue # <<>>
  /\ IF Head(queue) = Notice THEN UNCHANGED <<view, partial>>
                             ELSE view' = Head(queue) /\ partial' = FALSE
  /\ queue' = Tail(queue)
  /\ NoProgressFault
  /\ UNCHANGED <<version, doing, mine, snapshot, runner, awaits, clientAt, evicted, published,
                 newest, byRunner, preempted>>

PublisherStep(f) == Read(f) \/ PublishNow(f) \/ Claim(f) \/ PublishRun(f) \/ Settle(f)
ProgressFails(f) == ReadFails(f) \/ RunFails(f) \/ FollowerInterrupted(f)

ProgressNext ==
  \/ \E f \in Changers : Change(f) \/ PublisherStep(f) \/ ProgressFails(f)
  \/ Subscribe \/ Bootstrap \/ Fold \/ Show \/ Notify

ProgressSpec == ProgressInit /\ [][ProgressNext]_progressVars

ProgressFairness == \A f \in Changers : WF_progressVars(PublisherStep(f))
ProgressFairSpec == ProgressSpec /\ ProgressFairness
-------------------------------------------------------------------------------
(***************************************************************************)
(* Properties.                                                             *)
(***************************************************************************)

(* A trigger that succeeds has been followed by a run that read the table  *)
(* after it: coalescing never answers a trigger with a run that began      *)
(* before its change (serialized-runner.ts, "triggers while an execution   *)
(* is running record a single pending rerun").  It may, once the scheduler *)
(* has let a fiber take the lead between the reset and the settling of     *)
(* another: settle then clears the state of the new lead.                  *)
DrainFresh ==
  ~preempted => \A f \in Coalesced : doing[f] = "ok" => byRunner >= mine[f]

(* Runs do not overlap, so that what they publish never goes back to an    *)
(* older snapshot.                                                         *)
RunnerInOrder == [][~preempted => byRunner' >= byRunner]_progressVars

(* A client that has shown everything it was sent shows the table, once    *)
(* everybody who changed it has published: nothing falls between its       *)
(* snapshot and its subscription; and the whole table, unless that has     *)
(* more rows than a client loads.  Not so if a publication failed, if an   *)
(* immediate one was overtaken and the older snapshot went out last, if a  *)
(* lead was preempted, or if the queue of a client that lags lost the last *)
(* snapshot in it to events of another kind.                               *)
ClientSettles ==
  /\ clientAt = "live" /\ queue = <<>>
  /\ \A f \in Changers : doing[f] \in {"idle", "ok"}
  => \/ view = version /\ (partial => version \in Crowded)
     \/ published < newest \/ preempted \/ evicted

(* Nobody is abandoned: who follows awaits the Deferred of a fiber that is *)
(* still in its run or has yet to settle, even once a lead was preempted   *)
(* and the state of the runner names another or nobody (trigger and settle *)
(* of serialized-runner.ts).                                               *)
NobodyAbandoned ==
  \A g \in Coalesced : doing[g] = "follow" =>
    awaits[g] \in Coalesced /\ doing[awaits[g]] \in {"read", "publish", "settle"}

(* Every trigger is answered: no follower waits for a lead that is gone,   *)
(* whatever fails ("a dead completion Deferred would hang every later      *)
(* trigger forever").                                                      *)
Answered == \A f \in Coalesced : doing[f] = "trigger" ~> doing[f] \in Settled
===============================================================================
