---------------------- MODULE ProgressPublication_proofs ----------------------
(***************************************************************************)
(* ProgressTypeOK, DrainFresh, RunnerInOrder, NobodyAbandoned and          *)
(* ClientSettles for any number of fibers, any capacity of the queue and   *)
(* any number of faults.                                                   *)
(***************************************************************************)
EXTENDS ProgressPublication, SequenceTheorems, TLAPS

USE DEF runner, client, bus, Versions, Events, Changers

\* Only triggers lead or follow.
CoalescedInv == \A f \in Changers : doing[f] \in {"trigger", "follow", "settle"} => f \in Coalesced

(***************************************************************************)
(* Counting: nobody has seen more of the table than there is of it, and    *)
(* what was published, and by the runner, are no newer than the newest.    *)
(***************************************************************************)
SeenInv ==
  /\ published <= newest /\ byRunner <= newest /\ newest <= version
  /\ \A f \in Changers :
       /\ snapshot[f] <= version /\ mine[f] <= version
       /\ doing[f] = "publish" => snapshot[f] >= mine[f]
       /\ doing[f] = "idle" => mine[f] = 0
       /\ f \in Immediate /\ doing[f] = "ok" => mine[f] <= newest
  /\ version = 0 \/ \E f \in Changers : mine[f] = version

(***************************************************************************)
(* The runner until a lead is preempted: one leads, or the last lead has   *)
(* yet to settle; a follower follows it; and what a follower or the lead   *)
(* has changed is in the snapshot in hand, in the one published by then,   *)
(* or will be in that of another run.                                      *)
(***************************************************************************)
Leading == {"read", "publish"}

RunnerInv ==
  ~preempted =>
    /\ \A f \in Coalesced :
         /\ doing[f] \in Leading => completion = f
         /\ doing[f] = "settle" => completion = NoFiber /\ byRunner >= mine[f]
         /\ doing[f] = "publish" => snapshot[f] >= byRunner
         /\ doing[f] = "ok" => byRunner >= mine[f]
    /\ \A f, g \in Coalesced : doing[f] = "settle" /\ doing[g] = "settle" => f = g
    /\ completion # NoFiber => doing[completion] \in Leading
    /\ \A g \in Coalesced : doing[g] = "follow" =>
         /\ awaits[g] \in Coalesced
         /\ doing[awaits[g]] \in Leading \cup {"settle"}
         /\ doing[awaits[g]] = "publish" => pending \/ snapshot[awaits[g]] >= mine[g]
         /\ doing[awaits[g]] = "settle" => byRunner >= mine[g]

(***************************************************************************)
(* What the client will show once it has shown its queue: the last         *)
(* snapshot in the queue is the one published last; without one in it the  *)
(* client shows that snapshot, or nothing newer was published than what it *)
(* loaded, or the last one was evicted.  What is cut off is the table that *)
(* it loaded.                                                              *)
(***************************************************************************)
ClientInv ==
  /\ clientAt = "away" => queue = <<>>
  /\ view <= version
  /\ \A i \in 1..Len(queue) : queue[i] # Notice => queue[i] <= version
  /\ \A i \in 1..Len(queue) : IsLastSnapshot(i) => queue[i] = published
  /\ clientAt \in {"loaded", "live"} /\ NoSnapshot(queue)
       => view = published \/ newest <= view \/ evicted

CutInv == partial => view < version \/ version \in Crowded
-------------------------------------------------------------------------------
\* ProgressTypeOK without pending, preempted, partial, evicted and progressFaults.
ProgressTypes ==
  /\ version \in Versions
  /\ doing \in [Changers -> {"idle", "trigger", "read", "publish", "follow", "settle"} \cup Settled]
  /\ mine \in [Changers -> Versions]
  /\ snapshot \in [Changers -> Versions]
  /\ completion \in Coalesced \cup {NoFiber}
  /\ awaits \in [Changers -> Coalesced \cup {NoFiber}]
  /\ clientAt \in {"away", "subscribed", "loaded", "live"} /\ view \in Versions
  /\ queue \in Seq(Events) /\ Len(queue) <= Capacity
  /\ published \in Versions /\ newest \in Versions /\ byRunner \in Versions

\* The parts of ProgressTypeOK.
LEMMA ProgressTypeParts ==
  /\ ProgressTypeOK <=> /\ ProgressTypes /\ pending \in BOOLEAN /\ preempted \in BOOLEAN
                        /\ partial \in BOOLEAN /\ evicted \in BOOLEAN
                        /\ progressFaults \in 0..MaxProgressFaults
  /\ ProgressTypeOK' <=> /\ ProgressTypes' /\ pending' \in BOOLEAN /\ preempted' \in BOOLEAN
                         /\ partial' \in BOOLEAN /\ evicted' \in BOOLEAN
                         /\ progressFaults' \in 0..MaxProgressFaults
BY Zenon DEF ProgressTypeOK, ProgressTypes

\* Every step keeps the types of the others.
LEMMA ProgressOthersTyped ==
  ASSUME ProgressTypeOK, [ProgressNext]_progressVars
  PROVE  /\ pending' \in BOOLEAN /\ preempted' \in BOOLEAN
         /\ partial' \in BOOLEAN /\ evicted' \in BOOLEAN
         /\ progressFaults' \in 0..MaxProgressFaults
<1>1. /\ pending \in BOOLEAN /\ preempted \in BOOLEAN
      /\ partial \in BOOLEAN /\ evicted \in BOOLEAN /\ progressFaults \in 0..MaxProgressFaults
  BY ProgressTypeParts
<1>2. NoProgressFault \/ ProgressFault => progressFaults' \in 0..MaxProgressFaults
  BY <1>1, ProgressAssumption DEF NoProgressFault, ProgressFault
<1>3. ASSUME NEW f \in Changers, Change(f) \/ PublisherStep(f)
      PROVE  /\ pending' \in BOOLEAN /\ preempted' \in BOOLEAN
             /\ partial' \in BOOLEAN /\ evicted' \in BOOLEAN /\ NoProgressFault
  BY <1>1, <1>3, Zenon
     DEF Change, PublisherStep, Read, Publish, PublishNow, Claim, PublishRun, Settle, FollowMarks,
         Reset
<1>4. ASSUME NEW f \in Changers, ProgressFails(f)
      PROVE  /\ pending' \in BOOLEAN /\ preempted' \in BOOLEAN
             /\ partial' \in BOOLEAN /\ evicted' \in BOOLEAN /\ ProgressFault
  BY <1>1, <1>4, Zenon DEF ProgressFails, ReadFails, RunFails, FollowerInterrupted, Reset
<1>5. CASE Subscribe \/ Bootstrap \/ Fold \/ Show \/ Notify
  <2>1. /\ pending' = pending /\ preempted' = preempted /\ NoProgressFault
        /\ partial' \in BOOLEAN /\ evicted' \in BOOLEAN
    <3>1. CASE Subscribe \/ Fold \/ Show
      BY <1>1, <3>1, Zenon DEF Subscribe, Fold, Show
    <3>2. CASE Bootstrap
      <4>1. UNCHANGED <<pending, preempted>> /\ NoProgressFault /\ evicted' = FALSE
        BY <3>2, Zenon DEF Bootstrap
      <4>2. partial' \in BOOLEAN
        <5> DEFINE cut == version \in Crowded
        <5>1. cut \in BOOLEAN
          OBVIOUS
        <5>2. partial' = cut
          BY <3>2, Zenon DEF Bootstrap
        <5> HIDE DEF cut
        <5>3. QED
          BY <5>1, <5>2, Zenon
      <4>3. QED
        BY <1>1, <4>1, <4>2, Zenon
    <3>3. CASE Notify
      <4>1. evicted' \in BOOLEAN
        BY <3>3, Zenon DEF Notify
      <4>2. UNCHANGED <<pending, preempted, partial>> /\ NoProgressFault
        BY <3>3, Zenon DEF Notify
      <4>3. QED
        BY <1>1, <4>1, <4>2, Zenon
    <3>4. QED
      BY <1>5, <3>1, <3>2, <3>3
  <2>2. QED
    BY <1>1, <1>2, <2>1, Zenon
<1>6. CASE UNCHANGED progressVars
  <2>1. /\ pending' = pending /\ preempted' = preempted /\ NoProgressFault
        /\ partial' = partial /\ evicted' = evicted
    BY <1>6, Zenon DEF progressVars, NoProgressFault
  <2>2. QED
    BY <1>1, <1>2, <2>1, Zenon
<1>7. QED
  BY <1>2, <1>3, <1>4, <1>5, <1>6, Zenon DEF ProgressNext

\* A full queue loses its oldest event and holds the new one last.
LEMMA SlidesFull ==
  ASSUME NEW q \in Seq(Events), NEW v \in Events, Len(q) = Capacity
  PROVE  /\ Sliding(q, v) \in Seq(Events) /\ Len(Sliding(q, v)) = Len(q) /\ Len(q) \in Nat \ {0}
         /\ Sliding(q, v) # <<>> /\ Sliding(q, v)[Len(q)] = v
         /\ \A i \in 1..Len(q) - 1 : Sliding(q, v)[i] = q[i + 1]
<1> DEFINE rest == Tail(q)
<1>1. q # <<>>
  BY ProgressAssumption
<1>2. /\ rest \in Seq(Events) /\ Len(rest) = Len(q) - 1 /\ Len(q) \in Nat \ {0}
      /\ \A i \in 1..Len(rest) : rest[i] = q[i + 1]
  BY <1>1, HeadTailProperties, EmptySeq, LenProperties
<1>3. Sliding(q, v) = Append(rest, v)
  BY DEF Sliding
<1> HIDE DEF rest
<1>4. /\ Append(rest, v) \in Seq(Events) /\ Len(Append(rest, v)) = Len(rest) + 1
      /\ \A i \in 1..Len(rest) : Append(rest, v)[i] = rest[i]
      /\ Append(rest, v)[Len(rest) + 1] = v
      /\ Append(rest, v) # <<>>
  <2>1. rest \in Seq(Events)
    BY <1>2
  <2>2. QED
    BY <2>1, AppendProperties, SMTT(60)
<1>5. Len(rest) + 1 = Len(q) /\ Len(rest) \in Nat
  BY <1>2
<1>6. QED
  BY <1>2, <1>3, <1>4, <1>5

\* So does one that was not full, and it loses nothing.
LEMMA SlidesFree ==
  ASSUME NEW q \in Seq(Events), NEW v \in Events, Len(q) <= Capacity, Len(q) # Capacity
  PROVE  /\ Sliding(q, v) \in Seq(Events) /\ Len(Sliding(q, v)) = Len(q) + 1 /\ Len(q) \in Nat
         /\ Sliding(q, v) # <<>> /\ Sliding(q, v)[Len(q) + 1] = v
         /\ \A i \in 1..Len(q) : Sliding(q, v)[i] = q[i]
<1>1. Sliding(q, v) = Append(q, v)
  BY DEF Sliding
<1>2. /\ Append(q, v) \in Seq(Events) /\ Len(Append(q, v)) = Len(q) + 1
      /\ \A i \in 1..Len(q) : Append(q, v)[i] = q[i]
      /\ Append(q, v)[Len(q) + 1] = v
      /\ Append(q, v) # <<>>
  BY AppendProperties, SMT
<1>3. Len(q) \in Nat
  BY LenProperties
<1>4. Len(q) + 1 <= Capacity
  BY <1>3, ProgressAssumption
<1>5. QED
  BY <1>1, <1>2, <1>3, <1>4

\* The queue keeps to its type and capacity.
LEMMA Slides ==
  ASSUME NEW q \in Seq(Events), NEW v \in Events, Len(q) <= Capacity
  PROVE  /\ Sliding(q, v) \in Seq(Events) /\ Len(Sliding(q, v)) <= Capacity
         /\ Len(Sliding(q, v)) \in Nat \ {0} /\ Sliding(q, v)[Len(Sliding(q, v))] = v
<1>1. CASE Len(q) = Capacity
  BY <1>1, SlidesFull
<1>2. CASE Len(q) # Capacity
  BY <1>2, SlidesFree, ProgressAssumption
<1>3. QED
  BY <1>1, <1>2

\* Every step keeps the types.
LEMMA ProgressTypeStep ==
  ASSUME ProgressTypes, CoalescedInv, [ProgressNext]_progressVars
  PROVE  ProgressTypes' /\ CoalescedInv'
<1> USE ProgressAssumption DEF ProgressTypes, CoalescedInv, Settled, Turns
<1>1. ASSUME NEW f \in Changers, Change(f) PROVE ProgressTypes' /\ CoalescedInv'
  BY <1>1 DEF Change
<1>2. ASSUME NEW f \in Changers, Read(f) PROVE ProgressTypes' /\ CoalescedInv'
  BY <1>2 DEF Read
<1>3. ASSUME NEW f \in Changers, Publish(f)
      PROVE  /\ queue' \in Seq(Events) /\ Len(queue') <= Capacity
             /\ snapshot' \in [Changers -> Versions] /\ published' \in Nat /\ newest' \in Nat
  BY <1>3, Slides DEF Publish
<1>4. ASSUME NEW f \in Changers, PublishNow(f) PROVE ProgressTypes' /\ CoalescedInv'
  BY <1>3, <1>4 DEF PublishNow
<1>5. ASSUME NEW f \in Changers, Claim(f) PROVE ProgressTypes' /\ CoalescedInv'
  <2>1. f \in Coalesced /\ f # NoFiber
    BY <1>5 DEF Claim
  <2>2. completion' \in Coalesced \cup {NoFiber}
    BY <1>5, <2>1 DEF Claim
  <2>3. awaits' = awaits \/ awaits' = [awaits EXCEPT ![f] = completion]
    BY <1>5, <2>1 DEF Claim
  <2>4. /\ doing' = [doing EXCEPT ![f] = doing'[f]]
        /\ doing'[f] \in {"read", "follow"}
    BY <1>5 DEF Claim
  <2>5. UNCHANGED <<version, mine, snapshot, clientAt, view, queue, published, newest, byRunner>>
    BY <1>5 DEF Claim, client
  <2>6. ProgressTypes'
    <3>1. awaits' \in [Changers -> Coalesced \cup {NoFiber}]
      BY <2>3
    <3>2. doing' \in [Changers -> {"idle", "trigger", "read", "publish", "follow", "settle"}
                                     \cup Settled]
      BY <2>4
    <3>3. QED
      BY <2>2, <2>5, <3>1, <3>2
  <2>7. CoalescedInv'
    BY <2>1, <2>4
  <2>8. QED
    BY <2>6, <2>7, Zenon
<1>6. ASSUME NEW f \in Changers, PublishRun(f) PROVE ProgressTypes' /\ CoalescedInv'
  BY <1>3, <1>6 DEF PublishRun, Reset
<1>7. ASSUME NEW f \in Changers, Settle(f) PROVE ProgressTypes' /\ CoalescedInv'
  BY <1>7 DEF Settle, Reset, Answer
<1>8. ASSUME NEW f \in Changers, ProgressFails(f) PROVE ProgressTypes' /\ CoalescedInv'
  <2>1. CASE ReadFails(f) \/ FollowerInterrupted(f)
    BY <2>1 DEF ReadFails, FollowerInterrupted
  <2>2. CASE RunFails(f)
    BY <2>2 DEF RunFails, Reset, Answer
  <2>3. QED
    BY <1>8, <2>1, <2>2 DEF ProgressFails
<1>9. CASE Subscribe \/ Bootstrap \/ Fold \/ Show \/ Notify
  <2>1. CASE Subscribe \/ Bootstrap
    BY <2>1 DEF Subscribe, Bootstrap
  <2>2. CASE Fold
    <3>1. queue' = <<>> /\ clientAt' = "live" /\ Len(<<>>) = 0 /\ <<>> \in Seq(Events)
      BY <2>2, EmptySeq DEF Fold
    <3>2. view' \in Nat
      <4>1. CASE view' = view
        BY <4>1
      <4>2. ASSUME NEW i \in 1..Len(queue), IsLastSnapshot(i), view' = queue[i]
            PROVE  view' \in Nat
        BY <4>2 DEF IsLastSnapshot
      <4>3. QED
        BY <2>2, <4>1, <4>2 DEF Fold
    <3>3. UNCHANGED <<version, doing, mine, snapshot, completion, awaits, published, newest,
                      byRunner>>
      BY <2>2 DEF Fold
    <3>4. QED
      BY <3>1, <3>2, <3>3
  <2>3. CASE Show
    BY <2>3 DEF Show
  <2>4. CASE Notify
    BY <2>4, Slides DEF Notify
  <2>5. QED
    BY <1>9, <2>1, <2>2, <2>3, <2>4
<1>10. CASE UNCHANGED progressVars
  BY <1>10 DEF progressVars
<1>11. QED
  BY <1>1, <1>2, <1>4, <1>5, <1>6, <1>7, <1>8, <1>9, <1>10 DEF ProgressNext, PublisherStep

(* Every variable has its type, and the queue of a subscriber never        *)
(* outgrows its capacity (PubSub.sliding).                                 *)
THEOREM ProgressTypeCorrect == ProgressSpec => []ProgressTypeOK
<1>1. ProgressInit => ProgressTypeOK /\ CoalescedInv
  <2> SUFFICES ASSUME ProgressInit PROVE ProgressTypeOK /\ CoalescedInv
    OBVIOUS
  <2>1. ProgressTypes /\ CoalescedInv /\ progressFaults \in 0..MaxProgressFaults
    BY ProgressAssumption DEF ProgressInit, ProgressTypes, CoalescedInv, Settled
  <2>2. /\ pending \in BOOLEAN /\ preempted \in BOOLEAN
        /\ partial \in BOOLEAN /\ evicted \in BOOLEAN
    BY Zenon DEF ProgressInit
  <2>3. QED
    BY <2>1, <2>2, ProgressTypeParts
<1>2. ProgressTypeOK /\ CoalescedInv /\ [ProgressNext]_progressVars
        => ProgressTypeOK' /\ CoalescedInv'
  BY ProgressTypeStep, ProgressOthersTyped, ProgressTypeParts
<1>3. QED
  BY <1>1, <1>2, PTL DEF ProgressSpec
-------------------------------------------------------------------------------
\* Every step keeps what was seen within what there is.
LEMMA SeenStep ==
  ASSUME ProgressTypes, CoalescedInv, SeenInv, [ProgressNext]_progressVars
  PROVE  SeenInv'
<1> USE ProgressAssumption DEF ProgressTypes, CoalescedInv, SeenInv, Settled, Turns
<1>1. ASSUME NEW f \in Changers, Change(f) PROVE SeenInv'
  BY <1>1 DEF Change
<1>2. ASSUME NEW f \in Changers, Read(f) PROVE SeenInv'
  BY <1>2 DEF Read
<1>3. ASSUME NEW f \in Changers, PublishNow(f) PROVE SeenInv'
  BY <1>3 DEF PublishNow, Publish
<1>4. ASSUME NEW f \in Changers, Claim(f) PROVE SeenInv'
  BY <1>4 DEF Claim
<1>5. ASSUME NEW f \in Changers, PublishRun(f) PROVE SeenInv'
  BY <1>5 DEF PublishRun, Publish
<1>6. ASSUME NEW f \in Changers, Settle(f) PROVE SeenInv'
  BY <1>6 DEF Settle, Answer
<1>7. ASSUME NEW f \in Changers, ReadFails(f) \/ FollowerInterrupted(f) PROVE SeenInv'
  BY <1>7 DEF ReadFails, FollowerInterrupted
<1>8. ASSUME NEW f \in Changers, RunFails(f) PROVE SeenInv'
  BY <1>8 DEF RunFails, Answer
<1>9. CASE Subscribe \/ Bootstrap \/ Fold \/ Show \/ Notify
  BY <1>9 DEF Subscribe, Bootstrap, Fold, Show, Notify
<1>10. CASE UNCHANGED progressVars
  BY <1>10 DEF progressVars
<1>11. QED
  BY <1>1, <1>2, <1>3, <1>4, <1>5, <1>6, <1>7, <1>8, <1>9, <1>10
     DEF ProgressNext, PublisherStep, ProgressFails

\* Every step keeps the runner in order until a lead is preempted.
LEMMA RunnerStep ==
  ASSUME ProgressTypes, CoalescedInv, SeenInv, RunnerInv, [ProgressNext]_progressVars
  PROVE  RunnerInv'
<1> SUFFICES ASSUME ~preempted' PROVE RunnerInv'
  BY DEF RunnerInv
<1> USE ProgressAssumption DEF ProgressTypes, CoalescedInv, SeenInv, RunnerInv, Leading,
                               Settled, Turns
<1>1. ASSUME NEW f \in Changers, Change(f) PROVE RunnerInv'
  BY <1>1 DEF Change
<1>2. ASSUME NEW f \in Changers, Read(f) PROVE RunnerInv'
  BY <1>2 DEF Read
<1>3. ASSUME NEW f \in Changers, PublishNow(f) PROVE RunnerInv'
  BY <1>3 DEF PublishNow, Publish
<1>4. ASSUME NEW f \in Changers, Claim(f) PROVE RunnerInv'
  <2>1. CASE completion = NoFiber
    <3>1. ~preempted /\ \A g \in Coalesced : doing[g] # "settle"
      BY <1>4, <2>1, Zenon DEF Claim, Free
    <3>2. \A g \in Coalesced : doing[g] \notin Leading \cup {"follow"}
      BY <2>1, <3>1
    <3>3. doing' = [doing EXCEPT ![f] = "read"] /\ completion' = f /\ f \in Coalesced
      BY <1>4, <2>1 DEF Claim, Free
    <3>4. mine' = mine /\ byRunner' = byRunner
      BY <1>4 DEF Claim
    <3>5. QED
      BY <2>1, <3>1, <3>2, <3>3, <3>4
  <2>2. CASE completion # NoFiber
    <3>1. /\ doing' = [doing EXCEPT ![f] = "follow"] /\ completion' = completion
          /\ awaits' = [awaits EXCEPT ![f] = completion] /\ f \in Coalesced
          /\ doing[f] = "trigger"
      BY <1>4, <2>2 DEF Claim, Free
    <3>2. pending' /\ ~preempted
      BY <1>4, <2>2, Zenon DEF Claim, Free, FollowMarks
    <3>3. mine' = mine /\ byRunner' = byRunner /\ snapshot' = snapshot
      BY <1>4 DEF Claim
    <3>4. QED
      BY <2>2, <3>1, <3>2, <3>3
  <2>3. QED
    BY <2>1, <2>2
<1>5. ASSUME NEW f \in Changers, PublishRun(f) PROVE RunnerInv'
  BY <1>5 DEF PublishRun, Publish, Reset
<1>6. ASSUME NEW f \in Changers, Settle(f) PROVE RunnerInv'
  BY <1>6 DEF Settle, Answer, Reset
<1>7. ASSUME NEW f \in Changers, ReadFails(f) \/ FollowerInterrupted(f) PROVE RunnerInv'
  <2>1. UNCHANGED <<mine, snapshot, completion, pending, awaits, byRunner, preempted>>
    BY <1>7 DEF ReadFails, FollowerInterrupted
  <2>2. CASE ReadFails(f)
    BY <2>1, <2>2 DEF ReadFails
  <2>3. CASE FollowerInterrupted(f)
    BY <2>1, <2>3 DEF FollowerInterrupted
  <2>4. QED
    BY <1>7, <2>2, <2>3
<1>8. ASSUME NEW f \in Changers, RunFails(f) PROVE RunnerInv'
  BY <1>8 DEF RunFails, Answer, Reset
<1>9. CASE Subscribe \/ Bootstrap \/ Fold \/ Show \/ Notify
  BY <1>9 DEF Subscribe, Bootstrap, Fold, Show, Notify
<1>10. CASE UNCHANGED progressVars
  BY <1>10 DEF progressVars
<1>11. QED
  BY <1>1, <1>2, <1>3, <1>4, <1>5, <1>6, <1>7, <1>8, <1>9, <1>10
     DEF ProgressNext, PublisherStep, ProgressFails

\* At first nothing was changed, published or shown.
LEMMA ProgressStart ==
  ASSUME ProgressInit
  PROVE  ProgressTypeOK /\ CoalescedInv /\ SeenInv /\ RunnerInv /\ ClientInv /\ CutInv
<1> USE ProgressAssumption
<1>1. ProgressTypes /\ CoalescedInv /\ progressFaults \in 0..MaxProgressFaults
  BY DEF ProgressInit, ProgressTypes, CoalescedInv, Settled
<1>2. /\ pending \in BOOLEAN /\ preempted \in BOOLEAN
      /\ partial \in BOOLEAN /\ evicted \in BOOLEAN /\ ~partial
  BY Zenon DEF ProgressInit
<1>3. SeenInv /\ ClientInv /\ CutInv
  BY <1>2 DEF ProgressInit, SeenInv, ClientInv, CutInv, IsLastSnapshot
<1>4. RunnerInv
  BY DEF ProgressInit, RunnerInv, Leading
<1>5. QED
  BY <1>1, <1>2, <1>3, <1>4, ProgressTypeParts

\* Every step keeps the invariant of the runner.
LEMMA ProgressStep ==
  ProgressTypeOK /\ CoalescedInv /\ SeenInv /\ RunnerInv /\ [ProgressNext]_progressVars
    => ProgressTypeOK' /\ CoalescedInv' /\ SeenInv' /\ RunnerInv'
BY ProgressTypeStep, ProgressOthersTyped, SeenStep, RunnerStep, ProgressTypeParts

(* A trigger that has succeeded was followed by a run that read the table  *)
(* after its change (makeSerializedDrainEffectRunner).                     *)
THEOREM DrainStaysFresh == ProgressSpec => []DrainFresh
<1>1. ProgressInit => ProgressTypeOK /\ CoalescedInv /\ SeenInv /\ RunnerInv
  BY ProgressStart
<1>2. RunnerInv => DrainFresh
  BY DEF RunnerInv, DrainFresh
<1>3. QED
  BY <1>1, <1>2, ProgressStep, PTL DEF ProgressSpec

\* No fiber takes the lead while another has opened the runner and not settled it.
NoLeadBetween ==
  [][\A g \in Changers : Claim(g) => \A f \in Coalesced : doing[f] # "settle"]_progressVars
AnswersFresh == \A f \in Coalesced : doing[f] = "ok" => byRunner >= mine[f]

(* The same without the history of preempted: as long as no fiber takes    *)
(* the lead between the reset and the settling of another, every trigger   *)
(* that has succeeded was followed by a run that read the table after it.  *)
THEOREM SettledBeforeTheNext == ProgressSpec /\ NoLeadBetween => []AnswersFresh
<1>1. ProgressInit => ~preempted
  BY Zenon DEF ProgressInit
<1>2. ASSUME ~preempted, [ProgressNext]_progressVars,
             [\A g \in Changers : Claim(g) => \A f \in Coalesced : doing[f] # "settle"]_progressVars
      PROVE  ~preempted'
  <2>1. ASSUME NEW g \in Changers, Claim(g) PROVE ~preempted'
    <3>1. CASE UNCHANGED progressVars
      BY <1>2, <3>1, Zenon DEF progressVars
    <3>2. CASE \A f \in Coalesced : doing[f] # "settle"
      BY <1>2, <2>1, <3>2, Zenon DEF Claim
    <3>3. QED
      BY <1>2, <2>1, <3>1, <3>2
  <2>2. ASSUME NEW f \in Changers,
               \/ Change(f) \/ Read(f) \/ PublishNow(f) \/ PublishRun(f) \/ Settle(f)
               \/ ProgressFails(f)
        PROVE  preempted' = preempted
    BY <2>2, Zenon DEF Change, Read, PublishNow, PublishRun, Settle, ProgressFails, ReadFails,
                       RunFails, FollowerInterrupted
  <2>3. CASE Subscribe \/ Bootstrap \/ Fold \/ Show \/ Notify \/ UNCHANGED progressVars
    BY <1>2, <2>3, Zenon DEF Subscribe, Bootstrap, Fold, Show, Notify, progressVars
  <2>4. QED
    BY <1>2, <2>1, <2>2, <2>3, Zenon DEF ProgressNext, PublisherStep
<1>3. ~preempted /\ DrainFresh => AnswersFresh
  BY DEF DrainFresh, AnswersFresh
<1>4. QED
  BY <1>1, <1>2, <1>3, DrainStaysFresh, PTL DEF ProgressSpec, NoLeadBetween

(* The runs of the runner publish ever newer snapshots.                    *)
THEOREM RunsInOrder == ProgressSpec => RunnerInOrder
<1>1. ProgressInit => ProgressTypeOK /\ CoalescedInv /\ SeenInv /\ RunnerInv
  BY ProgressStart
<1>2. ProgressTypeOK /\ SeenInv /\ RunnerInv /\ [ProgressNext]_progressVars
        => [~preempted => byRunner' >= byRunner]_progressVars
  <2> SUFFICES ASSUME ProgressTypes, RunnerInv, ProgressNext, ~preempted
               PROVE  byRunner' >= byRunner
    BY ProgressTypeParts
  <2> USE DEF ProgressTypes
  <2>1. ASSUME NEW f \in Changers, PublishRun(f) PROVE byRunner' >= byRunner
    BY <2>1 DEF PublishRun, RunnerInv
  <2>2. ASSUME NEW f \in Changers,
               \/ Change(f) \/ Read(f) \/ PublishNow(f) \/ Claim(f) \/ Settle(f)
               \/ ProgressFails(f)
        PROVE  byRunner' = byRunner
    BY <2>2, Zenon DEF Change, Read, PublishNow, Claim, Settle, ProgressFails, ReadFails, RunFails,
                       FollowerInterrupted
  <2>3. CASE Subscribe \/ Bootstrap \/ Fold \/ Show \/ Notify
    BY <2>3 DEF Subscribe, Bootstrap, Fold, Show, Notify
  <2>4. QED
    BY <2>1, <2>2, <2>3 DEF ProgressNext, PublisherStep
<1>3. QED
  BY <1>1, <1>2, ProgressStep, PTL DEF ProgressSpec, RunnerInOrder
-------------------------------------------------------------------------------
\* A snapshot appended to the queue is the last in it.
LEMMA ClientIsSent ==
  ASSUME ProgressTypes, SeenInv, ClientInv, NEW f \in Changers, Publish(f),
         UNCHANGED <<clientAt, view, version>>
  PROVE  ClientInv'
<1> USE ProgressAssumption DEF ProgressTypes, SeenInv, ClientInv, IsLastSnapshot, NoSnapshot
<1>1. snapshot[f] \in Nat /\ snapshot[f] <= version /\ published' = snapshot[f]
  BY DEF Publish
<1>2. CASE clientAt = "away"
  BY <1>1, <1>2 DEF Publish
<1>3. CASE clientAt # "away"
  <2>1. queue' = Sliding(queue, snapshot[f])
    BY <1>3 DEF Publish
  <2>2. queue \in Seq(Events) /\ snapshot[f] \in Events /\ Len(queue) <= Capacity
    BY <1>1
  <2>3. Len(queue') \in Nat \ {0} /\ queue'[Len(queue')] = snapshot[f]
    BY ONLY <2>1, <2>2, Slides
  <2>4. \A i \in 1..Len(queue') :
          queue'[i] = snapshot[f] \/ \E j \in 1..Len(queue) : queue'[i] = queue[j]
    <3>1. CASE Len(queue) = Capacity
      <4>1. /\ Len(queue') = Len(queue) /\ Len(queue) \in Nat
            /\ \A i \in 1..Len(queue) - 1 : queue'[i] = queue[i + 1]
        BY ONLY <2>1, <2>2, <3>1, SlidesFull
      <4>2. QED
        BY ONLY <2>3, <4>1
    <3>2. CASE Len(queue) # Capacity
      <4>1. /\ Len(queue') = Len(queue) + 1 /\ Len(queue) \in Nat
            /\ \A i \in 1..Len(queue) : queue'[i] = queue[i]
        BY ONLY <2>1, <2>2, <3>2, SlidesFree
      <4>2. QED
        BY ONLY <2>3, <4>1
    <3>3. QED
      BY <3>1, <3>2
  <2>5. \A i \in 1..Len(queue') : queue'[i] # Notice => queue'[i] <= version
    BY <1>1, <2>4
  <2>6. snapshot[f] # Notice
    BY <1>1
  <2>7. \A i \in 1..Len(queue') : i # Len(queue') => Len(queue') \in i + 1..Len(queue')
    BY ONLY <2>3
  <2>8. QED
    BY <1>1, <1>3, <2>3, <2>5, <2>6, <2>7
<1>4. QED
  BY <1>2, <1>3

\* A notice that costs the client the last snapshot in the queue has it evicted.
LEMMA ClientIsNotified ==
  ASSUME ProgressTypes, ClientInv, Notify
  PROVE  ClientInv'
<1> USE ProgressAssumption DEF ProgressTypes, ClientInv, IsLastSnapshot
<1>1. /\ queue' = Sliding(queue, Notice) /\ clientAt # "away"
      /\ UNCHANGED <<clientAt, view, version, published, newest>>
  BY DEF Notify
<1>2. (evicted => evicted') /\ (~NoSnapshot(queue) /\ NoSnapshot(queue') => evicted')
  BY Zenon DEF Notify
<1>3. queue \in Seq(Events) /\ Notice \in Events /\ Len(queue) <= Capacity
  OBVIOUS
<1>4. Len(queue') \in Nat \ {0} /\ queue'[Len(queue')] = Notice
  BY ONLY <1>1, <1>3, Slides
<1>5. /\ \A i \in 1..Len(queue') : queue'[i] # Notice => queue'[i] <= version
      /\ \A i \in 1..Len(queue') : IsLastSnapshot(i)' => queue'[i] = published
  <2>1. CASE Len(queue) = Capacity
    <3>1. /\ Len(queue') = Len(queue) /\ Len(queue) \in Nat
          /\ \A i \in 1..Len(queue) - 1 : queue'[i] = queue[i + 1]
      BY ONLY <1>1, <1>3, <2>1, SlidesFull
    <3>2. \A i \in 1..Len(queue) : queue'[i] # Notice =>
             i + 1 \in 1..Len(queue) /\ queue'[i] = queue[i + 1]
      BY ONLY <1>4, <3>1
    <3>3. ASSUME NEW i \in 1..Len(queue), IsLastSnapshot(i)'
          PROVE  queue'[i] = published
      <4>1. queue[i + 1] # Notice /\ i + 1 \in 1..Len(queue) /\ queue'[i] = queue[i + 1]
        BY <3>2, <3>3
      <4>2. ASSUME NEW j \in i + 2..Len(queue) PROVE queue[j] = Notice
        <5>1. j - 1 \in i + 1..Len(queue') /\ j - 1 \in 1..Len(queue) - 1 /\ (j - 1) + 1 = j
          BY ONLY <3>1
        <5>2. QED
          BY <3>1, <3>3, <5>1
      <4>3. (i + 1) + 1 = i + 2
        OBVIOUS
      <4>4. QED
        BY <4>1, <4>2, <4>3
    <3>4. QED
      BY <3>1, <3>2, <3>3
  <2>2. CASE Len(queue) # Capacity
    <3>1. /\ Len(queue') = Len(queue) + 1 /\ Len(queue) \in Nat
          /\ \A i \in 1..Len(queue) : queue'[i] = queue[i]
      BY ONLY <1>1, <1>3, <2>2, SlidesFree
    <3>2. \A i \in 1..Len(queue') : queue'[i] # Notice => i \in 1..Len(queue)
      BY ONLY <1>4, <3>1
    <3>3. ASSUME NEW i \in 1..Len(queue'), IsLastSnapshot(i)'
          PROVE  queue'[i] = published
      <4>1. queue[i] # Notice /\ i \in 1..Len(queue) /\ queue'[i] = queue[i]
        BY <3>1, <3>2, <3>3
      <4>2. ASSUME NEW j \in i + 1..Len(queue) PROVE queue[j] = Notice
        <5>1. j \in i + 1..Len(queue') /\ j \in 1..Len(queue)
          BY ONLY <3>1, <4>1
        <5>2. QED
          BY <3>1, <3>3, <5>1
      <4>3. QED
        BY <4>1, <4>2
    <3>4. QED
      BY <3>1, <3>2, <3>3
  <2>3. QED
    BY <2>1, <2>2
<1>6. NoSnapshot(queue') /\ clientAt \in {"loaded", "live"}
        => view = published \/ newest <= view \/ evicted'
  BY <1>2, Zenon
<1>7. QED
  BY <1>1, <1>5, <1>6 DEF NoSnapshot

\* Every step keeps what the client is about to show.
LEMMA ClientStep ==
  ASSUME ProgressTypes, CoalescedInv, SeenInv, ClientInv, [ProgressNext]_progressVars
  PROVE  ClientInv'
<1> USE ProgressAssumption DEF ProgressTypes, SeenInv, ClientInv, IsLastSnapshot, NoSnapshot
<1>1. ASSUME NEW f \in Changers, Change(f) PROVE ClientInv'
  BY <1>1 DEF Change
<1>2. ASSUME NEW f \in Changers, PublishNow(f) \/ PublishRun(f) PROVE ClientInv'
  BY <1>2, ClientIsSent DEF PublishNow, PublishRun
<1>3. ASSUME NEW f \in Changers, Read(f) \/ Claim(f) \/ Settle(f) \/ ProgressFails(f)
      PROVE  ClientInv'
  <2>1. UNCHANGED <<clientAt, view, queue, evicted, version, published, newest>>
    BY <1>3, Zenon DEF Read, Claim, Settle, ProgressFails, ReadFails, RunFails,
                       FollowerInterrupted
  <2>2. QED
    BY <2>1
<1>4. CASE Subscribe \/ Bootstrap
  <2>1. CASE Subscribe
    BY <2>1 DEF Subscribe
  <2>2. CASE Bootstrap
    <3>1. /\ view' = version /\ clientAt' = "loaded"
          /\ UNCHANGED <<version, queue, published, newest>>
      BY <2>2 DEF Bootstrap
    <3>2. QED
      BY <3>1
  <2>3. QED
    BY <1>4, <2>1, <2>2
<1>5. CASE Fold
  BY <1>5 DEF Fold
<1>6. CASE Show
  <2> DEFINE rest == Tail(queue)
  <2>1. /\ queue # <<>> /\ queue' = rest /\ clientAt = "live"
        /\ queue[1] # Notice => view' = queue[1]
        /\ queue[1] = Notice => view' = view
        /\ UNCHANGED <<clientAt, evicted, version, published, newest>>
    BY <1>6 DEF Show
  <2>2. /\ rest \in Seq(Events) /\ Len(rest) = Len(queue) - 1
        /\ \A i \in 1..Len(rest) : rest[i] = queue[i + 1]
        /\ Len(queue) \in Nat \ {0}
    BY <2>1, HeadTailProperties, EmptySeq, LenProperties
  <2> HIDE DEF rest
  <2>3. \A i \in 1..Len(rest) : i + 1 \in 1..Len(queue)
    BY <2>2
  <2>4. view' <= version
    BY <2>1, <2>2
  <2>5. ASSUME NEW i \in 1..Len(rest), IsLastSnapshot(i)'
        PROVE  rest[i] = published
    <3>1. queue[i + 1] # Notice /\ rest[i] = queue[i + 1] /\ i + 1 \in 1..Len(queue)
      BY <2>1, <2>2, <2>3, <2>5
    <3>2. ASSUME NEW j \in (i + 1) + 1..Len(queue) PROVE queue[j] = Notice
      <4>1. j - 1 \in i + 1..Len(rest) /\ j - 1 \in 1..Len(rest) /\ (j - 1) + 1 = j
        BY <2>2
      <4>2. QED
        BY <2>1, <2>2, <2>5, <4>1
    <3>3. QED
      BY <3>1, <3>2
  <2>6. ASSUME NoSnapshot(rest)
        PROVE  view' = published \/ newest <= view' \/ evicted
    <3>1. ASSUME NEW j \in 2..Len(queue) PROVE queue[j] = Notice
      <4>1. j - 1 \in 1..Len(rest) /\ (j - 1) + 1 = j
        BY <2>2
      <4>2. QED
        BY <2>2, <2>6, <4>1
    <3>2. CASE queue[1] # Notice
      <4>1. 1 \in 1..Len(queue) /\ \A j \in 1 + 1..Len(queue) : queue[j] = Notice
        BY <2>2, <3>1
      <4>2. queue[1] = published
        BY <3>2, <4>1
      <4>3. QED
        BY <2>1, <3>2, <4>2
    <3>3. CASE queue[1] = Notice
      <4>1. NoSnapshot(queue)
        <5>1. \A j \in 1..Len(queue) : j = 1 \/ j \in 2..Len(queue)
          BY <2>2
        <5>2. QED
          BY <3>1, <3>3, <5>1
      <4>2. QED
        BY <2>1, <3>3, <4>1
    <3>4. QED
      BY <3>2, <3>3
  <2>7. \A i \in 1..Len(rest) : rest[i] # Notice => rest[i] <= version
    BY <2>2, <2>3
  <2>8. QED
    BY <2>1, <2>4, <2>5, <2>6, <2>7
<1>7. CASE Notify
  BY <1>7, ClientIsNotified
<1>8. CASE UNCHANGED progressVars
  BY <1>8 DEF progressVars
<1>9. QED
  BY <1>1, <1>2, <1>3, <1>4, <1>5, <1>6, <1>7, <1>8 DEF ProgressNext, PublisherStep

\* Every step keeps it that only a table with too many rows is shown in part, or an older one.
LEMMA CutStep ==
  ASSUME ProgressTypes, ClientInv, CutInv, [ProgressNext]_progressVars
  PROVE  CutInv'
<1> USE DEF ProgressTypes, ClientInv, CutInv
<1>1. ASSUME NEW f \in Changers, Change(f) PROVE CutInv'
  <2>1. view' < version'
    BY <1>1 DEF Change
  <2>2. QED
    BY <2>1
<1>2. ASSUME NEW f \in Changers, PublisherStep(f) \/ ProgressFails(f) PROVE CutInv'
  <2>1. UNCHANGED <<view, partial, version>>
    BY <1>2, Zenon DEF PublisherStep, Read, PublishNow, Claim, PublishRun, Settle, ProgressFails,
                       ReadFails, RunFails, FollowerInterrupted
  <2>2. QED
    BY <2>1, Zenon
<1>3. CASE Bootstrap
  <2>1. version' = version /\ (partial' => version \in Crowded)
    BY <1>3, Zenon DEF Bootstrap
  <2>2. QED
    BY <2>1, Zenon
<1>4. CASE Subscribe \/ Fold \/ Show \/ Notify \/ UNCHANGED progressVars
  <2>1. version' = version /\ (~partial' \/ UNCHANGED <<view, partial>>)
    BY <1>4, Zenon DEF Subscribe, Fold, Show, Notify, progressVars
  <2>2. QED
    BY <2>1, Zenon
<1>5. QED
  BY <1>1, <1>2, <1>3, <1>4, Zenon DEF ProgressNext

(* A client that has shown all it was sent shows the table once everybody  *)
(* has published, and all of it unless it has more rows than a client      *)
(* loads (buildDownloadProgressEventStream): but for a publication that    *)
(* failed, was overtaken by an older one or was preempted, and but for a   *)
(* queue whose last snapshot other notifications have pushed out.          *)
THEOREM ClientCatchesUp == ProgressSpec => []ClientSettles
<1>1. ProgressInit
        => ProgressTypeOK /\ CoalescedInv /\ SeenInv /\ RunnerInv /\ ClientInv /\ CutInv
  BY ProgressStart
<1>2. /\ ProgressTypeOK /\ CoalescedInv /\ SeenInv /\ RunnerInv /\ ClientInv /\ CutInv
      /\ [ProgressNext]_progressVars
      => ProgressTypeOK' /\ CoalescedInv' /\ SeenInv' /\ RunnerInv' /\ ClientInv' /\ CutInv'
  BY ProgressStep, ClientStep, CutStep, ProgressTypeParts
<1>3. ProgressTypeOK /\ SeenInv /\ RunnerInv /\ ClientInv /\ CutInv => ClientSettles
  <2> SUFFICES ASSUME ProgressTypes, SeenInv, RunnerInv, ClientInv, CutInv,
                      clientAt = "live", queue = <<>>,
                      \A f \in Changers : doing[f] \in {"idle", "ok"},
                      ~preempted, ~(published < newest), ~evicted
               PROVE  view = version /\ (partial => version \in Crowded)
    BY ProgressTypeParts, Zenon DEF ClientSettles
  <2>1. \A f \in Changers : mine[f] <= newest
    BY DEF ProgressTypes, SeenInv, RunnerInv
  <2>2. newest = version
    BY <2>1 DEF ProgressTypes, SeenInv
  <2>3. NoSnapshot(queue)
    BY EmptySeq DEF NoSnapshot
  <2>4. view = published \/ newest <= view
    BY <2>3 DEF ClientInv
  <2>5. view = version
    BY <2>2, <2>4 DEF ProgressTypes, SeenInv, ClientInv
  <2>6. QED
    BY <2>5 DEF ProgressTypes, CutInv
<1>4. QED
  BY <1>1, <1>2, <1>3, PTL DEF ProgressSpec
-------------------------------------------------------------------------------
(***************************************************************************)
(* Preempted or not: the state names only a fiber that is in its run, so   *)
(* that nobody begins to follow one that is gone.                          *)
(***************************************************************************)
FollowInv ==
  /\ completion # NoFiber => doing[completion] \in Leading
  /\ NobodyAbandoned

\* A fiber that is not followed moves on, or one that leads goes on leading or is to settle,
\* and the state is kept or reset.
LEMMA Follows ==
  ASSUME ProgressTypes, FollowInv, NEW f \in Changers, NEW to,
         doing' = [doing EXCEPT ![f] = to], awaits' = awaits,
         \/ completion' = completion
         \/ completion' = NoFiber,
         \/ doing[f] \notin Leading \cup {"settle"} /\ to # "follow"
         \/ f \in Immediate /\ to # "follow"
         \/ to \in Leading
         \/ to = "settle" /\ completion' = NoFiber
  PROVE  FollowInv'
BY ProgressAssumption DEF ProgressTypes, FollowInv, NobodyAbandoned, Leading

\* The fibers that are answered are all that await f.
LEMMA AllAnswered ==
  ASSUME ProgressTypes, FollowInv, NEW f \in Coalesced, NEW outcome \in Settled,
         Answer(f, outcome), Reset, awaits' = awaits
  PROVE  FollowInv'
BY ProgressAssumption
   DEF ProgressTypes, FollowInv, NobodyAbandoned, Leading, Settled, Answer, Reset

\* Every step leaves every follower one to follow.
LEMMA FollowStep ==
  ASSUME ProgressTypes, CoalescedInv, FollowInv, [ProgressNext]_progressVars
  PROVE  FollowInv'
<1> USE ProgressAssumption DEF Turns
<1>1. ASSUME NEW f \in Changers, Change(f) PROVE FollowInv'
  <2>1. PICK to \in {"trigger", "read"} : doing' = [doing EXCEPT ![f] = to]
    BY <1>1 DEF Change
  <2>2. doing[f] \notin Leading \cup {"settle"} /\ UNCHANGED <<awaits, completion>>
    BY <1>1 DEF Change, Leading
  <2>3. QED
    BY <2>1, <2>2, Follows
<1>2. ASSUME NEW f \in Changers, Read(f) PROVE FollowInv'
  BY <1>2, Follows DEF Read, Leading
<1>3. ASSUME NEW f \in Changers, PublishNow(f) PROVE FollowInv'
  BY <1>3, Follows DEF PublishNow
<1>4. ASSUME NEW f \in Changers, Claim(f) PROVE FollowInv'
  <2> USE DEF ProgressTypes, FollowInv, NobodyAbandoned, Leading
  <2>1. f \in Coalesced /\ doing[f] = "trigger"
    BY <1>4 DEF Claim, CoalescedInv
  <2>2. CASE completion = NoFiber
    <3>1. /\ completion' = f /\ doing' = [doing EXCEPT ![f] = "read"]
          /\ awaits' = awaits
      BY <1>4, <2>2 DEF Claim, Free
    <3>2. QED
      BY <2>1, <3>1
  <2>3. CASE completion # NoFiber
    <3>1. /\ completion' = completion /\ doing' = [doing EXCEPT ![f] = "follow"]
          /\ awaits' = [awaits EXCEPT ![f] = completion]
      BY <1>4, <2>3 DEF Claim, Free
    <3>2. QED
      BY <2>1, <2>3, <3>1
  <2>4. QED
    BY <2>2, <2>3
<1>5. ASSUME NEW f \in Changers, PublishRun(f) PROVE FollowInv'
  <2>1. CASE pending
    BY <1>5, <2>1, Follows DEF PublishRun, Leading
  <2>2. CASE ~pending
    BY <1>5, <2>2, Follows DEF PublishRun, Reset
  <2>3. QED
    BY <2>1, <2>2
<1>6. ASSUME NEW f \in Changers, Settle(f) PROVE FollowInv'
  BY <1>6, AllAnswered DEF Settle, Settled, CoalescedInv
<1>7. ASSUME NEW f \in Changers, ReadFails(f) PROVE FollowInv'
  BY <1>7, Follows DEF ReadFails
<1>8. ASSUME NEW f \in Changers, FollowerInterrupted(f) PROVE FollowInv'
  BY <1>8, Follows DEF FollowerInterrupted, Leading
<1>9. ASSUME NEW f \in Changers, RunFails(f) PROVE FollowInv'
  BY <1>9, AllAnswered DEF RunFails, Settled
<1>10. CASE UNCHANGED <<doing, awaits, completion>>
  BY <1>10 DEF FollowInv, NobodyAbandoned
<1>11. QED
  BY <1>1, <1>2, <1>3, <1>4, <1>5, <1>6, <1>7, <1>8, <1>9, <1>10
     DEF ProgressNext, PublisherStep, ProgressFails, Subscribe, Bootstrap, Fold, Show,
         Notify, progressVars

(* Who follows awaits a fiber that has yet to settle, preempted or not     *)
(* (makeSerializedDrainEffectRunner): the safety core of Answered.         *)
THEOREM FollowersAwaitALead == ProgressSpec => []NobodyAbandoned
<1>1. ProgressInit => ProgressTypeOK /\ CoalescedInv /\ FollowInv
  <2>1. ProgressInit => FollowInv
    BY DEF ProgressInit, FollowInv, NobodyAbandoned
  <2>2. QED
    BY <2>1, ProgressStart
<1>2. /\ ProgressTypeOK /\ CoalescedInv /\ FollowInv /\ [ProgressNext]_progressVars
      => ProgressTypeOK' /\ CoalescedInv' /\ FollowInv'
  BY ProgressTypeStep, ProgressOthersTyped, FollowStep, ProgressTypeParts
<1>3. FollowInv => NobodyAbandoned
  BY DEF FollowInv
<1>4. QED
  BY <1>1, <1>2, <1>3, PTL DEF ProgressSpec
===============================================================================
