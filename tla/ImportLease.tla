----------------------------- MODULE ImportLease -----------------------------
(***************************************************************************)
(* What a reconciliation claim promises, with no tokens, no database and   *)
(* no sync pass: the right to record the import of a download is with at   *)
(* most one worker at any time, only the worker that has it makes the      *)
(* download imported, the right may be taken away, and an imported or      *)
(* deleted download is never taken again.                                  *)
(*                                                                         *)
(* DownloadReconciliation implements this specification                    *)
(* (DownloadReconciliation!ImplementsLease).                               *)
(***************************************************************************)

CONSTANTS Downloads,  \* the downloads that can be imported
          Workers     \* the fibers that can import one

VARIABLES holders,    \* holders[d]: the workers that may finalize download d
          outcome     \* outcome[d]: "pending", "imported" or "deleted"

vars == <<holders, outcome>>

TypeOK ==
  /\ holders \in [Downloads -> SUBSET Workers]
  /\ outcome \in [Downloads -> {"pending", "imported", "deleted"}]

Init ==
  /\ holders = [d \in Downloads |-> {}]
  /\ outcome = [d \in Downloads |-> "pending"]

\* A worker takes a pending download nobody holds.
Acquire(d, w) ==
  /\ outcome[d] = "pending"
  /\ holders[d] = {}
  /\ holders' = [holders EXCEPT ![d] = {w}]
  /\ UNCHANGED outcome

\* A holder records the import, and with it gives the download up.
Finish(d, w) ==
  /\ w \in holders[d]
  /\ outcome[d] = "pending"
  /\ outcome' = [outcome EXCEPT ![d] = "imported"]
  /\ holders' = [holders EXCEPT ![d] = @ \ {w}]

\* A worker gives a download back, or somebody takes it away from the worker.
Release(d, w) ==
  /\ holders' = [holders EXCEPT ![d] = @ \ {w}]
  /\ UNCHANGED outcome

\* A restart of the process: nobody holds anything any more.
ReleaseAll ==
  /\ holders' = [d \in Downloads |-> {}]
  /\ UNCHANGED outcome

\* A user deletes the download, whether or not someone is importing it.
Delete(d) ==
  /\ outcome' = [outcome EXCEPT ![d] = "deleted"]
  /\ holders' = [holders EXCEPT ![d] = {}]

Next ==
  \/ \E d \in Downloads, w \in Workers : Acquire(d, w) \/ Finish(d, w) \/ Release(d, w)
  \/ \E d \in Downloads : Delete(d)
  \/ ReleaseAll

Spec == Init /\ [][Next]_vars
-------------------------------------------------------------------------------
(***************************************************************************)
(* What whoever implements the lease may rely on.                          *)
(***************************************************************************)

\* Two workers never have the right to finalize a download (claimDownloadReconciliation).
OneHolder == \A d \in Downloads : \A v, w \in holders[d] : v = w

\* Nobody holds or takes up a download that has been imported or deleted, and none becomes
\* imported but by a worker that held it pending (finalizeDownloadImport).
HeldWhilePending == \A d \in Downloads : outcome[d] # "pending" => holders[d] = {}
WhilePending ==
  \A d \in Downloads :
    /\ outcome[d] # "pending" => outcome'[d] # "pending"
    /\ outcome'[d] = "imported" /\ outcome[d] # "imported"
         => outcome[d] = "pending" /\ holders[d] # {}
TakenWhilePending == [][WhilePending]_vars
==============================================================================
