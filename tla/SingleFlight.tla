----------------------------- MODULE SingleFlight -----------------------------
(***************************************************************************)
(* What a launch under a task key promises its callers, with no rows, no   *)
(* queue and no workers: a call is answered at once with the one task that *)
(* is in flight under its key, or it starts that task itself; a task is in *)
(* flight until it has succeeded or failed; a success is recorded while    *)
(* the task is in flight, a failure afterwards, and the outcome of a task  *)
(* is recorded once, if at all.  A restart ends what is in flight.         *)
(*                                                                         *)
(* TaskLauncher implements this specification                              *)
(* (TaskLauncher!ImplementsSingleFlight).                                  *)
(***************************************************************************)

CONSTANTS Callers,  \* each calls once; a task is named after the caller that started it
          Keys, None

VARIABLES key,      \* key[c]: the key caller c asks for
          given,    \* given[c]: the task c was answered with, or None
          flight,   \* flight[k]: the task in flight under key k, or None
          failing,  \* tasks that have failed and whose failure is not recorded yet
          outcome   \* outcome[t]: "open", "succeeded" or "failed"

vars == <<key, given, flight, failing, outcome>>

Init ==
  /\ key \in [Callers -> Keys]
  /\ given = [c \in Callers |-> None]
  /\ flight = [k \in Keys |-> None]
  /\ failing = {}
  /\ outcome = [c \in Callers |-> "open"]

\* A call finds its key free and starts a task.
Start(c) ==
  /\ given[c] = None
  /\ flight[key[c]] = None
  /\ outcome[c] = "open" /\ c \notin failing
  /\ flight' = [flight EXCEPT ![key[c]] = c]
  /\ given' = [given EXCEPT ![c] = c]
  /\ UNCHANGED <<key, failing, outcome>>

\* A call finds its key taken and joins the task.
Join(c) ==
  /\ given[c] = None
  /\ flight[key[c]] # None
  /\ given' = [given EXCEPT ![c] = flight[key[c]]]
  /\ UNCHANGED <<key, flight, failing, outcome>>

\* The task in flight succeeds; its key is given back later.
Succeed(k) ==
  /\ flight[k] # None
  /\ outcome[flight[k]] = "open"
  /\ outcome' = [outcome EXCEPT ![flight[k]] = "succeeded"]
  /\ UNCHANGED <<key, given, flight, failing>>

Land(k) ==
  /\ flight[k] # None
  /\ outcome[flight[k]] = "succeeded"
  /\ flight' = [flight EXCEPT ![k] = None]
  /\ UNCHANGED <<key, given, failing, outcome>>

\* The task in flight fails: its key is free before the failure is recorded.
Fail(k) ==
  /\ flight[k] # None
  /\ outcome[flight[k]] = "open"
  /\ flight' = [flight EXCEPT ![k] = None]
  /\ failing' = failing \cup {flight[k]}
  /\ UNCHANGED <<key, given, outcome>>

Record(t) ==
  /\ t \in failing
  /\ outcome[t] = "open"
  /\ outcome' = [outcome EXCEPT ![t] = "failed"]
  /\ failing' = failing \ {t}
  /\ UNCHANGED <<key, given, flight>>

\* The failure cannot be recorded: the outcome stays open.
Lose(t) ==
  /\ t \in failing
  /\ failing' = failing \ {t}
  /\ UNCHANGED <<key, given, flight, outcome>>

Restart ==
  /\ flight' = [k \in Keys |-> None]
  /\ failing' = {}
  /\ UNCHANGED <<key, given, outcome>>

Next ==
  \/ \E c \in Callers : Start(c) \/ Join(c) \/ Record(c) \/ Lose(c)
  \/ \E k \in Keys : Succeed(k) \/ Land(k) \/ Fail(k)
  \/ Restart

Spec == Init /\ [][Next]_vars

TypeOK ==
  /\ key \in [Callers -> Keys]
  /\ given \in [Callers -> Callers \cup {None}]
  /\ flight \in [Keys -> Callers \cup {None}]
  /\ failing \subseteq Callers
  /\ outcome \in [Callers -> {"open", "succeeded", "failed"}]

\* Nobody is given a task of another key, and none that has failed is in flight.
AnswersMatch ==
  /\ \A c \in Callers : given[c] # None => key[given[c]] = key[c]
  /\ \A k \in Keys : flight[k] # None =>
       key[flight[k]] = k /\ flight[k] \notin failing /\ outcome[flight[k]] # "failed"
===============================================================================
