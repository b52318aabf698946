---------------------------- MODULE UnitReservation ----------------------------
(***************************************************************************)
(* What queueing promises of the units of a media entry, with no gate, no  *)
(* requests and no torrents: a new download reserves its units in one step *)
(* and only if nobody has any of them reserved; it may lose them, together *)
(* with other downloads or alone, and never gets them back.                *)
(*                                                                         *)
(* DownloadQueue implements this specification                             *)
(* (DownloadQueue!ImplementsReservation).                                  *)
(***************************************************************************)

CONSTANTS Rows,  \* the downloads there can be
          Units

VARIABLES used,  \* downloads that there are, or were
          held   \* held[i]: the units download i has reserved

vars == <<used, held>>

Init ==
  /\ used = {}
  /\ held = [i \in Rows |-> {}]

Reserve(i, wanted) ==
  /\ i \notin used
  /\ \A j \in Rows : held[j] \cap wanted = {}
  /\ used' = used \cup {i}
  /\ held' = [held EXCEPT ![i] = wanted]

\* Downloads end, fail, are deleted or leave the promise.
Release(gone) ==
  /\ held' = [i \in Rows |-> IF i \in gone THEN {} ELSE held[i]]
  /\ UNCHANGED used

Next ==
  \/ \E i \in Rows, wanted \in SUBSET Units : Reserve(i, wanted)
  \/ \E gone \in SUBSET Rows : Release(gone)

Spec == Init /\ [][Next]_vars

\* No unit is reserved twice.
NoneTwice == \A i, j \in Rows : i # j => held[i] \cap held[j] = {}
===============================================================================
