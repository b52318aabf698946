----------------------- MODULE MCDownloadReconciliation -----------------------
(***************************************************************************)
(* Instances of DownloadReconciliation for TLC.  With units 12 and 21 row  *)
(* 1 is a batch of two units, row 2 a single episode.  With unit 11 alone  *)
(* rows 1 and 3 are two fetches of one release of an episode and row 2 is  *)
(* another release of it.                                                  *)
(***************************************************************************)
EXTENDS DownloadReconciliation

MCHashOf == [i \in Ids |-> IF i = 2 THEN "h2" ELSE "h1"]
MCContents == [h \in Hashes |-> IF h = "h1" THEN Units \cap {11, 12}
                                ELSE IF 21 \in Units THEN {21} ELSE {11}]
MCUnitNumber == [i \in Ids |-> IF i = 2 /\ 21 \in Units THEN 21 ELSE 11]
===============================================================================
