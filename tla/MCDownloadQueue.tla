---------------------------- MODULE MCDownloadQueue ----------------------------
(***************************************************************************)
(* Instances of DownloadQueue for TLC: release "e" is episode 1, release   *)
(* "b" a batch of the episodes 1 and 2 that says so in its name, release   *)
(* "d" a batch of the same whose units are told by its files.  Triggers    *)
(* are alike.                                                              *)
(***************************************************************************)
EXTENDS DownloadQueue, TLC

MCContents == [h \in Releases |-> IF h = "e" THEN {1} ELSE {1, 2}]
MCSymmetry == Permutations(Triggers)
===============================================================================
