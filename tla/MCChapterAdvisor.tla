-------------------------- MODULE MCChapterAdvisor --------------------------
(***************************************************************************)
(* Every catalog of three chapters numbered out of 1 .. 4 in any order of  *)
(* their ids, with recommended powers around the two thresholds of an      *)
(* account's power: 7/10 of a need and the need itself.                    *)
(***************************************************************************)
EXTENDS ChapterAdvisor, TLC

MCEnergy == 1 :> 2 @@ 2 :> 0 @@ 3 :> 3
=============================================================================
