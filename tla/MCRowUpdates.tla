---------------------------- MODULE MCRowUpdates ----------------------------
(***************************************************************************)
(* Small instances of RowUpdates for TLC.                                  *)
(***************************************************************************)
EXTENDS RowUpdates, TLC

\* Handlers are interchangeable.
Symmetry == Permutations(Worker)
=============================================================================
