----------------------------- MODULE MCSockets -----------------------------
(***************************************************************************)
(* Small instances of Sockets for TLC.                                     *)
(***************************************************************************)
EXTENDS Sockets, TLC

\* Handlers, items and sockets are interchangeable.
Symmetry == Permutations(Worker) \cup Permutations(Item) \cup Permutations(Socket)
=============================================================================
