---------------------------- MODULE MCEquipment ----------------------------
(***************************************************************************)
(* Small instances of EquipmentService for TLC.                            *)
(***************************************************************************)
EXTENDS EquipmentService, TLC

CONSTANTS a, b, c, Head, Feet

\* Two helmets and a pair of boots: a slot that is fought over and another
\* one next to it (armor, the only table with more than one slot).
TwoSlots == a :> Head @@ b :> Head @@ c :> Feet

\* Every other table: one slot for the whole account.
OneSlot == [i \in Item |-> Head]

\* Handlers are interchangeable, and so are the items of the contested slot.
Symmetry == Permutations(Worker) \cup Permutations({a, b})
=============================================================================
