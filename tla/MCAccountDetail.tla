--------------------------- MODULE MCAccountDetail ---------------------------
(***************************************************************************)
(* A small instance of AccountDetail for TLC.                              *)
(***************************************************************************)
EXTENDS AccountDetail, TLC

CONSTANTS bow, helmet, boots, Hand, Head, Feet, weapons, armor

\* A table with two slots and one with one, an item for each slot.
MCSlotOf == bow :> Hand @@ helmet :> Head @@ boots :> Feet
MCTableOf == Hand :> weapons @@ Head :> armor @@ Feet :> armor
=============================================================================
