------------------------------ MODULE Loadout ------------------------------
(***************************************************************************)
(* What the account's equipment promises to someone who only looks at      *)
(* committed states: each slot wears at most one item, always an owned one *)
(* of that slot, and a change is a single swap, removal, gain or loss,     *)
(* never half of one.                                                      *)
(***************************************************************************)
CONSTANTS Item, Slot, SlotOf, Nothing

VARIABLES owned,   \* the items of the account
          worn     \* [Slot -> Item or Nothing]

vars == <<owned, worn>>

FitsSlots(o, wr) ==
  \A s \in Slot : wr[s] # Nothing => wr[s] \in o /\ SlotOf[wr[s]] = s

Init ==
  /\ owned \in SUBSET Item
  /\ worn \in [Slot -> Item \cup {Nothing}]
  /\ FitsSlots(owned, worn)

\* Put item i on; whatever its slot wore is off in the same instant.
Wear(i) ==
  /\ i \in owned
  /\ worn' = [worn EXCEPT ![SlotOf[i]] = i]
  /\ UNCHANGED owned

TakeOff(s) ==
  /\ worn[s] # Nothing
  /\ worn' = [worn EXCEPT ![s] = Nothing]
  /\ UNCHANGED owned

Gain(i) ==
  /\ i \notin owned
  /\ owned' = owned \cup {i}
  /\ UNCHANGED worn

Lose(i) ==
  /\ i \in owned
  /\ owned' = owned \ {i}
  /\ worn' = [s \in Slot |-> IF worn[s] = i THEN Nothing ELSE worn[s]]

Next ==
  \/ \E i \in Item : Wear(i) \/ Gain(i) \/ Lose(i)
  \/ \E s \in Slot : TakeOff(s)

Spec == Init /\ [][Next]_vars
=============================================================================
