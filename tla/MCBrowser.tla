------------------------------ MODULE MCBrowser ------------------------------
(***************************************************************************)
(* Small instances of Browser for TLC.                                     *)
(***************************************************************************)
EXTENDS Browser, TLC

CONSTANTS t1, t2, a, b

\* One tab is used for everything, the other one for My Account only.
MCPages == t1 :> Page @@ t2 :> {"account"}

\* The instance of stale_advice.cfg: an advisor page next to My Account.
OnePage == t1 :> {"gear"} @@ t2 :> {"account"}

\* Account ids are interchangeable.
Symmetry == Permutations({a, b})
=============================================================================
