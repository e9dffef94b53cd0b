------------------------------ MODULE MCWallet ------------------------------
(* The wallet on a small instance. *)
EXTENDS Wallet

Ladder == <<1, 2>>

(* Bound: either a guest and an account climb the ladder, with one payment *)
(* of the larger price and no plan, or an account pays with two payments   *)
(* and two plans for three days and claims nothing.                        *)
Ladders ==
  /\ \A p \in Payments :
       payment[p] # NoPayment => payment[p].amount = 3 /\ p = CHOOSE q \in Payments : TRUE
  /\ \A i \in DOMAIN ledger : ledger[i].bucket = "free"
Plans ==
  /\ \A u \in Guests : account[u] = "absent"
  /\ \A u \in Users : claimed[u] = {}
  /\ today <= 3
OneConcern == Ladders \/ Plans
=============================================================================
