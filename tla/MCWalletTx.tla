----------------------------- MODULE MCWalletTx -----------------------------
(* Values for the constants of WalletTx that a cfg cannot write down. *)
EXTENDS WalletTx, TLC

CONSTANTS g1, g2, a1

Ladder == <<1, 2>>
NoLadder == <<>>
GuestsAndAccount == a1 :> 1 @@ g1 :> 2 @@ g2 :> 3
GuestAndAccount == a1 :> 1 @@ g1 :> 2
OneAccount == a1 :> 1

(* Bound: the account alone climbs the ladder and pays, or a guest who     *)
(* pays signs in to it, or two guests sign in to it.  Only starts,         *)
(* sign-ups and midnights are cut off, and of these none is fair.          *)
Kinds == {tx[r].op.kind : r \in Requests}
Climbing == \A g \in Guests : account[g] = "absent"
Merging ==
  /\ today <= 1
  /\ \A u \in Users : claimed[u] = {}
  /\ "claim" \notin Kinds
  /\ \/ \E g \in Guests : account[g] = "absent"
     \/ "reserve" \notin Kinds /\ \A p \in Payments : payment[p] = Abstract!NoPayment
OneConcern == Climbing \/ Merging
=============================================================================
