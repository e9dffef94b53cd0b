------------------------------- MODULE Wallet -------------------------------
(***************************************************************************)
(* What the wallet promises: every operation of the repository and of the  *)
(* payment service takes effect in one step on the committed rows, which   *)
(* is what a request that meets no other request on its rows observes.     *)
(* `WalletTx` splits the same operations into the reads, statements and    *)
(* commits of concurrent database sessions.                                *)
(***************************************************************************)
EXTENDS WalletOps, FiniteSets

CONSTANTS
  Guests,        \* the users created by POST /api/auth/guest
  NoUser,        \* the payer of a payment that does not exist yet
  SignupBonus,   \* settings.signup_toontoon_balance
  Costs,         \* prices a generation may have (tile, style or settings)
  Quotas,        \* weekly quotas of the plans
  MaxDay         \* bound: the last day of a behaviour

ASSUME WalletSystemAssumption ==
  /\ Guests \subseteq Users
  /\ NoUser \notin Users
  /\ SignupBonus \in Nat
  /\ Costs \subseteq Nat
  /\ Quotas \subseteq Nat
  /\ MaxDay \in Nat \ {0}

VARIABLES
  wallet,    \* wallet_balances, by user
  ledger,    \* wallet_ledger, in commit order
  account,   \* users: "absent" before the row exists, "merged" once deleted_at is set
  payment,   \* what reserve() handed out: who paid and how much
  today,     \* the server's date
  claimed    \* history: the days on which a claim was accepted, by user

vars == <<wallet, ledger, account, payment, today, claimed>>

Days == 1..MaxDay
NoPayment == [user |-> NoUser, amount |-> 0]
Payment == [user : Users, amount : Nat] \cup {NoPayment}

Book == [wallet |-> wallet, ledger |-> ledger]
Write(B) == wallet' = B.wallet /\ ledger' = B.ledger

Init ==
  /\ wallet = [u \in Users |-> EmptyRow]
  /\ ledger = <<>>
  /\ account = [u \in Users |-> "absent"]
  /\ payment = [p \in Payments |-> NoPayment]
  /\ today = 1
  /\ claimed = [u \in Users |-> {}]

(* create_guest and create_email_user / get_or_create_oauth_user.  The     *)
(* bonus is skipped for an account when it is 0, while a guest cannot be   *)
(* created at all then: grant() raises on an amount of 0.                  *)
CreateUser(u) ==
  /\ account[u] = "absent"
  /\ u \in Guests => SignupBonus > 0
  /\ account' = [account EXCEPT ![u] = "active"]
  /\ Write(IF SignupBonus = 0 THEN Book
           ELSE Grant(Book, u, SignupBonus, "free", SignupKey(u)))
  /\ UNCHANGED <<payment, today, claimed>>

(* POST /api/wallet/rewards/daily *)
ClaimDailyReward(u) ==
  /\ account[u] = "active"
  /\ Write(Claim(Book, u, today))
  /\ claimed' = [claimed EXCEPT ![u] = IF DailyRewards = <<>> THEN @ ELSE @ \cup {today}]
  /\ UNCHANGED <<account, payment, today>>

Reserve(u, p, cost) ==
  /\ account[u] = "active"
  /\ payment[p] = NoPayment
  /\ CanSpend(Book, u, cost)
  /\ payment' = [payment EXCEPT ![p] = [user |-> u, amount |-> cost]]
  /\ Write(Spend(Book, u, cost, p))
  /\ UNCHANGED <<account, today, claimed>>

(* Callers may cancel again ("a retried refund is harmless") and may do so *)
(* after the payer was folded into an account.                             *)
Cancel(p) ==
  /\ payment[p].amount > 0
  /\ Write(Refund(Book, payment[p].user, payment[p].amount, p))
  /\ UNCHANGED <<account, payment, today, claimed>>

(* Sign-in with a guest session: promote_guest *)
PromoteGuest(g, t) ==
  /\ g \in Guests /\ t \notin Guests
  /\ account[g] = "active" /\ account[t] = "active"
  /\ Write(Transfer(Book, g, t))
  /\ account' = [account EXCEPT ![g] = "merged"]
  /\ UNCHANGED <<payment, today, claimed>>

EnsureWeeklyQuota(u, quota, anchor) ==
  /\ account[u] = "active"
  /\ u \notin Guests
  /\ Write(WeeklyQuota(Book, u, quota, anchor, today))
  /\ UNCHANGED <<account, payment, today, claimed>>

NextDay ==
  /\ today < MaxDay
  /\ today' = today + 1
  /\ UNCHANGED <<wallet, ledger, account, payment, claimed>>

Next ==
  \/ \E u \in Users : CreateUser(u) \/ ClaimDailyReward(u)
  \/ \E u \in Users, p \in Payments, cost \in Costs : Reserve(u, p, cost)
  \/ \E p \in Payments : Cancel(p)
  \/ \E g \in Guests, t \in Users : PromoteGuest(g, t)
  \/ \E u \in Users, quota \in Quotas, anchor \in Days : EnsureWeeklyQuota(u, quota, anchor)
  \/ NextDay

Spec == Init /\ [][Next]_vars

-----------------------------------------------------------------------------
(* Every row has its type; in particular no balance is ever negative.      *)
TypeOK ==
  /\ wallet \in [Users -> Row]
  /\ ledger \in Seq(Entry)
  /\ account \in [Users -> {"absent", "active", "merged"}]
  /\ payment \in [Payments -> Payment]
  /\ today \in Days
  /\ claimed \in [Users -> SUBSET Days]

(* "Any balance can be re-derived by summing the ledger" (models.py): both *)
(* buckets of every wallet are the sum of their journal rows.              *)
BalanceIsLedgerSum ==
  \A u \in Users : \A b \in Buckets : wallet[u][b] = LedgerSum(ledger, u, b)

(* No operation ever writes an idempotency key twice: between requests     *)
(* that do not overlap the unique index is never what stops a repeat, so   *)
(* no legal sequence of calls ends in an IntegrityError.                   *)
KeysUnique ==
  \A i, j \in DOMAIN ledger : ledger[i].key = ledger[j].key => i = j

(* The ladder cannot be climbed without coming back: a streak of s was     *)
(* earned on s consecutive days that end with the last claim; and nobody   *)
(* who came every day restarts it before the ladder is complete.           *)
StreakEarned ==
  \A u \in Users : LET w == wallet[u] IN
    /\ w.streak <= Len(DailyRewards)
    /\ w.streak > 0 => /\ w.last \in claimed[u]
                       /\ (w.last - w.streak + 1)..w.last \subseteq claimed[u]
    /\ w.last - w.streak \in claimed[u] =>
         (w.last - w.streak - Len(DailyRewards) + 1)..(w.last - w.streak) \subseteq claimed[u]

(* Rows written for a payment: the charge and its refund *)
PaymentKeys(p) == {SpendKey(p, "sub"), SpendKey(p, "free"), RefundKey(p)}

(* However often a payment is cancelled, its journal rows take the price   *)
(* once and give it back at most once, whatever buckets it came from.      *)
RefundUndoesCharge ==
  \A p \in Payments :
    LET refunded == Applied(Book, RefundKey(p))
    IN  KeySum(ledger, PaymentKeys(p)) = IF refunded THEN 0 ELSE -payment[p].amount

(* The free bucket passes its cap by refunds only (or by a signup bonus    *)
(* configured above the cap), and by no more than they gave back: rewards  *)
(* and carried-over balances are trimmed.                                  *)
OverCapOnlyByRefunds ==
  \A u \in Users :
    wallet[u].free <=
      FreeBalanceCap + NonNegative(SignupBonus - FreeBalanceCap)
      + KeySum(ledger, {RefundKey(p) : p \in {q \in Payments : payment[q].user = u}})

(* Folding guests into accounts creates and destroys nothing, and each     *)
(* account is given a guest's balance at most once.                        *)
MergeConserves ==
  /\ KeySum(ledger, {MergeKey(u) : u \in Users} \cup {MergeOutKey(u) : u \in Users}) = 0
  /\ \A t \in Users :
       Cardinality({i \in DOMAIN ledger : ledger[i].key = MergeKey(t)}) <= 1

(* The subscription bucket never holds more than a plan's quota, so that a *)
(* reset never burns tokens that were not part of it.                      *)
SubWithinPlan ==
  \A u \in Users : wallet[u].sub = 0 \/ \E q \in Quotas : wallet[u].sub <= q

(* What a cancellation gives back and a plan takes back never meets the    *)
(* wrong bucket: a refund undoes its charge whichever buckets it drew on,  *)
(* lands in the free one, there alone may pass the cap, and is not burnt   *)
(* by the next quota; nor is what a sign-in brings along.                  *)
BucketsKeptApart ==
  RefundUndoesCharge /\ OverCapOnlyByRefunds /\ SubWithinPlan /\ MergeConserves

(* Earned tokens never burn: the free bucket shrinks only when a new       *)
(* charge has emptied the subscription bucket, or when its guest is        *)
(* folded into an account.                                                 *)
FreeNeverBurns ==
  [][\A u \in Users : wallet'[u].free < wallet[u].free =>
       \/ account[u] = "active" /\ account'[u] = "merged"
       \/ /\ wallet'[u].sub = 0
          /\ \E p \in Payments : /\ payment[p] = NoPayment
                                 /\ payment'[p].user = u]_vars
=============================================================================
