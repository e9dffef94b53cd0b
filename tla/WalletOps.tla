----------------------------- MODULE WalletOps -----------------------------
(***************************************************************************)
(* The operations of the wallet repository (app/db/repositories/wallet.py) *)
(* and of the payment service above it (app/services/wallet.py), each one  *)
(* as a function of a "book": the wallet_balances rows together with the   *)
(* wallet_ledger rows.  `Wallet` applies an operation to the committed     *)
(* book in one step; `WalletTx` applies it to what one database session    *)
(* has read and turns the difference into SQL statements.                  *)
(*                                                                         *)
(* A ledger row keeps the columns the properties tell apart.  `reason` and *)
(* `ref_id` are abstracted into the idempotency key, which names both.     *)
(***************************************************************************)
EXTENDS Integers, Sequences

CONSTANTS
  Users,            \* ids of the users that may ever exist
  Payments,         \* ids reserve() may hand out: new_id("pay_") never repeats
  FreeBalanceCap,   \* settings.free_balance_cap (no code writes wallet.free_cap)
  DailyRewards,     \* settings.daily_reward_list, the reward ladder
  PeriodDays        \* length of a quota period: 7 in the source

ASSUME WalletAssumption ==
  /\ FreeBalanceCap \in Nat
  /\ DailyRewards \in Seq(Nat)
  /\ PeriodDays \in Nat \ {0}

Never == -1                     \* last_reward_date IS NULL; days count from 1
Buckets == {"free", "sub"}

Row == [free : Nat, sub : Nat, last : Nat \cup {Never}, streak : Nat]
EmptyRow == [free |-> 0, sub |-> 0, last |-> Never, streak |-> 0]

(* Idempotency keys.  The strings of the source are tuples here: two keys  *)
(* are equal exactly when the formatted strings are.  For the operators    *)
(* named Mutant... see below.                                              *)
SignupKey(u) == <<"signup", u>>
MutantDailyKeyOnce(u, day) == <<"daily", u, 0>>
DailyKey(u, day) == <<"daily", u, day>>
QuotaKey(u, anchor, period) == <<"quota", u, anchor, period>>
SpendKey(p, bucket) == <<"spend", p, bucket>>
RefundKey(p) == <<"refund", p>>
MergeKey(t) == <<"merge", t>>
MergeOutKey(g) == <<"merge_out", g>>

Keys ==
  ({"signup", "merge", "merge_out"} \X Users) \cup ({"refund"} \X Payments)
    \cup ({"spend"} \X Payments \X Buckets) \cup ({"daily"} \X Users \X Nat)
    \cup ({"quota"} \X Users \X Nat \X Nat)

Entry == [user : Users, bucket : Buckets, delta : Int, key : Keys, after : Int]

Lesser(a, b) == IF a < b THEN a ELSE b
NonNegative(a) == IF a > 0 THEN a ELSE 0

-----------------------------------------------------------------------------
(* Sums over the journal *)

Amount(e, u, b) == IF e.user = u /\ e.bucket = b THEN e.delta ELSE 0

(* A recursive function rather than a fold, so that it can be proved about *)
SeqSum(s) ==
  LET total[i \in 0..Len(s)] == IF i = 0 THEN 0 ELSE total[i - 1] + s[i]
  IN  total[Len(s)]

LedgerSum(L, u, b) == SeqSum([i \in DOMAIN L |-> Amount(L[i], u, b)])

KeyAmount(e, keys) == IF e.key \in keys THEN e.delta ELSE 0

KeySum(L, keys) == SeqSum([i \in DOMAIN L |-> KeyAmount(L[i], keys)])

Applied(B, key) == \E i \in DOMAIN B.ledger : B.ledger[i].key = key

-----------------------------------------------------------------------------
(* One movement of tokens: the balance column and its journal row. *)
Posted(B, u, bucket, delta, key) ==
  LET after == B.wallet[u][bucket] + delta
  IN  [wallet |-> [B.wallet EXCEPT ![u][bucket] = after],
       ledger |-> Append(B.ledger, [user |-> u, bucket |-> bucket, delta |-> delta,
                                    key |-> key, after |-> after])]

Total(w) == w.free + w.sub
(* Operators named Mutant... are plausible mistakes in the definition they *)
(* precede.  The specification never uses them: each stands in for that    *)
(* definition in one run to show that a property notices the difference.   *)

Room(w) == NonNegative(FreeBalanceCap - w.free)

Grant(B, u, amount, bucket, key) ==
  IF Applied(B, key) THEN B ELSE Posted(B, u, bucket, amount, key)

ResetQuota(B, u, quota, key) ==
  IF Applied(B, key) THEN B
  ELSE Posted(B, u, "sub", quota - B.wallet[u].sub, key)

WeeklyQuota(B, u, quota, anchor, day) ==
  IF day < anchor THEN B
  ELSE ResetQuota(B, u, quota, QuotaKey(u, anchor, (day - anchor) \div PeriodDays))

MutantStreakUnbroken(w, day) == IF w.streak = Len(DailyRewards) THEN 1 ELSE w.streak + 1

(* The ladder: the next rung after a claim on the day before, else the first *)
NextStreak(w, day) ==
  LET rung == IF w.last = day - 1 THEN w.streak + 1 ELSE 1
  IN  IF rung > Len(DailyRewards) THEN 1 ELSE rung

(* The reward columns of a claim, written even when the cap leaves nothing *)
Stamped(B, u, day, rung) ==
  [wallet |-> [B.wallet EXCEPT ![u] = [@ EXCEPT !.last = day, !.streak = rung]],
   ledger |-> B.ledger]

MutantClaimAgain(B, u, day) ==
  LET rung == NextStreak(B.wallet[u], day)
      granted == Lesser(DailyRewards[rung], Room(B.wallet[u]))
  IN  IF granted = 0 THEN B
      ELSE Posted(Stamped(B, u, day, rung), u, "free", granted, DailyKey(u, day))

Claim(B, u, day) ==
  LET w == B.wallet[u]
      rung == NextStreak(w, day)
      granted == Lesser(DailyRewards[rung], Room(w))
      marked == Stamped(B, u, day, rung)
  IN  IF DailyRewards = <<>> \/ w.last = day THEN B
      ELSE IF granted = 0 THEN marked
      ELSE Posted(marked, u, "free", granted, DailyKey(u, day))

MutantSpendFreeFirst(B, u, cost, p) ==
  LET fromFree == Lesser(B.wallet[u].free, cost)
      drained == IF fromFree = 0 THEN B
                 ELSE Posted(B, u, "free", -fromFree, SpendKey(p, "free"))
  IN  IF fromFree = cost THEN drained
      ELSE Posted(drained, u, "sub", fromFree - cost, SpendKey(p, "sub"))

(* A charge the balance covers; InsufficientFunds is the caller's guard.   *)
Spend(B, u, cost, p) ==
  LET fromSub == Lesser(B.wallet[u].sub, cost)
      rest == cost - fromSub
      drained == IF fromSub = 0 THEN B
                 ELSE Posted(B, u, "sub", -fromSub, SpendKey(p, "sub"))
  IN  IF rest = 0 THEN drained
      ELSE Posted(drained, u, "free", -rest, SpendKey(p, "free"))

MutantCanOverdraw(B, u, cost) == TRUE

CanSpend(B, u, cost) == cost <= Total(B.wallet[u])

MutantRefundTrimmed(B, u, amount, p) ==
  Grant(B, u, Lesser(amount, Room(B.wallet[u])), "free", RefundKey(p))

Refund(B, u, amount, p) == Grant(B, u, amount, "free", RefundKey(p))

MutantTransferUnrecorded(B, g, t) ==
  LET amount == Lesser(B.wallet[g].free, Room(B.wallet[t]))
  IN  IF Applied(B, MergeKey(t)) \/ amount <= 0 THEN B
      ELSE Posted([B EXCEPT !.wallet[g].free = @ - amount], t, "free", amount, MergeKey(t))

Transfer(B, g, t) ==
  LET amount == Lesser(B.wallet[g].free, Room(B.wallet[t]))
  IN  IF Applied(B, MergeKey(t)) \/ amount <= 0 THEN B
      ELSE Posted(Posted(B, g, "free", -amount, MergeOutKey(g)),
                  t, "free", amount, MergeKey(t))
=============================================================================
