---------------------------- MODULE WalletProofs ----------------------------
(***************************************************************************)
(* Theorems about Wallet, for every set of users, guests and payments,     *)
(* every ladder, cap, bonus, price and plan.                               *)
(***************************************************************************)
EXTENDS Wallet, WalletOpsProofs, FiniteSetTheorems

-----------------------------------------------------------------------------
(* Types and sums.  TypeOK and BalanceIsLedgerSum are inductive together:  *)
(* that the next balance is not negative rests on the guards alone, that   *)
(* it stays the sum of the journal on the row being a natural number.      *)

Sound == TypeOK /\ BalanceIsLedgerSum

(* The committed rows are a balanced book.                                 *)
LEMMA SoundBook == Sound => OK(Book)
BY DEF Sound, TypeOK, BalanceIsLedgerSum, OK, BookType, Balanced, Book

(* Writing a balanced book back keeps the rows typed and summing.          *)
LEMMA WriteSound ==
  ASSUME NEW B, OK(B), Write(B)
  PROVE  /\ wallet' \in [Users -> Row]
         /\ ledger' \in Seq(Entry)
         /\ BalanceIsLedgerSum'
BY DEF OK, Write, BookType, Balanced, BalanceIsLedgerSum

(* An empty database is sound.                                             *)
LEMMA InitSound == Init => Sound
<1> SUFFICES ASSUME Init PROVE Sound
  OBVIOUS
<1>1. EmptyRow \in Row /\ EmptyRow["free"] = 0 /\ EmptyRow["sub"] = 0
  BY DEF EmptyRow, Row
<1>2. NoPayment \in Payment
  BY DEF NoPayment, Payment
<1>3. TypeOK
  BY <1>1, <1>2, WalletSystemAssumption DEF Init, TypeOK, Days
<1>4. BalanceIsLedgerSum
  BY <1>1, LedgerSumEmpty DEF Init, BalanceIsLedgerSum, Buckets
<1> QED BY <1>3, <1>4 DEF Sound

(* No operation of the wallet breaks the types or the sums.                *)
LEMMA NextSound == Sound /\ [Next]_vars => Sound'
<1> SUFFICES ASSUME Sound, [Next]_vars PROVE Sound'
  OBVIOUS
<1> USE DEF Sound, TypeOK
<1>0. OK(Book)
  BY SoundBook
<1>1. ASSUME NEW u \in Users, CreateUser(u) PROVE Sound'
  <2>1. "free" \in Buckets /\ SignupKey(u) \in Keys /\ SignupBonus \in Nat
    BY WalletSystemAssumption DEF Buckets, SignupKey, Keys
  <2>2. OK(Grant(Book, u, SignupBonus, "free", SignupKey(u)))
    BY <1>0, <2>1, GrantAccounts, AccountsOK DEF OK
  <2> QED BY <1>0, <1>1, <2>2, WriteSound DEF CreateUser
<1>2. ASSUME NEW u \in Users, ClaimDailyReward(u) PROVE Sound'
  <2>1. OK(Claim(Book, u, today))
    BY <1>0, ClaimAccounts, AccountsOK DEF Days, OK
  <2> QED BY <1>2, <2>1, WriteSound DEF ClaimDailyReward
<1>3. ASSUME NEW u \in Users, NEW p \in Payments, NEW cost \in Costs, Reserve(u, p, cost)
      PROVE  Sound'
  <2>1. cost \in Nat
    BY WalletSystemAssumption
  <2>2. OK(Spend(Book, u, cost, p))
    BY <1>0, <1>3, <2>1, SpendAccounts, AccountsOK DEF Reserve, OK
  <2> QED BY <1>3, <2>1, <2>2, WriteSound DEF Reserve, Payment
<1>4. ASSUME NEW p \in Payments, Cancel(p) PROVE Sound'
  <2>1. payment[p].user \in Users /\ payment[p].amount \in Nat
    BY <1>4 DEF Payment, NoPayment, Cancel
  <2>2. "free" \in Buckets /\ RefundKey(p) \in Keys
    BY DEF Buckets, RefundKey, Keys
  <2>3. OK(Refund(Book, payment[p].user, payment[p].amount, p))
    BY <1>0, <2>1, <2>2, GrantAccounts, AccountsOK DEF Refund, OK
  <2> QED BY <1>4, <2>3, WriteSound DEF Cancel
<1>5. ASSUME NEW g \in Guests, NEW t \in Users, PromoteGuest(g, t) PROVE Sound'
  <2>1. OK(Transfer(Book, g, t))
    BY <1>0, TransferAccounts, AccountsOK, WalletSystemAssumption DEF OK
  <2> QED BY <1>5, <2>1, WriteSound, WalletSystemAssumption DEF PromoteGuest
<1>6. ASSUME NEW u \in Users, NEW quota \in Quotas, NEW anchor \in Days,
             EnsureWeeklyQuota(u, quota, anchor)
      PROVE  Sound'
  <2>1. OK(WeeklyQuota(Book, u, quota, anchor, today))
    BY <1>0, WeeklyQuotaAccounts, AccountsOK, WalletSystemAssumption DEF Days, OK
  <2> QED BY <1>6, <2>1, WriteSound DEF EnsureWeeklyQuota
<1>7. CASE NextDay
  BY <1>7, WalletSystemAssumption DEF NextDay, Days, BalanceIsLedgerSum
<1>8. CASE UNCHANGED vars
  BY <1>8 DEF vars, BalanceIsLedgerSum
<1> QED BY <1>1, <1>2, <1>3, <1>4, <1>5, <1>6, <1>7, <1>8 DEF Next

(* Every reachable state has its types: no balance is ever negative.       *)
THEOREM TypeCorrect == Spec => []TypeOK
<1>1. Sound => TypeOK
  BY DEF Sound
<1> QED BY InitSound, NextSound, <1>1, PTL DEF Spec

(* Every balance can be re-derived from the journal (wallet.py, models.py) *)
THEOREM BalanceRederivable == Spec => []BalanceIsLedgerSum
<1>1. Sound => BalanceIsLedgerSum
  BY DEF Sound
<1> QED BY InitSound, NextSound, <1>1, PTL DEF Spec

-----------------------------------------------------------------------------
(* Idempotency keys.  Grants, quota resets and transfers look their key up *)
(* before they write it; claims, charges and the guest's side of a         *)
(* transfer do not, and rest on other state: the date of the last claim,   *)
(* a payment id that is fresh, a guest that is not deleted yet.            *)

RewardInv ==
  \A u \in Users : /\ wallet[u].last <= today
                   /\ claimed[u] \subseteq 1..wallet[u].last
                   /\ wallet[u].last = Never \/ wallet[u].last \in claimed[u]
                   /\ wallet[u].streak = 0 => wallet[u].last = Never

KeyInv ==
  /\ Distinct(ledger)
  /\ \A u \in Users, d \in Nat :
       DailyKey(u, d) \in KeysIn(ledger) => d <= wallet[u].last
  /\ \A p \in Payments, b \in Buckets :
       SpendKey(p, b) \in KeysIn(ledger) => payment[p] # NoPayment
  /\ \A g \in Users : MergeOutKey(g) \in KeysIn(ledger) => account[g] = "merged"

IInv == Sound /\ RewardInv /\ StreakEarned /\ KeyInv

(* The invariant holds of an empty database.                               *)
LEMMA InitInv == Init => IInv
<1> SUFFICES ASSUME Init PROVE IInv
  OBVIOUS
<1>1. RewardInv /\ StreakEarned
  BY WalletAssumption DEF Init, RewardInv, StreakEarned, EmptyRow, Never
<1>2. KeysIn(ledger) = {} /\ Distinct(ledger)
  BY DEF Init, KeysIn, Distinct
<1>3. KeyInv
  BY <1>2 DEF KeyInv
<1> QED BY InitSound, <1>1, <1>3 DEF IInv

(* An operation that leaves the reward columns alone.                      *)
LEMMA RewardsKept ==
  ASSUME Sound, Sound', RewardInv, StreakEarned, NEW B, SameRewards(Book, B), Write(B),
         UNCHANGED <<today, claimed>>
  PROVE  RewardInv' /\ StreakEarned'
<1>1. \A u \in Users : wallet'[u].last = wallet[u].last /\ wallet'[u].streak = wallet[u].streak
  BY DEF SameRewards, Write, Book
<1> QED BY <1>1 DEF RewardInv, StreakEarned

(* An operation that adds the keys of K and none of the keys that the      *)
(* invariant ties to other state, except where that state justifies them.  *)
LEMMA KeysStay ==
  ASSUME KeyInv, NEW B, NEW K, KeysKept(Book, B, K), Write(B),
         \A u \in Users : wallet[u].last <= wallet'[u].last,
         \A p \in Payments : payment[p] # NoPayment => payment'[p] # NoPayment,
         \A g \in Users : account[g] = "merged" => account'[g] = "merged",
         \A u \in Users, d \in Nat : DailyKey(u, d) \in K => d <= wallet'[u].last,
         \A p \in Payments, b \in Buckets : SpendKey(p, b) \in K => payment'[p] # NoPayment,
         \A g \in Users : MergeOutKey(g) \in K => account'[g] = "merged",
         TypeOK, TypeOK'
  PROVE  KeyInv'
<1>1. KeysIn(ledger') \subseteq KeysIn(ledger) \cup K /\ Distinct(ledger')
  BY DEF KeysKept, Write, Book, KeyInv
<1>2. ASSUME NEW u \in Users, NEW d \in Nat, DailyKey(u, d) \in KeysIn(ledger')
      PROVE  d <= wallet'[u].last
  <2>1. wallet[u].last \in Int /\ wallet'[u].last \in Int
    BY DEF TypeOK, Row, Never
  <2> QED BY <1>1, <1>2, <2>1 DEF KeyInv
<1> QED BY <1>1, <1>2 DEF KeyInv

(* Keys of different kinds are different. *)
LEMMA KeyKinds ==
  \A u, v, x, y, d :
    /\ DailyKey(u, d) # SignupKey(v) /\ DailyKey(u, d) # RefundKey(v)
    /\ DailyKey(u, d) # MergeKey(v) /\ DailyKey(u, d) # MergeOutKey(v)
    /\ DailyKey(u, d) # SpendKey(v, x) /\ DailyKey(u, d) # QuotaKey(v, x, y)
    /\ SpendKey(u, d) # SignupKey(v) /\ SpendKey(u, d) # RefundKey(v)
    /\ SpendKey(u, d) # MergeKey(v) /\ SpendKey(u, d) # MergeOutKey(v)
    /\ SpendKey(u, d) # QuotaKey(v, x, y)
    /\ MergeOutKey(u) # SignupKey(v) /\ MergeOutKey(u) # RefundKey(v)
    /\ MergeOutKey(u) # MergeKey(v) /\ MergeOutKey(u) # SpendKey(v, x)
    /\ MergeOutKey(u) # DailyKey(v, x) /\ MergeOutKey(u) # QuotaKey(v, x, y)
BY DEF SignupKey, DailyKey, QuotaKey, SpendKey, RefundKey, MergeKey, MergeOutKey

(* Equal keys of one kind name the same user and day, payment and bucket,  *)
(* or guest.                                                               *)
LEMMA SameKeys ==
  ASSUME NEW u, NEW d, NEW v, NEW x
  PROVE  /\ DailyKey(u, d) = DailyKey(v, x) => u = v /\ d = x
         /\ SpendKey(u, d) = SpendKey(v, x) => u = v /\ d = x
         /\ MergeOutKey(u) = MergeOutKey(v) => u = v
BY DEF DailyKey, SpendKey, MergeOutKey

(* Leaving the reward columns alone leaves the last claims where they were *)
LEMMA LastKept ==
  ASSUME TypeOK, NEW B, SameRewards(Book, B), Write(B)
  PROVE  \A u \in Users : wallet[u].last <= wallet'[u].last
<1>1. \A u \in Users : wallet[u].last \in Int /\ wallet'[u].last = wallet[u].last
  BY DEF TypeOK, Row, Never, SameRewards, Write, Book
<1> QED BY <1>1

(* Every operation of the wallet preserves the invariant.                  *)
LEMMA NextInv == IInv /\ [Next]_vars => IInv'
<1> SUFFICES ASSUME IInv, [Next]_vars PROVE IInv'
  OBVIOUS
<1>0. /\ Sound /\ Sound' /\ TypeOK /\ TypeOK' /\ Book \in BookType
      /\ RewardInv /\ StreakEarned /\ KeyInv /\ KeysIn(Book.ledger) = KeysIn(ledger)
  BY NextSound, SoundBook DEF IInv, Sound, Book, OK
<1>1. ASSUME NEW u \in Users, CreateUser(u) PROVE IInv'
  <2> DEFINE B == Grant(Book, u, SignupBonus, "free", SignupKey(u))
  <2>1. KeysKept(Book, B, {SignupKey(u)}) /\ SameRewards(Book, B)
    BY <1>0, GrantKeys DEF Buckets
  <2>2. KeysKept(Book, Book, {SignupKey(u)}) /\ SameRewards(Book, Book)
    BY DEF KeysKept, SameRewards
  <2>3. PICK C : /\ KeysKept(Book, C, {SignupKey(u)}) /\ SameRewards(Book, C) /\ Write(C)
    BY <1>1, <2>1, <2>2 DEF CreateUser
  <2>4. RewardInv' /\ StreakEarned'
    BY <1>0, <1>1, <2>3, RewardsKept DEF CreateUser
  <2>5. /\ \A g \in Users : account[g] = "merged" => account'[g] = "merged"
        /\ payment' = payment
    BY <1>0, <1>1 DEF CreateUser, TypeOK
  <2> DEFINE K == {SignupKey(u)}
  <2>6. /\ \A v, d : DailyKey(v, d) \notin K /\ SpendKey(v, d) \notin K
        /\ \A g : MergeOutKey(g) \notin K
    BY KeyKinds
  <2>7. KeysKept(Book, C, K)
    BY <2>3
  <2> HIDE DEF K
  <2>8. KeyInv'
    BY <1>0, <2>3, <2>5, <2>6, <2>7, KeysStay, LastKept
  <2> QED BY <1>0, <2>4, <2>8 DEF IInv
<1>2. ASSUME NEW u \in Users, ClaimDailyReward(u) PROVE IInv'
  <2> DEFINE C == Claim(Book, u, today)
  <2> DEFINE rung == NextStreak(wallet[u], today)
  <2> DEFINE K == {DailyKey(u, today)}
  <2>1. Write(C) /\ UNCHANGED <<account, payment, today>>
    BY <1>2 DEF ClaimDailyReward
  <2>2. /\ today \in Nat /\ Book.wallet = wallet /\ Book.ledger = ledger
        /\ \A v \in Users : wallet[v] \in Row /\ wallet[v].last \in Int
                           /\ wallet[v].last <= today
    BY <1>0 DEF TypeOK, Days, Row, Never, Book, RewardInv
  <2>3. CASE DailyRewards = <<>> \/ wallet[u].last = today
    <3>1. C = Book
      BY <2>2, <2>3 DEF Claim
    <3>2. claimed' = claimed
      BY <1>0, <1>2, <2>2, <2>3 DEF ClaimDailyReward, RewardInv, TypeOK, Never
    <3>3. UNCHANGED vars
      BY <2>1, <3>1, <3>2 DEF Write, Book, vars
    <3> QED BY <1>0, <3>3 DEF vars, RewardInv, StreakEarned, KeyInv, IInv
  <2>4. CASE DailyRewards # <<>> /\ wallet[u].last # today
    <3>1. DailyKey(u, today) \notin KeysIn(Book.ledger)
      BY <1>0, <2>2, <2>4 DEF KeyInv
    <3>2. /\ KeysKept(Book, C, K)
          /\ C.wallet[u].last = today /\ C.wallet[u].streak = rung
          /\ \A v \in Users : v # u => /\ C.wallet[v].last = wallet[v].last
                                      /\ C.wallet[v].streak = wallet[v].streak
      BY <1>0, <2>2, <2>4, <3>1, ClaimKeys, ZenonT(40)
    <3>3. /\ wallet'[u].last = today /\ wallet'[u].streak = rung
          /\ \A v \in Users : v # u => /\ wallet'[v].last = wallet[v].last
                                      /\ wallet'[v].streak = wallet[v].streak
      BY <2>1, <3>2 DEF Write
    <3>4. /\ claimed'[u] = claimed[u] \cup {today}
          /\ \A v \in Users : v # u => claimed'[v] = claimed[v]
      BY <1>0, <1>2, <2>4 DEF ClaimDailyReward, TypeOK
    <3>5. rung \in 1..Len(DailyRewards)
      BY <2>2, <2>4, StreakType
    <3> HIDE DEF C, rung, K
    <3>6. RewardInv'
      <4> SUFFICES ASSUME NEW v \in Users
                   PROVE  /\ wallet'[v].last <= today
                          /\ claimed'[v] \subseteq 1..wallet'[v].last
                          /\ wallet'[v].last = Never \/ wallet'[v].last \in claimed'[v]
                          /\ wallet'[v].streak = 0 => wallet'[v].last = Never
        BY <2>1 DEF RewardInv
      <4>1. CASE v = u
        <5>1. claimed[u] \subseteq 1..wallet[u].last /\ today \in 1..today
          BY <1>0, <2>2 DEF RewardInv, TypeOK, Days
        <5>2. claimed[u] \subseteq 1..today
          BY <2>2, <5>1
        <5> QED BY <2>2, <3>3, <3>4, <3>5, <4>1, <5>1, <5>2
      <4>2. CASE v # u
        BY <1>0, <3>3, <3>4, <4>2 DEF RewardInv
      <4> QED BY <4>1, <4>2
    <3>7. StreakEarned'
      <4> DEFINE top == Len(DailyRewards)
      <4> DEFINE last == wallet[u].last
      <4> DEFINE s == wallet[u].streak
      <4>1. /\ last \in Int /\ last < today /\ s \in Nat /\ top \in Nat /\ s <= top
            /\ claimed[u] \subseteq 1..last
            /\ s = 0 => last = Never
            /\ s > 0 => last \in claimed[u] /\ (last - s + 1)..last \subseteq claimed[u]
            /\ last - s \in claimed[u] =>
                 (last - s - top + 1)..(last - s) \subseteq claimed[u]
        BY <1>0, <2>2, <2>4, WalletAssumption DEF RewardInv, StreakEarned, Row
      <4>2. rung \in Nat /\ rung > 0 /\ rung <= top
        BY <3>5, <4>1
      <4>3. rung = IF last = today - 1 /\ s + 1 <= top THEN s + 1 ELSE 1
        BY <4>1, <4>2 DEF rung, NextStreak
      <4>4. (today - rung + 1)..today \subseteq claimed'[u]
        <5> HIDE DEF top, last, s
        <5>1. CASE last = today - 1 /\ s + 1 <= top /\ s > 0
          <6> SUFFICES ASSUME NEW i \in (today - rung + 1)..today PROVE i \in claimed'[u]
            OBVIOUS
          <6>1. i = today \/ i \in (last - s + 1)..last
            BY <2>2, <4>1, <4>3, <5>1
          <6> QED BY <3>4, <4>1, <5>1, <6>1
        <5>2. CASE ~ (last = today - 1 /\ s + 1 <= top /\ s > 0)
          <6>1. rung = 1
            BY <4>1, <4>3, <5>2
          <6>2. \A i \in (today - rung + 1)..today : i = today
            BY <2>2, <6>1
          <6> QED BY <3>4, <6>2
        <5> QED BY <5>1, <5>2
      <4>5. today - rung \in claimed'[u] =>
              (today - rung - top + 1)..(today - rung) \subseteq claimed'[u]
        <5> HIDE DEF top, last, s
        <5> SUFFICES ASSUME today - rung \in claimed'[u],
                            NEW i \in (today - rung - top + 1)..(today - rung)
                     PROVE  i \in claimed'[u]
          OBVIOUS
        <5>1. today - rung \in claimed[u] /\ today - rung <= last
          BY <2>2, <3>4, <4>1, <4>2
        <5>2. CASE last = today - 1 /\ s + 1 <= top
          <6>1. today - rung = last - s
            BY <2>2, <4>1, <4>3, <5>2
          <6> QED BY <3>4, <4>1, <5>1, <6>1
        <5>3. CASE ~ (last = today - 1 /\ s + 1 <= top)
          <6>1. rung = 1 /\ last = today - 1 /\ s = top
            BY <2>2, <4>1, <4>3, <5>1, <5>3
          <6>2. s > 0 /\ i \in (last - s + 1)..last
            BY <2>2, <4>1, <4>2, <6>1
          <6> QED BY <3>4, <4>1, <6>2
        <5> QED BY <5>2, <5>3
      <4> DEFINE Earned(w, days) ==
            /\ w.streak <= Len(DailyRewards)
            /\ w.streak > 0 => /\ w.last \in days
                               /\ (w.last - w.streak + 1)..w.last \subseteq days
            /\ w.last - w.streak \in days =>
                 (w.last - w.streak - Len(DailyRewards) + 1)..(w.last - w.streak)
                   \subseteq days
      <4>6. Earned(wallet'[u], claimed'[u])
        BY <3>3, <3>4, <4>1, <4>2, <4>4, <4>5
      <4> SUFFICES ASSUME NEW v \in Users PROVE Earned(wallet'[v], claimed'[v])
        BY DEF StreakEarned
      <4>7. CASE v = u
        BY <4>6, <4>7
      <4>8. CASE v # u
        BY <1>0, <3>3, <3>4, <4>8 DEF StreakEarned
      <4> QED BY <4>7, <4>8
    <3>8. KeyInv'
      <4>1. \A v \in Users : wallet[v].last <= wallet'[v].last
        BY <2>2, <3>3
      <4>2. \A v \in Users, d \in Nat : DailyKey(v, d) \in K => d <= wallet'[v].last
        BY <2>2, <3>3, SameKeys DEF K
      <4>3. /\ \A q, b : SpendKey(q, b) \notin K
            /\ \A h : MergeOutKey(h) \notin K
        BY KeyKinds DEF K
      <4> QED BY <1>0, <2>1, <3>2, <4>1, <4>2, <4>3, KeysStay
    <3> QED BY <1>0, <3>6, <3>7, <3>8 DEF IInv
  <2> QED BY <2>3, <2>4
<1>3. ASSUME NEW u \in Users, NEW p \in Payments, NEW cost \in Costs, Reserve(u, p, cost)
      PROVE  IInv'
  <2> DEFINE C == Spend(Book, u, cost, p)
  <2> DEFINE K == {SpendKey(p, b) : b \in Buckets}
  <2>1. \A b \in Buckets : SpendKey(p, b) \notin KeysIn(Book.ledger)
    BY <1>0, <1>3 DEF Reserve, KeyInv
  <2>2. cost \in Nat /\ CanSpend(Book, u, cost) /\ Write(C)
    BY <1>3, WalletSystemAssumption DEF Reserve
  <2>3. KeysKept(Book, C, K) /\ SameRewards(Book, C)
    BY <1>0, <2>1, <2>2, SpendKeys
  <2>4. RewardInv' /\ StreakEarned'
    BY <1>0, <1>3, <2>2, <2>3, RewardsKept DEF Reserve
  <2>5. /\ account' = account
        /\ payment'[p] # NoPayment
        /\ \A q \in Payments : payment[q] # NoPayment => payment'[q] # NoPayment
    BY <1>0, <1>3, WalletSystemAssumption DEF Reserve, TypeOK, NoPayment
  <2>6. \A q \in Payments, b \in Buckets : SpendKey(q, b) \in K => q = p
    BY SameKeys
  <2>7. /\ \A v, d : DailyKey(v, d) \notin K
        /\ \A g : MergeOutKey(g) \notin K
    BY KeyKinds
  <2> HIDE DEF K, C
  <2>8. KeyInv'
    BY <1>0, <2>2, <2>3, <2>5, <2>6, <2>7, KeysStay, LastKept
  <2> QED BY <1>0, <2>4, <2>8 DEF IInv
<1>4. ASSUME NEW p \in Payments, Cancel(p) PROVE IInv'
  <2> DEFINE C == Refund(Book, payment[p].user, payment[p].amount, p)
  <2>1. payment[p].user \in Users
    BY <1>0, <1>4 DEF TypeOK, Payment, NoPayment, Cancel
  <2>2. KeysKept(Book, C, {RefundKey(p)}) /\ SameRewards(Book, C)
    BY <1>0, <2>1, GrantKeys DEF Refund, Buckets
  <2>3. Write(C) /\ UNCHANGED <<account, payment, today, claimed>>
    BY <1>4 DEF Cancel
  <2> HIDE DEF C
  <2>4. RewardInv' /\ StreakEarned'
    BY <1>0, <2>2, <2>3, RewardsKept
  <2>5. KeyInv'
    BY <1>0, <2>2, <2>3, KeysStay, LastKept, KeyKinds
  <2> QED BY <1>0, <2>4, <2>5 DEF IInv
<1>5. ASSUME NEW g \in Guests, NEW t \in Users, PromoteGuest(g, t) PROVE IInv'
  <2> DEFINE C == Transfer(Book, g, t)
  <2> DEFINE K == {MergeOutKey(g), MergeKey(t)}
  <2>1. g \in Users /\ MergeOutKey(g) \notin KeysIn(Book.ledger)
    BY <1>0, <1>5, WalletSystemAssumption DEF PromoteGuest, KeyInv
  <2>2. KeysKept(Book, C, K) /\ SameRewards(Book, C)
    BY <1>0, <2>1, TransferKeys
  <2>3. Write(C) /\ UNCHANGED <<payment, today, claimed>>
    BY <1>5 DEF PromoteGuest
  <2>4. /\ \A h \in Users : account[h] = "merged" => account'[h] = "merged"
        /\ account'[g] = "merged"
    BY <1>0, <1>5, <2>1 DEF PromoteGuest, TypeOK
  <2>5. /\ \A v, d : DailyKey(v, d) \notin K
        /\ \A q, b : SpendKey(q, b) \notin K
        /\ \A h : MergeOutKey(h) \in K => h = g
    BY KeyKinds, SameKeys
  <2> HIDE DEF C, K
  <2>6. RewardInv' /\ StreakEarned'
    BY <1>0, <2>2, <2>3, RewardsKept
  <2>7. KeyInv'
    BY <1>0, <2>2, <2>3, <2>4, <2>5, KeysStay, LastKept
  <2> QED BY <1>0, <2>6, <2>7 DEF IInv
<1>6. ASSUME NEW u \in Users, NEW quota \in Quotas, NEW anchor \in Days,
             EnsureWeeklyQuota(u, quota, anchor)
      PROVE  IInv'
  <2> DEFINE C == WeeklyQuota(Book, u, quota, anchor, today)
  <2> DEFINE k == QuotaKey(u, anchor, (today - anchor) \div PeriodDays)
  <2>1. KeysKept(Book, C, {k}) /\ SameRewards(Book, C)
    BY <1>0, WeeklyQuotaKeys
  <2>2. Write(C) /\ UNCHANGED <<account, payment, today, claimed>>
    BY <1>6 DEF EnsureWeeklyQuota
  <2>3. /\ \A v, d : DailyKey(v, d) # k /\ SpendKey(v, d) # k
        /\ \A h : MergeOutKey(h) # k
    BY KeyKinds
  <2> HIDE DEF C, k
  <2>4. RewardInv' /\ StreakEarned'
    BY <1>0, <2>1, <2>2, RewardsKept
  <2>5. KeyInv'
    BY <1>0, <2>1, <2>2, <2>3, KeysStay, LastKept
  <2> QED BY <1>0, <2>4, <2>5 DEF IInv
<1>7. CASE NextDay
  <2>1. UNCHANGED <<wallet, ledger, account, payment, claimed>> /\ today' = today + 1
    BY <1>7 DEF NextDay
  <2>2. today \in Int /\ \A u \in Users : wallet[u].last \in Int
    BY <1>0 DEF TypeOK, Days, Row, Never
  <2>3. RewardInv' /\ StreakEarned'
    BY <1>0, <2>1, <2>2 DEF RewardInv, StreakEarned
  <2>4. KeyInv'
    BY <1>0, <2>1 DEF KeyInv
  <2> QED BY <1>0, <2>3, <2>4 DEF IInv
<1>8. CASE UNCHANGED vars
  <2>1. RewardInv' /\ StreakEarned' /\ KeyInv'
    BY <1>0, <1>8 DEF vars, RewardInv, StreakEarned, KeyInv
  <2> QED BY <1>0, <2>1 DEF IInv
<1> QED BY <1>1, <1>2, <1>3, <1>4, <1>5, <1>6, <1>7, <1>8 DEF Next

(* No legal sequence of calls writes an idempotency key twice: claims,     *)
(* charges and transfers never depend on the unique index when they do     *)
(* not overlap.                                                            *)
THEOREM IdempotencyKeys == Spec => []KeysUnique
<1>1. IInv => KeysUnique
  BY DEF IInv, KeyInv, Distinct, KeysUnique
<1> QED BY InitInv, NextInv, <1>1, PTL DEF Spec

(* The reward ladder is climbed only on consecutive days and restarts only *)
(* when it is complete or a day was missed.                                *)
THEOREM LadderEarned == Spec => []StreakEarned
<1>1. IInv => StreakEarned
  BY DEF IInv
<1> QED BY InitInv, NextInv, <1>1, PTL DEF Spec

-----------------------------------------------------------------------------
(* Buckets.  What a refund gives back is what the charge took, because a   *)
(* payment is charged before it is refunded and only once; the free bucket *)
(* passes its cap by refunds alone, because nothing a user gets otherwise  *)
(* is larger than the room that is left, and because the signup bonus, the *)
(* one amount nobody trims, meets an empty wallet.                         *)

Refunds(pay, u) == {RefundKey(p) : p \in {q \in Payments : pay[q].user = u}}
Merges == {MergeKey(u) : u \in Users} \cup {MergeOutKey(u) : u \in Users}

MoneyInv ==
  /\ RefundUndoesCharge /\ OverCapOnlyByRefunds /\ SubWithinPlan
  /\ \A u \in Users : KeySum(ledger, Refunds(payment, u)) >= 0
  /\ KeySum(ledger, Merges) = 0
  /\ \A p \in Payments : RefundKey(p) \in KeysIn(ledger) => payment[p].amount > 0
  /\ \A u \in Users : account[u] = "absent" => wallet[u].free = 0
  /\ \A p \in Payments : payment[p] # NoPayment => account[payment[p].user] # "absent"

(* Keys of different kinds are different, continued.                       *)
LEMMA MoneyKeys ==
  /\ \A p, u, d : RefundKey(p) # SignupKey(u) /\ RefundKey(p) # DailyKey(u, d)
                  /\ RefundKey(p) # SpendKey(u, d)
                  /\ RefundKey(p) # MergeKey(u) /\ RefundKey(p) # MergeOutKey(u)
  /\ \A p, u, a, n : RefundKey(p) # QuotaKey(u, a, n) /\ MergeKey(p) # QuotaKey(u, a, n)
                     /\ MergeOutKey(p) # QuotaKey(u, a, n)
  /\ \A p, b, u, a, n : SpendKey(p, b) # QuotaKey(u, a, n)
  /\ \A p, b, u, d : SpendKey(p, b) # SignupKey(u) /\ SpendKey(p, b) # DailyKey(u, d)
                     /\ SpendKey(p, b) # MergeKey(u) /\ SpendKey(p, b) # MergeOutKey(u)
  /\ \A t, u, d : MergeKey(t) # SignupKey(u) /\ MergeKey(t) # DailyKey(u, d)
                  /\ MergeOutKey(t) # SignupKey(u) /\ MergeOutKey(t) # DailyKey(u, d)
                  /\ MergeKey(t) # MergeOutKey(u)
  /\ \A p, q : RefundKey(p) = RefundKey(q) => p = q
  /\ \A p, q, b, c : SpendKey(p, b) = SpendKey(q, c) => p = q
BY DEF SignupKey, DailyKey, QuotaKey, SpendKey, RefundKey, MergeKey, MergeOutKey

(* Which of the sets of keys an operation's key belongs to.                *)
LEMMA KeySets ==
  ASSUME NEW k, \A p : k # RefundKey(p) /\ \A b : k # SpendKey(p, b)
  PROVE  /\ \A p : k \notin PaymentKeys(p)
         /\ \A pay, u : k \notin Refunds(pay, u)
BY DEF PaymentKeys, Refunds

(* An operation that moves no payment: the sums of its keys stay as they   *)
(* are, and so does the rest where the balances allow it.                  *)
LEMMA MoneyQuiet ==
  ASSUME IInv, IInv', MoneyInv, NEW B, Write(B), payment' = payment,
         \A p \in Payments : KeySum(B.ledger, PaymentKeys(p)) = KeySum(ledger, PaymentKeys(p)),
         \A u \in Users : KeySum(B.ledger, Refunds(payment, u)) = KeySum(ledger, Refunds(payment, u)),
         KeySum(B.ledger, Merges) = KeySum(ledger, Merges),
         NEW K, KeysKept(Book, B, K), \A p : RefundKey(p) \notin K,
         \A u \in Users : \/ wallet'[u].free <= wallet[u].free
                          \/ wallet'[u].free <= FreeBalanceCap
                          \/ wallet'[u].free = SignupBonus,
         \A u \in Users : wallet'[u].sub = wallet[u].sub \/ wallet'[u].sub \in Quotas,
         \A u \in Users : account'[u] = "absent" =>
                         account[u] = "absent" /\ wallet'[u].free = wallet[u].free
  PROVE  MoneyInv'
<1> DEFINE Keep(p) == RefundKey(p) \in KeysIn(ledger') <=> RefundKey(p) \in KeysIn(ledger)
<1>1. ledger' = B.ledger /\ \A p : Keep(p)
  BY DEF Write, KeysKept, Book
<1>2. RefundUndoesCharge'
  <2>1. \A p \in Payments : Applied(Book, RefundKey(p))' <=> Applied(Book, RefundKey(p))
    BY <1>1 DEF Applied, KeysIn, Book
  <2> QED BY <1>1, <2>1 DEF MoneyInv, RefundUndoesCharge
<1>3. /\ (\A u \in Users : KeySum(ledger, Refunds(payment, u)) >= 0)'
      /\ \A u \in Users : /\ KeySum(ledger', Refunds(payment', u)) = KeySum(ledger, Refunds(payment, u))
                          /\ KeySum(ledger, Refunds(payment, u)) \in Int
                          /\ KeySum(ledger, Refunds(payment, u)) >= 0
  <2>1. \A u \in Users : KeySum(ledger, Refunds(payment, u)) \in Int
    BY KeySumInt DEF IInv, Sound, TypeOK
  <2>2. \A u \in Users : KeySum(ledger, Refunds(payment, u)) >= 0
    BY DEF MoneyInv
  <2>3. \A u \in Users : KeySum(ledger', Refunds(payment', u)) = KeySum(ledger, Refunds(payment, u))
    BY <1>1
  <2> QED BY <2>1, <2>2, <2>3
<1>4. \A u \in Users : /\ wallet[u].free \in Nat /\ wallet'[u].free \in Nat
                       /\ wallet[u].sub \in Nat /\ wallet'[u].sub \in Nat
  BY DEF IInv, Sound, TypeOK, Row
<1>5. OverCapOnlyByRefunds'
  <2> SUFFICES ASSUME NEW u \in Users
               PROVE  wallet'[u].free <= FreeBalanceCap + NonNegative(SignupBonus - FreeBalanceCap)
                                         + KeySum(ledger', Refunds(payment', u))
    BY DEF OverCapOnlyByRefunds, Refunds
  <2> DEFINE sum == KeySum(ledger, Refunds(payment, u))
  <2>1. wallet[u].free <= FreeBalanceCap + NonNegative(SignupBonus - FreeBalanceCap) + sum
    BY DEF MoneyInv, OverCapOnlyByRefunds, Refunds
  <2>2. sum \in Int /\ sum >= 0 /\ KeySum(ledger', Refunds(payment', u)) = sum
    BY <1>3
  <2>3. FreeBalanceCap \in Nat /\ SignupBonus \in Nat
    BY WalletAssumption, WalletSystemAssumption
  <2>4. \/ wallet'[u].free <= wallet[u].free
        \/ wallet'[u].free <= FreeBalanceCap
        \/ wallet'[u].free = SignupBonus
    OBVIOUS
  <2> HIDE DEF sum
  <2> QED BY <1>4, <2>1, <2>2, <2>3, <2>4 DEF NonNegative
<1>6. SubWithinPlan'
  <2> SUFFICES ASSUME NEW u \in Users
               PROVE  wallet'[u].sub = 0 \/ \E q \in Quotas : wallet'[u].sub <= q
    BY DEF SubWithinPlan
  <2> QED BY <1>4 DEF MoneyInv, SubWithinPlan
<1>7. (KeySum(ledger, Merges) = 0)'
  BY <1>1 DEF MoneyInv, Merges
<1>8. (\A p \in Payments : RefundKey(p) \in KeysIn(ledger) => payment[p].amount > 0)'
  BY <1>1 DEF MoneyInv
<1>9. /\ (\A u \in Users : account[u] = "absent" => wallet[u].free = 0)'
      /\ (\A p \in Payments : payment[p] # NoPayment => account[payment[p].user] # "absent")'
  <2>1. \A p \in Payments : payment[p] # NoPayment => payment[p].user \in Users
    BY DEF IInv, Sound, TypeOK, Payment
  <2> QED BY <2>1 DEF MoneyInv
<1> QED BY <1>2, <1>3, <1>5, <1>6, <1>7, <1>8, <1>9 DEF MoneyInv

(* Nothing is out of place in an empty database.                           *)
LEMMA InitMoney == Init => MoneyInv
<1> SUFFICES ASSUME Init PROVE MoneyInv
  OBVIOUS
<1>1. /\ KeysIn(ledger) = {} /\ ledger = <<>>
      /\ \A k : ~Applied(Book, k)
  BY DEF Init, KeysIn, Applied, Book
<1>2. \A K : KeySum(ledger, K) = 0
  <2>1. ledger \in Seq(Entry)
    BY InitSound DEF Sound, TypeOK
  <2> QED BY <1>1, <2>1, KeySumInt
<1>3. RefundUndoesCharge
  BY <1>1, <1>2 DEF Init, RefundUndoesCharge, NoPayment
<1>4. \A u \in Users : wallet[u].free = 0 /\ wallet[u].sub = 0
  BY DEF Init, EmptyRow
<1>5. OverCapOnlyByRefunds /\ SubWithinPlan
  BY <1>2, <1>4, WalletAssumption, WalletSystemAssumption
  DEF OverCapOnlyByRefunds, SubWithinPlan, NonNegative
<1> QED BY <1>1, <1>2, <1>3, <1>4, <1>5 DEF MoneyInv, Init

(* A claim uses the key of its day only, and only once.                    *)
LEMMA ClaimKept ==
  ASSUME IInv, NEW u \in Users
  PROVE  KeysKept(Book, Claim(Book, u, today), {DailyKey(u, today)})
<1>1. /\ Book \in BookType /\ today \in Nat /\ Book.wallet = wallet /\ Book.ledger = ledger
      /\ wallet[u].last \in Int /\ wallet[u].last <= today /\ KeyInv
  BY SoundBook DEF IInv, Sound, OK, TypeOK, Days, Row, Never, Book, RewardInv
<1>2. CASE DailyRewards = <<>> \/ wallet[u].last = today
  BY <1>1, <1>2 DEF Claim, KeysKept
<1>3. CASE DailyRewards # <<>> /\ wallet[u].last # today
  <2>1. DailyKey(u, today) \notin KeysIn(Book.ledger)
    BY <1>1, <1>3 DEF KeyInv
  <2> QED BY <1>1, <1>3, <2>1, ClaimKeys
<1> QED BY <1>2, <1>3

(* Where balances do not grow and the refunds of a user still sum to what  *)
(* they did, the cap and the plan hold as they did.                        *)
LEMMA MoneyShrinks ==
  ASSUME MoneyInv, \A u \in Users : wallet[u].free \in Nat /\ wallet[u].sub \in Nat,
         \A u \in Users : /\ wallet'[u].free \in Nat /\ wallet'[u].sub \in Nat
                          /\ wallet'[u].free <= wallet[u].free
                          /\ wallet'[u].sub <= wallet[u].sub,
         \A u \in Users : /\ KeySum(ledger', Refunds(payment', u))
                                = KeySum(ledger, Refunds(payment, u))
                          /\ KeySum(ledger, Refunds(payment, u)) \in Int
  PROVE  OverCapOnlyByRefunds' /\ SubWithinPlan'
<1>1. OverCapOnlyByRefunds'
  <2> SUFFICES ASSUME NEW u \in Users
               PROVE  wallet'[u].free <= FreeBalanceCap + NonNegative(SignupBonus - FreeBalanceCap)
                                         + KeySum(ledger', Refunds(payment', u))
    BY DEF OverCapOnlyByRefunds, Refunds
  <2> DEFINE sum == KeySum(ledger, Refunds(payment, u))
  <2> DEFINE extra == NonNegative(SignupBonus - FreeBalanceCap)
  <2>1. wallet[u].free <= FreeBalanceCap + extra + sum
    BY DEF MoneyInv, OverCapOnlyByRefunds, Refunds
  <2>2. extra \in Int /\ FreeBalanceCap \in Nat
    BY WalletAssumption, WalletSystemAssumption DEF NonNegative
  <2>3. sum \in Int /\ KeySum(ledger', Refunds(payment', u)) = sum
    OBVIOUS
  <2> HIDE DEF sum, extra
  <2>4. wallet'[u].free <= FreeBalanceCap + extra + sum
    BY <2>1, <2>2, <2>3
  <2> QED BY <2>3, <2>4 DEF extra
<1>2. SubWithinPlan'
  <2> SUFFICES ASSUME NEW u \in Users
               PROVE  wallet'[u].sub = 0 \/ \E q \in Quotas : wallet'[u].sub <= q
    BY DEF SubWithinPlan
  <2> QED BY WalletSystemAssumption DEF MoneyInv, SubWithinPlan
<1> QED BY <1>1, <1>2

(* Every operation of the wallet preserves it.                             *)
LEMMA NextMoney == IInv /\ IInv' /\ MoneyInv /\ [Next]_vars => MoneyInv'
<1> SUFFICES ASSUME IInv, IInv', MoneyInv, [Next]_vars PROVE MoneyInv'
  OBVIOUS
<1>0. /\ TypeOK /\ TypeOK' /\ Book \in BookType /\ ledger \in Seq(Entry)
      /\ Book.wallet = wallet /\ Book.ledger = ledger
      /\ \A v \in Users : wallet[v].free \in Nat /\ wallet[v].sub \in Nat
  BY SoundBook DEF IInv, Sound, OK, TypeOK, Book, Row
<1>1. ASSUME NEW u \in Users, CreateUser(u) PROVE MoneyInv'
  <2> DEFINE k == SignupKey(u)
  <2> DEFINE B == Grant(Book, u, SignupBonus, "free", k)
  <2>1. "free" \in Buckets /\ k \in Keys /\ SignupBonus \in Nat
    BY WalletSystemAssumption DEF Buckets, SignupKey, Keys
  <2>2. KeysKept(Book, B, {k}) /\ KeysKept(Book, Book, {k})
    BY <1>0, <2>1, GrantKeys DEF KeysKept
  <2>3. /\ \A p : k \notin PaymentKeys(p)
        /\ \A pay, v : k \notin Refunds(pay, v)
        /\ k \notin Merges
        /\ \A p : RefundKey(p) \notin {k}
    BY KeySets, MoneyKeys DEF Merges
  <2>4. \A K : k \notin K => KeySum(B.ledger, K) = KeySum(ledger, K)
    <3> SUFFICES ASSUME NEW K, k \notin K PROVE KeySum(B.ledger, K) = KeySum(ledger, K)
      OBVIOUS
    <3>1. KeySum(B.ledger, K) = KeySum(Book.ledger, K) + (IF k \in K /\ ~Applied(Book, k)
                                                         THEN SignupBonus ELSE 0)
      <4>1. Book \in BookType /\ k \in Keys /\ SignupBonus \in Nat /\ "free" \in Buckets
        BY <1>0, <2>1
      <4> HIDE DEF k
      <4> QED BY <4>1, GrantKeySum
    <3> QED BY <1>0, <3>1, KeySumInt
  <2>5. OnlyMoves(Book, B, u, "free", Book.wallet[u]["free"]
                    + (IF Applied(Book, k) THEN 0 ELSE SignupBonus))
    BY <1>0, <2>1, GrantMoves
  <2>6. wallet[u].free = 0 /\ account' = [account EXCEPT ![u] = "active"] /\ payment' = payment
    BY <1>1 DEF CreateUser, MoneyInv
  <2> HIDE DEF k, B
  <2>7. \A v \in Users : /\ B.wallet[v].sub = wallet[v].sub
                         /\ v # u => B.wallet[v].free = wallet[v].free
                         /\ B.wallet[u].free \in {0, SignupBonus}
    <3>1. B.wallet[u]["free"] = wallet[u]["free"] + (IF Applied(Book, k) THEN 0 ELSE SignupBonus)
      BY <1>0, <2>1, <2>5 DEF OnlyMoves
    <3>2. B.wallet[u].free \in {0, SignupBonus}
      BY <2>1, <2>6, <3>1
    <3> QED BY <1>0, <2>5, <3>2 DEF OnlyMoves, Buckets
  <2>8. PICK C : /\ Write(C) /\ C \in {Book, B}
    BY <1>1 DEF CreateUser, B, k
  <2>9. /\ KeysKept(Book, C, {k})
        /\ \A K : k \notin K => KeySum(C.ledger, K) = KeySum(ledger, K)
    BY <1>0, <2>2, <2>4, <2>8
  <2>14. /\ wallet'[u].free \in {0, SignupBonus}
         /\ \A v \in Users : /\ wallet'[v].sub = wallet[v].sub
                             /\ v # u => wallet'[v].free = wallet[v].free
    BY <1>0, <2>6, <2>7, <2>8 DEF Write
  <2>10. \A v \in Users : account'[v] = "absent" => account[v] = "absent" /\ v # u
    BY <1>0, <2>6 DEF TypeOK
  <2>11. \A v \in Users : \/ wallet'[v].free <= wallet[v].free
                           \/ wallet'[v].free <= FreeBalanceCap
                           \/ wallet'[v].free = SignupBonus
    BY <1>0, <2>6, <2>14
  <2>12. \A v \in Users : account'[v] = "absent" =>
           account[v] = "absent" /\ wallet'[v].free = wallet[v].free
    BY <2>10, <2>14
  <2>13. /\ \A p \in Payments : KeySum(C.ledger, PaymentKeys(p)) = KeySum(ledger, PaymentKeys(p))
         /\ \A v \in Users : KeySum(C.ledger, Refunds(payment, v)) = KeySum(ledger, Refunds(payment, v))
         /\ KeySum(C.ledger, Merges) = KeySum(ledger, Merges)
    BY <2>3, <2>9
  <2> QED BY <2>3, <2>6, <2>8, <2>9, <2>11, <2>12, <2>13, <2>14, MoneyQuiet
<1>2. ASSUME NEW u \in Users, ClaimDailyReward(u) PROVE MoneyInv'
  <2> DEFINE C == Claim(Book, u, today)
  <2> DEFINE k == DailyKey(u, today)
  <2>1. Write(C) /\ UNCHANGED <<account, payment, today>> /\ account[u] = "active" /\ today \in Nat
    BY <1>0, <1>2 DEF ClaimDailyReward, TypeOK, Days
  <2>2. /\ \A p : k \notin PaymentKeys(p)
        /\ \A pay, v : k \notin Refunds(pay, v)
        /\ k \notin Merges
        /\ \A p : RefundKey(p) \notin {k}
    BY KeySets, MoneyKeys DEF Merges
  <2>3. \A K : k \notin K => KeySum(C.ledger, K) = KeySum(ledger, K)
    BY <1>0, <2>1, ClaimKeySum
  <2>4. KeysKept(Book, C, {k})
    BY ClaimKept
  <2>5. PICK granted \in Nat :
           /\ granted = 0 \/ Book.wallet[u].free + granted <= FreeBalanceCap
           /\ OnlyMoves(Book, C, u, "free", Book.wallet[u].free + granted)
    BY <1>0, <2>1, ClaimMoves
  <2> HIDE DEF C, k
  <2>6. \A v \in Users : /\ wallet'[v].sub = wallet[v].sub
                         /\ v # u => wallet'[v].free = wallet[v].free
                         /\ wallet'[u].free = wallet[u].free \/ wallet'[u].free <= FreeBalanceCap
    BY <1>0, <2>1, <2>5 DEF OnlyMoves, Buckets, Write
  <2>7. \A v \in Users : account'[v] = "absent" => account[v] = "absent" /\ v # u
    BY <2>1
  <2> QED BY <1>0, <2>1, <2>2, <2>3, <2>4, <2>6, <2>7, MoneyQuiet
<1>3. ASSUME NEW u \in Users, NEW p \in Payments, NEW cost \in Costs, Reserve(u, p, cost)
      PROVE  MoneyInv'
  <2> DEFINE C == Spend(Book, u, cost, p)
  <2> DEFINE K == {SpendKey(p, b) : b \in Buckets}
  <2>1. /\ cost \in Nat /\ CanSpend(Book, u, cost) /\ Write(C) /\ account[u] = "active"
        /\ payment[p] = NoPayment /\ account' = account
        /\ payment' = [payment EXCEPT ![p] = [user |-> u, amount |-> cost]]
    BY <1>3, WalletSystemAssumption DEF Reserve
  <2>2. /\ payment'[p].user = u /\ payment'[p].amount = cost
        /\ payment[p].user = NoUser /\ payment[p].amount = 0
        /\ \A q \in Payments : q # p => payment'[q] = payment[q]
    BY <1>0, <2>1 DEF TypeOK, NoPayment
  <2>3. \A b \in Buckets : SpendKey(p, b) \notin KeysIn(Book.ledger)
    BY <1>0, <2>1 DEF IInv, KeyInv
  <2>4. KeysKept(Book, C, K)
    BY <1>0, <2>1, <2>3, SpendKeys
  <2>5. \A q : RefundKey(q) \in KeysIn(ledger') <=> RefundKey(q) \in KeysIn(ledger)
    <3>1. \A q : RefundKey(q) \notin K
      BY MoneyKeys
    <3> HIDE DEF K, C
    <3> QED BY <1>0, <2>1, <2>4, <3>1 DEF KeysKept, Write
  <2>6. RefundKey(p) \notin KeysIn(ledger)
    BY <2>2 DEF MoneyInv
  <2>7. \A M : (\A b : SpendKey(p, b) \notin M) => KeySum(ledger', M) = KeySum(ledger, M)
    <3> SUFFICES ASSUME NEW M, \A b : SpendKey(p, b) \notin M
                 PROVE  KeySum(ledger', M) = KeySum(ledger, M)
      OBVIOUS
    <3>1. KeySum(C.ledger, M)
            = KeySum(Book.ledger, M) - (IF SpendKey(p, "sub") \in M THEN cost ELSE 0)
      BY <1>0, <2>1, SpendKeySum
    <3> HIDE DEF C
    <3> QED BY <1>0, <2>1, <3>1, KeySumInt DEF Write
  <2>8. /\ \A b, q : q # p => SpendKey(p, b) \notin PaymentKeys(q)
        /\ \A b, pay, v : SpendKey(p, b) \notin Refunds(pay, v)
        /\ \A b : SpendKey(p, b) \notin Merges
    BY MoneyKeys DEF PaymentKeys, Refunds, Merges
  <2>9. RefundUndoesCharge'
    <3> SUFFICES ASSUME NEW q \in Payments
                 PROVE  KeySum(ledger', PaymentKeys(q))
                          = IF RefundKey(q) \in KeysIn(ledger') THEN 0 ELSE -payment'[q].amount
      BY AppliedIsKeyIn DEF RefundUndoesCharge, Book
    <3>1. KeySum(ledger, PaymentKeys(q))
            = IF RefundKey(q) \in KeysIn(ledger) THEN 0 ELSE -payment[q].amount
      BY <1>0, AppliedIsKeyIn DEF MoneyInv, RefundUndoesCharge
    <3>2. CASE q = p
      <4>1. SpendKey(p, "sub") \in PaymentKeys(p) /\ SpendKey(p, "free") \in PaymentKeys(p)
        BY DEF PaymentKeys
      <4>2. KeySum(C.ledger, PaymentKeys(p))
              = KeySum(Book.ledger, PaymentKeys(p))
                - (IF SpendKey(p, "sub") \in PaymentKeys(p) THEN cost ELSE 0)
        BY <1>0, <2>1, <4>1, SpendKeySum
      <4>3. KeySum(ledger, PaymentKeys(p)) = 0
        BY <2>2, <2>6, <3>1, <3>2
      <4> HIDE DEF C
      <4> QED BY <1>0, <2>1, <2>2, <2>5, <2>6, <3>2, <4>1, <4>2, <4>3 DEF Write
    <3>3. CASE q # p
      BY <2>2, <2>5, <2>7, <2>8, <3>1, <3>3
    <3> QED BY <3>2, <3>3
  <2>10. \A v \in Users : /\ KeySum(ledger', Refunds(payment', v)) = KeySum(ledger, Refunds(payment, v))
                          /\ KeySum(ledger, Refunds(payment, v)) \in Int
                          /\ KeySum(ledger, Refunds(payment, v)) >= 0
    <3> SUFFICES ASSUME NEW v \in Users
                 PROVE  KeySum(ledger', Refunds(payment', v)) = KeySum(ledger, Refunds(payment, v))
      BY <1>0, KeySumInt DEF MoneyInv
    <3>1. \A k \in KeysIn(ledger) : k \in Refunds(payment', v) <=> k \in Refunds(payment, v)
      <4> SUFFICES ASSUME NEW q \in Payments, RefundKey(q) \in KeysIn(ledger)
                   PROVE  payment'[q].user = v <=> payment[q].user = v
        BY DEF Refunds
      <4> QED BY <2>2, <2>6
    <3>2. KeySum(ledger, Refunds(payment', v)) = KeySum(ledger, Refunds(payment, v))
      BY <1>0, <3>1, KeySumSame
    <3> QED BY <2>7, <2>8, <3>2
  <2>11. \A v \in Users : /\ wallet'[v].free \in Nat /\ wallet'[v].sub \in Nat
                          /\ wallet'[v].free <= wallet[v].free /\ wallet'[v].sub <= wallet[v].sub
    <3>1. /\ C.wallet[u].free \in Nat /\ C.wallet[u].sub \in Nat
          /\ C.wallet[u].free <= Book.wallet[u].free /\ C.wallet[u].sub <= Book.wallet[u].sub
          /\ \A v \in Users \ {u}, c \in Buckets : C.wallet[v][c] = Book.wallet[v][c]
      BY <1>0, <2>1, SpendMoves
    <3> HIDE DEF C
    <3> QED BY <1>0, <2>1, <3>1 DEF Write, Buckets
  <2>12. OverCapOnlyByRefunds' /\ SubWithinPlan'
    BY <1>0, <2>10, <2>11, MoneyShrinks
  <2>13. KeySum(ledger', Merges) = 0 /\ Merges' = Merges
    BY <2>7, <2>8 DEF MoneyInv, Merges
  <2>14. \A q \in Payments : RefundKey(q) \in KeysIn(ledger') => payment'[q].amount > 0
    BY <2>2, <2>5, <2>6 DEF MoneyInv
  <2>15. /\ \A v \in Users : account'[v] = "absent" => wallet'[v].free = 0
         /\ \A q \in Payments : payment'[q] # NoPayment => account'[payment'[q].user] # "absent"
    BY <1>0, <2>1, <2>2, <2>11 DEF MoneyInv
  <2> QED BY <2>9, <2>10, <2>12, <2>13, <2>14, <2>15 DEF MoneyInv
<1>4. ASSUME NEW p \in Payments, Cancel(p) PROVE MoneyInv'
  <2> DEFINE u == payment[p].user
  <2> DEFINE amount == payment[p].amount
  <2> DEFINE k == RefundKey(p)
  <2> DEFINE C == Refund(Book, u, amount, p)
  <2>1. /\ u \in Users /\ amount \in Nat /\ amount > 0 /\ k \in Keys /\ "free" \in Buckets
        /\ Write(C) /\ UNCHANGED <<account, payment>> /\ payment[p] # NoPayment
    BY <1>0, <1>4 DEF TypeOK, Payment, NoPayment, Cancel, RefundKey, Keys, Buckets
  <2>2. C = Grant(Book, u, amount, "free", k)
    BY DEF Refund
  <2> HIDE DEF u, amount, k, C
  <2>3. KeysKept(Book, C, {k}) /\ k \in KeysIn(C.ledger)
    BY <1>0, <2>1, <2>2, GrantKeys
  <2>4. \A K : KeySum(C.ledger, K)
                = KeySum(ledger, K) + (IF k \in K /\ k \notin KeysIn(ledger) THEN amount ELSE 0)
    BY <1>0, <2>1, <2>2, GrantKeySum, AppliedIsKeyIn
  <2>5. OnlyMoves(Book, C, u, "free", Book.wallet[u]["free"]
                    + (IF Applied(Book, k) THEN 0 ELSE amount))
    BY <1>0, <2>1, <2>2, GrantMoves
  <2>6. \A v \in Users : /\ wallet'[v].sub = wallet[v].sub
                         /\ wallet'[v].free = wallet[v].free
                              + (IF v = u /\ k \notin KeysIn(ledger) THEN amount ELSE 0)
    <3>1. Applied(Book, k) <=> k \in KeysIn(ledger)
      BY <1>0, AppliedIsKeyIn
    <3>2. \A v \in Users : /\ wallet'[v]["sub"] = wallet[v]["sub"]
                           /\ wallet'[v]["free"] = IF v = u THEN wallet[u]["free"]
                                + (IF Applied(Book, k) THEN 0 ELSE amount) ELSE wallet[v]["free"]
      BY <1>0, <2>1, <2>5 DEF OnlyMoves, Buckets, Write
    <3> QED BY <1>0, <3>1, <3>2
  <2>7. /\ \A q \in Payments : k \in PaymentKeys(q) <=> q = p
        /\ \A v \in Users : k \in Refunds(payment, v) <=> v = u
        /\ k \notin Merges
        /\ \A q : RefundKey(q) \in {k} <=> q = p
    BY MoneyKeys DEF PaymentKeys, Refunds, Merges, k, u
  <2>8. \A q : RefundKey(q) \in KeysIn(ledger') <=> RefundKey(q) \in KeysIn(ledger) \/ q = p
    BY <1>0, <2>1, <2>3, <2>7 DEF KeysKept, Write
  <2>9. RefundUndoesCharge'
    <3> SUFFICES ASSUME NEW q \in Payments
                 PROVE  KeySum(ledger', PaymentKeys(q))
                          = IF RefundKey(q) \in KeysIn(ledger') THEN 0 ELSE -payment'[q].amount
      BY AppliedIsKeyIn DEF RefundUndoesCharge, Book
    <3>1. KeySum(ledger, PaymentKeys(q))
            = IF RefundKey(q) \in KeysIn(ledger) THEN 0 ELSE -payment[q].amount
      BY <1>0, AppliedIsKeyIn DEF MoneyInv, RefundUndoesCharge
    <3>2. KeySum(ledger', PaymentKeys(q)) = KeySum(ledger, PaymentKeys(q))
             + (IF q = p /\ k \notin KeysIn(ledger) THEN amount ELSE 0)
      BY <2>1, <2>4, <2>7 DEF Write
    <3>3. KeySum(ledger, PaymentKeys(q)) \in Int
      BY <1>0, KeySumInt
    <3>4. CASE q = p
      BY <2>1, <2>8, <3>1, <3>2, <3>3, <3>4 DEF amount, k
    <3>5. CASE q # p
      BY <2>1, <2>8, <3>1, <3>2, <3>3, <3>5
    <3> QED BY <3>4, <3>5
  <2>10. \A v \in Users : /\ KeySum(ledger', Refunds(payment', v)) = KeySum(ledger, Refunds(payment, v))
                              + (IF v = u /\ k \notin KeysIn(ledger) THEN amount ELSE 0)
                          /\ KeySum(ledger, Refunds(payment, v)) \in Int
                          /\ KeySum(ledger, Refunds(payment, v)) >= 0
    <3> SUFFICES ASSUME NEW v \in Users
                 PROVE  KeySum(ledger', Refunds(payment', v)) = KeySum(ledger, Refunds(payment, v))
                              + (IF v = u /\ k \notin KeysIn(ledger) THEN amount ELSE 0)
      BY <1>0, KeySumInt DEF MoneyInv
    <3> QED BY <2>1, <2>4, <2>7 DEF Write
  <2>11. OverCapOnlyByRefunds'
    <3> SUFFICES ASSUME NEW v \in Users
                 PROVE  wallet'[v].free <= FreeBalanceCap + NonNegative(SignupBonus - FreeBalanceCap)
                                           + KeySum(ledger', Refunds(payment', v))
      BY DEF OverCapOnlyByRefunds, Refunds
    <3> DEFINE sum == KeySum(ledger, Refunds(payment, v))
    <3> DEFINE extra == NonNegative(SignupBonus - FreeBalanceCap)
    <3> DEFINE more == IF v = u /\ k \notin KeysIn(ledger) THEN amount ELSE 0
    <3>1. wallet[v].free <= FreeBalanceCap + extra + sum
      BY DEF MoneyInv, OverCapOnlyByRefunds, Refunds
    <3>2. extra \in Int /\ FreeBalanceCap \in Nat /\ more \in Nat
      BY <2>1, WalletAssumption, WalletSystemAssumption DEF NonNegative
    <3>3. sum \in Int /\ KeySum(ledger', Refunds(payment', v)) = sum + more
          /\ wallet'[v].free = wallet[v].free + more
      BY <2>6, <2>10
    <3> HIDE DEF sum, extra, more
    <3>4. wallet'[v].free <= FreeBalanceCap + extra + (sum + more)
      BY <1>0, <3>1, <3>2, <3>3
    <3> QED BY <3>3, <3>4 DEF extra
  <2>12. SubWithinPlan'
    BY <2>6 DEF MoneyInv, SubWithinPlan
  <2>13. KeySum(ledger', Merges) = 0 /\ Merges' = Merges
    BY <2>1, <2>4, <2>7 DEF MoneyInv, Merges, Write
  <2>14. \A q \in Payments : RefundKey(q) \in KeysIn(ledger') => payment'[q].amount > 0
    BY <2>1, <2>8 DEF MoneyInv, amount
  <2>15. /\ \A v \in Users : account'[v] = "absent" => wallet'[v].free = 0
         /\ \A q \in Payments : payment'[q] # NoPayment => account'[payment'[q].user] # "absent"
    <3>1. account[u] # "absent"
      BY <2>1 DEF MoneyInv, u
    <3>2. \A v \in Users : v # u => wallet'[v].free = wallet[v].free
      BY <1>0, <2>6
    <3>3. \A v \in Users : account[v] = "absent" => wallet[v].free = 0
      BY DEF MoneyInv
    <3>4. \A q \in Payments : payment[q] # NoPayment => account[payment[q].user] # "absent"
      BY DEF MoneyInv
    <3> QED BY <2>1, <3>1, <3>2, <3>3, <3>4
  <2>16. \A v \in Users : KeySum(ledger', Refunds(payment', v)) >= 0
    BY <2>1, <2>10
  <2> QED BY <2>9, <2>11, <2>12, <2>13, <2>14, <2>15, <2>16 DEF MoneyInv
<1>5. ASSUME NEW g \in Guests, NEW t \in Users, PromoteGuest(g, t) PROVE MoneyInv'
  <2> DEFINE C == Transfer(Book, g, t)
  <2> DEFINE K == {MergeOutKey(g), MergeKey(t)}
  <2>1. /\ g \in Users /\ g # t /\ MergeOutKey(g) \notin KeysIn(Book.ledger)
        /\ Write(C) /\ payment' = payment
    BY <1>0, <1>5, WalletSystemAssumption DEF PromoteGuest, IInv, KeyInv
  <2>2. KeysKept(Book, C, K)
    BY <1>0, <2>1, TransferKeys
  <2>3. /\ \A p : MergeOutKey(g) \notin PaymentKeys(p) /\ MergeKey(t) \notin PaymentKeys(p)
        /\ \A pay, v : MergeOutKey(g) \notin Refunds(pay, v) /\ MergeKey(t) \notin Refunds(pay, v)
        /\ MergeOutKey(g) \in Merges /\ MergeKey(t) \in Merges
        /\ \A p : RefundKey(p) \notin K
    BY <2>1, KeySets, MoneyKeys DEF Merges
  <2>4. \A M : (MergeOutKey(g) \in M <=> MergeKey(t) \in M)
             => KeySum(C.ledger, M) = KeySum(ledger, M)
    BY <1>0, <2>1, TransferKeySum
  <2>5. PICK amount \in Nat : Carried(Book, C, g, t, amount)
    <3>1. Book \in BookType /\ g \in Users /\ g # t
      BY <1>0, <2>1
    <3> QED BY <3>1, TransferMoves
  <2> HIDE DEF C, K
  <2>6. \A v \in Users : /\ wallet'[v].sub = wallet[v].sub
                         /\ v # g /\ v # t => wallet'[v].free = wallet[v].free
                         /\ wallet'[g].free <= wallet[g].free
                         /\ wallet'[t].free = wallet[t].free \/ wallet'[t].free <= FreeBalanceCap
    BY <1>0, <2>1, <2>5 DEF Buckets, Write, Carried
  <2>7. \A v \in Users : account'[v] = "absent" => account[v] = "absent" /\ v # g /\ v # t
    BY <1>0, <1>5 DEF PromoteGuest, TypeOK
  <2> QED BY <1>0, <2>1, <2>2, <2>3, <2>4, <2>6, <2>7, MoneyQuiet
<1>6. ASSUME NEW u \in Users, NEW quota \in Quotas, NEW anchor \in Days,
             EnsureWeeklyQuota(u, quota, anchor)
      PROVE  MoneyInv'
  <2> DEFINE C == WeeklyQuota(Book, u, quota, anchor, today)
  <2> DEFINE k == QuotaKey(u, anchor, (today - anchor) \div PeriodDays)
  <2>1. /\ Write(C) /\ UNCHANGED <<account, payment>> /\ account[u] = "active"
        /\ today \in Nat /\ anchor \in Nat /\ quota \in Nat
    BY <1>0, <1>6, WalletSystemAssumption DEF EnsureWeeklyQuota, TypeOK, Days
  <2>2. KeysKept(Book, C, {k})
    BY <1>0, WeeklyQuotaKeys
  <2>3. \A n : /\ \A p : QuotaKey(u, anchor, n) \notin PaymentKeys(p)
               /\ \A pay, v : QuotaKey(u, anchor, n) \notin Refunds(pay, v)
               /\ QuotaKey(u, anchor, n) \notin Merges
               /\ \A p : RefundKey(p) # QuotaKey(u, anchor, n)
    BY KeySets, MoneyKeys DEF Merges
  <2>4. \A K : (\A n : QuotaKey(u, anchor, n) \notin K) => KeySum(C.ledger, K) = KeySum(ledger, K)
    <3> SUFFICES ASSUME NEW K, \A n : QuotaKey(u, anchor, n) \notin K
                 PROVE  KeySum(C.ledger, K) = KeySum(ledger, K)
      OBVIOUS
    <3>1. KeySum(C.ledger, K) = KeySum(Book.ledger, K)
      BY <1>0, <2>1, WeeklyQuotaKeySum, SMTT(40)
    <3> QED BY <1>0, <3>1
  <2>5. PICK x \in {Book.wallet[u].sub, quota} : OnlyMoves(Book, C, u, "sub", x)
    BY <1>0, <2>1, WeeklyQuotaMoves
  <2>6. \A p : RefundKey(p) \notin {k}
    BY <2>3
  <2> HIDE DEF C, k
  <2>7. \A v \in Users : /\ wallet'[v].free = wallet[v].free
                         /\ v # u => wallet'[v].sub = wallet[v].sub
                         /\ wallet'[u].sub = wallet[u].sub \/ wallet'[u].sub \in Quotas
    BY <1>0, <2>1, <2>5 DEF OnlyMoves, Buckets, Write
  <2> QED BY <1>0, <2>1, <2>2, <2>3, <2>4, <2>6, <2>7, MoneyQuiet
<1>7. CASE NextDay
  BY <1>7 DEF NextDay, MoneyInv, RefundUndoesCharge, OverCapOnlyByRefunds, SubWithinPlan,
              Applied, Book
<1>8. CASE UNCHANGED vars
  BY <1>8 DEF vars, MoneyInv, RefundUndoesCharge, OverCapOnlyByRefunds, SubWithinPlan,
              Applied, Book
<1> QED BY <1>1, <1>2, <1>3, <1>4, <1>5, <1>6, <1>7, <1>8 DEF Next

(* A refund undoes its charge and lands in the free bucket, which passes   *)
(* its cap by nothing else; a plan's tokens stay within the plan; and a    *)
(* guest's balance is folded into an account once, conserved.              *)
THEOREM BucketsApart == Spec => []BucketsKeptApart
<1>1. IInv /\ MoneyInv => BucketsKeptApart
  <2> SUFFICES ASSUME IInv, MoneyInv PROVE MergeConserves
    BY DEF BucketsKeptApart, MoneyInv
  <2> SUFFICES ASSUME NEW t \in Users
               PROVE  Cardinality({i \in DOMAIN ledger : ledger[i].key = MergeKey(t)}) <= 1
    BY DEF MergeConserves, MoneyInv, Merges
  <2> DEFINE S == {i \in DOMAIN ledger : ledger[i].key = MergeKey(t)}
  <2>1. CASE S = {}
    BY <2>1, FS_EmptySet
  <2>2. CASE S # {}
    <3>1. PICK i \in S : TRUE
      BY <2>2
    <3>2. S = {i}
      BY <3>1 DEF IInv, KeyInv, Distinct
    <3>3. Cardinality({i}) = 1
      BY FS_Singleton
    <3> QED BY <3>2, <3>3
  <2> QED BY <2>1, <2>2
<1> QED BY InitInv, NextInv, InitMoney, NextMoney, <1>1, PTL DEF Spec

(* Earned tokens never burn: only a charge that emptied the subscription   *)
(* bucket or a merge takes from the free one.                              *)
THEOREM FreeTokensStay == Spec => FreeNeverBurns
<1> DEFINE Burns == \A u \in Users : wallet'[u].free < wallet[u].free =>
       \/ account[u] = "active" /\ account'[u] = "merged"
       \/ /\ wallet'[u].sub = 0
          /\ \E p \in Payments : /\ payment[p] = NoPayment
                                 /\ payment'[p].user = u
<1>1. IInv /\ [Next]_vars => [Burns]_vars
  <2> SUFFICES ASSUME IInv, Next PROVE Burns
    OBVIOUS
  <2>0. /\ TypeOK /\ Book \in BookType /\ Book.wallet = wallet /\ Book.ledger = ledger
        /\ today \in Nat
        /\ \A v \in Users : wallet[v].free \in Nat /\ wallet[v].sub \in Nat
    BY SoundBook DEF IInv, Sound, OK, TypeOK, Book, Row, Days
  <2>1. ASSUME NEW u \in Users, CreateUser(u) PROVE Burns
    <3> DEFINE C == Grant(Book, u, SignupBonus, "free", SignupKey(u))
    <3>1. "free" \in Buckets /\ SignupKey(u) \in Keys /\ SignupBonus \in Nat
      BY WalletSystemAssumption DEF Buckets, SignupKey, Keys
    <3> DEFINE gain == IF Applied(Book, SignupKey(u)) THEN 0 ELSE SignupBonus
    <3>2. OnlyMoves(Book, C, u, "free", Book.wallet[u]["free"] + gain)
      BY <2>0, <3>1, GrantMoves
    <3>3. gain \in Nat
      BY <3>1
    <3> HIDE DEF gain, C
    <3>4. \A v \in Users : C.wallet[v].free >= wallet[v].free
      <4> SUFFICES ASSUME NEW v \in Users PROVE C.wallet[v].free >= wallet[v].free
        OBVIOUS
      <4>1. C.wallet[v]["free"] = IF v = u THEN wallet[u]["free"] + gain ELSE wallet[v]["free"]
        BY <2>0, <3>1, <3>2 DEF OnlyMoves
      <4> QED BY <2>0, <3>3, <4>1
    <3>5. \A v \in Users : wallet'[v].free >= wallet[v].free
      BY <2>0, <2>1, <3>4 DEF CreateUser, Write, C
    <3>6. \A v \in Users : wallet'[v].free \in Int
      BY <2>1, NextSound DEF IInv, Sound, TypeOK, Row
    <3> QED BY <2>0, <3>5, <3>6
  <2>2. ASSUME NEW u \in Users, ClaimDailyReward(u) PROVE Burns
    <3>1. PICK granted \in Nat :
            OnlyMoves(Book, Claim(Book, u, today), u, "free", Book.wallet[u].free + granted)
      BY <2>0, ClaimMoves
    <3> QED BY <2>0, <2>2, <3>1 DEF ClaimDailyReward, Write, OnlyMoves, Buckets
  <2>3. ASSUME NEW u \in Users, NEW p \in Payments, NEW cost \in Costs, Reserve(u, p, cost)
        PROVE  Burns
    <3>1. cost \in Nat /\ CanSpend(Book, u, cost) /\ Write(Spend(Book, u, cost, p))
      BY <2>3, WalletSystemAssumption DEF Reserve
    <3> DEFINE W == Spend(Book, u, cost, p).wallet
    <3>2. /\ W[u].free < wallet[u].free => W[u].sub = 0
          /\ \A v \in Users \ {u}, c \in Buckets : W[v][c] = wallet[v][c]
      BY <2>0, <3>1, SpendMoves
    <3>3. wallet' = W /\ payment[p] = NoPayment /\ payment'[p].user = u
      BY <2>0, <2>3, <3>1 DEF Write, Reserve, TypeOK
    <3> HIDE DEF W
    <3> QED BY <2>0, <3>2, <3>3 DEF Buckets
  <2>4. ASSUME NEW p \in Payments, Cancel(p) PROVE Burns
    <3> DEFINE u == payment[p].user
    <3> DEFINE C == Refund(Book, u, payment[p].amount, p)
    <3> DEFINE gain == IF Applied(Book, RefundKey(p)) THEN 0 ELSE payment[p].amount
    <3>1. u \in Users /\ payment[p].amount \in Nat /\ gain \in Nat
      BY <2>0, <2>4 DEF TypeOK, Payment, NoPayment, Cancel
    <3>2. "free" \in Buckets /\ RefundKey(p) \in Keys
      BY DEF Buckets, RefundKey, Keys
    <3>3. OnlyMoves(Book, C, u, "free", Book.wallet[u]["free"] + gain)
      BY <2>0, <3>1, <3>2, GrantMoves DEF Refund
    <3>4. wallet' = C.wallet
      BY <2>4 DEF Cancel, Write
    <3> HIDE DEF u, C, gain
    <3> QED BY <2>0, <3>1, <3>2, <3>3, <3>4 DEF OnlyMoves
  <2>5. ASSUME NEW g \in Guests, NEW t \in Users, PromoteGuest(g, t) PROVE Burns
    <3> DEFINE C == Transfer(Book, g, t)
    <3>1. g \in Users /\ g # t /\ Book \in BookType
      BY <2>0, <2>5, WalletSystemAssumption DEF PromoteGuest
    <3>2. PICK amount \in Nat : Carried(Book, C, g, t, amount)
      BY <3>1, TransferMoves
    <3>3. wallet' = C.wallet /\ account[g] = "active" /\ account'[g] = "merged"
      BY <2>0, <2>5, <3>1 DEF PromoteGuest, Write, TypeOK
    <3> HIDE DEF C
    <3>4. \A v \in Users : v # g => wallet'[v].free >= wallet[v].free /\ wallet'[v].free \in Nat
      BY <2>0, <3>2, <3>3 DEF Buckets, Carried
    <3> QED BY <2>0, <3>3, <3>4
  <2>6. ASSUME NEW u \in Users, NEW quota \in Quotas, NEW anchor \in Days,
               EnsureWeeklyQuota(u, quota, anchor)
        PROVE  Burns
    <3> DEFINE C == WeeklyQuota(Book, u, quota, anchor, today)
    <3>1. quota \in Nat /\ anchor \in Nat /\ wallet' = C.wallet
      BY <2>6, WalletSystemAssumption DEF Days, EnsureWeeklyQuota, Write
    <3>2. PICK x \in {Book.wallet[u].sub, quota} : OnlyMoves(Book, C, u, "sub", x)
      BY <2>0, <3>1, WeeklyQuotaMoves
    <3> HIDE DEF C
    <3> QED BY <2>0, <3>1, <3>2 DEF OnlyMoves, Buckets
  <2>7. CASE NextDay
    BY <2>0, <2>7 DEF NextDay
  <2> QED BY <2>1, <2>2, <2>3, <2>4, <2>5, <2>6, <2>7 DEF Next
<1> QED BY InitInv, NextInv, <1>1, PTL DEF Spec, FreeNeverBurns
=============================================================================
