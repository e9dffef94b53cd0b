--------------------------- MODULE WalletTxProofs ---------------------------
(***************************************************************************)
(* Theorems about WalletTx, for any number of requests, connections,       *)
(* users, payments and days.                                               *)
(***************************************************************************)
EXTENDS WalletTx, WalletOpsProofs, FiniteSetTheorems

-----------------------------------------------------------------------------
(* The life of a session.  Until it has read its rows it intends nothing;  *)
(* from then on it intends what the operation makes of the rows it read;   *)
(* and what it commits it has executed, statement by statement.            *)

ClaimOps == [kind : {"claim"}, u : Users]
ReserveOps == [kind : {"reserve"}, u : Users, p : Payments, cost : Costs]
CancelOps == [kind : {"cancel"}, u : Users, amount : Nat, p : Payments]
MergeOps == [kind : {"merge"}, u : Guests, t : Users \ Guests]
Ops == ClaimOps \cup ReserveOps \cup CancelOps \cup MergeOps \cup {[kind |-> "none"]}

Pcs == {"idle", "check", "read", "flush", "provider", "record", "commit",
        "closing", "refused", "error"}
Ready == {"flush", "provider", "record", "commit"}
Statement == [update : BOOLEAN, target : Users \cup Keys]

Session ==
  [pc : Pcs, op : Ops, day : Days \cup {0}, toRead : Seq(Users), view : [Users -> Row],
   out : BookType, done : SUBSET Statement]

(* The rows an operation reads, in the order it reads them *)
Rows(op) == IF op.kind = "merge" THEN <<op.u, op.t>> ELSE <<op.u>>

Computed(t) ==
  /\ t.op.kind = "claim" => DailyRewards # <<>>
  /\ t.op.kind = "reserve" => CanSpend([wallet |-> t.view], t.op.u, t.op.cost)
  /\ t.out = Result(t.op, t.day, t.view)

(* A reward ladder without rungs, a price of 0, a key that was applied *)
Nothing(t) ==
  /\ t.op.kind = "reserve" => t.op.cost = 0
  /\ t.out = Unchanged /\ t.view = NoView

Lifecycle(t) ==
  /\ t.pc = "idle" <=> t.op.kind = "none"
  /\ t.pc # "idle" => t.day \in Days
  /\ t.pc \notin Ready => t.out = Unchanged /\ t.done = {}
  /\ t.pc = "check" => /\ t.op.kind \in {"cancel", "merge"}
                       /\ t.toRead = Rows(t.op) /\ t.view = NoView
  /\ t.pc = "read" => \/ t.toRead = Rows(t.op)
                      \/ t.op.kind = "merge" /\ t.toRead = <<t.op.t>>
  /\ t.pc = "read" /\ t.op.kind = "claim" => DailyRewards # <<>>
  /\ t.pc \in Ready => Computed(t) \/ Nothing(t)
  /\ t.pc \in {"provider", "record"} => t.op.kind = "reserve"
  /\ t.pc \in {"provider", "record", "commit"} => t.done = Statements(t)
  /\ t.done \subseteq Statements(t)

Sessions == tx \in [Requests -> Session] /\ \A r \in Requests : Lifecycle(tx[r])

-----------------------------------------------------------------------------
(* What a session knows of the committed rows, however old its reads are.  *)

FreshInserts(t) == \A s \in t.done : ~s.update => s.target \notin KeysIn(ledger)

PaymentKnown(t) ==
  /\ t.op.kind = "reserve" /\ t.pc # "closing" => payment[t.op.p] = NoPayment
  /\ t.op.kind = "cancel" => /\ t.op.amount > 0
                             /\ payment[t.op.p] = [user |-> t.op.u, amount |-> t.op.amount]

ClaimPaid(t) == t.op.kind = "claim" /\ t.pc = "error" => t.day \in claimed[t.op.u]

EarnedView(t) ==
  \A u \in Users : <<u, "streak">> \notin stale => Earned(t.view[u], claimed[u])

Knows(t) == FreshInserts(t) /\ PaymentKnown(t) /\ ClaimPaid(t) /\ EarnedView(t)

(* Row locks and the unique index let one session execute a statement, and *)
(* a payment id is handed out once.                                        *)
Apart(t, other) ==
  /\ t.done \cap other.done = {}
  /\ t.op.kind = "reserve" /\ other.op.kind = "reserve" => t.op.p # other.op.p

-----------------------------------------------------------------------------
(* The committed rows *)

Merges == {MergeKey(u) : u \in Users} \cup {MergeOutKey(u) : u \in Users}

RowsTyped ==
  /\ wallet \in [Users -> Row]
  /\ ledger \in Seq(Entry)
  /\ account \in [Users -> {"absent", "active", "merged"}]
  /\ payment \in [Payments -> Abstract!Payment]
  /\ today \in Days
  /\ claimed \in [Users -> SUBSET Days]
  /\ stale \in SUBSET (Users \X Tracked)

PaymentKeys(p) == {SpendKey(p, "sub"), SpendKey(p, "free"), RefundKey(p)}

Journal ==
  /\ Distinct(ledger)
  /\ KeySum(ledger, Merges) = 0
  /\ \A u \in Users, d \in Days : DailyKey(u, d) \in KeysIn(ledger) => d \in claimed[u]
  /\ \A p \in Payments : RefundKey(p) \in KeysIn(ledger) => payment[p].amount > 0
  /\ \A p \in Payments :
       KeySum(ledger, PaymentKeys(p)) =
         IF RefundKey(p) \in KeysIn(ledger) THEN 0 ELSE -payment[p].amount

StreaksEarned ==
  \A u \in Users : <<u, "streak">> \notin stale => Earned(wallet[u], claimed[u])

Committed == RowsTyped /\ Journal /\ DriftOnlyByStaleWrite /\ StreaksEarned

Inv ==
  /\ Committed
  /\ Sessions
  /\ \A r \in Requests : Knows(tx[r])
  /\ \A r, q \in Requests : r # q => Apart(tx[r], tx[q])
  /\ Cardinality(Busy) <= PoolSize

-----------------------------------------------------------------------------
(* The fields of operations and sessions *)

(* What an operation of each kind carries.                                 *)
LEMMA OpFields ==
  ASSUME NEW op \in Ops
  PROVE  /\ op.kind \in {"none", "claim", "reserve", "cancel", "merge"}
         /\ op.kind = "claim" => op.u \in Users
         /\ op.kind = "reserve" => op.u \in Users /\ op.p \in Payments /\ op.cost \in Nat
         /\ op.kind = "cancel" => op.u \in Users /\ op.p \in Payments /\ op.amount \in Nat
         /\ op.kind = "merge" => /\ op.u \in Users /\ op.t \in Users /\ op.u # op.t
                                 /\ op.u \in Guests
BY WalletTxAssumption DEF Ops, ClaimOps, ReserveOps, CancelOps, MergeOps

(* Every operation names the user it is about.                             *)
LEMMA OpUser ==
  ASSUME NEW op \in Ops, op.kind # "none"
  PROVE  op.u \in Users
BY OpFields

(* A session that has read nothing has empty rows, and intends nothing.    *)
LEMMA NoViewTyped ==
  /\ NoView \in [Users -> Row] /\ Unchanged \in BookType
  /\ Unchanged.wallet = NoView /\ Unchanged.ledger = <<>>
  /\ \A u \in Users : \A days : Earned(NoView[u], days)
BY DEF NoView, EmptyRow, Row, Unchanged, BookType, Earned

(* A session that intends nothing has no statements.                       *)
LEMMA NoStatements ==
  ASSUME NEW t, t.out = Unchanged, t.view = NoView
  PROVE  Statements(t) = {}
BY NoViewTyped DEF Statements, Updates, Inserts

(* A session before it has begun.                                          *)
LEMMA IdleSession ==
  /\ Idle \in Session /\ Lifecycle(Idle) /\ Knows(Idle)
  /\ Idle.pc = "idle" /\ Idle.op.kind = "none" /\ Idle.done = {} /\ Idle.day = 0
<1> DEFINE none == [kind |-> "none"]
<1>1. Idle = [pc |-> "idle", op |-> none, day |-> 0, toRead |-> <<>>,
              view |-> NoView, out |-> Unchanged, done |-> {}]
  BY DEF Idle
<1>2. none \in Ops /\ none.kind = "none" /\ <<>> \in Seq(Users) /\ "idle" \in Pcs
  BY DEF Ops, Pcs
<1> HIDE DEF none
<1>3. /\ Idle.pc = "idle" /\ Idle.op = none /\ Idle.day = 0 /\ Idle.view = NoView
      /\ Idle.out = Unchanged /\ Idle.done = {}
  BY <1>1
<1>4. Idle \in Session
  BY <1>1, <1>2, NoViewTyped DEF Session
<1>5. Lifecycle(Idle)
  BY <1>2, <1>3 DEF Lifecycle, Ready
<1>6. Knows(Idle)
  BY <1>2, <1>3, NoViewTyped DEF Knows, FreshInserts, PaymentKnown, ClaimPaid, EarnedView
<1> QED BY <1>2, <1>3, <1>4, <1>5, <1>6

(* A session that has just begun, or has ended: nothing but its operation. *)
Opened(pc, op, day, rows) == [Idle EXCEPT !.pc = pc, !.op = op, !.day = day, !.toRead = rows]
Over(pc, op, day) == [Idle EXCEPT !.pc = pc, !.op = op, !.day = day]

(* A request that has begun has a session of its own.                      *)
LEMMA Begun ==
  ASSUME NEW pc \in Pcs, NEW op \in Ops, NEW day \in Days \cup {0}, NEW rows \in Seq(Users)
  PROVE  LET n == Opened(pc, op, day, rows)
         IN  /\ n \in Session
             /\ n.pc = pc /\ n.op = op /\ n.day = day /\ n.toRead = rows
             /\ n.view = NoView /\ n.out = Unchanged /\ n.done = {}
<1>1. /\ Idle \in Session
      /\ Idle.view = NoView /\ Idle.out = Unchanged /\ Idle.done = {}
  BY IdleSession DEF Idle
<1> QED BY <1>1 DEF Session, Opened

(* A session that has ended keeps its operation and its date only.         *)
LEMMA Ended ==
  ASSUME NEW pc \in Pcs, NEW op \in Ops, NEW day \in Days \cup {0}
  PROVE  LET n == Over(pc, op, day)
         IN  /\ n \in Session
             /\ n.pc = pc /\ n.op = op /\ n.day = day
             /\ n.view = NoView /\ n.out = Unchanged /\ n.done = {}
<1>1. /\ Idle \in Session
      /\ Idle.view = NoView /\ Idle.out = Unchanged /\ Idle.done = {}
  BY IdleSession DEF Idle
<1> QED BY <1>1 DEF Session, Over

-----------------------------------------------------------------------------
(* What an operation makes of the rows its session read: an empty journal  *)
(* is enough, since its key was looked up before.                          *)

Read(view) == [wallet |-> view, ledger |-> <<>>]

OwnKeys(op, day) ==
  CASE op.kind = "claim"   -> {DailyKey(op.u, day)}
    [] op.kind = "reserve" -> {SpendKey(op.p, b) : b \in Buckets}
    [] op.kind = "cancel"  -> {RefundKey(op.p)}
    [] op.kind = "merge"   -> {MergeOutKey(op.u), MergeKey(op.t)}

(* What a session has read is a book with an empty journal.                *)
LEMMA ReadBook ==
  ASSUME NEW view \in [Users -> Row]
  PROVE  /\ Read(view) \in BookType /\ Read(view).wallet = view /\ Read(view).ledger = <<>>
         /\ KeysIn(Read(view).ledger) = {} /\ Distinct(Read(view).ledger)
         /\ \A K : KeySum(Read(view).ledger, K) = 0
         /\ \A u, b : LedgerSum(Read(view).ledger, u, b) = 0
<1>1. <<>> \in Seq(Entry)
  OBVIOUS
<1>2. Read(view) \in BookType /\ Read(view).wallet = view /\ Read(view).ledger = <<>>
  BY <1>1 DEF Read, BookType
<1>3. KeysIn(<<>>) = {} /\ Distinct(<<>>)
  BY DEF KeysIn, Distinct
<1>4. \A K : KeySum(<<>>, K) = 0
  BY <1>1, <1>3, KeySumInt
<1> QED BY <1>2, <1>3, <1>4, LedgerSumEmpty

(* Each operation computes one function of the book, under its own keys.   *)
LEMMA ResultIs ==
  ASSUME NEW op, NEW day, NEW view
  PROVE  /\ op.kind = "claim" => /\ Result(op, day, view) = Claim(Read(view), op.u, day)
                                 /\ OwnKeys(op, day) = {DailyKey(op.u, day)}
         /\ op.kind = "reserve" => /\ Result(op, day, view) = Spend(Read(view), op.u, op.cost, op.p)
                                   /\ OwnKeys(op, day) = {SpendKey(op.p, b) : b \in Buckets}
         /\ op.kind = "cancel" => /\ Result(op, day, view)
                                       = Refund(Read(view), op.u, op.amount, op.p)
                                  /\ OwnKeys(op, day) = {RefundKey(op.p)}
         /\ op.kind = "merge" => /\ Result(op, day, view) = Transfer(Read(view), op.u, op.t)
                                 /\ OwnKeys(op, day) = {MergeOutKey(op.u), MergeKey(op.t)}
<1>1. CASE op.kind = "claim"
  BY <1>1 DEF Result, OwnKeys, Read
<1>2. CASE op.kind = "reserve"
  BY <1>2 DEF Result, OwnKeys, Read
<1>3. CASE op.kind = "cancel"
  BY <1>3 DEF Result, OwnKeys, Read
<1>4. CASE op.kind = "merge"
  BY <1>4 DEF Result, OwnKeys, Read
<1> QED BY <1>1, <1>2, <1>3, <1>4

(* Keys of different kinds are different; of one kind, they name what they *)
(* are about.                                                              *)
LEMMA KeyKinds ==
  /\ \A p, q : RefundKey(p) = RefundKey(q) => p = q
  /\ \A p, q, b, c : SpendKey(p, b) = SpendKey(q, c) => p = q
  /\ \A u, v, d, e : DailyKey(u, d) = DailyKey(v, e) => u = v /\ d = e
  /\ \A p, q, b : RefundKey(p) # SpendKey(q, b)
  /\ \A p, u, d : RefundKey(p) # DailyKey(u, d) /\ RefundKey(p) # MergeKey(u)
                  /\ RefundKey(p) # MergeOutKey(u) /\ RefundKey(p) # SignupKey(u)
  /\ \A p, b, u, d : SpendKey(p, b) # DailyKey(u, d) /\ SpendKey(p, b) # MergeKey(u)
                     /\ SpendKey(p, b) # MergeOutKey(u) /\ SpendKey(p, b) # SignupKey(u)
  /\ \A u, v, d : DailyKey(u, d) # MergeKey(v) /\ DailyKey(u, d) # MergeOutKey(v)
                  /\ DailyKey(u, d) # SignupKey(v)
  /\ \A u, v : MergeKey(u) # MergeOutKey(v) /\ MergeKey(u) # SignupKey(v)
               /\ MergeOutKey(u) # SignupKey(v)
BY DEF SignupKey, DailyKey, SpendKey, RefundKey, MergeKey, MergeOutKey

(* The reward columns of an operation that is no claim, and of a claim     *)
RewardColumns(op, day, view, C) ==
  \A u \in Users :
    \/ C.wallet[u].last = view[u].last /\ C.wallet[u].streak = view[u].streak
    \/ /\ op.kind = "claim" /\ u = op.u /\ DailyRewards # <<>> /\ view[u].last # day
       /\ C.wallet[u].last = day /\ C.wallet[u].streak = NextStreak(view[u], day)

(* What an operation adds to the rows of a payment *)
PaymentMove(op, q) ==
  IF op.kind = "reserve" /\ op.p = q THEN -op.cost
  ELSE IF op.kind = "cancel" /\ op.p = q THEN op.amount ELSE 0

Effect(op, day, view, C) ==
  /\ AccountsFor(Read(view), C)
  /\ Distinct(C.ledger) /\ KeysIn(C.ledger) \subseteq OwnKeys(op, day)
  /\ RewardColumns(op, day, view, C)
  /\ KeySum(C.ledger, Merges) = 0
  /\ \A q \in Payments : KeySum(C.ledger, PaymentKeys(q)) = PaymentMove(op, q)
  /\ op.kind = "cancel" => RefundKey(op.p) \in KeysIn(C.ledger)

(* Each operation accounts for what it does, under keys of its own.        *)
LEMMA ResultEffect ==
  ASSUME NEW op \in Ops, op.kind # "none", NEW day \in Days, NEW view \in [Users -> Row],
         op.kind = "claim" => DailyRewards # <<>>,
         op.kind = "reserve" => CanSpend([wallet |-> view], op.u, op.cost)
  PROVE  Effect(op, day, view, Result(op, day, view))
<1> DEFINE B == Read(view)
<1> DEFINE C == Result(op, day, view)
<1>1. /\ B \in BookType /\ B.wallet = view /\ B.ledger = <<>> /\ KeysIn(B.ledger) = {}
      /\ Distinct(B.ledger) /\ \A K : KeySum(B.ledger, K) = 0
      /\ day \in Nat
  <2>1. day \in Nat
    BY DEF Days
  <2> HIDE DEF C
  <2> QED BY <2>1, ReadBook
<1>0. \A k : ~Applied(B, k)
  BY <1>1, AppliedIsKeyIn
<1> HIDE DEF B
<1>2. CASE op.kind = "claim"
  <2>1. op.u \in Users /\ C = Claim(B, op.u, day) /\ OwnKeys(op, day) = {DailyKey(op.u, day)}
        /\ DailyRewards # <<>>
    BY <1>2, OpFields, ResultIs DEF B
  <2> HIDE DEF C
  <2>2. AccountsFor(B, C)
    BY <1>1, <2>1, ClaimAccounts
  <2>3. \A K : DailyKey(op.u, day) \notin K => KeySum(C.ledger, K) = 0
    BY <1>1, <2>1, ClaimKeySum
  <2>4. /\ \A q : DailyKey(op.u, day) \notin PaymentKeys(q)
        /\ DailyKey(op.u, day) \notin Merges
    BY KeyKinds DEF PaymentKeys, Merges
  <2>7. /\ KeySum(C.ledger, Merges) = 0
        /\ \A q \in Payments : KeySum(C.ledger, PaymentKeys(q)) = PaymentMove(op, q)
    BY <1>2, <2>3, <2>4 DEF PaymentMove
  <2>5. CASE view[op.u].last = day
    <3>1. C = B
      BY <1>1, <2>1, <2>5 DEF Claim
    <3> QED BY <1>1, <1>2, <2>2, <2>7, <3>1 DEF Effect, RewardColumns, B, C
  <2>6. CASE view[op.u].last # day
    <3>1. /\ KeysKept(B, C, {DailyKey(op.u, day)})
          /\ C.wallet[op.u].last = day
          /\ C.wallet[op.u].streak = NextStreak(B.wallet[op.u], day)
          /\ \A v \in Users : v # op.u => /\ C.wallet[v].last = B.wallet[v].last
                                          /\ C.wallet[v].streak = B.wallet[v].streak
      <4>1. /\ B \in BookType /\ op.u \in Users /\ day \in Nat /\ DailyRewards # <<>>
            /\ B.wallet[op.u].last # day /\ DailyKey(op.u, day) \notin KeysIn(B.ledger)
        BY <1>1, <2>1, <2>6
      <4> QED BY <2>1, <4>1, ClaimKeys, ZenonT(60)
    <3>2. RewardColumns(op, day, view, C)
      BY <1>1, <1>2, <2>1, <2>6, <3>1 DEF RewardColumns
    <3>3. Distinct(C.ledger) /\ KeysIn(C.ledger) \subseteq OwnKeys(op, day)
      BY <1>1, <2>1, <3>1 DEF KeysKept
    <3> QED BY <1>2, <2>2, <2>7, <3>2, <3>3 DEF Effect, B, C
  <2> QED BY <2>5, <2>6 DEF C
<1>3. CASE op.kind = "reserve"
  <2>1. /\ op.u \in Users /\ op.p \in Payments /\ op.cost \in Nat
        /\ C = Spend(B, op.u, op.cost, op.p)
        /\ OwnKeys(op, day) = {SpendKey(op.p, b) : b \in Buckets}
        /\ CanSpend(B, op.u, op.cost)
    BY <1>1, <1>3, OpFields, ResultIs DEF B, CanSpend
  <2> HIDE DEF C
  <2>2. AccountsFor(B, C)
    BY <1>1, <2>1, SpendAccounts
  <2>3. KeysKept(B, C, {SpendKey(op.p, b) : b \in Buckets}) /\ SameRewards(B, C)
    BY <1>1, <2>1, SpendKeys
  <2>4. \A K : (SpendKey(op.p, "sub") \in K <=> SpendKey(op.p, "free") \in K)
             => KeySum(C.ledger, K) = 0 - (IF SpendKey(op.p, "sub") \in K THEN op.cost ELSE 0)
    <3> SUFFICES ASSUME NEW K, SpendKey(op.p, "sub") \in K <=> SpendKey(op.p, "free") \in K
                 PROVE  KeySum(C.ledger, K)
                          = 0 - (IF SpendKey(op.p, "sub") \in K THEN op.cost ELSE 0)
      OBVIOUS
    <3>1. KeySum(C.ledger, K) = KeySum(B.ledger, K)
                                  - (IF SpendKey(op.p, "sub") \in K THEN op.cost ELSE 0)
      BY <1>1, <2>1, SpendKeySum
    <3> QED BY <1>1, <3>1
  <2>5. /\ \A q, b : b \in Buckets => (SpendKey(op.p, b) \in PaymentKeys(q) <=> q = op.p)
        /\ \A b : SpendKey(op.p, b) \notin Merges
        /\ "sub" \in Buckets /\ "free" \in Buckets
    BY KeyKinds DEF PaymentKeys, Merges, Buckets
  <2>6. \A q \in Payments : KeySum(C.ledger, PaymentKeys(q)) = PaymentMove(op, q)
    <3> SUFFICES ASSUME NEW q \in Payments
                 PROVE  KeySum(C.ledger, PaymentKeys(q)) = PaymentMove(op, q)
      OBVIOUS
    <3>1. KeySum(C.ledger, PaymentKeys(q)) = 0 - (IF q = op.p THEN op.cost ELSE 0)
      BY <2>4, <2>5
    <3> QED BY <1>3, <2>1, <3>1 DEF PaymentMove
  <2>7. KeySum(C.ledger, Merges) = 0
    BY <2>4, <2>5
  <2> QED BY <1>1, <1>3, <2>1, <2>2, <2>3, <2>6, <2>7
          DEF Effect, RewardColumns, SameRewards, KeysKept, B, C
<1>4. CASE op.kind = "cancel"
  <2> DEFINE k == RefundKey(op.p)
  <2>1. /\ op.u \in Users /\ op.p \in Payments /\ op.amount \in Nat
        /\ C = Grant(B, op.u, op.amount, "free", k)
        /\ OwnKeys(op, day) = {k} /\ "free" \in Buckets /\ k \in Keys
    BY <1>4, OpFields, ResultIs DEF B, Refund, Buckets, RefundKey, Keys
  <2> HIDE DEF C
  <2>2. AccountsFor(B, C)
    BY <1>1, <2>1, GrantAccounts
  <2>3. KeysKept(B, C, {k}) /\ k \in KeysIn(C.ledger) /\ SameRewards(B, C)
    BY <1>1, <2>1, GrantKeys
  <2>4. \A K : KeySum(C.ledger, K) = IF k \in K THEN op.amount ELSE 0
    <3> SUFFICES ASSUME NEW K PROVE KeySum(C.ledger, K) = IF k \in K THEN op.amount ELSE 0
      OBVIOUS
    <3>1. KeySum(C.ledger, K) = KeySum(B.ledger, K)
                                  + (IF k \in K /\ ~Applied(B, k) THEN op.amount ELSE 0)
      <4> HIDE DEF k
      <4> QED BY <1>1, <2>1, GrantKeySum
    <3> QED BY <1>0, <1>1, <2>1, <3>1
  <2>5. /\ \A q : k \in PaymentKeys(q) <=> q = op.p
        /\ k \notin Merges
    BY KeyKinds DEF PaymentKeys, Merges
  <2>6. \A q \in Payments : KeySum(C.ledger, PaymentKeys(q)) = PaymentMove(op, q)
    BY <1>4, <2>4, <2>5 DEF PaymentMove
  <2>7. KeySum(C.ledger, Merges) = 0
    BY <2>4, <2>5
  <2> QED BY <1>1, <1>4, <2>1, <2>2, <2>3, <2>6, <2>7
          DEF Effect, RewardColumns, SameRewards, KeysKept, B, C
<1>5. CASE op.kind = "merge"
  <2>1. /\ op.u \in Users /\ op.t \in Users
        /\ C = Transfer(B, op.u, op.t)
        /\ OwnKeys(op, day) = {MergeOutKey(op.u), MergeKey(op.t)}
        /\ MergeOutKey(op.u) \notin KeysIn(B.ledger)
    BY <1>1, <1>5, OpFields, ResultIs DEF B
  <2> HIDE DEF C
  <2>2. AccountsFor(B, C)
    BY <1>1, <2>1, TransferAccounts
  <2>3. KeysKept(B, C, {MergeOutKey(op.u), MergeKey(op.t)}) /\ SameRewards(B, C)
    BY <1>1, <2>1, TransferKeys
  <2>4. \A K : (MergeOutKey(op.u) \in K <=> MergeKey(op.t) \in K) => KeySum(C.ledger, K) = 0
    BY <1>1, <2>1, TransferKeySum
  <2>5. /\ \A q : MergeOutKey(op.u) \notin PaymentKeys(q) /\ MergeKey(op.t) \notin PaymentKeys(q)
        /\ MergeOutKey(op.u) \in Merges /\ MergeKey(op.t) \in Merges
    BY <2>1, KeyKinds DEF PaymentKeys, Merges
  <2>6. \A q \in Payments : KeySum(C.ledger, PaymentKeys(q)) = PaymentMove(op, q)
    BY <1>5, <2>4, <2>5 DEF PaymentMove
  <2>7. KeySum(C.ledger, Merges) = 0
    BY <2>4, <2>5
  <2> QED BY <1>1, <1>5, <2>1, <2>2, <2>3, <2>6, <2>7
          DEF Effect, RewardColumns, SameRewards, KeysKept, B, C
<1> QED BY <1>2, <1>3, <1>4, <1>5, OpFields

-----------------------------------------------------------------------------
(* One request more is busy only where a connection was free.              *)
LEMMA BusyStep ==
  ASSUME Cardinality(Busy) <= PoolSize, NEW r \in Requests,
         \A q \in Requests \ {r} : tx'[q] = tx[q],
         tx'[r].pc # "idle" => tx[r].pc # "idle" \/ Cardinality(Busy) < PoolSize
  PROVE  Cardinality(Busy') <= PoolSize
<1>1. IsFiniteSet(Requests) /\ Busy \subseteq Requests /\ Busy' \subseteq Requests
      /\ PoolSize \in Nat
  BY WalletTxAssumption DEF Busy
<1>2. IsFiniteSet(Busy) /\ IsFiniteSet(Busy') /\ Cardinality(Busy) \in Nat
      /\ Cardinality(Busy') \in Nat
  BY <1>1, FS_Subset, FS_CardinalityType
<1>3. CASE tx[r].pc # "idle" \/ tx'[r].pc = "idle"
  <2>1. Busy' \subseteq Busy
    BY <1>3 DEF Busy
  <2>2. Cardinality(Busy') <= Cardinality(Busy)
    BY <1>2, <2>1, FS_Subset
  <2> QED BY <1>1, <1>2, <2>2
<1>4. CASE tx[r].pc = "idle" /\ tx'[r].pc # "idle"
  <2>1. r \notin Busy /\ Busy' = Busy \cup {r}
    BY <1>4 DEF Busy
  <2>2. Cardinality(Busy') = Cardinality(Busy) + 1
    BY <1>2, <2>1, FS_AddElement
  <2> QED BY <1>1, <1>2, <1>4, <2>2
<1> QED BY <1>3, <1>4

(* A step that changes one session and nothing that is committed preserves *)
(* the invariant if the session it leaves is sound.                        *)
LEMMA SessionStep ==
  ASSUME Inv, OnlyTx, NEW r \in Requests, NEW n \in Session, Lifecycle(n), Knows(n),
         tx' = [tx EXCEPT ![r] = n],
         \A q \in Requests \ {r} : Apart(n, tx[q]),
         n.pc # "idle" => tx[r].pc # "idle" \/ Cardinality(Busy) < PoolSize
  PROVE  Inv'
<1>1. /\ UNCHANGED <<wallet, ledger, account, payment, claimed, today, stale>>
      /\ tx \in [Requests -> Session]
  BY DEF OnlyTx, committed, Inv, Sessions
<1>2. /\ tx' \in [Requests -> Session] /\ tx'[r] = n
      /\ \A q \in Requests \ {r} : tx'[q] = tx[q]
  BY <1>1
<1>3. Committed'
  BY <1>1 DEF Inv, Committed, RowsTyped, Journal, DriftOnlyByStaleWrite, StreaksEarned, Earned
<1>4. Sessions'
  BY <1>2 DEF Inv, Sessions
<1>5. \A q \in Requests : Knows(tx'[q])
  BY <1>2 DEF Inv
<1>6. \A q \in Requests : Knows(tx[q])'
  BY <1>1, <1>5 DEF Knows, FreshInserts, PaymentKnown, ClaimPaid, EarnedView
<1>7. (\A q, s \in Requests : q # s => Apart(tx[q], tx[s]))'
  <2> SUFFICES ASSUME NEW q \in Requests, NEW s \in Requests, q # s
               PROVE  Apart(tx'[q], tx'[s])
    OBVIOUS
  <2>1. CASE q = r
    BY <1>2, <2>1
  <2>2. CASE s = r
    BY <1>2, <2>2 DEF Apart
  <2>3. CASE q # r /\ s # r
    BY <1>2, <2>3 DEF Inv
  <2> QED BY <2>1, <2>2, <2>3
<1>8. Cardinality(Busy') <= PoolSize
  BY <1>1, <1>2, BusyStep DEF Inv
<1> QED BY <1>3, <1>4, <1>6, <1>7, <1>8 DEF Inv

(* A session that only moves on.                                           *)
LEMMA MovesOn ==
  ASSUME NEW t \in Session, NEW pc \in Pcs
  PROVE  LET n == [t EXCEPT !.pc = pc]
         IN  /\ n \in Session
             /\ n.pc = pc /\ n.op = t.op /\ n.day = t.day /\ n.toRead = t.toRead
             /\ n.view = t.view /\ n.out = t.out /\ n.done = t.done
             /\ Statements(n) = Statements(t)
<1> DEFINE n == [t EXCEPT !.pc = pc]
<1>1. /\ n \in Session
      /\ n.pc = pc /\ n.op = t.op /\ n.day = t.day /\ n.toRead = t.toRead
      /\ n.view = t.view /\ n.out = t.out /\ n.done = t.done
  BY DEF Session
<1> HIDE DEF n
<1>2. Statements(n) = Statements(t)
  BY <1>1 DEF Statements, Updates, Inserts
<1> QED BY <1>1, <1>2 DEF n

(* Moving on loses nothing of what a session knows.                        *)
LEMMA KnowsOn ==
  ASSUME NEW t, NEW n, Knows(t), n.op = t.op, n.day = t.day, n.view = t.view, n.done = t.done,
         n.pc # "error", t.pc # "closing" \/ n.pc = "closing"
  PROVE  Knows(n)
BY DEF Knows, FreshInserts, PaymentKnown, ClaimPaid, EarnedView

(* What the other sessions have executed is not what this one has.         *)
LEMMA ApartOn ==
  ASSUME Inv, NEW r \in Requests, NEW n,
         n.op = tx[r].op, n.done \subseteq tx[r].done
  PROVE  \A q \in Requests \ {r} : Apart(n, tx[q])
BY DEF Inv, Apart

(* The invariant after a session has moved on.                             *)
LEMMA GotoStep ==
  ASSUME Inv, OnlyTx, NEW r \in Requests, NEW pc \in Pcs, Goto(r, pc),
         tx[r].pc # "idle", tx[r].pc # "closing", pc # "error",
         Lifecycle([tx[r] EXCEPT !.pc = pc])
  PROVE  Inv'
<1> DEFINE n == [tx[r] EXCEPT !.pc = pc]
<1>1. tx[r] \in Session /\ Knows(tx[r]) /\ tx \in [Requests -> Session]
  BY DEF Inv, Sessions
<1>2. /\ n \in Session /\ n.pc = pc /\ n.op = tx[r].op /\ n.day = tx[r].day
      /\ n.view = tx[r].view /\ n.done = tx[r].done
  BY <1>1, MovesOn
<1>3. tx' = [tx EXCEPT ![r] = n]
  BY <1>1 DEF Goto
<1>4. Lifecycle(n)
  OBVIOUS
<1> HIDE DEF n
<1>5. Knows(n)
  BY <1>1, <1>2, KnowsOn
<1>6. \A q \in Requests \ {r} : Apart(n, tx[q])
  BY <1>2, ApartOn
<1> QED BY <1>2, <1>3, <1>4, <1>5, <1>6, SessionStep

(* The invariant after a session has ended.                                *)
LEMMA EndStep ==
  ASSUME Inv, OnlyTx, NEW r \in Requests, NEW pc \in {"closing", "refused", "error"},
         tx' = [tx EXCEPT ![r] = [Idle EXCEPT !.pc = pc, !.op = tx[r].op, !.day = tx[r].day]],
         tx[r].pc # "idle", tx[r].pc # "closing",
         pc = "error" /\ tx[r].op.kind = "claim" => tx[r].day \in claimed[tx[r].op.u]
  PROVE  Inv'
<1> DEFINE n == Over(pc, tx[r].op, tx[r].day)
<1>1. tx[r] \in Session /\ Knows(tx[r]) /\ Lifecycle(tx[r]) /\ pc \in Pcs
  BY DEF Inv, Sessions, Pcs
<1>2. tx[r].op \in Ops /\ tx[r].day \in Days \cup {0}
  BY <1>1 DEF Session
<1>3. /\ n \in Session /\ n.pc = pc /\ n.op = tx[r].op /\ n.day = tx[r].day
      /\ n.view = NoView /\ n.out = Unchanged /\ n.done = {}
  BY <1>1, <1>2, Ended
<1>4. tx' = [tx EXCEPT ![r] = n]
  BY DEF Over
<1> HIDE DEF n
<1>5. Lifecycle(n)
  BY <1>1, <1>3 DEF Lifecycle, Ready
<1>6. Knows(n)
  BY <1>1, <1>3, NoViewTyped DEF Knows, FreshInserts, PaymentKnown, ClaimPaid, EarnedView
<1>7. \A q \in Requests \ {r} : Apart(n, tx[q])
  BY <1>3, ApartOn
<1> QED BY <1>3, <1>4, <1>5, <1>6, <1>7, SessionStep

(* The invariant after a session has gone.                                 *)
LEMMA IdleStep ==
  ASSUME Inv, OnlyTx, NEW r \in Requests, tx' = [tx EXCEPT ![r] = Idle]
  PROVE  Inv'
<1>1. \A q \in Requests \ {r} : Apart(Idle, tx[q])
  BY IdleSession DEF Apart
<1> QED BY <1>1, IdleSession, SessionStep

(* The invariant after a request has begun.                                *)
LEMMA BeginStep ==
  ASSUME Inv, NEW r \in Requests, NEW op \in Ops, op.kind # "none",
         NEW pc \in {"check", "read", "provider", "commit"},
         Begin(r, op, pc, Rows(op)),
         pc = "check" => op.kind \in {"cancel", "merge"},
         pc = "read" /\ op.kind = "claim" => DailyRewards # <<>>,
         pc = "provider" => op.kind = "reserve" /\ op.cost = 0,
         pc = "commit" => op.kind = "claim",
         op.kind = "reserve" => payment[op.p] = NoPayment /\ ~InFlight(op.p),
         op.kind = "cancel" => /\ op.amount > 0
                               /\ payment[op.p] = [user |-> op.u, amount |-> op.amount]
  PROVE  Inv'
<1> DEFINE n == Opened(pc, op, today, Rows(op))
<1>1. /\ tx[r].pc = "idle" /\ Cardinality(Busy) < PoolSize /\ tx' = [tx EXCEPT ![r] = n] /\ OnlyTx
  BY DEF Begin, Opened
<1>2. Rows(op) \in Seq(Users)
  BY OpFields DEF Rows
<1>3. pc \in Pcs /\ today \in Days
  BY DEF Pcs, Inv, Committed, RowsTyped
<1>4. /\ n \in Session /\ n.pc = pc /\ n.op = op /\ n.day = today /\ n.toRead = Rows(op)
      /\ n.view = NoView /\ n.out = Unchanged /\ n.done = {}
  BY <1>2, <1>3, Begun
<1> HIDE DEF n
<1>5. Statements(n) = {}
  BY <1>4, NoStatements
<1>6. Lifecycle(n)
  BY <1>3, <1>4, <1>5 DEF Lifecycle, Ready, Nothing
<1>7. Knows(n)
  BY <1>4, NoViewTyped DEF Knows, FreshInserts, PaymentKnown, ClaimPaid, EarnedView
<1>8. \A q \in Requests \ {r} : Apart(n, tx[q])
  BY <1>4 DEF Apart, InFlight
<1> QED BY <1>1, <1>4, <1>6, <1>7, <1>8, SessionStep

(* What a session that has read its rows is about to commit.               *)
LEMMA Intends ==
  ASSUME NEW t \in Session, Lifecycle(t), t.pc \in Ready
  PROVE  /\ t.op.kind # "none" /\ t.day \in Days
         /\ AccountsFor(Read(t.view), t.out)
         /\ Distinct(t.out.ledger) /\ KeysIn(t.out.ledger) \subseteq OwnKeys(t.op, t.day)
         /\ RewardColumns(t.op, t.day, t.view, t.out)
         /\ KeySum(t.out.ledger, Merges) = 0
         /\ \A q \in Payments :
              KeySum(t.out.ledger, PaymentKeys(q)) =
                IF t.op.kind = "cancel" /\ RefundKey(t.op.p) \notin KeysIn(t.out.ledger) THEN 0
                ELSE PaymentMove(t.op, q)
<1>1. /\ t.op \in Ops /\ t.view \in [Users -> Row] /\ t.op.kind # "none" /\ t.day \in Days
      /\ Computed(t) \/ Nothing(t)
  BY DEF Session, Lifecycle, Ready
<1>2. CASE Computed(t)
  <2>1. Effect(t.op, t.day, t.view, t.out)
    BY <1>1, <1>2, ResultEffect DEF Computed
  <2> QED BY <1>1, <2>1 DEF Effect
<1>3. CASE Nothing(t)
  <2> DEFINE B == Read(t.view)
  <2>1. t.out = B
    BY <1>3 DEF Nothing, Unchanged, Read
  <2>2. /\ B \in BookType /\ B.wallet = t.view /\ KeysIn(B.ledger) = {} /\ Distinct(B.ledger)
        /\ \A K : KeySum(B.ledger, K) = 0
    BY <1>1, ReadBook
  <2> HIDE DEF B
  <2>3. AccountsFor(B, B)
    BY <2>2, AccountsChain
  <2>4. \A q \in Payments : t.op.kind # "cancel" => PaymentMove(t.op, q) = 0
    BY <1>3 DEF PaymentMove, Nothing
  <2> QED BY <1>1, <2>1, <2>2, <2>3, <2>4 DEF RewardColumns, B
<1> QED BY <1>1, <1>2, <1>3

(* A request begins.                                                       *)
LEMMA StartStep ==
  ASSUME Inv, NEW r \in Requests, Start(r)
  PROVE  Inv'
<1>1. ASSUME NEW u \in Users, BeginClaim(r, u) PROVE Inv'
  <2> DEFINE op == [kind |-> "claim", u |-> u]
  <2>1. op \in Ops /\ op.kind = "claim" /\ Rows(op) = <<u>>
    BY DEF Ops, ClaimOps, Rows
  <2>2. PICK pc \in {"read", "commit"} : /\ Begin(r, op, pc, Rows(op))
                                         /\ pc = "read" => DailyRewards # <<>>
    BY <1>1, <2>1 DEF BeginClaim
  <2> HIDE DEF op
  <2>3. /\ pc \in {"check", "read", "provider", "commit"} /\ pc # "check" /\ pc # "provider"
        /\ op.kind # "none" /\ op.kind # "reserve" /\ op.kind # "cancel"
    BY <2>1, <2>2
  <2> QED BY <2>1, <2>2, <2>3, BeginStep
<1>2. ASSUME NEW u \in Users, NEW p \in Payments, NEW cost \in Costs, BeginReserve(r, u, p, cost)
      PROVE  Inv'
  <2> DEFINE op == [kind |-> "reserve", u |-> u, p |-> p, cost |-> cost]
  <2>1. /\ op \in Ops /\ op.kind = "reserve" /\ op.p = p /\ op.cost = cost /\ Rows(op) = <<u>>
        /\ payment[p] = NoPayment /\ ~InFlight(p)
    BY <1>2 DEF Ops, ReserveOps, Rows, BeginReserve
  <2>2. PICK pc \in {"read", "provider"} : /\ Begin(r, op, pc, Rows(op))
                                           /\ pc = "provider" => cost = 0
    BY <1>2, <2>1 DEF BeginReserve
  <2> HIDE DEF op
  <2>3. /\ pc \in {"check", "read", "provider", "commit"} /\ pc # "check" /\ pc # "commit"
        /\ op.kind # "none" /\ op.kind # "claim" /\ op.kind # "cancel"
    BY <2>1, <2>2
  <2> QED BY <2>1, <2>2, <2>3, BeginStep
<1>3. ASSUME NEW p \in Payments, BeginCancel(r, p) PROVE Inv'
  <2> DEFINE op == [kind |-> "cancel", u |-> payment[p].user, amount |-> payment[p].amount, p |-> p]
  <2>1. /\ payment[p].user \in Users /\ payment[p].amount \in Nat /\ payment[p].amount > 0
        /\ payment[p] = [user |-> payment[p].user, amount |-> payment[p].amount]
    BY <1>3 DEF Inv, Committed, RowsTyped, Abstract!Payment, Abstract!NoPayment, BeginCancel
  <2>2. /\ op \in Ops /\ op.kind = "cancel" /\ op.p = p /\ Rows(op) = <<payment[p].user>>
        /\ op.u = payment[p].user /\ op.amount = payment[p].amount
    BY <2>1 DEF Ops, CancelOps, Rows
  <2>3. Begin(r, op, "check", Rows(op))
    BY <1>3, <2>2 DEF BeginCancel
  <2> HIDE DEF op
  <2> QED BY <2>1, <2>2, <2>3, BeginStep
<1>4. ASSUME NEW g \in Guests, NEW t \in Users, BeginMerge(r, g, t) PROVE Inv'
  <2> DEFINE op == [kind |-> "merge", u |-> g, t |-> t]
  <2>1. op \in Ops /\ op.kind = "merge" /\ Rows(op) = <<g, t>>
    BY <1>4 DEF Ops, MergeOps, Rows, BeginMerge
  <2>2. Begin(r, op, "check", Rows(op))
    BY <1>4, <2>1 DEF BeginMerge
  <2> HIDE DEF op
  <2> QED BY <2>1, <2>2, BeginStep
<1> QED BY <1>1, <1>2, <1>3, <1>4 DEF Start

(* The facts about one session that the steps below start from.            *)
LEMMA OneSession ==
  ASSUME Inv, NEW r \in Requests
  PROVE  /\ tx \in [Requests -> Session] /\ tx[r] \in Session
         /\ Lifecycle(tx[r]) /\ Knows(tx[r])
         /\ tx[r].op \in Ops /\ tx[r].pc \in Pcs /\ tx[r].day \in Days \cup {0}
         /\ tx[r].view \in [Users -> Row] /\ tx[r].out \in BookType
         /\ tx[r].toRead \in Seq(Users)
BY DEF Inv, Sessions, Session

(* _already_applied is asked.                                              *)
LEMMA CheckStep ==
  ASSUME Inv, NEW r \in Requests, Check(r)
  PROVE  Inv'
<1>1. PICK pc \in {"read", "commit"} : Goto(r, pc) /\ OnlyTx /\ tx[r].pc = "check"
  BY DEF Check
<1> DEFINE n == [tx[r] EXCEPT !.pc = pc]
<1>2. pc \in Pcs /\ tx[r] \in Session /\ Lifecycle(tx[r])
  BY OneSession DEF Pcs
<1>3. /\ n.pc = pc /\ n.op = tx[r].op /\ n.day = tx[r].day /\ n.toRead = tx[r].toRead
      /\ n.view = tx[r].view /\ n.out = tx[r].out /\ n.done = tx[r].done
      /\ Statements(n) = Statements(tx[r])
  BY <1>2, MovesOn
<1> HIDE DEF n
<1>4. /\ tx[r].op.kind \in {"cancel", "merge"} /\ tx[r].toRead = Rows(tx[r].op)
      /\ tx[r].view = NoView /\ tx[r].out = Unchanged /\ tx[r].done = {}
      /\ tx[r].day \in Days /\ tx[r].op.kind # "none"
  BY <1>1, <1>2 DEF Lifecycle, Ready
<1>5. Statements(tx[r]) = {}
  BY <1>4, NoStatements
<1>6. Lifecycle(n)
  BY <1>1, <1>3, <1>4, <1>5 DEF Lifecycle, Ready, Nothing
<1> QED BY <1>1, <1>2, <1>6, GotoStep DEF n

(* Which row a session reads next, and what is left to read.               *)
LEMMA NextRead ==
  ASSUME NEW t \in Session, Lifecycle(t), t.pc = "read"
  PROVE  /\ Head(t.toRead) \in Users /\ Tail(t.toRead) \in Seq(Users)
         /\ t.op.kind # "merge" => Head(t.toRead) = t.op.u /\ Tail(t.toRead) = <<>>
         /\ t.op.kind = "merge" =>
              \/ /\ t.toRead = <<t.op.t>> /\ Head(t.toRead) = t.op.t
                 /\ Tail(t.toRead) = <<>>
              \/ /\ t.toRead # <<t.op.t>> /\ Head(t.toRead) = t.op.u
                 /\ Tail(t.toRead) = <<t.op.t>>
<1>1. /\ t.op \in Ops /\ t.op.kind # "none"
      /\ \/ t.toRead = Rows(t.op)
         \/ t.op.kind = "merge" /\ t.toRead = <<t.op.t>>
  BY DEF Lifecycle, Ready, Session
<1>2. t.op.kind # "merge" => t.op.u \in Users /\ t.toRead = <<t.op.u>>
  BY <1>1, OpUser DEF Rows
<1>3. t.op.kind = "merge" => /\ t.op.u \in Users /\ t.op.t \in Users
                             /\ t.toRead = <<t.op.u, t.op.t>> \/ t.toRead = <<t.op.t>>
  BY <1>1, OpFields DEF Rows
<1>4. \A x \in Users : Head(<<x>>) = x /\ Tail(<<x>>) = <<>>
  OBVIOUS
<1>5. \A x \in Users, y \in Users :
        Head(<<x, y>>) = x /\ Tail(<<x, y>>) = <<y>> /\ <<x, y>> # <<y>>
  OBVIOUS
<1>6. <<>> \in Seq(Users)
  OBVIOUS
<1>7. \A x \in Users : <<x>> \in Seq(Users)
  OBVIOUS
<1>8. CASE t.op.kind = "merge" /\ t.toRead = <<t.op.t>>
  <2>1. Head(t.toRead) = t.op.t /\ Tail(t.toRead) = <<>> /\ t.op.t \in Users
    BY <1>3, <1>4, <1>8
  <2>2. Head(t.toRead) \in Users /\ Tail(t.toRead) \in Seq(Users)
    BY <1>6, <2>1
  <2> QED BY <1>8, <2>1, <2>2
<1>9. CASE t.op.kind = "merge" /\ t.toRead = <<t.op.u, t.op.t>>
  <2>1. /\ Head(t.toRead) = t.op.u /\ Tail(t.toRead) = <<t.op.t>> /\ t.toRead # <<t.op.t>>
        /\ t.op.u \in Users /\ t.op.t \in Users
    BY <1>3, <1>5, <1>9
  <2>2. Head(t.toRead) \in Users /\ Tail(t.toRead) \in Seq(Users)
    BY <1>7, <2>1
  <2> QED BY <1>9, <2>1, <2>2
<1>10. CASE t.op.kind # "merge"
  <2>1. Head(t.toRead) = t.op.u /\ Tail(t.toRead) = <<>> /\ t.op.u \in Users
    BY <1>2, <1>4, <1>10
  <2>2. Head(t.toRead) \in Users /\ Tail(t.toRead) \in Seq(Users)
    BY <1>6, <2>1
  <2> QED BY <1>10, <2>1, <2>2
<1> QED BY <1>3, <1>8, <1>9, <1>10

(* A row is read.                                                          *)
LEMMA ReadRowStep ==
  ASSUME Inv, NEW r \in Requests, ReadRow(r)
  PROVE  Inv'
<1> DEFINE t == tx[r]
<1> DEFINE u == Head(t.toRead)
<1> DEFINE view == [t.view EXCEPT ![u] = wallet[u]]
<1>1. /\ t \in Session /\ Lifecycle(t) /\ Knows(t) /\ t.op \in Ops /\ t.view \in [Users -> Row]
      /\ t.pc = "read" /\ OnlyTx /\ tx \in [Requests -> Session]
  BY OneSession DEF ReadRow
<1>2. /\ t.op.kind # "none" /\ t.day \in Days /\ t.out = Unchanged /\ t.done = {}
      /\ \/ t.toRead = Rows(t.op)
         \/ t.op.kind = "merge" /\ t.toRead = <<t.op.t>>
      /\ t.op.kind = "claim" => DailyRewards # <<>>
  BY <1>1 DEF Lifecycle, Ready
<1>3. /\ u \in Users /\ Tail(t.toRead) \in Seq(Users)
      /\ t.op.kind # "merge" => u = t.op.u
      /\ Tail(t.toRead) # <<>> => t.op.kind = "merge" /\ Tail(t.toRead) = <<t.op.t>>
  BY <1>1, NextRead
<1> HIDE DEF u
<1>4. view \in [Users -> Row]
  BY <1>1, <1>3 DEF Inv, Committed, RowsTyped
<1>5. \A v \in Users : <<v, "streak">> \notin stale => Earned(view[v], claimed[v])
  BY <1>1, <1>3 DEF Inv, Committed, StreaksEarned, Knows, EarnedView
<1> HIDE DEF view, t
<1>6. CASE tx' = [tx EXCEPT ![r].view = view, ![r].toRead = Tail(@)] /\ Tail(t.toRead) # <<>>
  <2> DEFINE n == [t EXCEPT !.view = view, !.toRead = Tail(t.toRead)]
  <2>1. tx' = [tx EXCEPT ![r] = n]
    BY <1>1, <1>6 DEF t
  <2>2. /\ n \in Session /\ n.pc = "read" /\ n.op = t.op /\ n.day = t.day
        /\ n.toRead = Tail(t.toRead) /\ n.view = view /\ n.out = Unchanged /\ n.done = {}
    BY <1>1, <1>2, <1>3, <1>4 DEF Session
  <2> HIDE DEF n
  <2>3. Lifecycle(n)
    BY <1>2, <1>3, <1>6, <2>2 DEF Lifecycle, Ready
  <2>4. Knows(n)
    BY <1>1, <1>5, <2>2 DEF Knows, FreshInserts, PaymentKnown, ClaimPaid, EarnedView
  <2>5. \A q \in Requests \ {r} : Apart(n, tx[q])
    BY <2>2, ApartOn DEF t
  <2> QED BY <1>1, <2>1, <2>2, <2>3, <2>4, <2>5, SessionStep DEF t
<1>7. CASE tx' = [tx EXCEPT ![r] = [Idle EXCEPT !.pc = "refused", !.op = t.op, !.day = t.day]]
  BY <1>1, <1>7, EndStep DEF t
<1>8. CASE /\ tx' = [tx EXCEPT ![r] = [t EXCEPT !.pc = "flush", !.view = view, !.toRead = <<>>,
                                                !.out = Result(t.op, t.day, view)]]
           /\ t.op.kind = "reserve" => CanSpend([wallet |-> view], u, t.op.cost)
  <2> DEFINE out == Result(t.op, t.day, view)
  <2> DEFINE n == [t EXCEPT !.pc = "flush", !.view = view, !.toRead = <<>>, !.out = out]
  <2>1. t.op.kind = "reserve" => CanSpend([wallet |-> view], t.op.u, t.op.cost)
    BY <1>3, <1>8
  <2>2. out \in BookType
    BY <1>1, <1>2, <1>4, <2>1, ResultEffect DEF Effect, AccountsFor
  <2> HIDE DEF out
  <2>3. <<>> \in Seq(Users) /\ "flush" \in Pcs
    BY DEF Pcs
  <2>4. /\ n \in Session /\ n.pc = "flush" /\ n.op = t.op /\ n.day = t.day
        /\ n.view = view /\ n.out = out /\ n.done = {}
    BY <1>1, <1>2, <1>4, <2>2, <2>3 DEF Session
  <2>5. tx' = [tx EXCEPT ![r] = n]
    BY <1>8 DEF out
  <2> HIDE DEF n
  <2>6. Computed(n)
    BY <1>2, <2>1, <2>4 DEF Computed, out
  <2>7. Lifecycle(n)
    BY <1>2, <2>4, <2>6 DEF Lifecycle, Ready
  <2>8. Knows(n)
    BY <1>1, <1>5, <2>4 DEF Knows, FreshInserts, PaymentKnown, ClaimPaid, EarnedView
  <2>9. \A q \in Requests \ {r} : Apart(n, tx[q])
    BY <2>4, ApartOn DEF t
  <2> QED BY <1>1, <2>4, <2>5, <2>7, <2>8, <2>9, SessionStep DEF t
<1> QED BY <1>6, <1>7, <1>8 DEF ReadRow, t, u, view

(* A statement updates a user's row or inserts a row of the journal.       *)
LEMMA StatementsTyped ==
  ASSUME NEW t, t.out \in BookType
  PROVE  Statements(t) \subseteq Statement
<1>1. ASSUME NEW i \in DOMAIN t.out.ledger PROVE t.out.ledger[i].key \in Keys
  <2>1. t.out.ledger \in Seq(Entry)
    BY DEF BookType
  <2>2. t.out.ledger[i] \in Entry
    BY <2>1
  <2> QED BY <2>2 DEF Entry
<1>2. ASSUME NEW s \in Updates(t) PROVE s \in Statement
  <2>1. PICK u \in Users : s = [update |-> TRUE, target |-> u]
    BY DEF Updates
  <2> QED BY <2>1 DEF Statement
<1>3. ASSUME NEW s \in Inserts(t) PROVE s \in Statement
  <2>1. PICK i \in DOMAIN t.out.ledger : s = [update |-> FALSE, target |-> t.out.ledger[i].key]
    BY DEF Inserts
  <2> QED BY <1>1, <2>1 DEF Statement
<1> QED BY <1>2, <1>3 DEF Statements

(* The look-up of a key in the committed journal                           *)
LEMMA Lookup ==
  ASSUME NEW k
  PROVE  Applied([ledger |-> ledger], k) <=> k \in KeysIn(ledger)
BY DEF Applied, KeysIn

(* A statement is executed: no other session has executed it, and no       *)
(* committed row has its key.                                              *)
LEMMA ExecuteStep ==
  ASSUME Inv, NEW r \in Requests, Execute(r)
  PROVE  Inv'
<1> DEFINE t == tx[r]
<1>1. PICK s \in Statements(t) :
        /\ t.pc = "flush" /\ ~Waits(r, s) /\ ~Duplicate(s) /\ OnlyTx
        /\ tx' = [tx EXCEPT ![r].done = @ \cup {s}]
  BY DEF Execute
<1>2. /\ t \in Session /\ Lifecycle(t) /\ Knows(t) /\ tx \in [Requests -> Session]
      /\ t.out \in BookType /\ t.done \in SUBSET Statement
  BY OneSession DEF Session
<1>3. s \in Statement
  BY <1>2, StatementsTyped
<1> DEFINE n == [t EXCEPT !.done = t.done \cup {s}]
<1>4. tx' = [tx EXCEPT ![r] = n]
  BY <1>1, <1>2
<1>5. /\ n \in Session /\ n.pc = t.pc /\ n.op = t.op /\ n.day = t.day /\ n.toRead = t.toRead
      /\ n.view = t.view /\ n.out = t.out /\ n.done = t.done \cup {s}
  BY <1>2, <1>3 DEF Session
<1> HIDE DEF n
<1>6. Statements(n) = Statements(t)
  BY <1>5 DEF Statements, Updates, Inserts
<1>7. Lifecycle(n)
  BY <1>1, <1>2, <1>5, <1>6 DEF Lifecycle, Ready, Computed, Nothing
<1>8. ~s.update => s.target \notin KeysIn(ledger)
  BY <1>1, Lookup DEF Duplicate
<1>9. Knows(n)
  BY <1>1, <1>2, <1>5, <1>8 DEF Knows, FreshInserts, PaymentKnown, ClaimPaid, EarnedView
<1>10. \A q \in Requests \ {r} : Apart(t, tx[q]) /\ s \notin tx[q].done
  BY <1>1 DEF Inv, Waits
<1>11. \A q \in Requests \ {r} : Apart(n, tx[q])
  BY <1>5, <1>10 DEF Apart
<1> QED BY <1>1, <1>4, <1>5, <1>7, <1>9, <1>11, SessionStep

(* The flush is over.                                                      *)
LEMMA FlushedStep ==
  ASSUME Inv, NEW r \in Requests, Flushed(r)
  PROVE  Inv'
<1> DEFINE t == tx[r]
<1> DEFINE pc == AfterFlush(t.op)
<1> DEFINE n == [t EXCEPT !.pc = pc]
<1>1. /\ t.pc = "flush" /\ Pending(t) = {} /\ Goto(r, pc) /\ OnlyTx
      /\ t \in Session /\ Lifecycle(t)
  BY OneSession DEF Flushed
<1>2. pc \in Pcs /\ pc \in {"provider", "commit"} /\ (pc = "provider" => t.op.kind = "reserve")
  BY DEF AfterFlush, Pcs
<1> HIDE DEF pc
<1>3. /\ n.pc = pc /\ n.op = t.op /\ n.day = t.day /\ n.toRead = t.toRead
      /\ n.view = t.view /\ n.out = t.out /\ n.done = t.done
      /\ Statements(n) = Statements(t)
  BY <1>1, <1>2, MovesOn
<1> HIDE DEF n
<1>4. t.done = Statements(t)
  BY <1>1 DEF Lifecycle, Pending
<1>5. Lifecycle(n)
  BY <1>1, <1>2, <1>3, <1>4 DEF Lifecycle, Ready, Computed, Nothing
<1> QED BY <1>1, <1>2, <1>5, GotoStep DEF n

(* The provider returns, or fails.                                         *)
LEMMA ProviderStep ==
  ASSUME Inv, NEW r \in Requests, ProviderReturns(r) \/ ProviderFails(r)
  PROVE  Inv'
<1> DEFINE t == tx[r]
<1>1. PICK pc \in {"commit", "record"} : t.pc = "provider" /\ Goto(r, pc) /\ OnlyTx
  BY DEF ProviderReturns, ProviderFails
<1> DEFINE n == [t EXCEPT !.pc = pc]
<1>2. t \in Session /\ Lifecycle(t) /\ pc \in Pcs
  BY OneSession DEF Pcs
<1>3. /\ n.pc = pc /\ n.op = t.op /\ n.day = t.day /\ n.toRead = t.toRead
      /\ n.view = t.view /\ n.out = t.out /\ n.done = t.done
      /\ Statements(n) = Statements(t)
  BY <1>2, MovesOn
<1> HIDE DEF n
<1>4. Lifecycle(n)
  BY <1>1, <1>2, <1>3 DEF Lifecycle, Ready, Computed, Nothing
<1> QED BY <1>1, <1>2, <1>4, GotoStep DEF n

(* A statement fails on a committed row.  The daily reward's key is only   *)
(* committed with the claim of that day.                                   *)
LEMMA ConflictStep ==
  ASSUME Inv, NEW r \in Requests, Conflict(r)
  PROVE  Inv'
<1> DEFINE t == tx[r]
<1>1. PICK s \in Statements(t) : t.pc = "flush" /\ Duplicate(s)
  BY DEF Conflict
<1>2. PICK pc \in {"closing", "error"} :
        /\ tx' = [tx EXCEPT ![r] = [Idle EXCEPT !.pc = pc, !.op = t.op, !.day = t.day]]
        /\ OnlyTx
  BY DEF Conflict
<1>3. /\ t \in Session /\ Lifecycle(t) /\ t.op \in Ops /\ t.pc \in Ready
  BY <1>1, OneSession DEF Ready
<1>4. ~s.update /\ s.target \in KeysIn(ledger)
  BY <1>1, Lookup DEF Duplicate
<1>5. s.target \in KeysIn(t.out.ledger)
  BY <1>4 DEF Statements, Updates, Inserts, KeysIn
<1>6. KeysIn(t.out.ledger) \subseteq OwnKeys(t.op, t.day) /\ t.day \in Days
  BY <1>3, Intends
<1>7. t.op.kind = "claim" => t.op.u \in Users /\ s.target = DailyKey(t.op.u, t.day)
  <2>1. t.op.kind = "claim" => t.op.u \in Users
    BY <1>3, OpFields
  <2>2. t.op.kind = "claim" => OwnKeys(t.op, t.day) = {DailyKey(t.op.u, t.day)}
    BY ResultIs
  <2> QED BY <1>5, <1>6, <2>1, <2>2
<1>8. t.op.kind = "claim" => t.day \in claimed[t.op.u]
  BY <1>4, <1>6, <1>7 DEF Inv, Committed, Journal
<1>9. t.pc # "idle" /\ t.pc # "closing"
  BY <1>1
<1> QED BY <1>2, <1>8, <1>9, EndStep

(* A generation that failed is answered.                                   *)
LEMMA FailedStep ==
  ASSUME Inv, NEW r \in Requests, Failed(r)
  PROVE  Inv'
<1>1. /\ tx[r].pc = "record" /\ OnlyTx /\ Lifecycle(tx[r])
      /\ tx' = [tx EXCEPT ![r] = [Idle EXCEPT !.pc = "error", !.op = tx[r].op, !.day = tx[r].day]]
  BY OneSession DEF Failed
<1>2. tx[r].op.kind = "reserve"
  BY <1>1 DEF Lifecycle
<1> QED BY <1>1, <1>2, EndStep

(* Midnight changes nothing that is committed.                             *)
LEMMA NextDayStep ==
  ASSUME Inv, NextDay
  PROVE  Inv'
<1>1. /\ UNCHANGED <<wallet, ledger, account, payment, claimed, tx, stale>>
      /\ today' \in Days
  BY WalletTxAssumption DEF NextDay, committed, Days, Inv, Committed, RowsTyped
<1>2. Committed'
  BY <1>1 DEF Inv, Committed, RowsTyped, Journal, DriftOnlyByStaleWrite, StreaksEarned, Earned
<1>3. Sessions'
  BY <1>1 DEF Inv, Sessions
<1>4. (\A q \in Requests : Knows(tx[q]))'
  BY <1>1 DEF Inv, Knows, FreshInserts, PaymentKnown, ClaimPaid, EarnedView
<1>5. (\A q, s \in Requests : q # s => Apart(tx[q], tx[s]))' /\ Cardinality(Busy') <= PoolSize
  BY <1>1 DEF Inv, Busy
<1> QED BY <1>2, <1>3, <1>4, <1>5 DEF Inv

-----------------------------------------------------------------------------
(* A commit *)

(* The keys of two journals, one after the other                           *)
LEMMA JoinedJournals ==
  ASSUME NEW L \in Seq(Entry), NEW M \in Seq(Entry)
  PROVE  /\ L \o M \in Seq(Entry)
         /\ KeysIn(L \o M) = KeysIn(L) \cup KeysIn(M)
         /\ Distinct(L) /\ Distinct(M) /\ KeysIn(L) \cap KeysIn(M) = {} => Distinct(L \o M)
<1> DEFINE J == L \o M
<1>1. /\ J \in Seq(Entry) /\ Len(J) = Len(L) + Len(M) /\ Len(L) \in Nat /\ Len(M) \in Nat
      /\ DOMAIN J = 1..Len(J) /\ DOMAIN L = 1..Len(L) /\ DOMAIN M = 1..Len(M)
  OBVIOUS
<1>2. \A i \in 1..Len(L) : J[i] = L[i]
  OBVIOUS
<1>3. \A i \in 1..Len(M) : J[i + Len(L)] = M[i]
  OBVIOUS
<1> HIDE DEF J
<1>4. \A i \in DOMAIN J : \/ i \in DOMAIN L /\ J[i] = L[i]
                          \/ i - Len(L) \in DOMAIN M /\ J[i] = M[i - Len(L)]
  <2> SUFFICES ASSUME NEW i \in DOMAIN J, i \notin DOMAIN L
               PROVE  i - Len(L) \in DOMAIN M /\ J[i] = M[i - Len(L)]
    BY <1>1, <1>2
  <2>1. i - Len(L) \in 1..Len(M) /\ (i - Len(L)) + Len(L) = i
    BY <1>1
  <2> QED BY <1>1, <1>3, <2>1
<1>5. KeysIn(J) \subseteq KeysIn(L) \cup KeysIn(M)
  BY <1>4 DEF KeysIn
<1>6. KeysIn(L) \subseteq KeysIn(J)
  <2>1. \A i \in DOMAIN L : i \in DOMAIN J /\ J[i] = L[i]
    BY <1>1, <1>2
  <2> QED BY <2>1 DEF KeysIn
<1>7. KeysIn(M) \subseteq KeysIn(J)
  <2>1. \A i \in DOMAIN M : i + Len(L) \in DOMAIN J /\ J[i + Len(L)] = M[i]
    BY <1>1, <1>3
  <2> QED BY <2>1 DEF KeysIn
<1>8. ASSUME Distinct(L), Distinct(M), KeysIn(L) \cap KeysIn(M) = {} PROVE Distinct(J)
  <2> SUFFICES ASSUME NEW i \in DOMAIN J, NEW j \in DOMAIN J, J[i].key = J[j].key
               PROVE  i = j
    BY DEF Distinct
  <2>1. CASE i \in DOMAIN L /\ J[i] = L[i] /\ j \in DOMAIN L /\ J[j] = L[j]
    BY <1>8, <2>1 DEF Distinct
  <2>2. CASE /\ i - Len(L) \in DOMAIN M /\ J[i] = M[i - Len(L)]
             /\ j - Len(L) \in DOMAIN M /\ J[j] = M[j - Len(L)]
    <3>1. i - Len(L) = j - Len(L)
      BY <1>8, <2>2 DEF Distinct
    <3> QED BY <1>1, <3>1
  <2>3. CASE /\ i \in DOMAIN L /\ J[i] = L[i]
             /\ j - Len(L) \in DOMAIN M /\ J[j] = M[j - Len(L)]
    BY <1>8, <2>3 DEF KeysIn
  <2>4. CASE /\ j \in DOMAIN L /\ J[j] = L[j]
             /\ i - Len(L) \in DOMAIN M /\ J[i] = M[i - Len(L)]
    BY <1>8, <2>4 DEF KeysIn
  <2> QED BY <1>4, <2>1, <2>2, <2>3, <2>4
<1> QED BY <1>1, <1>5, <1>6, <1>7, <1>8 DEF J

(* What is known of a session that is about to commit                      *)
CommitFacts(t) ==
  /\ t \in Session /\ Lifecycle(t) /\ Knows(t) /\ t.pc = "commit"
  /\ t.op \in Ops /\ t.op.kind # "none" /\ t.day \in Days
  /\ t.view \in [Users -> Row] /\ t.out.wallet \in [Users -> Row] /\ t.out.ledger \in Seq(Entry)
  /\ t.done = Statements(t)
  /\ wallet \in [Users -> Row] /\ ledger \in Seq(Entry)
  /\ claimed \in [Users -> SUBSET Days] /\ payment \in [Payments -> Abstract!Payment]

(* The invariant gives these facts when a session commits.                 *)
LEMMA CommitBegins ==
  ASSUME Inv, NEW r \in Requests, Commit(r)
  PROVE  CommitFacts(tx[r])
<1>1. /\ tx[r] \in Session /\ Lifecycle(tx[r]) /\ Knows(tx[r]) /\ tx[r].pc = "commit"
      /\ tx[r].op \in Ops /\ tx[r].view \in [Users -> Row] /\ tx[r].out \in BookType
  BY OneSession DEF Commit
<1>2. tx[r].op.kind # "none" /\ tx[r].day \in Days /\ tx[r].done = Statements(tx[r])
  BY <1>1 DEF Lifecycle
<1> QED BY <1>1, <1>2 DEF CommitFacts, BookType, Inv, Committed, RowsTyped

(* The row a commit leaves: the columns it writes, and the committed rest. *)
LEMMA OverlaidRow ==
  ASSUME NEW t, CommitFacts(t), NEW u \in Users
  PROVE  /\ Overlaid(t, u) \in Row
         /\ \A c \in {"free", "sub", "last", "streak"} :
              Overlaid(t, u)[c] = IF t.out.wallet[u][c] # t.view[u][c] THEN t.out.wallet[u][c]
                                  ELSE wallet[u][c]
<1> DEFINE cols == {"free", "sub", "last", "streak"}
<1>1. DOMAIN EmptyRow = cols
  BY DEF EmptyRow
<1>2. t.out.wallet[u] \in Row /\ wallet[u] \in Row
  BY DEF CommitFacts
<1> DEFINE W(c) == IF t.out.wallet[u][c] # t.view[u][c] THEN t.out.wallet[u][c] ELSE wallet[u][c]
<1>3. Overlaid(t, u) = [c \in cols |-> W(c)]
  BY <1>1 DEF Overlaid, Written
<1>4. /\ W("free") \in Nat /\ W("sub") \in Nat /\ W("streak") \in Nat
      /\ W("last") \in Nat \cup {Never}
  BY <1>2 DEF Row
<1>5. \A c \in cols : Overlaid(t, u)[c] = W(c)
  BY <1>3
<1> HIDE DEF W
<1>6. [c \in cols |-> W(c)] = [free |-> W("free"), sub |-> W("sub"), last |-> W("last"),
                              streak |-> W("streak")]
  OBVIOUS
<1>7. Overlaid(t, u) \in Row
  BY <1>3, <1>4, <1>6 DEF Row
<1> QED BY <1>5, <1>7 DEF W

(* The journal rows of a session that has executed its statements are new. *)
LEMMA FreshJournal ==
  ASSUME NEW t, CommitFacts(t)
  PROVE  KeysIn(ledger) \cap KeysIn(t.out.ledger) = {}
<1> SUFFICES ASSUME NEW i \in DOMAIN t.out.ledger PROVE t.out.ledger[i].key \notin KeysIn(ledger)
  BY DEF KeysIn
<1> DEFINE s == [update |-> FALSE, target |-> t.out.ledger[i].key]
<1>1. s \in t.done
  BY DEF CommitFacts, Statements, Inserts
<1>2. ~s.update /\ s.target = t.out.ledger[i].key
  OBVIOUS
<1> QED BY <1>1, <1>2 DEF CommitFacts, Knows, FreshInserts

(* A balance that no stale row overwrites follows the journal.             *)
LEMMA CommitBalances ==
  ASSUME NEW t, CommitFacts(t), NEW u \in Users, NEW b \in Buckets,
         wallet[u][b] = LedgerSum(ledger, u, b),
         ~(Passed(t, u, b) /\ wallet[u][b] # t.view[u][b])
  PROVE  Overlaid(t, u)[b] = LedgerSum(ledger \o t.out.ledger, u, b)
<1>1. AccountsFor(Read(t.view), t.out)
  BY Intends DEF CommitFacts, Ready
<1>2. /\ Read(t.view) \in BookType /\ Read(t.view).wallet = t.view
      /\ LedgerSum(Read(t.view).ledger, u, b) = 0
  <2>1. t.view \in [Users -> Row]
    BY DEF CommitFacts
  <2> QED BY <2>1, ReadBook
<1>3. t.out \in BookType
  BY <1>1 DEF AccountsFor
<1> DEFINE before == t.view[u][b]
<1> DEFINE after == t.out.wallet[u][b]
<1> DEFINE added == LedgerSum(t.out.ledger, u, b)
<1> DEFINE sum == LedgerSum(ledger, u, b)
<1>4. after + 0 = before + added
  BY <1>1, <1>2 DEF AccountsFor, SameGap
<1>5. before \in Int /\ after \in Int /\ added \in Int /\ sum \in Int
  BY <1>2, <1>3, GapsAreIntegers, LedgerSumInt DEF CommitFacts
<1>6. LedgerSum(ledger \o t.out.ledger, u, b) = sum + added
  BY LedgerSumConcat DEF CommitFacts
<1>7. Overlaid(t, u)[b] = IF after # before THEN after ELSE wallet[u][b]
  BY OverlaidRow DEF Buckets
<1>8. after # before => wallet[u][b] = before
  <2>1. b # "streak" /\ b \in DOMAIN EmptyRow
    BY DEF Buckets, EmptyRow
  <2>2. after # before => Passed(t, u, b)
    BY <2>1 DEF Passed, Written
  <2> QED BY <2>2
<1> HIDE DEF before, after, added, sum
<1>9. after = before + added
  BY <1>4, <1>5
<1>10. wallet[u][b] = sum
  BY DEF sum
<1>11. CASE after # before
  <2>1. Overlaid(t, u)[b] = before + added /\ before = sum
    BY <1>7, <1>8, <1>9, <1>10, <1>11
  <2> QED BY <1>6, <2>1
<1>12. CASE after = before
  <2>1. added = 0
    BY <1>5, <1>9, <1>12
  <2>2. Overlaid(t, u)[b] = sum
    BY <1>7, <1>10, <1>12
  <2> QED BY <1>5, <1>6, <2>1, <2>2
<1> QED BY <1>11, <1>12

(* The keys an operation may write                                         *)
LEMMA OwnKeysAre ==
  ASSUME NEW op, NEW day
  PROVE  /\ op.kind = "claim" => OwnKeys(op, day) = {DailyKey(op.u, day)}
         /\ op.kind = "reserve" => OwnKeys(op, day) = {SpendKey(op.p, b) : b \in Buckets}
         /\ op.kind = "cancel" => OwnKeys(op, day) = {RefundKey(op.p)}
         /\ op.kind = "merge" => OwnKeys(op, day) = {MergeOutKey(op.u), MergeKey(op.t)}
BY ResultIs

(* A commit's journal rows are the operation's own.                        *)
LEMMA CommitKeys ==
  ASSUME NEW t, CommitFacts(t)
  PROVE  /\ \A u, d : DailyKey(u, d) \in KeysIn(t.out.ledger) =>
              t.op.kind = "claim" /\ u = t.op.u /\ d = t.day /\ DailyRewards # <<>>
         /\ \A p : RefundKey(p) \in KeysIn(t.out.ledger) =>
              t.op.kind = "cancel" /\ p = t.op.p
<1>1. KeysIn(t.out.ledger) \subseteq OwnKeys(t.op, t.day)
  BY Intends DEF CommitFacts, Ready
<1>2. t.op.kind \in {"claim", "reserve", "cancel", "merge"}
  BY OpFields DEF CommitFacts
<1>3. t.op.kind = "claim" /\ KeysIn(t.out.ledger) # {} => DailyRewards # <<>>
  <2>1. KeysIn(Unchanged.ledger) = {}
    BY DEF Unchanged, KeysIn
  <2>2. Computed(t) \/ Nothing(t)
    BY DEF CommitFacts, Lifecycle, Ready
  <2> QED BY <2>1, <2>2 DEF Computed, Nothing
<1>4. ASSUME NEW u, NEW d, DailyKey(u, d) \in KeysIn(t.out.ledger)
      PROVE  t.op.kind = "claim" /\ u = t.op.u /\ d = t.day /\ DailyRewards # <<>>
  <2>1. DailyKey(u, d) \in OwnKeys(t.op, t.day)
    BY <1>1, <1>4
  <2>2. t.op.kind = "claim"
    <3>1. t.op.kind # "reserve"
      BY <2>1, OwnKeysAre, KeyKinds
    <3>2. t.op.kind # "cancel"
      BY <2>1, OwnKeysAre, KeyKinds
    <3>3. t.op.kind # "merge"
      BY <2>1, OwnKeysAre, KeyKinds
    <3> QED BY <1>2, <3>1, <3>2, <3>3
  <2>3. DailyKey(u, d) = DailyKey(t.op.u, t.day)
    BY <2>1, <2>2, OwnKeysAre
  <2> QED BY <1>3, <1>4, <2>2, <2>3, KeyKinds
<1>5. ASSUME NEW p, RefundKey(p) \in KeysIn(t.out.ledger)
      PROVE  t.op.kind = "cancel" /\ p = t.op.p
  <2>1. RefundKey(p) \in OwnKeys(t.op, t.day)
    BY <1>1, <1>5
  <2>2. t.op.kind = "cancel"
    <3>1. t.op.kind # "reserve"
      BY <2>1, OwnKeysAre, KeyKinds
    <3>2. t.op.kind # "claim"
      BY <2>1, OwnKeysAre, KeyKinds
    <3>3. t.op.kind # "merge"
      BY <2>1, OwnKeysAre, KeyKinds
    <3> QED BY <1>2, <3>1, <3>2, <3>3
  <2>3. RefundKey(p) = RefundKey(t.op.p)
    BY <2>1, <2>2, OwnKeysAre
  <2> QED BY <2>2, <2>3, KeyKinds
<1> QED BY <1>4, <1>5

(* The payments and the claims after a commit *)
PaymentAfter(op) ==
  IF op.kind = "reserve" THEN [payment EXCEPT ![op.p] = [user |-> op.u, amount |-> op.cost]]
  ELSE payment

(* A charge is recorded where there was none; a cancellation changes no    *)
(* charge.                                                                 *)
LEMMA PaymentCommitted ==
  ASSUME NEW t, CommitFacts(t)
  PROVE  /\ PaymentAfter(t.op) \in [Payments -> Abstract!Payment]
         /\ t.op.kind = "reserve" => /\ t.op.p \in Payments /\ t.op.cost \in Nat
                                     /\ payment[t.op.p].amount = 0
                                     /\ payment[t.op.p] = NoPayment
                                     /\ PaymentAfter(t.op)[t.op.p].amount = t.op.cost
         /\ t.op.kind = "cancel" => /\ t.op.p \in Payments /\ t.op.amount \in Nat
                                    /\ t.op.amount > 0 /\ payment[t.op.p].amount = t.op.amount
         /\ \A p \in Payments : ~(t.op.kind = "reserve" /\ t.op.p = p)
                                => PaymentAfter(t.op)[p] = payment[p]
<1>1. CASE t.op.kind = "reserve"
  <2>1. /\ t.op.p \in Payments /\ t.op.cost \in Nat /\ t.op.u \in Users
        /\ payment[t.op.p] = NoPayment
    BY <1>1, OpFields DEF CommitFacts, Knows, PaymentKnown
  <2> DEFINE paid == [user |-> t.op.u, amount |-> t.op.cost]
  <2>2. paid \in Abstract!Payment /\ paid.amount = t.op.cost /\ NoPayment.amount = 0
    BY <2>1 DEF Abstract!Payment, NoPayment
  <2>3. PaymentAfter(t.op) = [payment EXCEPT ![t.op.p] = paid]
    BY <1>1 DEF PaymentAfter
  <2> HIDE DEF paid
  <2> QED BY <1>1, <2>1, <2>2, <2>3 DEF CommitFacts
<1>2. CASE t.op.kind # "reserve"
  <2>1. PaymentAfter(t.op) = payment
    BY <1>2 DEF PaymentAfter
  <2>2. t.op.kind = "cancel" => /\ t.op.p \in Payments /\ t.op.amount \in Nat
                                /\ t.op.amount > 0 /\ payment[t.op.p].amount = t.op.amount
    BY OpFields DEF CommitFacts, Knows, PaymentKnown
  <2> QED BY <1>2, <2>1, <2>2 DEF CommitFacts
<1> QED BY <1>1, <1>2

(* The sums of a payment's rows after a commit                             *)
LEMMA CommitPayments ==
  ASSUME NEW t, CommitFacts(t), Journal, NEW p \in Payments
  PROVE  LET L == ledger \o t.out.ledger
             amount == PaymentAfter(t.op)[p].amount
         IN  /\ RefundKey(p) \in KeysIn(L) => amount > 0
             /\ KeySum(L, PaymentKeys(p)) = IF RefundKey(p) \in KeysIn(L) THEN 0 ELSE -amount
<1> DEFINE L == ledger \o t.out.ledger
<1> DEFINE amount == PaymentAfter(t.op)[p].amount
<1> DEFINE was == payment[p].amount
<1> DEFINE before == KeySum(ledger, PaymentKeys(p))
<1> DEFINE added == KeySum(t.out.ledger, PaymentKeys(p))
<1> DEFINE k == RefundKey(p)
<1>1. /\ KeysIn(L) = KeysIn(ledger) \cup KeysIn(t.out.ledger)
      /\ KeysIn(ledger) \cap KeysIn(t.out.ledger) = {}
      /\ KeySum(L, PaymentKeys(p)) = before + added
      /\ before \in Int /\ added \in Int
  BY JoinedJournals, FreshJournal, KeySumConcat, KeySumInt DEF CommitFacts
<1>2. /\ k \in KeysIn(ledger) => was > 0
      /\ before = IF k \in KeysIn(ledger) THEN 0 ELSE -was
  BY DEF Journal
<1>3. was \in Nat /\ amount \in Nat
  <2>1. payment[p] \in Abstract!Payment /\ PaymentAfter(t.op)[p] \in Abstract!Payment
    BY PaymentCommitted DEF CommitFacts
  <2>2. \A pay \in Abstract!Payment : pay.amount \in Nat
    BY DEF Abstract!Payment, Abstract!NoPayment
  <2> QED BY <2>1, <2>2
<1>4. k \in KeysIn(t.out.ledger) => t.op.kind = "cancel" /\ p = t.op.p
  BY CommitKeys
<1>5. added = IF t.op.kind = "cancel" /\ RefundKey(t.op.p) \notin KeysIn(t.out.ledger) THEN 0
              ELSE PaymentMove(t.op, p)
  BY Intends DEF CommitFacts, Ready
<1>6. CASE t.op.kind = "reserve" /\ t.op.p = p
  <2>1. t.op.cost \in Nat /\ was = 0 /\ amount = t.op.cost
    BY <1>6, PaymentCommitted
  <2>2. added = -t.op.cost
    BY <1>5, <1>6 DEF PaymentMove
  <2>3. k \notin KeysIn(ledger) /\ k \notin KeysIn(t.out.ledger)
    BY <1>2, <1>4, <1>6, <2>1
  <2> HIDE DEF L, amount, was, before, added, k
  <2>5. before = 0
    <3>1. was <= 0 /\ was >= 0
      BY <1>3, <2>1
    <3>2. before = -was
      BY <1>2, <2>3
    <3> QED BY <1>1, <1>3, <3>1, <3>2
  <2>6. k \notin KeysIn(L)
    BY <1>1, <2>3
  <2>4. k \notin KeysIn(L) /\ before = 0 /\ KeySum(L, PaymentKeys(p)) = before + added
    BY <1>1, <2>5, <2>6
  <2> QED BY <2>1, <2>2, <2>4 DEF L, amount, k
<1>7. CASE t.op.kind = "cancel" /\ t.op.p = p /\ k \in KeysIn(t.out.ledger)
  <2>1. t.op.amount \in Nat /\ t.op.amount > 0 /\ was = t.op.amount /\ amount = was
    BY <1>7, PaymentCommitted
  <2>2. added = t.op.amount
    BY <1>5, <1>7 DEF PaymentMove
  <2> HIDE DEF L, amount, was, before, added, k
  <2>3. k \in KeysIn(L) /\ before = -was
    BY <1>1, <1>2, <1>7
  <2>4. KeySum(L, PaymentKeys(p)) = 0
    BY <1>1, <2>1, <2>2, <2>3
  <2> QED BY <2>1, <2>3, <2>4 DEF L, amount, k
<1>8. CASE /\ ~(t.op.kind = "reserve" /\ t.op.p = p)
           /\ ~(t.op.kind = "cancel" /\ t.op.p = p /\ k \in KeysIn(t.out.ledger))
  <2>1. amount = was
    BY <1>8, PaymentCommitted
  <2>2. added = 0 /\ k \notin KeysIn(t.out.ledger)
    BY <1>4, <1>5, <1>8 DEF PaymentMove
  <2> HIDE DEF L, amount, was, before, added, k
  <2>3. KeySum(L, PaymentKeys(p)) = before /\ (k \in KeysIn(L) <=> k \in KeysIn(ledger))
    BY <1>1, <2>2
  <2> QED BY <1>2, <2>1, <2>3 DEF L, amount, k
<1> QED BY <1>6, <1>7, <1>8

ClaimedAfter(t) ==
  IF t.op.kind = "claim" /\ DailyRewards # <<>>
  THEN [claimed EXCEPT ![t.op.u] = @ \cup {t.day}] ELSE claimed

(* No claim is forgotten.                                                  *)
LEMMA ClaimsGrow ==
  ASSUME NEW t, CommitFacts(t)
  PROVE  /\ ClaimedAfter(t) \in [Users -> SUBSET Days]
         /\ \A u \in Users : claimed[u] \subseteq ClaimedAfter(t)[u]
         /\ t.op.kind = "claim" /\ DailyRewards # <<>> =>
              t.op.u \in Users /\ t.day \in ClaimedAfter(t)[t.op.u]
<1>1. t.op.kind = "claim" => t.op.u \in Users
  BY OpFields DEF CommitFacts
<1> QED BY <1>1 DEF ClaimedAfter, CommitFacts

(* More days earn no less.                                                 *)
LEMMA EarnedMonotone ==
  ASSUME NEW w, NEW days, NEW more, days \subseteq more, Earned(w, days)
  PROVE  Earned(w, more)
BY DEF Earned

(* One rung more for a claim on the day after.                             *)
LEMMA NextRungEarned ==
  ASSUME NEW w \in Row, NEW day \in Days, NEW days, day \in days, Earned(w, days),
         NEW x, x.last = day, x.streak = NextStreak(w, day), DailyRewards # <<>>
  PROVE  Earned(x, days)
<1>1. /\ w.streak \in Nat /\ w.last \in Int /\ day \in Nat
      /\ NextStreak(w, day) \in Nat
  <2>1. w.streak \in Nat /\ w.last \in Int /\ day \in Nat
    BY WalletTxAssumption DEF Row, Days, Never
  <2>2. NextStreak(w, day) \in 1..Len(DailyRewards) /\ Len(DailyRewards) \in Nat
    BY <2>1, StreakType, WalletAssumption
  <2> QED BY <2>1, <2>2
<1>2. \/ NextStreak(w, day) = 1
      \/ w.last = day - 1 /\ NextStreak(w, day) = w.streak + 1
  BY DEF NextStreak
<1> DEFINE s == NextStreak(w, day)
<1> HIDE DEF s
<1>3. (day - s + 1)..day \subseteq days
  <2>1. CASE s = 1
    BY <1>1, <2>1
  <2>2. CASE w.last = day - 1 /\ s = w.streak + 1
    <3>1. SUFFICES ASSUME NEW i \in (day - s + 1)..day PROVE i \in days
      OBVIOUS
    <3>2. i \in Int /\ day - s + 1 <= i /\ i <= day /\ s = w.streak + 1
      BY <1>1, <2>2
    <3>3. CASE i = day
      BY <3>3
    <3>4. CASE i # day
      <4>1. w.streak > 0 /\ i \in (w.last - w.streak + 1)..w.last
        BY <1>1, <2>2, <3>2, <3>4
      <4> QED BY <4>1 DEF Earned
    <3> QED BY <3>3, <3>4
  <2> QED BY <1>2, <2>1, <2>2 DEF s
<1> QED BY <1>3 DEF Earned, s

(* A streak that no claim left standing beside a newer one is earned.      *)
LEMMA CommitStreaks ==
  ASSUME NEW t, CommitFacts(t), NEW u \in Users,
         Earned(wallet[u], claimed[u]), Earned(t.view[u], claimed[u]),
         ~(Passed(t, u, "streak") /\ wallet[u].streak # t.view[u].streak)
  PROVE  Earned(Overlaid(t, u), ClaimedAfter(t)[u])
<1> DEFINE x == Overlaid(t, u)
<1> DEFINE v == t.view[u]
<1> DEFINE o == t.out.wallet[u]
<1>1. /\ x.last = IF o.last # v.last THEN o.last ELSE wallet[u].last
      /\ x.streak = IF o.streak # v.streak THEN o.streak ELSE wallet[u].streak
  BY OverlaidRow
<1>2. claimed[u] \subseteq ClaimedAfter(t)[u]
  BY ClaimsGrow
<1>3. RewardColumns(t.op, t.day, t.view, t.out) /\ v \in Row /\ t.day \in Days
  BY Intends DEF CommitFacts, Ready
<1>4. /\ "last" \in Written(t, u) <=> o.last # v.last
      /\ "streak" \in Written(t, u) <=> o.streak # v.streak
  BY DEF Written, EmptyRow
<1> HIDE DEF x, v, o
<1>5. CASE o.last = v.last /\ o.streak = v.streak
  <2>1. x.last = wallet[u].last /\ x.streak = wallet[u].streak
    BY <1>1, <1>5
  <2>2. Earned(x, claimed[u])
    BY <2>1 DEF Earned
  <2> QED BY <1>2, <2>2, EarnedMonotone DEF x
<1>6. CASE /\ t.op.kind = "claim" /\ u = t.op.u /\ DailyRewards # <<>> /\ v.last # t.day
           /\ o.last = t.day /\ o.streak = NextStreak(v, t.day)
  <2>1. t.day \in ClaimedAfter(t)[u]
    BY <1>6, ClaimsGrow
  <2>2. Passed(t, u, "streak") <=> o.streak = v.streak
    BY <1>4, <1>6 DEF Passed
  <2>3. o.streak = v.streak => wallet[u].streak = v.streak
    BY <2>2 DEF v
  <2>4. x.last = t.day /\ x.streak = NextStreak(v, t.day)
    BY <1>1, <1>6, <2>3
  <2>5. Earned(v, ClaimedAfter(t)[u])
    BY <1>2, EarnedMonotone DEF v
  <2> HIDE DEF x
  <2>6. Earned(x, ClaimedAfter(t)[u])
    BY <1>3, <1>6, <2>1, <2>4, <2>5, NextRungEarned
  <2> QED BY <2>6 DEF x
<1> QED BY <1>3, <1>5, <1>6 DEF RewardColumns, v, o

(* What the other sessions know stays true: their statements are not the   *)
(* ones committed, their payments are others, and no claim is forgotten.   *)
LEMMA CommitKnown ==
  ASSUME NEW t, CommitFacts(t), NEW m, m.done \subseteq Statements(m), m.out \in BookType,
         m.op \in Ops, Knows(m), Apart(t, m),
         ledger' = ledger \o t.out.ledger, payment' = PaymentAfter(t.op),
         claimed' = ClaimedAfter(t), stale \subseteq stale'
  PROVE  /\ \A s \in m.done : ~s.update => s.target \notin KeysIn(ledger')
         /\ m.op.kind = "reserve" /\ m.pc # "closing" => payment'[m.op.p] = NoPayment
         /\ m.op.kind = "cancel" =>
              m.op.amount > 0 /\ payment'[m.op.p] = [user |-> m.op.u, amount |-> m.op.amount]
         /\ m.op.kind = "claim" /\ m.pc = "error" => m.day \in claimed'[m.op.u]
         /\ \A u \in Users : <<u, "streak">> \notin stale' => Earned(m.view[u], claimed'[u])
<1>1. KeysIn(ledger') = KeysIn(ledger) \cup KeysIn(t.out.ledger)
  BY JoinedJournals DEF CommitFacts
<1>2. ASSUME NEW s \in m.done, ~s.update PROVE s.target \notin KeysIn(ledger')
  <2>1. s.target \notin KeysIn(ledger)
    BY <1>2 DEF Knows, FreshInserts
  <2>2. PICK k : s = [update |-> FALSE, target |-> k]
    BY <1>2 DEF Statements, Updates, Inserts
  <2>3. s \notin t.done
    BY DEF Apart
  <2>4. ASSUME NEW i \in DOMAIN t.out.ledger PROVE t.out.ledger[i].key # s.target
    <3>1. [update |-> FALSE, target |-> t.out.ledger[i].key] \in t.done
      BY DEF CommitFacts, Statements, Inserts
    <3> QED BY <2>2, <2>3, <3>1
  <2>5. s.target \notin KeysIn(t.out.ledger)
    BY <2>4 DEF KeysIn
  <2> QED BY <1>1, <2>1, <2>5
<1>3. \A p \in Payments : ~(t.op.kind = "reserve" /\ t.op.p = p) => payment'[p] = payment[p]
  BY PaymentCommitted
<1>4. m.op.kind = "reserve" /\ m.pc # "closing" => payment'[m.op.p] = NoPayment
  <2> SUFFICES ASSUME m.op.kind = "reserve", m.pc # "closing" PROVE payment'[m.op.p] = NoPayment
    OBVIOUS
  <2>1. m.op.p \in Payments /\ payment[m.op.p] = NoPayment
    BY OpFields DEF Knows, PaymentKnown
  <2>2. ~(t.op.kind = "reserve" /\ t.op.p = m.op.p)
    BY DEF Apart
  <2> QED BY <1>3, <2>1, <2>2
<1>5. m.op.kind = "cancel" =>
        m.op.amount > 0 /\ payment'[m.op.p] = [user |-> m.op.u, amount |-> m.op.amount]
  <2> SUFFICES ASSUME m.op.kind = "cancel"
               PROVE  /\ m.op.amount > 0
                      /\ payment'[m.op.p] = [user |-> m.op.u, amount |-> m.op.amount]
    OBVIOUS
  <2>1. /\ m.op.p \in Payments /\ m.op.amount > 0
        /\ payment[m.op.p] = [user |-> m.op.u, amount |-> m.op.amount]
    BY OpFields DEF Knows, PaymentKnown
  <2>2. payment[m.op.p].amount > 0
    BY <2>1
  <2>3. ~(t.op.kind = "reserve" /\ t.op.p = m.op.p)
    BY <2>2, PaymentCommitted
  <2> QED BY <1>3, <2>1, <2>3
<1>6. m.op.kind = "claim" /\ m.pc = "error" => m.day \in claimed'[m.op.u]
  <2>1. m.op.kind = "claim" => m.op.u \in Users
    BY OpFields
  <2> QED BY <2>1, ClaimsGrow DEF Knows, ClaimPaid
<1>7. ASSUME NEW u \in Users, <<u, "streak">> \notin stale' PROVE Earned(m.view[u], claimed'[u])
  <2>1. Earned(m.view[u], claimed[u]) /\ claimed[u] \subseteq claimed'[u]
    BY <1>7, ClaimsGrow DEF Knows, EarnedView
  <2> QED BY <2>1, EarnedMonotone
<1> QED BY <1>2, <1>4, <1>5, <1>6, <1>7

(* A session commits.                                                      *)
LEMMA CommitStep ==
  ASSUME Inv, NEW r \in Requests, Commit(r)
  PROVE  Inv'
<1> DEFINE t == tx[r]
<1>1. CommitFacts(t)
  BY CommitBegins
<1> DEFINE n == Over("closing", t.op, t.day)
<1> DEFINE late == {e \in Users \X Tracked : /\ Passed(t, e[1], e[2])
                                             /\ wallet[e[1]][e[2]] # t.view[e[1]][e[2]]}
<1>2. /\ wallet' = [u \in Users |-> Overlaid(t, u)]
      /\ ledger' = ledger \o t.out.ledger
      /\ account' = IF t.op.kind = "merge" THEN [account EXCEPT ![t.op.u] = "merged"] ELSE account
      /\ payment' = PaymentAfter(t.op)
      /\ claimed' = ClaimedAfter(t)
      /\ stale' = stale \cup late
      /\ tx' = [tx EXCEPT ![r] = n] /\ today' = today
  BY DEF Commit, PaymentAfter, ClaimedAfter, Over
<1>3. /\ late \subseteq Users \X Tracked
      /\ \A u \in Users, c \in Tracked :
           <<u, c>> \notin late => ~(Passed(t, u, c) /\ wallet[u][c] # t.view[u][c])
  OBVIOUS
<1> HIDE DEF late
<1>4. /\ n \in Session /\ n.pc = "closing" /\ n.op = t.op /\ n.day = t.day
      /\ n.view = NoView /\ n.out = Unchanged /\ n.done = {}
  BY <1>1, Ended DEF CommitFacts, Pcs
<1> HIDE DEF n
<1>5. Committed /\ RowsTyped /\ Journal /\ DriftOnlyByStaleWrite /\ StreaksEarned /\ Sessions
  BY DEF Inv, Committed
<1>6. RowsTyped'
  <2>1. wallet' \in [Users -> Row]
    BY <1>1, <1>2, OverlaidRow
  <2>2. ledger' \in Seq(Entry)
    BY <1>1, <1>2, JoinedJournals DEF CommitFacts
  <2>3. account' \in [Users -> {"absent", "active", "merged"}]
    BY <1>2, <1>5 DEF RowsTyped
  <2>4. payment' \in [Payments -> Abstract!Payment]
    BY <1>1, <1>2, PaymentCommitted
  <2>5. claimed' \in [Users -> SUBSET Days] /\ today' \in Days
    BY <1>1, <1>2, <1>5, ClaimsGrow DEF RowsTyped
  <2>6. stale' \in SUBSET (Users \X Tracked)
    BY <1>2, <1>3, <1>5 DEF RowsTyped
  <2> QED BY <2>1, <2>2, <2>3, <2>4, <2>5, <2>6 DEF RowsTyped
<1>7. Journal'
  <2>1. Distinct(ledger')
    <3>1. Distinct(t.out.ledger)
      BY <1>1, Intends DEF CommitFacts, Ready
    <3> QED BY <1>1, <1>2, <1>5, <3>1, JoinedJournals, FreshJournal DEF CommitFacts, Journal
  <2>2. KeySum(ledger', Merges) = 0
    <3>1. KeySum(t.out.ledger, Merges) = 0 /\ KeySum(ledger, Merges) = 0
      BY <1>1, <1>5, Intends DEF CommitFacts, Ready, Journal
    <3>2. KeySum(ledger', Merges) = KeySum(ledger, Merges) + KeySum(t.out.ledger, Merges)
      BY <1>1, <1>2, KeySumConcat DEF CommitFacts
    <3> QED BY <3>1, <3>2
  <2>3. ASSUME NEW u \in Users, NEW d \in Days, DailyKey(u, d) \in KeysIn(ledger')
        PROVE  d \in claimed'[u]
    <3>1. DailyKey(u, d) \in KeysIn(ledger) \/ DailyKey(u, d) \in KeysIn(t.out.ledger)
      BY <1>1, <1>2, <2>3, JoinedJournals DEF CommitFacts
    <3>2. CASE DailyKey(u, d) \in KeysIn(ledger)
      BY <1>1, <1>2, <1>5, <3>2, ClaimsGrow DEF Journal
    <3>3. CASE DailyKey(u, d) \in KeysIn(t.out.ledger)
      <4>1. t.op.kind = "claim" /\ u = t.op.u /\ d = t.day /\ DailyRewards # <<>>
        BY <1>1, <3>3, CommitKeys
      <4> QED BY <1>1, <1>2, <4>1, ClaimsGrow
    <3> QED BY <3>1, <3>2, <3>3
  <2>4. ASSUME NEW p \in Payments
        PROVE  /\ RefundKey(p) \in KeysIn(ledger') => payment'[p].amount > 0
               /\ KeySum(ledger', PaymentKeys(p)) =
                    IF RefundKey(p) \in KeysIn(ledger') THEN 0 ELSE -payment'[p].amount
    BY <1>1, <1>2, <1>5, CommitPayments
  <2>5. \A p : PaymentKeys(p)' = PaymentKeys(p) /\ RefundKey(p)' = RefundKey(p)
    BY DEF PaymentKeys, RefundKey, SpendKey
  <2> QED BY <2>1, <2>2, <2>3, <2>4, <2>5 DEF Journal
<1>8. DriftOnlyByStaleWrite'
  <2> SUFFICES ASSUME NEW u \in Users, NEW b \in Buckets, <<u, b>> \notin stale'
               PROVE  wallet'[u][b] = LedgerSum(ledger', u, b)
    BY DEF DriftOnlyByStaleWrite
  <2>1. wallet[u][b] = LedgerSum(ledger, u, b) /\ <<u, b>> \notin late /\ b \in Tracked
    BY <1>2, <1>5 DEF DriftOnlyByStaleWrite, Tracked
  <2>2. ~(Passed(t, u, b) /\ wallet[u][b] # t.view[u][b])
    BY <1>3, <2>1
  <2>3. Overlaid(t, u)[b] = LedgerSum(ledger \o t.out.ledger, u, b)
    BY <1>1, <2>1, <2>2, CommitBalances
  <2> QED BY <1>2, <2>3
<1>9. StreaksEarned'
  <2> SUFFICES ASSUME NEW u \in Users, <<u, "streak">> \notin stale'
               PROVE  Earned(wallet'[u], claimed'[u])
    BY DEF StreaksEarned
  <2>1. /\ Earned(wallet[u], claimed[u]) /\ Earned(t.view[u], claimed[u])
        /\ <<u, "streak">> \notin late /\ "streak" \in Tracked
    BY <1>1, <1>2, <1>5 DEF StreaksEarned, CommitFacts, Knows, EarnedView, Tracked
  <2>2. ~(Passed(t, u, "streak") /\ wallet[u].streak # t.view[u].streak)
    BY <1>3, <2>1
  <2>3. Earned(Overlaid(t, u), ClaimedAfter(t)[u])
    BY <1>1, <2>1, <2>2, CommitStreaks
  <2> QED BY <1>2, <2>3
<1>10. /\ tx' \in [Requests -> Session] /\ tx'[r] = n
       /\ \A q \in Requests \ {r} : tx'[q] = tx[q]
  BY <1>2, <1>4, <1>5 DEF Sessions
<1>11. Sessions'
  <2>1. Lifecycle(n)
    BY <1>1, <1>4 DEF Lifecycle, Ready, CommitFacts
  <2> QED BY <1>5, <1>10, <2>1 DEF Sessions
<1>12. (\A q \in Requests : Knows(tx[q]))'
  <2> SUFFICES ASSUME NEW q \in Requests PROVE Knows(tx[q])'
    OBVIOUS
  <2>1. CASE q # r
    <3> DEFINE m == tx[q]
    <3>1. /\ m.done \subseteq Statements(m) /\ m.out \in BookType /\ m.op \in Ops
          /\ Knows(m) /\ tx'[q] = m
      BY <1>10, <2>1, OneSession DEF Lifecycle
    <3>2. Apart(t, m) /\ stale \subseteq stale'
      BY <1>2, <2>1 DEF Inv
    <3> HIDE DEF m, t
    <3>3. /\ \A s \in m.done : ~s.update => s.target \notin KeysIn(ledger')
          /\ m.op.kind = "reserve" /\ m.pc # "closing" => payment'[m.op.p] = NoPayment
          /\ m.op.kind = "cancel" =>
               m.op.amount > 0 /\ payment'[m.op.p] = [user |-> m.op.u, amount |-> m.op.amount]
          /\ m.op.kind = "claim" /\ m.pc = "error" => m.day \in claimed'[m.op.u]
          /\ \A u \in Users : <<u, "streak">> \notin stale' => Earned(m.view[u], claimed'[u])
      BY <1>1, <1>2, <3>1, <3>2, CommitKnown
    <3> QED BY <3>1, <3>3 DEF Knows, FreshInserts, PaymentKnown, ClaimPaid, EarnedView
  <2>2. CASE q = r
    <3>1. t.op.kind = "cancel" =>
            /\ t.op.amount > 0
            /\ payment'[t.op.p] = [user |-> t.op.u, amount |-> t.op.amount]
      BY <1>1, <1>2, PaymentCommitted DEF CommitFacts, Knows, PaymentKnown
    <3>2. tx'[q] = n
      BY <1>10, <2>2
    <3> HIDE DEF t
    <3> QED BY <1>4, <3>1, <3>2, NoViewTyped
            DEF Knows, FreshInserts, PaymentKnown, ClaimPaid, EarnedView
  <2> QED BY <2>1, <2>2
<1>13. (\A q, s \in Requests : q # s => Apart(tx[q], tx[s]))'
  <2> SUFFICES ASSUME NEW q \in Requests, NEW s \in Requests, q # s
               PROVE  Apart(tx'[q], tx'[s])
    BY DEF Apart
  <2>1. \A m \in Requests : m # r => Apart(n, tx[m]) /\ Apart(tx[m], n)
    BY <1>4 DEF Inv, Apart
  <2>2. CASE q = r
    BY <1>10, <2>1, <2>2
  <2>3. CASE s = r
    BY <1>10, <2>1, <2>3
  <2>4. CASE q # r /\ s # r
    BY <1>10, <2>4 DEF Inv
  <2> QED BY <2>2, <2>3, <2>4
<1>14. Cardinality(Busy') <= PoolSize
  BY <1>1, <1>10, BusyStep DEF Inv, CommitFacts
<1> QED BY <1>6, <1>7, <1>8, <1>9, <1>11, <1>12, <1>13, <1>14 DEF Inv, Committed

(* A sign-up grants the bonus to a balance of its own: no open session     *)
(* executes a statement with its key.                                      *)
LEMMA CreateUserStep ==
  ASSUME Inv, NEW u \in Users, CreateUser(u)
  PROVE  Inv'
<1> DEFINE B == [wallet |-> wallet, ledger |-> ledger]
<1> DEFINE k == SignupKey(u)
<1> DEFINE C == Grant(B, u, SignupBonus, "free", k)
<1>1. /\ Committed /\ RowsTyped /\ Journal /\ DriftOnlyByStaleWrite /\ StreaksEarned /\ Sessions
      /\ account' = [account EXCEPT ![u] = "active"]
      /\ wallet' = C.wallet /\ ledger' = C.ledger
      /\ UNCHANGED <<payment, today, claimed, tx, stale>>
  BY DEF Inv, Committed, CreateUser
<1>2. /\ B \in BookType /\ B.wallet = wallet /\ B.ledger = ledger
      /\ k \in Keys /\ SignupBonus \in Nat /\ "free" \in Buckets
  BY <1>1, WalletTxAssumption DEF BookType, RowsTyped, Keys, SignupKey, Buckets
<1> HIDE DEF B
<1>3. /\ \A p : RefundKey(p) # k /\ k \notin PaymentKeys(p)
      /\ \A v, d : DailyKey(v, d) # k
      /\ k \notin Merges
  <2>1. \A p : k \notin PaymentKeys(p)
    BY KeyKinds DEF PaymentKeys
  <2>2. k \notin Merges
    BY KeyKinds DEF Merges
  <2> QED BY <2>1, <2>2, KeyKinds
<1>4. \A op \in Ops : \A day : op.kind # "none" => k \notin OwnKeys(op, day)
  <2> SUFFICES ASSUME NEW op \in Ops, NEW day, op.kind # "none" PROVE k \notin OwnKeys(op, day)
    OBVIOUS
  <2>1. op.kind = "claim" => k \notin OwnKeys(op, day)
    BY OwnKeysAre, KeyKinds
  <2>2. op.kind = "reserve" => k \notin OwnKeys(op, day)
    BY OwnKeysAre, KeyKinds
  <2>3. op.kind = "cancel" => k \notin OwnKeys(op, day)
    BY OwnKeysAre, KeyKinds
  <2>4. op.kind = "merge" => k \notin OwnKeys(op, day)
    BY OwnKeysAre, KeyKinds
  <2> QED BY <2>1, <2>2, <2>3, <2>4, OpFields
<1> HIDE DEF k
<1>5. AccountsFor(B, C) /\ KeysKept(B, C, {k}) /\ SameRewards(B, C)
  BY <1>2, GrantAccounts, GrantKeys
<1>6. ASSUME NEW K, k \notin K PROVE KeySum(C.ledger, K) = KeySum(B.ledger, K)
  <2>1. KeySum(C.ledger, K) = KeySum(B.ledger, K)
                                + (IF k \in K /\ ~Applied(B, k) THEN SignupBonus ELSE 0)
    BY <1>2, GrantKeySum
  <2>2. KeySum(B.ledger, K) \in Int
    BY <1>2, KeySumInt DEF BookType
  <2> QED BY <1>6, <2>1, <2>2
<1> HIDE DEF C
<1>7. /\ wallet' \in [Users -> Row] /\ ledger' \in Seq(Entry)
      /\ Distinct(ledger') /\ KeysIn(ledger') \subseteq KeysIn(ledger) \cup {k}
      /\ KeysIn(ledger) \subseteq KeysIn(ledger')
  BY <1>1, <1>2, <1>5 DEF AccountsFor, BookType, KeysKept, Journal
<1>8. RowsTyped'
  BY <1>1, <1>7 DEF RowsTyped
<1>9. Journal'
  <2>1. KeySum(ledger', Merges) = 0
    BY <1>1, <1>2, <1>3, <1>6 DEF Journal
  <2>2. \A p \in Payments : KeySum(ledger', PaymentKeys(p)) = KeySum(ledger, PaymentKeys(p))
    BY <1>1, <1>2, <1>3, <1>6
  <2>3. /\ \A p : RefundKey(p) \in KeysIn(ledger') <=> RefundKey(p) \in KeysIn(ledger)
        /\ \A v, d : DailyKey(v, d) \in KeysIn(ledger') <=> DailyKey(v, d) \in KeysIn(ledger)
    BY <1>3, <1>7
  <2>4. \A p : PaymentKeys(p)' = PaymentKeys(p) /\ RefundKey(p)' = RefundKey(p)
    BY DEF PaymentKeys, RefundKey, SpendKey
  <2> QED BY <1>1, <1>7, <2>1, <2>2, <2>3, <2>4 DEF Journal
<1>10. DriftOnlyByStaleWrite'
  <2> SUFFICES ASSUME NEW v \in Users, NEW b \in Buckets, <<v, b>> \notin stale
               PROVE  wallet'[v][b] = LedgerSum(ledger', v, b)
    BY <1>1 DEF DriftOnlyByStaleWrite
  <2> DEFINE bw == B.wallet[v][b]
  <2> DEFINE cw == C.wallet[v][b]
  <2> DEFINE bl == LedgerSum(B.ledger, v, b)
  <2> DEFINE cl == LedgerSum(C.ledger, v, b)
  <2>1. bw \in Int /\ cw \in Int /\ bl \in Int /\ cl \in Int
    BY <1>2, <1>5, GapsAreIntegers DEF AccountsFor
  <2>2. cw + bl = bw + cl /\ bw = bl
    BY <1>1, <1>2, <1>5 DEF AccountsFor, SameGap, DriftOnlyByStaleWrite
  <2> HIDE DEF bw, cw, bl, cl
  <2>3. cw = cl
    BY <2>1, <2>2
  <2> QED BY <1>1, <2>3 DEF cw, cl
<1>11. StreaksEarned'
  <2> SUFFICES ASSUME NEW v \in Users, <<v, "streak">> \notin stale
               PROVE  Earned(wallet'[v], claimed[v])
    BY <1>1 DEF StreaksEarned
  <2>1. Earned(wallet[v], claimed[v])
    BY <1>1 DEF StreaksEarned
  <2>2. wallet'[v].last = wallet[v].last /\ wallet'[v].streak = wallet[v].streak
    BY <1>1, <1>2, <1>5 DEF SameRewards
  <2> QED BY <2>1, <2>2 DEF Earned
<1>12. Sessions'
  BY <1>1 DEF Sessions
<1>13. (\A q \in Requests : Knows(tx[q]))'
  <2> SUFFICES ASSUME NEW q \in Requests PROVE Knows(tx[q])'
    OBVIOUS
  <2>1. Knows(tx[q]) /\ tx[q] \in Session /\ Lifecycle(tx[q]) /\ tx[q].op \in Ops
    BY OneSession
  <2>2. ASSUME NEW s \in tx[q].done, ~s.update PROVE s.target \notin KeysIn(ledger')
    <3>1. s.target \notin KeysIn(ledger)
      BY <2>1, <2>2 DEF Knows, FreshInserts
    <3>2. tx[q].pc \in Ready
      BY <2>1 DEF Lifecycle
    <3>3. s.target \in KeysIn(tx[q].out.ledger)
      BY <2>1, <2>2 DEF Lifecycle, Statements, Updates, Inserts, KeysIn
    <3>4. s.target \in OwnKeys(tx[q].op, tx[q].day) /\ tx[q].op.kind # "none"
      BY <2>1, <3>2, <3>3, Intends
    <3>5. s.target # k
      BY <1>4, <2>1, <3>4
    <3> QED BY <1>7, <3>1, <3>5
  <2> QED BY <1>1, <2>1, <2>2 DEF Knows, FreshInserts, PaymentKnown, ClaimPaid, EarnedView
<1>14. (\A q, s \in Requests : q # s => Apart(tx[q], tx[s]))' /\ Cardinality(Busy') <= PoolSize
  BY <1>1 DEF Inv, Busy
<1> QED BY <1>8, <1>9, <1>10, <1>11, <1>12, <1>13, <1>14 DEF Inv, Committed

-----------------------------------------------------------------------------
(* At first there are no rows and no sessions.                             *)
LEMMA InitInv == Init => Inv
<1> SUFFICES ASSUME Init PROVE Inv
  OBVIOUS
<1>1. /\ wallet = NoView /\ ledger = <<>> /\ payment = [p \in Payments |-> NoPayment]
      /\ account = [u \in Users |-> "absent"] /\ today = 1 /\ claimed = [u \in Users |-> {}]
      /\ tx = [r \in Requests |-> Idle] /\ stale = {}
  BY DEF Init
<1>2. NoPayment \in Abstract!Payment /\ NoPayment.amount = 0
  BY DEF Abstract!Payment, Abstract!NoPayment, NoPayment
<1> HIDE DEF NoPayment
<1>3. RowsTyped
  <2>1. ledger \in Seq(Entry)
    BY <1>1
  <2>2. today \in Days
    BY <1>1, WalletTxAssumption DEF Days
  <2> QED BY <1>1, <1>2, <2>1, <2>2, NoViewTyped DEF RowsTyped
<1>4. /\ KeysIn(ledger) = {} /\ Distinct(ledger)
      /\ \A K : KeySum(ledger, K) = 0
      /\ \A u, b : LedgerSum(ledger, u, b) = 0
  BY <1>1, ReadBook, NoViewTyped, LedgerSumEmpty
<1>5. Journal
  <2>1. \A p \in Payments : payment[p].amount \in Int /\ payment[p].amount <= 0
                            /\ payment[p].amount >= 0
    BY <1>1, <1>2
  <2>2. \A p \in Payments : 0 = -payment[p].amount
    BY <2>1
  <2> QED BY <1>4, <2>2 DEF Journal
<1>6. DriftOnlyByStaleWrite
  <2>1. \A u \in Users, b \in Buckets : NoView[u][b] = 0
    BY DEF NoView, EmptyRow, Buckets
  <2> QED BY <1>1, <1>4, <2>1 DEF DriftOnlyByStaleWrite
<1>7. StreaksEarned
  BY <1>1, NoViewTyped DEF StreaksEarned
<1>8. Sessions
  BY <1>1, IdleSession DEF Sessions
<1>9. \A r \in Requests : Knows(tx[r])
  BY <1>1, IdleSession
<1>10. \A r, q \in Requests : r # q => Apart(tx[r], tx[q])
  BY <1>1, IdleSession DEF Apart
<1>11. Cardinality(Busy) <= PoolSize
  <2>1. Busy = {}
    BY <1>1, IdleSession DEF Busy
  <2> QED BY <2>1, FS_EmptySet, WalletTxAssumption
<1> QED BY <1>3, <1>5, <1>6, <1>7, <1>8, <1>9, <1>10, <1>11 DEF Inv, Committed

(* Every step keeps the invariant, whoever takes it.                       *)
LEMMA NextInv == Inv /\ [Next]_vars => Inv'
<1> SUFFICES ASSUME Inv, [Next]_vars PROVE Inv'
  OBVIOUS
<1>1. ASSUME NEW r \in Requests, Proceed(r) PROVE Inv'
  <2>1. CASE Check(r)
    BY <2>1, CheckStep
  <2>2. CASE ReadRow(r)
    BY <2>2, ReadRowStep
  <2>3. CASE Flushed(r)
    BY <2>3, FlushedStep
  <2>4. CASE Conflict(r)
    BY <2>4, ConflictStep
  <2>5. CASE ProviderReturns(r) \/ ProviderFails(r)
    BY <2>5, ProviderStep
  <2>6. CASE RecordFailure(r) \/ PoolTimeout(r)
    BY <2>6, FailedStep DEF RecordFailure, PoolTimeout
  <2>7. CASE Commit(r)
    BY <2>7, CommitStep
  <2>8. CASE Close(r)
    BY <2>8, IdleStep DEF Close
  <2> QED BY <1>1, <2>1, <2>2, <2>3, <2>4, <2>5, <2>6, <2>7, <2>8 DEF Proceed
<1>2. ASSUME NEW r \in Requests, Abort(r) PROVE Inv'
  BY <1>2, IdleStep DEF Abort
<1>3. CASE UNCHANGED vars
  <2>1. UNCHANGED <<wallet, ledger, account, payment, claimed, today, tx, stale>>
    BY <1>3 DEF vars, committed
  <2>2. Committed'
    BY <2>1 DEF Inv, Committed, RowsTyped, Journal, DriftOnlyByStaleWrite, StreaksEarned, Earned
  <2>3. Sessions'
    BY <2>1 DEF Inv, Sessions
  <2>4. (\A q \in Requests : Knows(tx[q]))'
    BY <2>1 DEF Inv, Knows, FreshInserts, PaymentKnown, ClaimPaid, EarnedView
  <2>5. (\A q, s \in Requests : q # s => Apart(tx[q], tx[s]))' /\ Cardinality(Busy') <= PoolSize
    BY <2>1 DEF Inv, Busy
  <2> QED BY <2>2, <2>3, <2>4, <2>5 DEF Inv
<1> QED BY <1>1, <1>2, <1>3, StartStep, ExecuteStep, CreateUserStep, NextDayStep DEF Next

(* So it always holds.                                                     *)
LEMMA Invariance == Spec => []Inv
<1> QED BY InitInv, NextInv, PTL DEF Spec

-----------------------------------------------------------------------------
(* What the invariant means *)

(* Each key names at most one row of a journal of distinct keys.           *)
LEMMA OneRow ==
  ASSUME Distinct(ledger), NEW k
  PROVE  Cardinality({i \in DOMAIN ledger : ledger[i].key = k}) <= 1
<1> DEFINE S == {i \in DOMAIN ledger : ledger[i].key = k}
<1>1. CASE S = {}
  BY <1>1, FS_EmptySet
<1>2. CASE S # {}
  <2>1. PICK i \in S : TRUE
    BY <1>2
  <2>2. S = {i}
    BY <2>1 DEF Distinct
  <2>3. Cardinality({i}) = 1
    BY FS_Singleton
  <2> QED BY <2>2, <2>3
<1> QED BY <1>1, <1>2

(* The invariant includes the types.                                       *)
LEMMA Typed ==
  ASSUME Inv
  PROVE  TypeOK
<1>1. RowsTyped /\ Cardinality(Busy) <= PoolSize
  BY DEF Inv, Committed
<1>2. ASSUME NEW r \in Requests
      PROVE  /\ tx[r].pc \in Pcs /\ tx[r].view \in [Users -> Row] /\ tx[r].out \in BookType
             /\ tx[r].day \in Days \cup {0} /\ tx[r].done \subseteq Statements(tx[r])
  BY OneSession DEF Lifecycle
<1> QED BY <1>1, <1>2 DEF TypeOK, RowsTyped, BookType, Pcs

(* Wallet's sums and keys are the same operators as this module's.         *)
LEMMA SameSums ==
  ASSUME NEW L, NEW K
  PROVE  Abstract!KeySum(L, K) = KeySum(L, K)
BY DEF Abstract!KeySum, KeySum, Abstract!KeyAmount, KeyAmount, Abstract!SeqSum, SeqSum

(* Merges sum to zero, each key once.                                      *)
LEMMA MergesConserve ==
  ASSUME Inv
  PROVE  MergeConserves
<1>1. Distinct(ledger) /\ KeySum(ledger, Merges) = 0
  BY DEF Inv, Committed, Journal
<1>2. /\ \A t \in Users : Cardinality({i \in DOMAIN ledger : ledger[i].key = MergeKey(t)}) <= 1
      /\ \A g \in Guests : Cardinality({i \in DOMAIN ledger : ledger[i].key = MergeOutKey(g)}) <= 1
  BY <1>1, OneRow
<1>3. Abstract!KeySum(ledger, Merges) = 0
  BY <1>1, SameSums
<1>4. Abstract!MergeConserves
  BY <1>2, <1>3 DEF Abstract!MergeConserves, Merges, Abstract!MergeKey, MergeKey,
     Abstract!MergeOutKey, MergeOutKey, Abstract!Cardinality, Cardinality
<1> QED BY <1>2, <1>4 DEF MergeConserves

(* A payment's rows sum to its price, or to zero once it is refunded.      *)
LEMMA RefundsUndo ==
  ASSUME Inv
  PROVE  RefundUndoesCharge
<1> SUFFICES ASSUME NEW p \in Payments
             PROVE  Abstract!KeySum(ledger, Abstract!PaymentKeys(p)) =
                      IF Abstract!Applied(Abstract!Book, Abstract!RefundKey(p)) THEN 0
                      ELSE -payment[p].amount
  BY DEF RefundUndoesCharge, Abstract!RefundUndoesCharge
<1>1. KeySum(ledger, PaymentKeys(p)) =
        IF RefundKey(p) \in KeysIn(ledger) THEN 0 ELSE -payment[p].amount
  BY DEF Inv, Committed, Journal
<1>2. Abstract!PaymentKeys(p) = PaymentKeys(p)
  BY DEF Abstract!PaymentKeys, PaymentKeys, Abstract!SpendKey, SpendKey,
     Abstract!RefundKey, RefundKey
<1>3. Abstract!Applied(Abstract!Book, Abstract!RefundKey(p)) <=> RefundKey(p) \in KeysIn(ledger)
  BY DEF Abstract!Applied, Abstract!Book, Abstract!RefundKey, RefundKey, KeysIn
<1> QED BY <1>1, <1>2, <1>3, SameSums

(* However many requests overlap, fail, or are aborted: a balance that no  *)
(* session overwrote with a value computed from an older one is the sum of *)
(* its journal (wallet.py, models.py).                                     *)
THEOREM DriftNeedsAStaleWrite == Spec => []DriftOnlyByStaleWrite
<1>1. Inv => DriftOnlyByStaleWrite
  BY DEF Inv, Committed
<1> QED BY Invariance, <1>1, PTL

(* A day is rewarded once, a streak is no longer than the days claimed     *)
(* (but for the one exception the history variable records), and a claim   *)
(* that fails has been paid (claim_daily, billing.py).                     *)
THEOREM HonestClaims == Spec => []ClaimsStayHonest
<1>1. Inv => ClaimsStayHonest
  <2> SUFFICES ASSUME Inv PROVE ClaimsStayHonest
    OBVIOUS
  <2>1. StreakNotForged
    <3>1. \A u \in Users, d \in Days :
            Cardinality({i \in DOMAIN ledger : ledger[i].key = DailyKey(u, d)}) <= 1
      BY OneRow DEF Inv, Committed, Journal
    <3> QED BY <3>1 DEF StreakNotForged, Inv, Committed, StreaksEarned
  <2>2. ClaimFailsOnlyWhenPaid
    BY DEF Inv, Knows, ClaimPaid, ClaimFailsOnlyWhenPaid
  <2> QED BY <2>1, <2>2, Typed DEF ClaimsStayHonest
<1> QED BY Invariance, <1>1, PTL

(* Sign-ins that merge guests, charges and cancellations that overlap      *)
(* create and destroy no tokens: what guests lose accounts gain, once; a   *)
(* charge is complete and given back at most once (merge_into, spend,      *)
(* refund in wallet.py).                                                   *)
THEOREM ConservedTokens == Spec => []TokensConserved
<1>1. Inv => TokensConserved
  BY Typed, MergesConserve, RefundsUndo DEF TokensConserved, Inv, Committed
<1> QED BY Invariance, <1>1, PTL

-----------------------------------------------------------------------------
(* One connection: a session implements one step of Wallet.                *)

(* Wallet's operations are the ones of this module.                        *)
LEMMA SameOperations ==
  /\ \A B, k : Abstract!Applied(B, k) <=> Applied(B, k)
  /\ \A B, u, b, d, k : Abstract!Posted(B, u, b, d, k) = Posted(B, u, b, d, k)
  /\ \A B, u, amount, b, k : Abstract!Grant(B, u, amount, b, k) = Grant(B, u, amount, b, k)
  /\ \A B, u, day : Abstract!Claim(B, u, day) = Claim(B, u, day)
  /\ \A B, u, cost : Abstract!CanSpend(B, u, cost) <=> CanSpend(B, u, cost)
  /\ \A B, u, cost, p : Abstract!Spend(B, u, cost, p) = Spend(B, u, cost, p)
  /\ \A B, u, amount, p : Abstract!Refund(B, u, amount, p) = Refund(B, u, amount, p)
  /\ \A B, g, t : Abstract!Transfer(B, g, t) = Transfer(B, g, t)
  /\ \A u : Abstract!SignupKey(u) = SignupKey(u)
<1>1. \A B, k : Abstract!Applied(B, k) <=> Applied(B, k)
  BY DEF Abstract!Applied, Applied
<1>2. \A B, u, b, d, k : Abstract!Posted(B, u, b, d, k) = Posted(B, u, b, d, k)
  BY DEF Abstract!Posted, Posted
<1>3. \A B, u, amount, b, k : Abstract!Grant(B, u, amount, b, k) = Grant(B, u, amount, b, k)
  BY <1>1, <1>2 DEF Abstract!Grant, Grant
<1>4. \A B, u, day, rung : Abstract!Stamped(B, u, day, rung) = Stamped(B, u, day, rung)
  BY DEF Abstract!Stamped, Stamped
<1>5. /\ \A a, b : Abstract!Lesser(a, b) = Lesser(a, b)
      /\ \A w : Abstract!Room(w) = Room(w)
      /\ \A w : Abstract!Total(w) = Total(w)
      /\ \A w, day : Abstract!NextStreak(w, day) = NextStreak(w, day)
  BY DEF Abstract!Lesser, Lesser, Abstract!Room, Room, Abstract!NonNegative, NonNegative,
     Abstract!Total, Total, Abstract!NextStreak, NextStreak
<1>6. /\ \A u, d : Abstract!DailyKey(u, d) = DailyKey(u, d)
      /\ \A p, b : Abstract!SpendKey(p, b) = SpendKey(p, b)
      /\ \A p : Abstract!RefundKey(p) = RefundKey(p)
      /\ \A u : Abstract!MergeKey(u) = MergeKey(u)
      /\ \A u : Abstract!MergeOutKey(u) = MergeOutKey(u)
      /\ \A u : Abstract!SignupKey(u) = SignupKey(u)
  BY DEF Abstract!DailyKey, DailyKey, Abstract!SpendKey, SpendKey, Abstract!RefundKey, RefundKey,
     Abstract!MergeKey, MergeKey, Abstract!MergeOutKey, MergeOutKey,
     Abstract!SignupKey, SignupKey
<1>7. \A B, u, day : Abstract!Claim(B, u, day) = Claim(B, u, day)
  BY <1>2, <1>4, <1>5, <1>6 DEF Abstract!Claim, Claim
<1>8. \A B, u, cost : Abstract!CanSpend(B, u, cost) <=> CanSpend(B, u, cost)
  BY <1>5 DEF Abstract!CanSpend, CanSpend
<1>9. \A B, u, cost, p : Abstract!Spend(B, u, cost, p) = Spend(B, u, cost, p)
  BY <1>2, <1>5, <1>6 DEF Abstract!Spend, Spend
<1>10. \A B, u, amount, p : Abstract!Refund(B, u, amount, p) = Refund(B, u, amount, p)
  BY <1>3, <1>6 DEF Abstract!Refund, Refund
<1>11. \A B, g, t : Abstract!Transfer(B, g, t) = Transfer(B, g, t)
  BY <1>1, <1>2, <1>5, <1>6 DEF Abstract!Transfer, Transfer
<1> QED BY <1>1, <1>2, <1>3, <1>6, <1>7, <1>8, <1>9, <1>10, <1>11

(* A row is its four columns.                                              *)
LEMMA RowsEqual ==
  ASSUME NEW x \in Row, NEW y \in Row,
         \A c \in {"free", "sub", "last", "streak"} : x[c] = y[c]
  PROVE  x = y
BY DEF Row

(* What is committed and what a session has read, side by side: the same   *)
(* rows of the users of S, and the journal of the session after the        *)
(* committed one.                                                          *)
Stored == [wallet |-> wallet, ledger |-> ledger]

Follows(B, V, view, S) ==
  /\ B.wallet = [v \in Users |-> B.wallet[v]] /\ V.wallet = [v \in Users |-> V.wallet[v]]
  /\ \A v \in S : B.wallet[v] = V.wallet[v]
  /\ \A v \in Users \ S : B.wallet[v] = wallet[v] /\ V.wallet[v] = view[v]
  /\ B.ledger = ledger \o V.ledger
  /\ \E T : ledger \in Seq(T) /\ V.ledger \in Seq(T)

(* A session that has read the committed rows follows them.                *)
LEMMA ReadFollows ==
  ASSUME wallet \in [Users -> Row], ledger \in Seq(Entry), NEW view \in [Users -> Row],
         NEW S \in SUBSET Users, \A v \in S : view[v] = wallet[v]
  PROVE  Follows(Stored, Read(view), view, S)
<1>1. /\ Stored.wallet = wallet /\ Stored.ledger = ledger
      /\ Read(view).wallet = view /\ Read(view).ledger = <<>>
  BY DEF Stored, Read
<1>2. <<>> \in Seq(Entry) /\ ledger = ledger \o <<>>
  OBVIOUS
<1> QED BY <1>1, <1>2 DEF Follows

(* A movement of a user of S keeps the two side by side.                   *)
LEMMA PostedFollows ==
  ASSUME NEW B, NEW V, NEW view, NEW S \in SUBSET Users, Follows(B, V, view, S),
         NEW u \in S, NEW b, NEW d, NEW k
  PROVE  Follows(Posted(B, u, b, d, k), Posted(V, u, b, d, k), view, S)
<1> DEFINE after == B.wallet[u][b] + d
<1> DEFINE e == [user |-> u, bucket |-> b, delta |-> d, key |-> k, after |-> after]
<1> DEFINE BB == Posted(B, u, b, d, k)
<1> DEFINE VV == Posted(V, u, b, d, k)
<1>1. B.wallet[u] = V.wallet[u]
  BY DEF Follows
<1>2. /\ BB.wallet = [B.wallet EXCEPT ![u][b] = after] /\ BB.ledger = Append(B.ledger, e)
      /\ VV.wallet = [V.wallet EXCEPT ![u][b] = after] /\ VV.ledger = Append(V.ledger, e)
  BY <1>1 DEF Posted
<1>3. PICK T : ledger \in Seq(T) /\ V.ledger \in Seq(T) /\ B.ledger = ledger \o V.ledger
  BY DEF Follows
<1> HIDE DEF e, BB, VV, after
<1>4. /\ ledger \in Seq(T \cup {e}) /\ V.ledger \in Seq(T \cup {e}) /\ e \in T \cup {e}
      /\ VV.ledger \in Seq(T \cup {e})
  <2>1. \A s \in Seq(T) : s \in Seq(T \cup {e})
    OBVIOUS
  <2> QED BY <1>2, <1>3, <2>1
<1>5. BB.ledger = ledger \o VV.ledger
  <2> DEFINE U == T \cup {e}
  <2> DEFINE M == V.ledger
  <2> DEFINE J == Append(ledger \o M, e)
  <2> DEFINE I == ledger \o Append(M, e)
  <2>1. /\ ledger \in Seq(U) /\ M \in Seq(U) /\ e \in U
    BY <1>4
  <2> HIDE DEF U, M
  <2>2. /\ J \in Seq(U) /\ I \in Seq(U) /\ Len(J) = Len(ledger) + Len(M) + 1
        /\ Len(I) = Len(J) /\ Len(ledger) \in Nat /\ Len(M) \in Nat
    BY <2>1
  <2>3. ASSUME NEW i \in 1..Len(J) PROVE J[i] = I[i]
    <3>1. CASE i <= Len(ledger)
      BY <3>1, <2>1, <2>2
    <3>2. CASE i > Len(ledger) /\ i <= Len(ledger) + Len(M)
      BY <3>2, <2>1, <2>2
    <3>3. CASE i = Len(ledger) + Len(M) + 1
      BY <3>3, <2>1, <2>2
    <3> QED BY <2>2, <3>1, <3>2, <3>3
  <2> HIDE DEF I, J
  <2>4. J = I
    BY <2>2, <2>3
  <2> QED BY <2>4, <1>2, <1>3 DEF I, J, M
<1>6. /\ BB.wallet = [v \in Users |-> BB.wallet[v]] /\ VV.wallet = [v \in Users |-> VV.wallet[v]]
      /\ \A v \in Users : v # u => BB.wallet[v] = B.wallet[v] /\ VV.wallet[v] = V.wallet[v]
      /\ BB.wallet[u] = [B.wallet[u] EXCEPT ![b] = after]
      /\ VV.wallet[u] = [V.wallet[u] EXCEPT ![b] = after]
  BY <1>2 DEF Follows
<1>7. /\ \A v \in S : BB.wallet[v] = VV.wallet[v]
      /\ \A v \in Users \ S : BB.wallet[v] = wallet[v] /\ VV.wallet[v] = view[v]
  BY <1>1, <1>6 DEF Follows
<1>8. Follows(BB, VV, view, S)
  BY <1>4, <1>5, <1>6, <1>7 DEF Follows
<1> QED BY <1>8 DEF BB, VV

(* So does a stamp.                                                        *)
LEMMA StampFollows ==
  ASSUME NEW B, NEW V, NEW view, NEW S \in SUBSET Users, Follows(B, V, view, S),
         NEW u \in S, NEW day, NEW rung
  PROVE  Follows(Stamped(B, u, day, rung), Stamped(V, u, day, rung), view, S)
<1> DEFINE BB == Stamped(B, u, day, rung)
<1> DEFINE VV == Stamped(V, u, day, rung)
<1>1. B.wallet[u] = V.wallet[u]
  BY DEF Follows
<1>2. /\ BB.wallet = [B.wallet EXCEPT ![u] = [@ EXCEPT !.last = day, !.streak = rung]]
      /\ VV.wallet = [V.wallet EXCEPT ![u] = [@ EXCEPT !.last = day, !.streak = rung]]
      /\ BB.ledger = B.ledger /\ VV.ledger = V.ledger
  BY DEF Stamped
<1> HIDE DEF BB, VV
<1>3. /\ BB.wallet = [v \in Users |-> BB.wallet[v]] /\ VV.wallet = [v \in Users |-> VV.wallet[v]]
      /\ \A v \in Users : v # u => BB.wallet[v] = B.wallet[v] /\ VV.wallet[v] = V.wallet[v]
      /\ BB.wallet[u] = [B.wallet[u] EXCEPT !.last = day, !.streak = rung]
      /\ VV.wallet[u] = [V.wallet[u] EXCEPT !.last = day, !.streak = rung]
  BY <1>2 DEF Follows
<1>4. /\ \A v \in S : BB.wallet[v] = VV.wallet[v]
      /\ \A v \in Users \ S : BB.wallet[v] = wallet[v] /\ VV.wallet[v] = view[v]
  BY <1>1, <1>3 DEF Follows
<1>5. Follows(BB, VV, view, S)
  BY <1>2, <1>3, <1>4 DEF Follows
<1> QED BY <1>5 DEF BB, VV

(* Hence so does the daily reward of a user of S.                          *)
LEMMA ClaimFollows ==
  ASSUME NEW B, NEW V, NEW view, NEW S \in SUBSET Users, Follows(B, V, view, S),
         NEW u \in S, NEW day
  PROVE  Follows(Claim(B, u, day), Claim(V, u, day), view, S)
<1> DEFINE rung == NextStreak(B.wallet[u], day)
<1> DEFINE granted == Lesser(DailyRewards[rung], Room(B.wallet[u]))
<1> DEFINE BM == Stamped(B, u, day, rung)
<1> DEFINE VM == Stamped(V, u, day, rung)
<1> DEFINE BP == Posted(BM, u, "free", granted, DailyKey(u, day))
<1> DEFINE VP == Posted(VM, u, "free", granted, DailyKey(u, day))
<1>1. B.wallet[u] = V.wallet[u]
  BY DEF Follows
<1>2. /\ Claim(B, u, day) = IF DailyRewards = <<>> \/ B.wallet[u].last = day THEN B
                            ELSE IF granted = 0 THEN BM ELSE BP
      /\ Claim(V, u, day) = IF DailyRewards = <<>> \/ B.wallet[u].last = day THEN V
                            ELSE IF granted = 0 THEN VM ELSE VP
  BY <1>1 DEF Claim
<1>3. Follows(BM, VM, view, S)
  BY StampFollows
<1> HIDE DEF BM, VM, granted
<1>4. Follows(BP, VP, view, S)
  BY <1>3, PostedFollows
<1> HIDE DEF BP, VP
<1> QED BY <1>2, <1>3, <1>4

(* So does a charge,                                                       *)
LEMMA SpendFollows ==
  ASSUME NEW B, NEW V, NEW view, NEW S \in SUBSET Users, Follows(B, V, view, S),
         NEW u \in S, NEW cost, NEW p
  PROVE  Follows(Spend(B, u, cost, p), Spend(V, u, cost, p), view, S)
<1> DEFINE fromSub == Lesser(B.wallet[u].sub, cost)
<1> DEFINE rest == cost - fromSub
<1> DEFINE BS == Posted(B, u, "sub", -fromSub, SpendKey(p, "sub"))
<1> DEFINE VS == Posted(V, u, "sub", -fromSub, SpendKey(p, "sub"))
<1> DEFINE BD == IF fromSub = 0 THEN B ELSE BS
<1> DEFINE VD == IF fromSub = 0 THEN V ELSE VS
<1> DEFINE BP == Posted(BD, u, "free", -rest, SpendKey(p, "free"))
<1> DEFINE VP == Posted(VD, u, "free", -rest, SpendKey(p, "free"))
<1>1. B.wallet[u] = V.wallet[u]
  BY DEF Follows
<1>2. /\ Spend(B, u, cost, p) = IF rest = 0 THEN BD ELSE BP
      /\ Spend(V, u, cost, p) = IF rest = 0 THEN VD ELSE VP
  BY <1>1 DEF Spend
<1>3. Follows(BS, VS, view, S)
  BY PostedFollows
<1> HIDE DEF BS, VS, fromSub
<1>4. Follows(BD, VD, view, S)
  BY <1>3
<1> HIDE DEF BD, VD, rest
<1>5. Follows(BP, VP, view, S)
  BY <1>4, PostedFollows
<1> HIDE DEF BP, VP
<1> QED BY <1>2, <1>4, <1>5

(* a refund not made before,                                               *)
LEMMA RefundFollows ==
  ASSUME NEW B, NEW V, NEW view, NEW S \in SUBSET Users, Follows(B, V, view, S),
         NEW u \in S, NEW amount, NEW p,
         ~Applied(B, RefundKey(p)), ~Applied(V, RefundKey(p))
  PROVE  Follows(Refund(B, u, amount, p), Refund(V, u, amount, p), view, S)
<1> DEFINE BP == Posted(B, u, "free", amount, RefundKey(p))
<1> DEFINE VP == Posted(V, u, "free", amount, RefundKey(p))
<1>1. Refund(B, u, amount, p) = BP /\ Refund(V, u, amount, p) = VP
  BY DEF Refund, Grant
<1>2. Follows(BP, VP, view, S)
  BY PostedFollows
<1> HIDE DEF BP, VP
<1> QED BY <1>1, <1>2

(* and the transfer of a guest, both users being in S.                     *)
LEMMA TransferFollows ==
  ASSUME NEW B, NEW V, NEW view, NEW S \in SUBSET Users, Follows(B, V, view, S),
         NEW g \in S, NEW t \in S,
         ~Applied(B, MergeKey(t)), ~Applied(V, MergeKey(t))
  PROVE  Follows(Transfer(B, g, t), Transfer(V, g, t), view, S)
<1> DEFINE amount == Lesser(B.wallet[g].free, Room(B.wallet[t]))
<1> DEFINE BO == Posted(B, g, "free", -amount, MergeOutKey(g))
<1> DEFINE VO == Posted(V, g, "free", -amount, MergeOutKey(g))
<1> DEFINE BP == Posted(BO, t, "free", amount, MergeKey(t))
<1> DEFINE VP == Posted(VO, t, "free", amount, MergeKey(t))
<1>1. B.wallet[g] = V.wallet[g] /\ B.wallet[t] = V.wallet[t]
  BY DEF Follows
<1>2. /\ Transfer(B, g, t) = IF amount <= 0 THEN B ELSE BP
      /\ Transfer(V, g, t) = IF amount <= 0 THEN V ELSE VP
  BY <1>1 DEF Transfer
<1>3. Follows(BO, VO, view, S)
  BY PostedFollows
<1> HIDE DEF BO, VO, amount
<1>4. Follows(BP, VP, view, S)
  BY <1>3, PostedFollows
<1> HIDE DEF BP, VP
<1> QED BY <1>2, <1>3, <1>4

(* The guest with an empty wallet: nothing moves, whatever the target has. *)
LEMMA EmptyTransfer ==
  ASSUME NEW B, NEW g, NEW t, B.wallet[g].free = 0, B.wallet[t] \in Row
  PROVE  Transfer(B, g, t) = B
<1>1. Room(B.wallet[t]) \in Nat
  BY WalletAssumption DEF Room, NonNegative, Row
<1>2. Lesser(B.wallet[g].free, Room(B.wallet[t])) <= 0
  BY <1>1 DEF Lesser
<1> QED BY <1>2 DEF Transfer

-----------------------------------------------------------------------------
(* What a session knows when it is alone: the rows it read are the rows    *)
(* that are committed, until it commits.  Others may only sign up, and     *)
(* midnight may pass once.                                                 *)

OwnKey(op) == IF op.kind = "cancel" THEN RefundKey(op.p) ELSE MergeKey(op.t)

Entitled(op) ==
  /\ op.kind \in {"claim", "reserve", "merge"} => account[op.u] = "active"
  /\ op.kind = "merge" => account[op.t] = "active"
  /\ op.kind = "cancel" => account[op.u] # "absent"

Fresh(t) ==
  /\ Computed(t)
  /\ t.view[t.op.u] = wallet[t.op.u]
  /\ t.op.kind = "merge" => wallet[t.op.u].free = 0 \/ t.view[t.op.t] = wallet[t.op.t]
  /\ t.op.kind \in {"cancel", "merge"} => OwnKey(t.op) \notin KeysIn(ledger)

Stopped(t) ==
  /\ t.out = Unchanged /\ t.view = NoView
  /\ t.op.kind = "claim" => DailyRewards = <<>>
  /\ t.op.kind = "reserve" => t.op.cost = 0
  /\ t.op.kind \in {"cancel", "merge"} => OwnKey(t.op) \in KeysIn(ledger)

Serial(t) ==
  /\ t.pc = "idle" => t.day = 0
  /\ t.pc # "idle" => t.day <= today /\ today <= t.day + 1
  /\ t.pc \in Ready \cup {"check", "read"} => Entitled(t.op)
  /\ t.pc = "read" =>
       /\ t.op.kind \in {"cancel", "merge"} => OwnKey(t.op) \notin KeysIn(ledger)
       /\ t.op.kind = "merge" /\ t.toRead = <<t.op.t>> => t.view[t.op.u] = wallet[t.op.u]
  /\ t.pc \in Ready => Fresh(t) \/ Stopped(t)

PayersKnown == \A p \in Payments : payment[p] # NoPayment => account[payment[p].user] # "absent"

SerialInv == Inv /\ PayersKnown /\ \A r \in Requests : Serial(tx[r])

(* The date the requests see: the one a request took, else the server's *)
DateOf(sessions, date) ==
  LET dated == {r \in Requests : sessions[r].day # 0}
  IN  IF dated = {} THEN date ELSE sessions[CHOOSE r \in dated : TRUE].day

Implements == Abstract!Next \/ UNCHANGED Abstract!vars

(* With one connection at most one session is open.                        *)
LEMMA OnlyOne ==
  ASSUME Inv, PoolSize = 1, NEW r \in Requests, tx[r].pc # "idle"
  PROVE  \A q \in Requests \ {r} : tx[q].pc = "idle"
<1> SUFFICES ASSUME NEW q \in Requests \ {r}, tx[q].pc # "idle" PROVE FALSE
  OBVIOUS
<1>1. IsFiniteSet(Busy) /\ Cardinality(Busy) \in Nat /\ Cardinality(Busy) <= 1
  BY WalletTxAssumption, FS_Subset, FS_CardinalityType DEF Busy, Inv
<1>2. {r, q} \subseteq Busy
  BY DEF Busy
<1>3. IsFiniteSet({q}) /\ Cardinality({q}) = 1
  BY FS_Singleton
<1>4. {q} \cup {r} = {r, q} /\ r \notin {q}
  OBVIOUS
<1>5. Cardinality({q} \cup {r}) = 2
  BY <1>3, <1>4, FS_AddElement
<1>6. Cardinality({r, q}) <= Cardinality(Busy)
  BY <1>1, <1>2, FS_Subset
<1> QED BY <1>1, <1>4, <1>5, <1>6

(* A request begins only when no session is open.                          *)
LEMMA NoneOpen ==
  ASSUME Inv, PoolSize = 1, Cardinality(Busy) < PoolSize
  PROVE  \A q \in Requests : tx[q].pc = "idle"
<1>1. IsFiniteSet(Busy) /\ Cardinality(Busy) \in Nat
  BY WalletTxAssumption, FS_Subset, FS_CardinalityType DEF Busy
<1>2. Cardinality(Busy) = 0
  BY <1>1
<1>3. Busy = {}
  BY <1>1, <1>2, FS_EmptySet
<1> QED BY <1>3 DEF Busy

(* The date is the one of the open session.                                *)
LEMMA DateOfOne ==
  ASSUME NEW x, NEW date, NEW r \in Requests, x[r].day # 0,
         \A q \in Requests \ {r} : x[q].day = 0
  PROVE  DateOf(x, date) = x[r].day
<1> DEFINE dated == {q \in Requests : x[q].day # 0}
<1>1. dated = {r}
  OBVIOUS
<1>2. (CHOOSE q \in dated : TRUE) = r
  BY <1>1
<1> QED BY <1>1, <1>2 DEF DateOf

(* Between sessions it is the date of the server.                          *)
LEMMA DateOfNone ==
  ASSUME NEW x, NEW date, \A q \in Requests : x[q].day = 0
  PROVE  DateOf(x, date) = date
BY DEF DateOf

(* This is Wallet's date.                                                  *)
LEMMA AbstractVars ==
  /\ Abstract!vars = <<wallet, ledger, account, payment, DateOf(tx, today), claimed>>
  /\ Abstract!vars' = <<wallet', ledger', account', payment', DateOf(tx', today'), claimed'>>
BY DEF Abstract!vars, DateOf, Dated

(* A session that moves on, and changes nothing, is nothing to Wallet.     *)
LEMMA MovedOn ==
  ASSUME SerialInv, PoolSize = 1, NEW r \in Requests, tx[r].pc # "idle",
         NEW n, tx' = [tx EXCEPT ![r] = n], OnlyTx,
         n.pc # "idle", n.day = tx[r].day, Serial(n)
  PROVE  PayersKnown' /\ (\A q \in Requests : Serial(tx[q]))' /\ Implements
<1>1. /\ tx' \in [Requests -> {n} \cup Session] /\ tx'[r] = n /\ tx[r].day \in Days
      /\ \A q \in Requests \ {r} : tx'[q] = tx[q] /\ tx[q].pc = "idle" /\ tx[q].day = 0
  BY OnlyOne, OneSession DEF SerialInv, Serial, Lifecycle
<1>2. UNCHANGED <<wallet, ledger, account, payment, claimed, today>>
  BY DEF OnlyTx, committed
<1>3. ASSUME NEW q \in Requests PROVE Serial(tx[q])'
  <2>1. CASE q = r
    BY <1>1, <1>2, <2>1 DEF Serial, Entitled, Fresh, Stopped
  <2>2. CASE q # r
    BY <1>1, <2>2 DEF Serial, Ready
  <2> QED BY <2>1, <2>2
<1>4. tx[r].day # 0
  BY <1>1 DEF Days
<1>5. DateOf(tx, today) = tx[r].day
  BY <1>1, <1>4, DateOfOne
<1>6. DateOf(tx', today') = tx[r].day
  BY <1>1, <1>4, DateOfOne
<1>7. UNCHANGED Abstract!vars
  BY <1>2, <1>5, <1>6, AbstractVars
<1>8. PayersKnown'
  BY <1>2 DEF SerialInv, PayersKnown
<1> QED BY <1>3, <1>7, <1>8 DEF Implements

(* A request that begins finds no session open, and takes the date.        *)
LEMMA SerialBegin ==
  ASSUME SerialInv, PoolSize = 1, NEW r \in Requests, NEW op \in Ops, op.kind # "none",
         NEW pc \in {"check", "read", "provider", "commit"}, Begin(r, op, pc, Rows(op)),
         Entitled(op),
         pc = "commit" => op.kind = "claim" /\ DailyRewards = <<>>,
         pc = "provider" => op.kind = "reserve" /\ op.cost = 0,
         pc = "read" => op.kind \notin {"cancel", "merge"}
  PROVE  PayersKnown' /\ (\A q \in Requests : Serial(tx[q]))' /\ Implements
<1> DEFINE n == Opened(pc, op, today, Rows(op))
<1>1. /\ Cardinality(Busy) < PoolSize /\ tx' = [tx EXCEPT ![r] = n] /\ OnlyTx
      /\ tx \in [Requests -> Session] /\ Inv /\ today \in Days
  BY DEF Begin, Opened, SerialInv, Inv, Sessions, Committed, RowsTyped
<1>2. Rows(op) \in Seq(Users) /\ pc \in Pcs
  BY OpFields DEF Rows, Pcs
<1>3. /\ n.pc = pc /\ n.op = op /\ n.day = today /\ n.toRead = Rows(op)
      /\ n.view = NoView /\ n.out = Unchanged
  BY <1>1, <1>2, Begun
<1> HIDE DEF n
<1>4. \A q \in Requests : tx[q].pc = "idle" /\ tx[q].day = 0
  BY <1>1, NoneOpen DEF SerialInv, Serial
<1>5. /\ tx'[r] = n /\ \A q \in Requests \ {r} : tx'[q] = tx[q]
      /\ UNCHANGED <<wallet, ledger, account, payment, claimed, today>>
  BY <1>1 DEF OnlyTx, committed
<1>6. today \in Nat /\ today # 0
  BY <1>1 DEF Days
<1>7. Serial(tx[r])'
  <2>1. n.pc # "idle" /\ n.day <= today /\ today <= n.day + 1
    BY <1>3, <1>6
  <2>2. pc \in Ready => op.kind \notin {"cancel", "merge"}
    BY DEF Ready
  <2>3. pc \in Ready => /\ op.kind = "claim" => DailyRewards = <<>>
                        /\ op.kind = "reserve" => op.cost = 0
    BY DEF Ready
  <2> QED BY <1>3, <1>5, <2>1, <2>2, <2>3 DEF Serial, Entitled, Stopped
<1>8. ASSUME NEW q \in Requests, q # r PROVE Serial(tx[q])'
  BY <1>4, <1>5, <1>8 DEF Serial, Ready
<1>9. DateOf(tx, today) = today
  BY <1>4, DateOfNone
<1>10. DateOf(tx', today') = today
  <2>1. tx'[r].day # 0 /\ \A q \in Requests \ {r} : tx'[q].day = 0
    BY <1>3, <1>4, <1>5, <1>6
  <2> QED BY <1>3, <1>5, <2>1, DateOfOne
<1>11. UNCHANGED Abstract!vars
  BY <1>5, <1>9, <1>10, AbstractVars
<1>12. PayersKnown'
  BY <1>5 DEF SerialInv, PayersKnown
<1> QED BY <1>7, <1>8, <1>11, <1>12 DEF Implements

(* A session that goes gives the date back: Wallet's midnight, if one has  *)
(* passed since it began.                                                  *)
LEMMA SerialEnd ==
  ASSUME SerialInv, PoolSize = 1, NEW r \in Requests, tx[r].pc # "idle",
         tx' = [tx EXCEPT ![r] = Idle], OnlyTx
  PROVE  PayersKnown' /\ (\A q \in Requests : Serial(tx[q]))' /\ Implements
<1>1. /\ tx'[r] = Idle /\ tx[r].day \in Days /\ today \in Days
      /\ tx[r].day <= today /\ today <= tx[r].day + 1
      /\ \A q \in Requests \ {r} : tx'[q] = tx[q] /\ tx[q].pc = "idle" /\ tx[q].day = 0
  BY OnlyOne, OneSession DEF SerialInv, Serial, Lifecycle, Inv, Committed, RowsTyped
<1>2. UNCHANGED <<wallet, ledger, account, payment, claimed, today>>
  BY DEF OnlyTx, committed
<1>3. \A q \in Requests : tx'[q].pc = "idle" /\ tx'[q].day = 0
  BY <1>1, IdleSession
<1>4. ASSUME NEW q \in Requests PROVE Serial(tx[q])'
  BY <1>3 DEF Serial, Ready
<1>5. tx[r].day \in Nat /\ tx[r].day # 0 /\ today \in Nat /\ MaxDay \in Nat /\ today <= MaxDay
  BY <1>1, WalletTxAssumption DEF Days
<1>6. DateOf(tx, today) = tx[r].day
  BY <1>1, <1>5, DateOfOne
<1>7. DateOf(tx', today') = today
  BY <1>2, <1>3, DateOfNone
<1>8. ASSUME today = tx[r].day PROVE Implements
  <2>1. UNCHANGED Abstract!vars
    BY <1>2, <1>6, <1>7, <1>8, AbstractVars
  <2> QED BY <2>1 DEF Implements
<1>9. ASSUME today = tx[r].day + 1 PROVE Implements
  <2>1. /\ DateOf(tx, today) < MaxDay /\ DateOf(tx', today') = DateOf(tx, today) + 1
        /\ UNCHANGED <<wallet, ledger, account, payment, claimed>>
    BY <1>2, <1>5, <1>6, <1>7, <1>9
  <2>2. Abstract!NextDay
    BY <2>1 DEF Abstract!NextDay, DateOf, Dated
  <2> QED BY <2>2 DEF Implements, Abstract!Next
<1>10. PayersKnown'
  BY <1>2 DEF SerialInv, PayersKnown
<1> QED BY <1>1, <1>4, <1>5, <1>8, <1>9, <1>10

(* A request begins.                                                       *)
LEMMA SerialStart ==
  ASSUME SerialInv, PoolSize = 1, NEW r \in Requests, Start(r)
  PROVE  PayersKnown' /\ (\A q \in Requests : Serial(tx[q]))' /\ Implements
<1> DEFINE Goal == PayersKnown' /\ (\A q \in Requests : Serial(tx[q]))' /\ Implements
<1>1. ASSUME NEW u \in Users, BeginClaim(r, u) PROVE Goal
  <2> DEFINE op == [kind |-> "claim", u |-> u]
  <2>1. /\ op \in Ops /\ op.kind = "claim" /\ Rows(op) = <<u>> /\ op.u = u
        /\ account[u] = "active"
    BY <1>1 DEF Ops, ClaimOps, Rows, BeginClaim
  <2>2. PICK pc \in {"read", "commit"} : /\ Begin(r, op, pc, Rows(op))
                                         /\ pc = "commit" => DailyRewards = <<>>
    BY <1>1, <2>1 DEF BeginClaim
  <2> HIDE DEF op
  <2>3. Entitled(op)
    BY <2>1 DEF Entitled
  <2>4. /\ pc \in {"check", "read", "provider", "commit"} /\ pc # "provider"
        /\ op.kind # "none" /\ op.kind \notin {"cancel", "merge"}
    BY <2>1, <2>2
  <2> QED BY <2>1, <2>2, <2>3, <2>4, SerialBegin
<1>2. ASSUME NEW u \in Users, NEW p \in Payments, NEW cost \in Costs, BeginReserve(r, u, p, cost)
      PROVE  Goal
  <2> DEFINE op == [kind |-> "reserve", u |-> u, p |-> p, cost |-> cost]
  <2>1. /\ op \in Ops /\ op.kind = "reserve" /\ op.cost = cost /\ Rows(op) = <<u>> /\ op.u = u
        /\ account[u] = "active"
    BY <1>2 DEF Ops, ReserveOps, Rows, BeginReserve
  <2>2. PICK pc \in {"read", "provider"} : /\ Begin(r, op, pc, Rows(op))
                                           /\ pc = "provider" => cost = 0
    BY <1>2, <2>1 DEF BeginReserve
  <2> HIDE DEF op
  <2>3. Entitled(op)
    BY <2>1 DEF Entitled
  <2>4. /\ pc \in {"check", "read", "provider", "commit"} /\ pc # "commit"
        /\ op.kind # "none" /\ op.kind \notin {"cancel", "merge"}
    BY <2>1, <2>2
  <2> QED BY <2>1, <2>2, <2>3, <2>4, SerialBegin
<1>3. ASSUME NEW p \in Payments, BeginCancel(r, p) PROVE Goal
  <2> DEFINE op == [kind |-> "cancel", u |-> payment[p].user, amount |-> payment[p].amount, p |-> p]
  <2>1. /\ payment[p].user \in Users /\ payment[p].amount \in Nat /\ payment[p] # NoPayment
    BY <1>3 DEF SerialInv, Inv, Committed, RowsTyped, Abstract!Payment, Abstract!NoPayment,
       NoPayment, BeginCancel
  <2>2. /\ op \in Ops /\ op.kind = "cancel" /\ Rows(op) = <<payment[p].user>>
        /\ op.u = payment[p].user
    BY <2>1 DEF Ops, CancelOps, Rows
  <2>3. Begin(r, op, "check", Rows(op))
    BY <1>3, <2>2 DEF BeginCancel
  <2> HIDE DEF op
  <2>4. Entitled(op)
    BY <2>1, <2>2 DEF Entitled, SerialInv, PayersKnown
  <2> QED BY <2>2, <2>3, <2>4, SerialBegin
<1>4. ASSUME NEW g \in Guests, NEW t \in Users, BeginMerge(r, g, t) PROVE Goal
  <2> DEFINE op == [kind |-> "merge", u |-> g, t |-> t]
  <2>1. /\ op \in Ops /\ op.kind = "merge" /\ Rows(op) = <<g, t>> /\ op.u = g /\ op.t = t
        /\ account[g] = "active" /\ account[t] = "active"
    BY <1>4 DEF Ops, MergeOps, Rows, BeginMerge
  <2>2. Begin(r, op, "check", Rows(op))
    BY <1>4, <2>1 DEF BeginMerge
  <2> HIDE DEF op
  <2>3. Entitled(op)
    BY <2>1 DEF Entitled
  <2> QED BY <2>1, <2>2, <2>3, SerialBegin
<1> QED BY <1>1, <1>2, <1>3, <1>4 DEF Start

(* _already_applied is asked: the answer stays true.                       *)
LEMMA SerialCheck ==
  ASSUME SerialInv, PoolSize = 1, NEW r \in Requests, Check(r)
  PROVE  PayersKnown' /\ (\A q \in Requests : Serial(tx[q]))' /\ Implements
<1> DEFINE t == tx[r]
<1>1. /\ t \in Session /\ t.pc = "check" /\ OnlyTx /\ Serial(t) /\ Lifecycle(t)
      /\ tx \in [Requests -> Session] /\ t.op \in Ops
      /\ Goto(r, IF Applied([ledger |-> ledger], OwnKey(t.op)) THEN "commit" ELSE "read")
  BY OneSession DEF SerialInv, Check, OwnKey
<1>2. PICK pc \in {"commit", "read"} :
        Goto(r, pc) /\ (pc = "commit" <=> OwnKey(t.op) \in KeysIn(ledger))
  BY <1>1, Lookup
<1> DEFINE n == [t EXCEPT !.pc = pc]
<1>3. tx' = [tx EXCEPT ![r] = n]
  BY <1>1, <1>2 DEF Goto
<1>4. /\ n.pc = pc /\ n.op = t.op /\ n.day = t.day /\ n.toRead = t.toRead
      /\ n.view = t.view /\ n.out = t.out
  BY <1>1, <1>2, MovesOn DEF Pcs
<1>5. /\ t.op.kind \in {"cancel", "merge"} /\ t.toRead = Rows(t.op)
      /\ t.view = NoView /\ t.out = Unchanged
  BY <1>1 DEF Lifecycle, Ready
<1>6. t.op.kind = "merge" => t.toRead # <<t.op.t>>
  BY <1>1, <1>5, OpFields DEF Rows
<1> HIDE DEF n, t
<1>7. Serial(n)
  BY <1>1, <1>2, <1>4, <1>5, <1>6 DEF Serial, Ready, Stopped
<1> QED BY <1>1, <1>2, <1>3, <1>4, <1>7, MovedOn DEF t

(* A session goes on with what it intends.                                 *)
LEMMA SerialGoto ==
  ASSUME SerialInv, PoolSize = 1, NEW r \in Requests, NEW pc \in Ready, Goto(r, pc), OnlyTx,
         tx[r].pc \in Ready
  PROVE  PayersKnown' /\ (\A q \in Requests : Serial(tx[q]))' /\ Implements
<1> DEFINE t == tx[r]
<1> DEFINE n == [t EXCEPT !.pc = pc]
<1>1. /\ t \in Session /\ Serial(t) /\ tx \in [Requests -> Session] /\ pc \in Pcs
      /\ t.pc # "idle" /\ n.pc # "idle"
  BY OneSession DEF SerialInv, Ready, Pcs
<1>2. tx' = [tx EXCEPT ![r] = n]
  BY <1>1 DEF Goto
<1>3. /\ n.pc = pc /\ n.op = t.op /\ n.day = t.day /\ n.toRead = t.toRead
      /\ n.view = t.view /\ n.out = t.out
  BY <1>1, MovesOn
<1> HIDE DEF n
<1>4. Serial(n)
  BY <1>1, <1>3 DEF Serial, Ready, Stopped, Fresh, Computed
<1> QED BY <1>1, <1>2, <1>3, <1>4, MovedOn

(* A row is read: it is the committed one, and stays it.                   *)
LEMMA SerialRead ==
  ASSUME SerialInv, PoolSize = 1, NEW r \in Requests, ReadRow(r)
  PROVE  PayersKnown' /\ (\A q \in Requests : Serial(tx[q]))' /\ Implements
<1> DEFINE t == tx[r]
<1> DEFINE u == Head(t.toRead)
<1> DEFINE view == [t.view EXCEPT ![u] = wallet[u]]
<1> DEFINE Goal == PayersKnown' /\ (\A q \in Requests : Serial(tx[q]))' /\ Implements
<1>1. /\ t \in Session /\ Lifecycle(t) /\ Serial(t) /\ t.op \in Ops
      /\ t.view \in [Users -> Row] /\ t.pc = "read" /\ OnlyTx
      /\ tx \in [Requests -> Session] /\ wallet \in [Users -> Row]
  BY OneSession DEF SerialInv, ReadRow, Inv, Committed, RowsTyped
<1>2. /\ t.op.kind # "none" /\ t.day \in Days
      /\ t.op.kind = "claim" => DailyRewards # <<>>
      /\ Entitled(t.op)
      /\ t.op.kind \in {"cancel", "merge"} => OwnKey(t.op) \notin KeysIn(ledger)
      /\ t.op.kind = "merge" /\ t.toRead = <<t.op.t>> => t.view[t.op.u] = wallet[t.op.u]
  BY <1>1 DEF Lifecycle, Serial
<1>3. /\ u \in Users /\ Tail(t.toRead) \in Seq(Users)
      /\ t.op.kind # "merge" => u = t.op.u /\ Tail(t.toRead) = <<>>
      /\ t.op.kind = "merge" => \/ t.toRead = <<t.op.t>> /\ u = t.op.t /\ Tail(t.toRead) = <<>>
                                \/ u = t.op.u /\ Tail(t.toRead) = <<t.op.t>>
  BY <1>1, NextRead
<1> HIDE DEF u
<1>4. /\ view[u] = wallet[u] /\ \A v \in Users : v # u => view[v] = t.view[v]
      /\ view \in [Users -> Row]
  BY <1>1, <1>3
<1>5. t.op.kind = "merge" => t.op.u \in Users /\ t.op.t \in Users /\ t.op.u # t.op.t
  BY <1>1, OpFields
<1>6. view[t.op.u] = wallet[t.op.u]
  <2>1. t.op.u \in Users
    BY <1>1, <1>2, OpUser
  <2> QED BY <2>1, <1>2, <1>3, <1>4, <1>5
<1> HIDE DEF view, t, Goal
<1>7. ASSUME tx' = [tx EXCEPT ![r].view = view, ![r].toRead = Tail(@)], Tail(t.toRead) # <<>>
      PROVE  Goal
  <2> DEFINE n == [t EXCEPT !.view = view, !.toRead = Tail(t.toRead)]
  <2>1. tx' = [tx EXCEPT ![r] = n]
    BY <1>1, <1>7 DEF t
  <2>2. n.pc = "read" /\ n.op = t.op /\ n.day = t.day /\ n.view = view
    BY <1>1 DEF Session
  <2> HIDE DEF n
  <2>3. Serial(n)
    BY <1>1, <1>2, <1>6, <2>2 DEF Serial, Ready
  <2> QED BY <1>1, <2>1, <2>2, <2>3, MovedOn DEF t, Goal
<1>8. ASSUME tx' = [tx EXCEPT ![r] = [Idle EXCEPT !.pc = "refused", !.op = t.op, !.day = t.day]]
      PROVE  Goal
  <2> DEFINE n == Over("refused", t.op, t.day)
  <2>1. n.pc = "refused" /\ n.op = t.op /\ n.day = t.day
    BY <1>1, <1>2, Ended DEF Pcs
  <2>2. tx' = [tx EXCEPT ![r] = n]
    BY <1>8 DEF Over
  <2> HIDE DEF n
  <2>3. Serial(n)
    BY <1>1, <2>1 DEF Serial, Ready
  <2> QED BY <1>1, <2>1, <2>2, <2>3, MovedOn DEF t, Goal
<1>9. ASSUME tx' = [tx EXCEPT ![r] = [t EXCEPT !.pc = "flush", !.view = view, !.toRead = <<>>,
                                               !.out = Result(t.op, t.day, view)]],
             t.op.kind = "reserve" => CanSpend([wallet |-> view], u, t.op.cost),
             Tail(t.toRead) = <<>> \/ (t.op.kind = "merge" /\ wallet[u].free = 0)
      PROVE  Goal
  <2> DEFINE out == Result(t.op, t.day, view)
  <2> DEFINE n == [t EXCEPT !.pc = "flush", !.view = view, !.toRead = <<>>, !.out = out]
  <2>1. t.op.kind = "reserve" => CanSpend([wallet |-> view], t.op.u, t.op.cost)
    BY <1>3, <1>9
  <2>2. tx' = [tx EXCEPT ![r] = n]
    BY <1>9
  <2>3. n.pc = "flush" /\ n.op = t.op /\ n.day = t.day /\ n.view = view /\ n.out = out
    BY <1>1 DEF Session
  <2>4. t.op.kind = "merge" => wallet[t.op.u].free = 0 \/ view[t.op.t] = wallet[t.op.t]
    BY <1>3, <1>4, <1>5, <1>9
  <2> HIDE DEF n
  <2>5. Computed(n)
    BY <1>2, <2>1, <2>3 DEF Computed, out
  <2>6. Fresh(n)
    BY <1>2, <1>6, <2>3, <2>4, <2>5 DEF Fresh
  <2>7. Serial(n)
    BY <1>1, <1>2, <2>3, <2>6 DEF Serial, Ready
  <2> QED BY <1>1, <2>2, <2>3, <2>7, MovedOn DEF t, Goal
<1> QED BY <1>7, <1>8, <1>9 DEF ReadRow, t, u, view, Goal

(* A statement is executed: nobody else can see it yet.                    *)
LEMMA SerialExecute ==
  ASSUME SerialInv, PoolSize = 1, NEW r \in Requests, Execute(r)
  PROVE  PayersKnown' /\ (\A q \in Requests : Serial(tx[q]))' /\ Implements
<1> DEFINE t == tx[r]
<1>1. /\ t \in Session /\ Serial(t) /\ tx \in [Requests -> Session] /\ t.pc = "flush" /\ OnlyTx
  BY OneSession DEF SerialInv, Execute
<1>2. PICK s : tx' = [tx EXCEPT ![r].done = @ \cup {s}]
  BY DEF Execute
<1> DEFINE n == [t EXCEPT !.done = @ \cup {s}]
<1>3. tx' = [tx EXCEPT ![r] = n]
  BY <1>1, <1>2
<1>4. n.pc = t.pc /\ n.op = t.op /\ n.day = t.day /\ n.view = t.view /\ n.out = t.out
  BY <1>1 DEF Session
<1> HIDE DEF n
<1>5. Serial(n)
  BY <1>1, <1>4 DEF Serial, Ready, Fresh, Computed, Stopped
<1> QED BY <1>1, <1>3, <1>4, <1>5, MovedOn

(* A session is rolled back before it commits.                             *)
LEMMA SerialFailure ==
  ASSUME SerialInv, PoolSize = 1, NEW r \in Requests, NEW pc \in {"closing", "error"},
         tx' = [tx EXCEPT ![r] = [Idle EXCEPT !.pc = pc, !.op = tx[r].op, !.day = tx[r].day]],
         OnlyTx, tx[r].pc # "idle"
  PROVE  PayersKnown' /\ (\A q \in Requests : Serial(tx[q]))' /\ Implements
<1> DEFINE n == Over(pc, tx[r].op, tx[r].day)
<1>1. /\ tx[r].op \in Ops /\ tx[r].day \in Days \cup {0} /\ Serial(tx[r]) /\ pc \in Pcs
  BY OneSession DEF SerialInv, Pcs
<1>2. n.pc = pc /\ n.op = tx[r].op /\ n.day = tx[r].day
  BY <1>1, Ended
<1>3. tx' = [tx EXCEPT ![r] = n]
  BY DEF Over
<1> HIDE DEF n
<1>4. Serial(n)
  BY <1>1, <1>2 DEF Serial, Ready
<1>5. n.pc # "idle"
  BY <1>2
<1> QED BY <1>2, <1>3, <1>4, <1>5, MovedOn

(* Midnight: the open session keeps its date, and so does Wallet.          *)
LEMMA SerialMidnight ==
  ASSUME SerialInv, PoolSize = 1, NextDay
  PROVE  PayersKnown' /\ (\A q \in Requests : Serial(tx[q]))' /\ Implements
<1>1. /\ today < MaxDay /\ today' = today + 1 /\ tx' = tx /\ today \in Days
      /\ UNCHANGED <<wallet, ledger, account, payment, claimed>>
  BY DEF NextDay, committed, SerialInv, Inv, Committed, RowsTyped
<1>2. PayersKnown'
  BY <1>1 DEF SerialInv, PayersKnown
<1>3. ASSUME NEW q \in Requests PROVE Serial(tx[q])'
  <2>1. CASE tx[q].pc = "idle"
    BY <1>1, <2>1 DEF SerialInv, Serial, Ready
  <2>2. CASE tx[q].pc # "idle"
    <3>1. tx[q].day = today
      BY <2>2 DEF NextDay, Busy
    <3>2. tx[q].day <= today + 1 /\ today + 1 <= tx[q].day + 1
      BY <1>1, <3>1 DEF Days
    <3> QED BY <1>1, <2>2, <3>2 DEF SerialInv, Serial, Entitled, Fresh, Stopped
  <2> QED BY <2>1, <2>2
<1>4. ASSUME NEW q \in Requests, tx[q].pc # "idle" PROVE Implements
  <2>1. tx[q].day # 0 /\ \A s \in Requests \ {q} : tx[s].day = 0
    BY <1>4, OnlyOne, OneSession DEF SerialInv, Serial, Lifecycle, Days
  <2>2. DateOf(tx, today) = tx[q].day /\ DateOf(tx', today') = tx[q].day
    BY <1>1, <2>1, DateOfOne
  <2>3. UNCHANGED Abstract!vars
    BY <1>1, <2>2, AbstractVars
  <2> QED BY <2>3 DEF Implements
<1>5. ASSUME \A q \in Requests : tx[q].pc = "idle" PROVE Implements
  <2>1. \A q \in Requests : tx[q].day = 0
    BY <1>5 DEF SerialInv, Serial
  <2>2. DateOf(tx, today) = today /\ DateOf(tx', today') = today'
    BY <1>1, <2>1, DateOfNone
  <2>3. Abstract!NextDay
    BY <1>1, <2>2 DEF Abstract!NextDay, DateOf, Dated
  <2> QED BY <2>3 DEF Implements, Abstract!Next
<1> QED BY <1>2, <1>3, <1>4, <1>5

(* A sign-up: nobody has read the new balance.                             *)
LEMMA SerialSignup ==
  ASSUME SerialInv, PoolSize = 1, NEW u \in Users, CreateUser(u)
  PROVE  PayersKnown' /\ (\A q \in Requests : Serial(tx[q]))' /\ Implements
<1> DEFINE B == [wallet |-> wallet, ledger |-> ledger]
<1> DEFINE k == SignupKey(u)
<1> DEFINE C == Grant(B, u, SignupBonus, "free", k)
<1>1. /\ account[u] = "absent" /\ account' = [account EXCEPT ![u] = "active"]
      /\ wallet' = C.wallet /\ ledger' = C.ledger
      /\ UNCHANGED <<payment, today, claimed, tx>>
      /\ RowsTyped
  BY DEF CreateUser, SerialInv, Inv, Committed
<1>2. /\ B \in BookType /\ B.wallet = wallet /\ B.ledger = ledger /\ "free" \in Buckets
      /\ SignupBonus \in Nat \ {0}
  BY <1>1, WalletTxAssumption DEF BookType, RowsTyped, Buckets
<1>3. \A v \in Users : v # u => wallet'[v] = wallet[v]
  BY <1>1, <1>2 DEF Grant, Posted
<1>4. Abstract!CreateUser(u)
  <2>1. /\ Abstract!Book = B
        /\ Abstract!Grant(B, u, SignupBonus, "free", Abstract!SignupKey(u)) = C
    BY SameOperations DEF Abstract!Book
  <2>2. Abstract!Write(C)
    BY <1>1 DEF Abstract!Write
  <2>3. DateOf(tx', today') = DateOf(tx, today)
    BY <1>1
  <2> HIDE DEF B, C
  <2> QED BY <1>1, <1>2, <2>1, <2>2, <2>3 DEF Abstract!CreateUser, DateOf, Dated
<1> HIDE DEF B
<1>5. KeysIn(ledger') = KeysIn(ledger) \cup {k}
  <2>1. KeysKept(B, C, {k}) /\ k \in KeysIn(C.ledger)
    BY <1>2, GrantKeys
  <2> HIDE DEF C, k
  <2> QED BY <1>1, <1>2, <2>1 DEF KeysKept
<1> HIDE DEF C
<1>6. \A op : op.kind \in {"cancel", "merge"} => OwnKey(op) # k
  BY KeyKinds DEF OwnKey
<1> HIDE DEF k
<1>7. /\ account \in [Users -> {"absent", "active", "merged"}]
      /\ \A v \in Users : account[v] # "absent" => account'[v] = account[v] /\ v # u
  BY <1>1 DEF RowsTyped
<1>8. PayersKnown'
  <2>1. ASSUME NEW p \in Payments, payment[p] # NoPayment
        PROVE  account'[payment[p].user] # "absent"
    <3>1. payment[p].user \in Users /\ account[payment[p].user] # "absent"
      BY <1>1, <2>1 DEF SerialInv, PayersKnown, RowsTyped, Abstract!Payment, Abstract!NoPayment,
         NoPayment
    <3> QED BY <1>7, <3>1
  <2> QED BY <1>1, <2>1 DEF PayersKnown
<1>9. ASSUME NEW q \in Requests PROVE Serial(tx[q])'
  <2> DEFINE t == tx[q]
  <2>1. t.op \in Ops /\ Serial(t) /\ Lifecycle(t) /\ tx'[q] = t
    BY <1>1, OneSession DEF SerialInv
  <2>2. CASE t.pc \notin Ready \cup {"check", "read"}
    BY <1>1, <2>1, <2>2 DEF Serial
  <2>3. CASE t.pc \in Ready \cup {"check", "read"}
    <3>1. Entitled(t.op) /\ t.op.kind # "none"
      BY <2>1, <2>3 DEF Serial, Lifecycle, Ready
    <3>2. /\ t.op.u \in Users /\ account[t.op.u] # "absent"
          /\ t.op.kind = "merge" => t.op.t \in Users /\ account[t.op.t] = "active"
      BY <2>1, <3>1, OpFields DEF Entitled
    <3>3. /\ wallet'[t.op.u] = wallet[t.op.u] /\ account'[t.op.u] = account[t.op.u]
          /\ t.op.kind = "merge" => /\ wallet'[t.op.t] = wallet[t.op.t]
                                    /\ account'[t.op.t] = account[t.op.t]
      BY <1>3, <1>7, <3>2
    <3>4. t.op.kind \in {"cancel", "merge"} =>
            (OwnKey(t.op) \in KeysIn(ledger') <=> OwnKey(t.op) \in KeysIn(ledger))
      BY <1>5, <1>6
    <3> HIDE DEF t
    <3>5. Entitled(t.op) => (Entitled(tx[q].op))'
      BY <2>1, <3>3 DEF Entitled
    <3>6. Fresh(t) => Fresh(tx[q])'
      BY <2>1, <3>3, <3>4 DEF Fresh, OwnKey
    <3>7. Stopped(t) => Stopped(tx[q])'
      BY <2>1, <3>4 DEF Stopped, OwnKey
    <3>8. t.pc = "read" =>
            /\ t.op.kind \in {"cancel", "merge"} => OwnKey(t.op) \notin KeysIn(ledger')
            /\ t.op.kind = "merge" /\ t.toRead = <<t.op.t>> => t.view[t.op.u] = wallet'[t.op.u]
      BY <2>1, <3>3, <3>4 DEF Serial
    <3> QED BY <1>1, <2>1, <2>3, <3>1, <3>5, <3>6, <3>7, <3>8 DEF Serial, OwnKey
  <2> QED BY <2>2, <2>3
<1> QED BY <1>4, <1>8, <1>9 DEF Implements, Abstract!Next

(* What Wallet makes of the committed rows in the step a session stands for *)
Outcome(op, day, B) ==
  CASE op.kind = "claim"   -> Claim(B, op.u, day)
    [] op.kind = "reserve" -> Spend(B, op.u, op.cost, op.p)
    [] op.kind = "cancel"  -> Refund(B, op.u, op.amount, op.p)
    [] op.kind = "merge"   -> Transfer(B, op.u, op.t)

(* One function of the book for each kind of operation.                    *)
LEMMA OutcomeIs ==
  ASSUME NEW op, NEW day, NEW B
  PROVE  /\ op.kind = "claim" => Outcome(op, day, B) = Claim(B, op.u, day)
         /\ op.kind = "reserve" => Outcome(op, day, B) = Spend(B, op.u, op.cost, op.p)
         /\ op.kind = "cancel" => Outcome(op, day, B) = Refund(B, op.u, op.amount, op.p)
         /\ op.kind = "merge" => Outcome(op, day, B) = Transfer(B, op.u, op.t)
<1>1. CASE op.kind = "claim"
  BY <1>1 DEF Outcome
<1>2. CASE op.kind = "reserve"
  BY <1>2 DEF Outcome
<1>3. CASE op.kind = "cancel"
  BY <1>3 DEF Outcome
<1>4. CASE op.kind = "merge"
  BY <1>4 DEF Outcome
<1> QED BY <1>1, <1>2, <1>3, <1>4

(* Rows that follow the committed ones are committed as they are.          *)
LEMMA CommitFollows ==
  ASSUME NEW t, CommitFacts(t), NEW C, NEW S \in SUBSET Users,
         Follows(C, t.out, t.view, S), \A v \in S : t.view[v] = wallet[v]
  PROVE  [u \in Users |-> Overlaid(t, u)] = C.wallet /\ ledger \o t.out.ledger = C.ledger
<1> DEFINE cols == {"free", "sub", "last", "streak"}
<1>1. /\ t.out.wallet \in [Users -> Row] /\ t.view \in [Users -> Row] /\ wallet \in [Users -> Row]
      /\ C.wallet = [v \in Users |-> C.wallet[v]] /\ C.ledger = ledger \o t.out.ledger
      /\ \A v \in S : C.wallet[v] = t.out.wallet[v]
      /\ \A v \in Users \ S : C.wallet[v] = wallet[v] /\ t.out.wallet[v] = t.view[v]
  BY DEF CommitFacts, Follows
<1>2. ASSUME NEW u \in Users PROVE Overlaid(t, u) = C.wallet[u]
  <2>1. /\ Overlaid(t, u) \in Row
        /\ \A c \in cols : Overlaid(t, u)[c] = IF t.out.wallet[u][c] # t.view[u][c]
                                               THEN t.out.wallet[u][c] ELSE wallet[u][c]
    BY OverlaidRow
  <2> HIDE DEF cols
  <2>2. CASE u \in S
    <3>1. \A c \in cols : Overlaid(t, u)[c] = C.wallet[u][c]
      BY <1>1, <2>1, <2>2
    <3>2. C.wallet[u] \in Row
      BY <1>1, <2>2
    <3> QED BY <2>1, <3>1, <3>2, RowsEqual DEF cols
  <2>3. CASE u \notin S
    <3>1. \A c \in cols : Overlaid(t, u)[c] = C.wallet[u][c]
      BY <1>1, <2>1, <2>3
    <3>2. C.wallet[u] \in Row
      BY <1>1, <2>3
    <3> QED BY <2>1, <3>1, <3>2, RowsEqual DEF cols
  <2> QED BY <2>2, <2>3
<1>3. [u \in Users |-> Overlaid(t, u)] = [u \in Users |-> C.wallet[u]]
  BY <1>2
<1> QED BY <1>1, <1>3

(* A session that read the committed rows commits what Wallet makes of     *)
(* them.                                                                   *)
LEMMA FreshCommit ==
  ASSUME NEW t, CommitFacts(t), Fresh(t)
  PROVE  LET C == Outcome(t.op, t.day, Stored)
         IN  [u \in Users |-> Overlaid(t, u)] = C.wallet /\ ledger \o t.out.ledger = C.ledger
<1> DEFINE C == Outcome(t.op, t.day, Stored)
<1> DEFINE V == Read(t.view)
<1> DEFINE op == t.op
<1> DEFINE Goal == [u \in Users |-> Overlaid(t, u)] = C.wallet /\ ledger \o t.out.ledger = C.ledger
<1>1. /\ op \in Ops /\ op.kind # "none" /\ op.u \in Users /\ t.view \in [Users -> Row]
      /\ wallet \in [Users -> Row] /\ ledger \in Seq(Entry) /\ t.out = Result(op, t.day, t.view)
      /\ t.view[op.u] = wallet[op.u]
      /\ op.kind = "merge" => wallet[op.u].free = 0 \/ t.view[op.t] = wallet[op.t]
      /\ op.kind \in {"cancel", "merge"} => OwnKey(op) \notin KeysIn(ledger)
  BY OpUser DEF CommitFacts, Fresh, Computed
<1>2. /\ V \in BookType /\ V.wallet = t.view /\ KeysIn(V.ledger) = {}
      /\ Stored.wallet = wallet /\ Stored.ledger = ledger
  BY <1>1, ReadBook DEF Stored
<1>3. \A k : ~Applied(V, k) /\ (Applied(Stored, k) <=> k \in KeysIn(ledger))
  BY <1>2, AppliedIsKeyIn
<1>4. ASSUME NEW S \in SUBSET Users, \A v \in S : t.view[v] = wallet[v]
      PROVE  /\ Follows(Stored, V, t.view, S)
             /\ Follows(C, t.out, t.view, S) => Goal
  <2>1. Follows(Stored, V, t.view, S)
    BY <1>1, <1>4, ReadFollows
  <2> HIDE DEF C, V
  <2> QED BY <1>4, <2>1, CommitFollows
<1>5. /\ {op.u} \in SUBSET Users /\ op.u \in {op.u} /\ \A v \in {op.u} : t.view[v] = wallet[v]
  BY <1>1
<1>6. Follows(Stored, V, t.view, {op.u}) /\ (Follows(C, t.out, t.view, {op.u}) => Goal)
  BY <1>4, <1>5
<1> HIDE DEF C, V, Goal
<1>7. CASE op.kind = "claim"
  <2>1. t.out = Claim(V, op.u, t.day) /\ C = Claim(Stored, op.u, t.day)
    BY <1>1, <1>7, ResultIs, OutcomeIs DEF C, V
  <2>2. Follows(Claim(Stored, op.u, t.day), Claim(V, op.u, t.day), t.view, {op.u})
    BY <1>5, <1>6, ClaimFollows
  <2> QED BY <1>6, <2>1, <2>2 DEF Goal, C
<1>8. CASE op.kind = "reserve"
  <2>1. t.out = Spend(V, op.u, op.cost, op.p) /\ C = Spend(Stored, op.u, op.cost, op.p)
    BY <1>1, <1>8, ResultIs, OutcomeIs DEF C, V
  <2>2. Follows(Spend(Stored, op.u, op.cost, op.p), Spend(V, op.u, op.cost, op.p),
                t.view, {op.u})
    BY <1>5, <1>6, SpendFollows
  <2> QED BY <1>6, <2>1, <2>2 DEF Goal, C
<1>9. CASE op.kind = "cancel"
  <2>1. t.out = Refund(V, op.u, op.amount, op.p) /\ C = Refund(Stored, op.u, op.amount, op.p)
    BY <1>1, <1>9, ResultIs, OutcomeIs DEF C, V
  <2>2. ~Applied(Stored, RefundKey(op.p)) /\ ~Applied(V, RefundKey(op.p))
    BY <1>1, <1>3, <1>9 DEF OwnKey
  <2>3. Follows(Refund(Stored, op.u, op.amount, op.p), Refund(V, op.u, op.amount, op.p),
                t.view, {op.u})
    BY <1>5, <1>6, <2>2, RefundFollows
  <2> QED BY <1>6, <2>1, <2>3 DEF Goal, C
<1>10. CASE op.kind = "merge"
  <2>1. t.out = Transfer(V, op.u, op.t) /\ C = Transfer(Stored, op.u, op.t) /\ op.t \in Users
    BY <1>1, <1>10, ResultIs, OutcomeIs, OpFields DEF C, V
  <2>2. CASE wallet[op.u].free = 0
    <3>1. Transfer(Stored, op.u, op.t) = Stored
      BY <1>1, <1>2, <2>1, <2>2, EmptyTransfer
    <3>2. Transfer(V, op.u, op.t) = V
      BY <1>1, <1>2, <2>1, <2>2, EmptyTransfer
    <3> QED BY <1>6, <2>1, <3>1, <3>2 DEF Goal, C
  <2>3. CASE t.view[op.t] = wallet[op.t]
    <3> DEFINE S == {op.u, op.t}
    <3>1. /\ S \in SUBSET Users /\ op.u \in S /\ op.t \in S
          /\ \A v \in S : t.view[v] = wallet[v]
      BY <1>1, <2>1, <2>3
    <3> HIDE DEF S
    <3>2. Follows(Stored, V, t.view, S) /\ (Follows(C, t.out, t.view, S) => Goal)
      BY <1>4, <3>1
    <3>3. ~Applied(Stored, MergeKey(op.t)) /\ ~Applied(V, MergeKey(op.t))
      BY <1>1, <1>3, <1>10 DEF OwnKey
    <3>4. Follows(Transfer(Stored, op.u, op.t), Transfer(V, op.u, op.t), t.view, S)
      BY <3>1, <3>2, <3>3, TransferFollows
    <3> QED BY <2>1, <3>2, <3>4 DEF Goal, C
  <2> QED BY <1>1, <1>10, <2>2, <2>3
<1>11. op.kind \in {"claim", "reserve", "cancel", "merge"}
  BY <1>1, OpFields
<1> QED BY <1>7, <1>8, <1>9, <1>10, <1>11

(* A session that found nothing to do commits nothing, and nothing is what *)
(* Wallet does.                                                            *)
LEMMA StoppedCommit ==
  ASSUME NEW t, CommitFacts(t), Stopped(t)
  PROVE  LET C == Outcome(t.op, t.day, Stored)
         IN  [u \in Users |-> Overlaid(t, u)] = C.wallet /\ ledger \o t.out.ledger = C.ledger
<1> DEFINE C == Outcome(t.op, t.day, Stored)
<1> DEFINE op == t.op
<1>1. /\ op \in Ops /\ op.kind # "none" /\ op.u \in Users /\ wallet \in [Users -> Row]
      /\ ledger \in Seq(Entry) /\ t.out = Unchanged /\ t.view = NoView
      /\ op.kind = "claim" => DailyRewards = <<>>
      /\ op.kind = "reserve" => op.cost = 0
      /\ op.kind \in {"cancel", "merge"} => OwnKey(op) \in KeysIn(ledger)
  BY OpUser DEF CommitFacts, Stopped
<1>2. /\ Stored.wallet = wallet /\ Stored.ledger = ledger
      /\ \A k : Applied(Stored, k) <=> k \in KeysIn(ledger)
  BY AppliedIsKeyIn DEF Stored
<1>3. C = Stored
  <2>1. CASE op.kind = "claim"
    BY <1>1, <2>1, OutcomeIs DEF Claim
  <2>2. CASE op.kind = "reserve"
    <3>1. C = Spend(Stored, op.u, op.cost, op.p)
      BY <2>2, OutcomeIs
    <3>2. Stored.wallet[op.u].sub \in Nat
      BY <1>1, <1>2 DEF Row
    <3>3. Lesser(Stored.wallet[op.u].sub, op.cost) = 0
      BY <1>1, <2>2, <3>2 DEF Lesser
    <3> QED BY <1>1, <2>2, <3>1, <3>3 DEF Spend
  <2>3. CASE op.kind = "cancel"
    <3>1. C = Refund(Stored, op.u, op.amount, op.p) /\ Applied(Stored, RefundKey(op.p))
      BY <1>1, <1>2, <2>3, OutcomeIs DEF OwnKey
    <3> QED BY <3>1 DEF Refund, Grant
  <2>4. CASE op.kind = "merge"
    <3>1. C = Transfer(Stored, op.u, op.t) /\ Applied(Stored, MergeKey(op.t))
      BY <1>1, <1>2, <2>4, OutcomeIs DEF OwnKey
    <3> QED BY <3>1 DEF Transfer
  <2> QED BY <1>1, <2>1, <2>2, <2>3, <2>4, OpFields
<1> HIDE DEF C
<1>4. t.out.wallet = t.view /\ t.out.ledger = <<>>
  BY <1>1, NoViewTyped
<1>5. Follows(C, t.out, t.view, {})
  <2>1. ledger = ledger \o <<>> /\ <<>> \in Seq(Entry)
    BY <1>1
  <2>2. t.view = [v \in Users |-> t.view[v]] /\ wallet = [v \in Users |-> wallet[v]]
    BY <1>1 DEF NoView
  <2> QED BY <1>1, <1>2, <1>3, <1>4, <2>1, <2>2 DEF Follows
<1> DEFINE none == {}
<1>6. none \in SUBSET Users /\ \A v \in none : t.view[v] = wallet[v]
  OBVIOUS
<1> HIDE DEF none
<1>7. Follows(C, t.out, t.view, none)
  BY <1>5 DEF none
<1>8. [u \in Users |-> Overlaid(t, u)] = C.wallet /\ ledger \o t.out.ledger = C.ledger
  BY <1>6, <1>7, CommitFollows
<1> QED BY <1>8 DEF C

(* The commit is Wallet's step.                                            *)
LEMMA SerialCommit ==
  ASSUME SerialInv, PoolSize = 1, NEW r \in Requests, Commit(r)
  PROVE  PayersKnown' /\ (\A q \in Requests : Serial(tx[q]))' /\ Implements
<1> DEFINE t == tx[r]
<1> DEFINE op == t.op
<1> DEFINE n == Over("closing", op, t.day)
<1> DEFINE C == Outcome(op, t.day, Stored)
<1>1. /\ CommitFacts(t) /\ Inv /\ Serial(t) /\ t.pc = "commit"
      /\ op \in Ops /\ op.kind # "none" /\ t.day \in Days
      /\ t.view \in [Users -> Row] /\ wallet \in [Users -> Row] /\ Knows(t)
      /\ tx \in [Requests -> Session] /\ today \in Days
      /\ account \in [Users -> {"absent", "active", "merged"}]
      /\ payment \in [Payments -> Abstract!Payment] /\ claimed \in [Users -> SUBSET Days]
  BY CommitBegins, OneSession
     DEF SerialInv, CommitFacts, Inv, Sessions, Committed, RowsTyped
<1>2. /\ Entitled(op)
      /\ Fresh(t) \/ Stopped(t)
      /\ t.day <= today /\ today <= t.day + 1
  BY <1>1 DEF Serial, Ready
<1>3. [u \in Users |-> Overlaid(t, u)] = C.wallet /\ ledger \o t.out.ledger = C.ledger
  BY <1>1, <1>2, FreshCommit, StoppedCommit
<1>4. /\ wallet' = C.wallet /\ ledger' = C.ledger
      /\ account' = IF op.kind = "merge" THEN [account EXCEPT ![op.u] = "merged"] ELSE account
      /\ payment' = IF op.kind = "reserve"
                    THEN [payment EXCEPT ![op.p] = [user |-> op.u, amount |-> op.cost]]
                    ELSE payment
      /\ claimed' = IF op.kind = "claim" /\ DailyRewards # <<>>
                    THEN [claimed EXCEPT ![op.u] = @ \cup {t.day}] ELSE claimed
      /\ tx' = [tx EXCEPT ![r] = n] /\ today' = today
  BY <1>3 DEF Commit, Over
<1>5. n.pc = "closing" /\ n.op = op /\ n.day = t.day
  BY <1>1, Ended DEF Pcs
<1>6. \A q \in Requests \ {r} : tx[q].pc = "idle" /\ tx[q].day = 0
  BY <1>1, OnlyOne DEF SerialInv, Serial
<1> HIDE DEF n, C
<1>7. /\ tx'[r] = n /\ \A q \in Requests \ {r} : tx'[q] = tx[q]
  BY <1>1, <1>4
<1>8. t.day # 0
  BY <1>1 DEF Days
<1>9. DateOf(tx, today) = t.day
  BY <1>6, <1>8, DateOfOne
<1>10. DateOf(tx', today') = t.day
  <2>1. tx'[r].day # 0 /\ \A q \in Requests \ {r} : tx'[q].day = 0
    BY <1>5, <1>6, <1>7, <1>8
  <2> QED BY <1>5, <1>7, <2>1, DateOfOne
<1> HIDE DEF t
<1>11. (\A q \in Requests : Serial(tx[q]))'
  <2>1. Serial(tx[r])'
    BY <1>2, <1>4, <1>5, <1>7 DEF Serial, Ready
  <2>2. ASSUME NEW q \in Requests \ {r} PROVE Serial(tx[q])'
    BY <1>6, <1>7, <2>2 DEF Serial, Ready
  <2> QED BY <2>1, <2>2
<1>12. /\ op.kind \in {"claim", "reserve", "cancel", "merge"} /\ op.u \in Users
       /\ op.kind = "merge" => op.u \in Guests /\ op.t \in Users \ Guests
       /\ op.kind = "reserve" => op.p \in Payments /\ op.cost \in Costs
       /\ op.kind = "cancel" => op.p \in Payments
  <2>1. op.kind \in {"claim", "reserve", "cancel", "merge"}
    BY <1>1, OpFields
  <2> QED BY <1>1, <2>1, OpFields DEF Ops, ClaimOps, ReserveOps, CancelOps, MergeOps
<1>13. /\ op.kind \in {"claim", "reserve", "merge"} => account[op.u] = "active"
       /\ op.kind = "merge" => account[op.t] = "active"
  BY <1>2 DEF Entitled
<1>14. PayersKnown'
  <2>1. \A u \in Users : account[u] # "absent" => account'[u] # "absent"
    BY <1>1, <1>4
  <2>2. ASSUME NEW p \in Payments, payment'[p] # NoPayment
        PROVE  account'[payment'[p].user] # "absent"
    <3>1. CASE op.kind = "reserve" /\ p = op.p
      <4>1. payment'[p].user = op.u
        BY <1>1, <1>4, <1>12, <3>1
      <4> QED BY <1>12, <1>13, <2>1, <3>1, <4>1
    <3>2. CASE ~(op.kind = "reserve" /\ p = op.p)
      <4>1. payment'[p] = payment[p]
        BY <1>1, <1>4, <3>2
      <4>2. payment[p].user \in Users /\ account[payment[p].user] # "absent"
        BY <1>1, <2>2, <4>1 DEF SerialInv, PayersKnown, Abstract!Payment, Abstract!NoPayment,
           NoPayment
      <4> QED BY <2>1, <4>1, <4>2
    <3> QED BY <3>1, <3>2
  <2> QED BY <2>2 DEF PayersKnown
<1>15. Abstract!Book = Stored /\ Abstract!Write(C)
  BY <1>4 DEF Abstract!Book, Abstract!Write, Stored
<1>16. CASE op.kind = "claim"
  <2>1. C = Abstract!Claim(Abstract!Book, op.u, t.day)
    BY <1>15, <1>16, OutcomeIs, SameOperations DEF C
  <2>2. claimed' = [claimed EXCEPT ![op.u] = IF DailyRewards = <<>> THEN @ ELSE @ \cup {t.day}]
    BY <1>1, <1>4, <1>12, <1>16
  <2>3. /\ account[op.u] = "active" /\ account' = account /\ payment' = payment
    BY <1>4, <1>13, <1>16
  <2>4. Abstract!ClaimDailyReward(op.u)
    BY <1>9, <1>10, <1>15, <2>1, <2>2, <2>3 DEF Abstract!ClaimDailyReward, DateOf, Dated
  <2>5. Implements
    BY <1>12, <2>4 DEF Implements, Abstract!Next
  <2> QED BY <1>11, <1>14, <2>5
<1>17. CASE op.kind = "reserve"
  <2>1. C = Abstract!Spend(Abstract!Book, op.u, op.cost, op.p)
    BY <1>15, <1>17, OutcomeIs, SameOperations DEF C
  <2>2. Abstract!CanSpend(Abstract!Book, op.u, op.cost)
    <3>1. CanSpend(Stored, op.u, op.cost)
      <4>1. Stored.wallet = wallet
        BY DEF Stored
      <4>2. CASE Fresh(t)
        <5>1. CanSpend([wallet |-> t.view], op.u, op.cost) /\ t.view[op.u] = wallet[op.u]
          BY <1>17, <4>2 DEF Fresh, Computed
        <5> QED BY <4>1, <5>1 DEF CanSpend
      <4>3. CASE Stopped(t)
        <5>1. op.cost = 0 /\ wallet[op.u] \in Row
          BY <1>1, <1>12, <1>17, <4>3 DEF Stopped
        <5> QED BY <4>1, <5>1 DEF CanSpend, Total, Row
      <4> QED BY <1>2, <4>2, <4>3
    <3> QED BY <1>15, <3>1, SameOperations
  <2>3. payment[op.p] = Abstract!NoPayment
    BY <1>1, <1>17 DEF Knows, PaymentKnown, Abstract!NoPayment, NoPayment
  <2>4. /\ account[op.u] = "active" /\ account' = account /\ claimed' = claimed
        /\ payment' = [payment EXCEPT ![op.p] = [user |-> op.u, amount |-> op.cost]]
    BY <1>4, <1>13, <1>17
  <2>5. Abstract!Reserve(op.u, op.p, op.cost)
    BY <1>9, <1>10, <1>15, <2>1, <2>2, <2>3, <2>4 DEF Abstract!Reserve, DateOf, Dated
  <2>6. Implements
    BY <1>12, <1>17, <2>5 DEF Implements, Abstract!Next
  <2> QED BY <1>11, <1>14, <2>6
<1>18. CASE op.kind = "cancel"
  <2>1. C = Abstract!Refund(Abstract!Book, op.u, op.amount, op.p)
    BY <1>15, <1>18, OutcomeIs, SameOperations DEF C
  <2>2. payment[op.p].user = op.u /\ payment[op.p].amount = op.amount /\ op.amount > 0
    BY <1>1, <1>18 DEF Knows, PaymentKnown
  <2>3. account' = account /\ payment' = payment /\ claimed' = claimed
    BY <1>4, <1>18
  <2>4. Abstract!Cancel(op.p)
    BY <1>9, <1>10, <1>15, <2>1, <2>2, <2>3 DEF Abstract!Cancel, DateOf, Dated
  <2>5. Implements
    BY <1>12, <1>18, <2>4 DEF Implements, Abstract!Next
  <2> QED BY <1>11, <1>14, <2>5
<1>19. CASE op.kind = "merge"
  <2>1. C = Abstract!Transfer(Abstract!Book, op.u, op.t)
    BY <1>15, <1>19, OutcomeIs, SameOperations DEF C
  <2>2. /\ account[op.u] = "active" /\ account[op.t] = "active"
        /\ account' = [account EXCEPT ![op.u] = "merged"]
        /\ payment' = payment /\ claimed' = claimed
    BY <1>4, <1>13, <1>19
  <2>3. Abstract!PromoteGuest(op.u, op.t)
    BY <1>9, <1>10, <1>12, <1>15, <1>19, <2>1, <2>2 DEF Abstract!PromoteGuest, DateOf, Dated
  <2>4. Implements
    BY <1>12, <1>19, <2>3 DEF Implements, Abstract!Next
  <2> QED BY <1>11, <1>14, <2>4
<1> QED BY <1>12, <1>16, <1>17, <1>18, <1>19

(* Every step of one connection keeps SerialInv, and is a step of Wallet   *)
(* or none.                                                                *)
LEMMA SerialNext ==
  ASSUME PoolSize = 1
  PROVE  SerialInv /\ [Next]_vars => SerialInv' /\ Implements
<1> DEFINE Goal == PayersKnown' /\ (\A q \in Requests : Serial(tx[q]))' /\ Implements
<1> SUFFICES ASSUME SerialInv, [Next]_vars PROVE Goal
  BY NextInv DEF SerialInv
<1>1. ASSUME NEW r \in Requests, Proceed(r) PROVE Goal
  <2>1. CASE Check(r)
    BY <2>1, SerialCheck
  <2>2. CASE ReadRow(r)
    BY <2>2, SerialRead
  <2>3. CASE Flushed(r)
    <3>1. /\ AfterFlush(tx[r].op) \in Ready /\ tx[r].pc \in Ready
          /\ Goto(r, AfterFlush(tx[r].op)) /\ OnlyTx
      BY <2>3 DEF Flushed, AfterFlush, Ready
    <3> QED BY <3>1, SerialGoto
  <2>4. CASE Conflict(r)
    <3>1. PICK pc \in {"closing", "error"} :
            /\ tx' = [tx EXCEPT ![r] = [Idle EXCEPT !.pc = pc, !.op = tx[r].op, !.day = tx[r].day]]
            /\ OnlyTx /\ tx[r].pc # "idle"
      BY <2>4 DEF Conflict
    <3> QED BY <3>1, SerialFailure
  <2>5. CASE ProviderReturns(r) \/ ProviderFails(r)
    <3>1. PICK pc \in Ready : Goto(r, pc) /\ OnlyTx /\ tx[r].pc \in Ready
      BY <2>5 DEF ProviderReturns, ProviderFails, Ready
    <3> QED BY <3>1, SerialGoto
  <2>6. CASE RecordFailure(r) \/ PoolTimeout(r)
    <3>1. PICK pc \in {"closing", "error"} :
            /\ tx' = [tx EXCEPT ![r] = [Idle EXCEPT !.pc = pc, !.op = tx[r].op, !.day = tx[r].day]]
            /\ OnlyTx /\ tx[r].pc # "idle"
      BY <2>6 DEF RecordFailure, PoolTimeout, Failed
    <3> QED BY <3>1, SerialFailure
  <2>7. CASE Commit(r)
    BY <2>7, SerialCommit
  <2>8. CASE Close(r)
    BY <2>8, SerialEnd DEF Close
  <2> QED BY <1>1, <2>1, <2>2, <2>3, <2>4, <2>5, <2>6, <2>7, <2>8 DEF Proceed
<1>2. ASSUME NEW r \in Requests, Abort(r) PROVE Goal
  BY <1>2, SerialEnd DEF Abort
<1>3. CASE UNCHANGED vars
  <2>1. UNCHANGED <<wallet, ledger, account, payment, claimed, today, tx>>
    BY <1>3 DEF vars, committed
  <2>2. UNCHANGED Abstract!vars
    BY <2>1, AbstractVars
  <2>3. PayersKnown'
    BY <2>1 DEF SerialInv, PayersKnown
  <2>4. ASSUME NEW q \in Requests PROVE Serial(tx[q])'
    BY <2>1 DEF SerialInv, Serial, Entitled, Fresh, Stopped
  <2> QED BY <2>2, <2>3, <2>4 DEF Implements
<1>4. ASSUME NEW r \in Requests, Execute(r) PROVE Goal
  BY <1>4, SerialExecute
<1>5. ASSUME NEW r \in Requests, Start(r) PROVE Goal
  BY <1>5, SerialStart
<1>6. ASSUME NEW u \in Users, CreateUser(u) PROVE Goal
  BY <1>6, SerialSignup
<1>7. CASE NextDay
  BY <1>7, SerialMidnight
<1> HIDE DEF Goal
<1> QED BY <1>1, <1>2, <1>3, <1>4, <1>5, <1>6, <1>7 DEF Next

(* Before the first request the two agree.                                 *)
LEMMA SerialInit == Init => SerialInv /\ Abstract!Init
<1> SUFFICES ASSUME Init PROVE SerialInv /\ Abstract!Init
  OBVIOUS
<1>1. \A r \in Requests : tx[r] = Idle /\ tx[r].pc = "idle" /\ tx[r].day = 0
  BY IdleSession DEF Init
<1>2. DateOf(tx, today) = 1
  BY <1>1, DateOfNone DEF Init
<1>3. Abstract!Init
  BY <1>2 DEF Init, NoView, NoPayment, Abstract!Init, Abstract!NoPayment, Abstract!EmptyRow,
     EmptyRow, Abstract!Never, Never, DateOf, Dated
<1>4. PayersKnown
  BY DEF Init, PayersKnown
<1>5. ASSUME NEW r \in Requests PROVE Serial(tx[r])
  BY <1>1 DEF Serial, Ready
<1> QED BY <1>3, <1>4, <1>5, InitInv DEF SerialInv

(* With one connection the requests implement Wallet: the reads, the       *)
(* statements and the commit of a session together are one step of it, and *)
(* a session that is refused, that meets a conflict, or that is aborted    *)
(* anywhere is none.                                                       *)
THEOREM OneAtATime ==
  ASSUME PoolSize = 1
  PROVE  Spec => ImplementsWallet
<1>1. Init => SerialInv /\ Abstract!Init
  BY SerialInit
<1>2. SerialInv /\ [Next]_vars => SerialInv' /\ [Abstract!Next]_Abstract!vars
  BY SerialNext DEF Implements
<1> QED BY <1>1, <1>2, PTL DEF Spec, ImplementsWallet, Abstract!Spec
=============================================================================
