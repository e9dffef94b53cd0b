------------------------------ MODULE WalletTx ------------------------------
(***************************************************************************)
(* The wallet as concurrent requests use it.  Each request runs in one     *)
(* database session (app/db/session.py, get_session): it reads rows,       *)
(* computes, flushes UPDATE and INSERT statements and commits when the     *)
(* handler returns.  The isolation level is PostgreSQL's READ COMMITTED    *)
(* and no statement selects FOR UPDATE, so what a request read may be      *)
(* stale by the time it writes; a generation keeps its transaction open    *)
(* across the call of the provider.                                        *)
(*                                                                         *)
(* An UPDATE of the ORM sets the changed columns to constants computed     *)
(* from what was read.  It waits for the lock of its row; an INSERT waits  *)
(* for an uncommitted row with the same idempotency key and fails on a     *)
(* committed one.  The unit of work emits the UPDATEs of wallet_balances   *)
(* (in primary key order) before the INSERTs into wallet_ledger.           *)
(***************************************************************************)
EXTENDS WalletOps, FiniteSets

CONSTANTS
  Guests, NoUser, SignupBonus, Costs, MaxDay,   \* as in Wallet
  Requests,      \* the requests that may be in flight together
  PoolSize,      \* database_pool_size + database_max_overflow
  Pk             \* the primary keys of Users, as numbers

ASSUME WalletTxAssumption ==
  /\ Guests \subseteq Users /\ NoUser \notin Users
  /\ SignupBonus \in Nat \ {0}
  /\ Costs \subseteq Nat
  /\ MaxDay \in Nat \ {0} /\ PoolSize \in Nat \ {0}
  /\ Pk \in [Users -> Nat]
  /\ IsFiniteSet(Requests)

VARIABLES
  wallet, ledger, account, payment, today, claimed,   \* as in Wallet: what is committed
  tx,        \* the session of each request
  stale      \* history: the balance columns overwritten by a value computed from an older
             \* one, and the streaks left standing beside a claim computed from an older one

committed == <<wallet, ledger, account, payment, claimed>>
vars == <<committed, today, tx, stale>>

Days == 1..MaxDay
NoPayment == [user |-> NoUser, amount |-> 0]
NoView == [u \in Users |-> EmptyRow]
Unchanged == [wallet |-> NoView, ledger |-> <<>>]

(* op    what the request asks for                                         *)
(* day   the date the request took, before it read anything                *)
(* view  the wallet rows in the session's identity map                     *)
(* out   what the session would make of them, and the journal rows to add  *)
(* done  those of its statements that have been executed                   *)
Idle == [pc |-> "idle", op |-> [kind |-> "none"], day |-> 0, toRead |-> <<>>,
         view |-> NoView, out |-> Unchanged, done |-> {}]

Init ==
  /\ wallet = NoView
  /\ ledger = <<>>
  /\ account = [u \in Users |-> "absent"]
  /\ payment = [p \in Payments |-> NoPayment]
  /\ today = 1
  /\ claimed = [u \in Users |-> {}]
  /\ tx = [r \in Requests |-> Idle]
  /\ stale = {}

-----------------------------------------------------------------------------
(* The statements of a session *)

Updates(t) == {[update |-> TRUE, target |-> u] : u \in {v \in Users : t.out.wallet[v] # t.view[v]}}
Inserts(t) == {[update |-> FALSE, target |-> t.out.ledger[i].key] : i \in DOMAIN t.out.ledger}
Statements(t) == Updates(t) \cup Inserts(t)

(* Rows by primary key, then the journal rows as they were added *)
Precedes(t, s, other) ==
  \/ s.update /\ ~other.update
  \/ s.update /\ other.update /\ Pk[s.target] < Pk[other.target]
  \/ /\ ~s.update /\ ~other.update
     /\ \E i, j \in DOMAIN t.out.ledger :
          i < j /\ t.out.ledger[i].key = s.target /\ t.out.ledger[j].key = other.target

Pending(t) == Statements(t) \ t.done
IsNext(t, s) == s \in Pending(t) /\ \A other \in Pending(t) : ~Precedes(t, other, s)

Waits(r, s) == \E other \in Requests \ {r} : s \in tx[other].done

(* Operators named Mutant...: see WalletOps *)
MutantNoUniqueIndex(s) == FALSE

Duplicate(s) == ~s.update /\ Applied([ledger |-> ledger], s.target)

Busy == {r \in Requests : tx[r].pc # "idle"}
InFlight(p) == \E r \in Requests : tx[r].op.kind = "reserve" /\ tx[r].op.p = p

MutantDateAtFlush(op, day, view) ==
  LET read == [wallet |-> view, ledger |-> <<>>]
  IN  CASE op.kind = "claim"   -> Claim(read, op.u, today)
        [] op.kind = "reserve" -> Spend(read, op.u, op.cost, op.p)
        [] op.kind = "cancel"  -> Refund(read, op.u, op.amount, op.p)
        [] op.kind = "merge"   -> Transfer(read, op.u, op.t)

(* What an operation makes of the rows it read.  Whether its key was       *)
(* applied is looked up before (Check), so no journal is needed here.      *)
Result(op, day, view) ==
  LET read == [wallet |-> view, ledger |-> <<>>]
  IN  CASE op.kind = "claim"   -> Claim(read, op.u, day)
        [] op.kind = "reserve" -> Spend(read, op.u, op.cost, op.p)
        [] op.kind = "cancel"  -> Refund(read, op.u, op.amount, op.p)
        [] op.kind = "merge"   -> Transfer(read, op.u, op.t)

Goto(r, pc) == tx' = [tx EXCEPT ![r].pc = pc]
OnlyTx == UNCHANGED <<committed, today, stale>>

-----------------------------------------------------------------------------
(* Requests.  The user of the context was loaded by an earlier session     *)
(* (deps.optional_context): that it is active may no longer be true later. *)

Begin(r, op, pc, rows) ==
  /\ tx[r].pc = "idle"
  /\ Cardinality(Busy) < PoolSize
  /\ tx' = [tx EXCEPT ![r] = [Idle EXCEPT !.pc = pc, !.op = op, !.day = today, !.toRead = rows]]
  /\ OnlyTx

BeginClaim(r, u) ==
  /\ account[u] = "active"
  /\ Begin(r, [kind |-> "claim", u |-> u],
           IF DailyRewards = <<>> THEN "commit" ELSE "read", <<u>>)

BeginReserve(r, u, p, cost) ==
  /\ account[u] = "active"
  /\ payment[p] = NoPayment /\ ~InFlight(p)
  /\ Begin(r, [kind |-> "reserve", u |-> u, p |-> p, cost |-> cost],
           IF cost = 0 THEN "provider" ELSE "read", <<u>>)

BeginCancel(r, p) ==
  /\ payment[p].amount > 0
  /\ Begin(r, [kind |-> "cancel", u |-> payment[p].user, amount |-> payment[p].amount, p |-> p],
           "check", <<payment[p].user>>)

BeginMerge(r, g, t) ==
  /\ g \in Guests /\ t \notin Guests
  /\ account[g] = "active" /\ account[t] = "active"
  /\ Begin(r, [kind |-> "merge", u |-> g, t |-> t], "check", <<g, t>>)

(* _already_applied *)
Check(r) ==
  LET op == tx[r].op
      key == IF op.kind = "cancel" THEN RefundKey(op.p) ELSE MergeKey(op.t)
  IN  /\ tx[r].pc = "check"
      /\ Goto(r, IF Applied([ledger |-> ledger], key) THEN "commit" ELSE "read")
      /\ OnlyTx

(* One SELECT.  The last one is followed by the computation: a charge the  *)
(* rows do not cover is refused with 402, which rolls the session back; an *)
(* empty guest wallet ends the merge before the target is read.            *)
ReadRow(r) ==
  LET t == tx[r]
      u == Head(t.toRead)
      view == [t.view EXCEPT ![u] = wallet[u]]
      last == Tail(t.toRead) = <<>> \/ (t.op.kind = "merge" /\ wallet[u].free = 0)
  IN  /\ t.pc = "read"
      /\ IF ~last THEN tx' = [tx EXCEPT ![r].view = view, ![r].toRead = Tail(@)]
         ELSE IF t.op.kind = "reserve" /\ ~CanSpend([wallet |-> view], u, t.op.cost)
              THEN tx' = [tx EXCEPT ![r] = [Idle EXCEPT !.pc = "refused", !.op = t.op, !.day = t.day]]
         ELSE tx' = [tx EXCEPT ![r] = [t EXCEPT !.pc = "flush", !.view = view, !.toRead = <<>>,
                                                !.out = Result(t.op, t.day, view)]]
      /\ OnlyTx

AfterFlush(op) == IF op.kind = "reserve" THEN "provider" ELSE "commit"

(* One UPDATE or INSERT of the flush, once no other session blocks it *)
Execute(r) ==
  \E s \in Statements(tx[r]) :
    /\ tx[r].pc = "flush" /\ IsNext(tx[r], s)
    /\ ~Waits(r, s) /\ ~Duplicate(s)
    /\ tx' = [tx EXCEPT ![r].done = @ \cup {s}]
    /\ OnlyTx

Flushed(r) ==
  /\ tx[r].pc = "flush" /\ Pending(tx[r]) = {}
  /\ Goto(r, AfterFlush(tx[r].op))
  /\ OnlyTx

(* IntegrityError.  grant() catches it and rolls the session back, so the  *)
(* refund answers normally; from any other operation it becomes a 500.     *)
Conflict(r) ==
  \E s \in Statements(tx[r]) :
    /\ tx[r].pc = "flush" /\ IsNext(tx[r], s)
    /\ Duplicate(s)
    /\ tx' = [tx EXCEPT ![r] = [Idle EXCEPT !.pc = IF tx[r].op.kind = "cancel" THEN "closing" ELSE "error",
                                            !.op = tx[r].op, !.day = tx[r].day]]
    /\ OnlyTx

(* generation_core.run returns: a result, or an exception after which the  *)
(* failed attempt is recorded in a session of its own.                     *)
ProviderReturns(r) ==
  /\ tx[r].pc = "provider"
  /\ Goto(r, "commit")
  /\ OnlyTx

ProviderFails(r) ==
  /\ tx[r].pc = "provider"
  /\ Goto(r, "record")
  /\ OnlyTx

(* _record_failure takes a second connection while the request still holds *)
(* its first.  With the pool exhausted it gives up after pool_timeout and  *)
(* the failure leaves no trace.                                            *)
Failed(r) ==
  /\ tx[r].pc = "record"
  /\ tx' = [tx EXCEPT ![r] = [Idle EXCEPT !.pc = "error", !.op = tx[r].op, !.day = tx[r].day]]
  /\ OnlyTx

RecordFailure(r) == Cardinality(Busy) < PoolSize /\ Failed(r)
MutantPoolWaits(r) == FALSE
PoolTimeout(r) == Cardinality(Busy) = PoolSize /\ Failed(r)

(* The columns a session overwrites, and the row it leaves *)
Written(t, u) == {c \in DOMAIN EmptyRow : t.out.wallet[u][c] # t.view[u][c]}
Overlaid(t, u) == [c \in DOMAIN EmptyRow |->
                     IF c \in Written(t, u) THEN t.out.wallet[u][c] ELSE wallet[u][c]]

(* A balance that is written, a streak that a claim leaves as it is *)
Tracked == Buckets \cup {"streak"}
Passed(t, u, c) == IF c = "streak" THEN "last" \in Written(t, u) /\ c \notin Written(t, u)
                   ELSE c \in Written(t, u)

Commit(r) ==
  LET t == tx[r]
      op == t.op
  IN  /\ t.pc = "commit"
      /\ wallet' = [u \in Users |-> Overlaid(t, u)]
      /\ ledger' = ledger \o t.out.ledger
      /\ account' = IF op.kind = "merge" THEN [account EXCEPT ![op.u] = "merged"] ELSE account
      /\ payment' = IF op.kind = "reserve"
                    THEN [payment EXCEPT ![op.p] = [user |-> op.u, amount |-> op.cost]]
                    ELSE payment
      /\ claimed' = IF op.kind = "claim" /\ DailyRewards # <<>>
                    THEN [claimed EXCEPT ![op.u] = @ \cup {t.day}] ELSE claimed
      /\ stale' = stale \cup {e \in Users \X Tracked :
                               /\ Passed(t, e[1], e[2])
                               /\ wallet[e[1]][e[2]] # t.view[e[1]][e[2]]}
      /\ tx' = [tx EXCEPT ![r] = [Idle EXCEPT !.pc = "closing", !.op = op, !.day = t.day]]
      /\ UNCHANGED today

(* The session is closed and its connection goes back to the pool *)
Close(r) ==
  /\ tx[r].pc \in {"closing", "refused", "error"}
  /\ tx' = [tx EXCEPT ![r] = Idle]
  /\ OnlyTx

MutantAutocommit(r) ==
  /\ tx[r].pc \in {"check", "read", "flush", "provider", "record", "commit"}
  /\ wallet' = [u \in Users |-> IF [update |-> TRUE, target |-> u] \in tx[r].done
                               THEN Overlaid(tx[r], u) ELSE wallet[u]]
  /\ tx' = [tx EXCEPT ![r] = Idle]
  /\ UNCHANGED <<ledger, account, payment, claimed, today, stale>>

(* The process dies, the connection drops or the client goes away: the     *)
(* database rolls the transaction back.                                    *)
Abort(r) ==
  /\ tx[r].pc \in {"check", "read", "flush", "provider", "record", "commit"}
  /\ tx' = [tx EXCEPT ![r] = Idle]
  /\ OnlyTx

(* A sign-up is one step: no other request knows the id before it commits *)
CreateUser(u) ==
  /\ account[u] = "absent"
  /\ account' = [account EXCEPT ![u] = "active"]
  /\ LET B == Grant([wallet |-> wallet, ledger |-> ledger], u, SignupBonus, "free", SignupKey(u))
     IN  wallet' = B.wallet /\ ledger' = B.ledger
  /\ UNCHANGED <<payment, today, claimed, tx, stale>>

(* A request may see one midnight, not two: every wait in it is bounded by *)
(* minutes (timeouts of the provider's client and of the pool).            *)
NextDay ==
  /\ today < MaxDay
  /\ \A r \in Busy : tx[r].day = today
  /\ today' = today + 1
  /\ UNCHANGED <<committed, tx, stale>>

Start(r) ==
  \/ \E u \in Users : BeginClaim(r, u)
  \/ \E u \in Users, p \in Payments, cost \in Costs : BeginReserve(r, u, p, cost)
  \/ \E p \in Payments : BeginCancel(r, p)
  \/ \E g \in Guests, t \in Users : BeginMerge(r, g, t)

(* The steps of a request that has begun; of these only Execute waits for  *)
(* another request.                                                        *)
Proceed(r) ==
  \/ Check(r) \/ ReadRow(r) \/ Flushed(r) \/ Conflict(r) \/ ProviderReturns(r)
  \/ ProviderFails(r) \/ RecordFailure(r) \/ PoolTimeout(r) \/ Commit(r) \/ Close(r)

Next ==
  \/ \E r \in Requests : Start(r) \/ Proceed(r) \/ Execute(r) \/ Abort(r)
  \/ \E u \in Users : CreateUser(u)
  \/ NextDay

Spec == Init /\ [][Next]_vars

(* The event loop runs every handler that can run, the provider's client   *)
(* has timeouts, and PostgreSQL queues the waiters for a lock, so that     *)
(* nobody is overtaken for ever.  New requests, sign-ups and aborts may    *)
(* never happen.                                                           *)
FairSpec ==
  Spec /\ \A r \in Requests : WF_vars(Proceed(r)) /\ SF_vars(Execute(r))

-----------------------------------------------------------------------------
(* The promise of Wallet.  While a request is in flight the date is the    *)
(* one the request took.                                                   *)
Dated == {r \in Requests : tx[r].day # 0}
Abstract == INSTANCE Wallet WITH
  today <- IF Dated = {} THEN today ELSE tx[CHOOSE r \in Dated : TRUE].day,
  Quotas <- {}

(* One connection, hence one request at a time: the reads, the statements, *)
(* the commit or the rollback of a session together are one step of        *)
(* Wallet, and a request that fails or is aborted anywhere changes nothing *)
(* at all.                                                                 *)
ImplementsWallet == Abstract!Spec

TypeOK ==
  /\ wallet \in [Users -> Row]
  /\ ledger \in Seq(Entry)
  /\ account \in [Users -> {"absent", "active", "merged"}]
  /\ payment \in [Payments -> Abstract!Payment]
  /\ today \in Days
  /\ claimed \in [Users -> SUBSET Days]
  /\ stale \in SUBSET (Users \X Tracked)
  /\ \A r \in Requests :
       /\ tx[r].pc \in {"idle", "check", "read", "flush", "provider", "record", "commit",
                        "closing", "refused", "error"}
       /\ tx[r].view \in [Users -> Row] /\ tx[r].out.wallet \in [Users -> Row]
       /\ tx[r].out.ledger \in Seq(Entry)
       /\ tx[r].day \in Days \cup {0}
       /\ tx[r].done \subseteq Statements(tx[r])
  /\ Cardinality(Busy) <= PoolSize

(* "Any balance can be re-derived by summing the ledger" (models.py).      *)
BalanceIsLedgerSum ==
  \A u \in Users : \A b \in Buckets : wallet[u][b] = LedgerSum(ledger, u, b)

(* The only way a balance comes apart from its journal is a session that   *)
(* overwrites a column somebody changed after the session had read it:     *)
(* conflicts, rollbacks, refusals and aborts anywhere in between never do. *)
DriftOnlyByStaleWrite ==
  \A u \in Users : \A b \in Buckets :
    <<u, b>> \notin stale => wallet[u][b] = LedgerSum(ledger, u, b)

(* However the sign-ins of several guests and accounts interleave, what    *)
(* the guests lose is what the accounts gain, each account gains once and  *)
(* each guest gives once.                                                  *)
MergeConserves ==
  /\ Abstract!MergeConserves
  /\ \A g \in Guests :
       Cardinality({i \in DOMAIN ledger : ledger[i].key = MergeOutKey(g)}) <= 1

(* A committed charge is complete and is given back at most once, whichever *)
(* of several cancellations, retries and aborts get through.               *)
RefundUndoesCharge == Abstract!RefundUndoesCharge

(* "A missed day resets the streak to the beginning" (wallet.py:174).      *)
Earned(w, days) == w.streak > 0 => (w.last - w.streak + 1)..w.last \subseteq days
MissedDayResets == \A u \in Users : Earned(wallet[u], claimed[u])

(* A streak is never worth more than the days claimed: two claims that     *)
(* overlap, or one that crosses midnight, do not climb two rungs in a day, *)
(* and no day is rewarded twice.  The exception is a claim that stalls     *)
(* over midnight and would start the ladder anew where the streak it read  *)
(* was 1: it writes the date and leaves the streak, which others raised.   *)
StreakNotForged ==
  /\ \A u \in Users : <<u, "streak">> \notin stale => Earned(wallet[u], claimed[u])
  /\ \A u \in Users, d \in Days :
       Cardinality({i \in DOMAIN ledger : ledger[i].key = DailyKey(u, d)}) <= 1

(* Whoever waits for a row, an index entry, the provider or a connection   *)
(* is eventually answered, and gives its connection back.                  *)
EveryRequestEnds == \A r \in Requests : tx[r].pc # "idle" ~> tx[r].pc = "idle"

(* "Safe to call on every launch: a second call on the same day grants     *)
(* nothing" (billing.py:84).  A second call that overlaps the first is     *)
(* answered with an error, but never unless the day's reward is committed: *)
(* whoever sees the error has been paid.                                   *)
ClaimFailsOnlyWhenPaid ==
  \A r \in Requests :
    tx[r].op.kind = "claim" /\ tx[r].pc = "error" => tx[r].day \in claimed[tx[r].op.u]

(* The daily reward under overlap and midnights: a day is paid once, to    *)
(* who came, and everybody else is told so (claim_daily, wallet.py).       *)
ClaimsStayHonest == TypeOK /\ StreakNotForged /\ ClaimFailsOnlyWhenPaid

(* Sign-ins, charges and cancellations that overlap create and destroy no  *)
(* tokens: balances follow the journal unless a stale row is written, and  *)
(* the journal is balanced.                                                *)
TokensConserved == TypeOK /\ DriftOnlyByStaleWrite /\ MergeConserves /\ RefundUndoesCharge
=============================================================================
