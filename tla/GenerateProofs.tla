--------------------------- MODULE GenerateProofs ---------------------------
(***************************************************************************)
(* What a charge buys, who is asked for it, whose photo it is made from    *)
(* and what a sign-in takes along, for any number of requests, guests,     *)
(* accounts and providers, and whatever the registry, the providers, lost  *)
(* processes and overlapping sign-ins do.                                  *)
(***************************************************************************)
EXTENDS Generate, WellFoundedInduction, TLAPS

Pcs == {"waiting", "photo", "operation", "prompt", "queue", "running", "failing", "store",
        "commit", "delivered", "refused", "failed", "lost"}
Requested == [pc : Pcs, user : Users \cup {None}, photo : PhotoUrls, style : Styles,
              prefer : Providers \cup {None}, operation : Operations \cup {None}]
SignIns == [into : Accounts \cup {None}, done : 0..3, photos : SUBSET Photos,
            moved : [Tables -> SUBSET Requests]]

Shape ==
  /\ account \in [Users -> {"active", "merged"}]
  /\ rows \in [Requests -> [Tables -> Users \cup {None}]]
  /\ req \in [Requests -> Requested]
  /\ signin \in [Guests -> SignIns]
  /\ charged \subseteq Requests /\ failed \subseteq Requests /\ objects \subseteq Requests

(* What is known of one request *)
PaidFor(r) ==
  /\ req[r].pc # "waiting" => req[r].user \in Users
  /\ req[r].pc = "commit" => r \in objects
  /\ r \in charged => req[r].pc = "delivered" /\ r \in objects /\ \A t \in Tables : rows[r][t] \in Users
  /\ r \notin charged => \A t \in Tables : rows[r][t] = None
  /\ r \in failed => req[r].pc = "failed"

(* What is known of the sign-in of one guest: the rows it has moved were   *)
(* the guest's, and of the works no sign-in overlapped it missed none.     *)
Tracked(g) ==
  /\ signin[g].into = None => signin[g].done = 0
  /\ account[g] = "merged" => signin[g].into = None
  /\ \A t \in Tables : \A r \in signin[g].moved[t] : rows[r][t] = g
  /\ \A i \in 1..signin[g].done : \A r \in Requests \ overlapped :
       rows[r][UpdateOrder[i]] = g => r \in signin[g].moved[UpdateOrder[i]]

(* A request that no sign-in overlaps is of a user who is not signing in *)
Undisturbed(r, g) ==
  r \in InFlight /\ req[r].user = g => account[g] = "active" /\ signin[g].into = None

Inv ==
  /\ Shape
  /\ \A r \in Requests : PaidFor(r)
  /\ \A g \in Guests : Tracked(g)
  /\ \A r \in Requests \ overlapped : \A g \in Guests : Undisturbed(r, g)
  /\ RowsTogether
  /\ WorkFollowsSignIn

(* Before the first request there is nothing to lose *)
LEMMA InitInv == Init => Inv
<1> SUFFICES ASSUME Init PROVE Inv
  OBVIOUS
<1>1. Shape
  BY GenerateAssumption DEF Init, Shape, Requested, Pcs, Waiting, Request, SignIns, NoSignIn, SignInTo, NoRows, PhotoUrls,
     Styles, Users
<1>2. \A r \in Requests : PaidFor(r)
  BY DEF Init, PaidFor, Waiting, Request, NoRows
<1>3. \A g \in Guests : Tracked(g)
  BY DEF Init, Tracked, NoSignIn, SignInTo, NoRows, Users
<1>4. \A r \in Requests \ overlapped : \A g \in Guests : Undisturbed(r, g)
  BY DEF Init, Undisturbed, InFlight, Waiting, Request
<1>5. RowsTogether
  BY DEF Init, RowsTogether, NoRows
<1>6. WorkFollowsSignIn
  BY DEF Init, WorkFollowsSignIn, Users
<1> QED BY <1>1, <1>2, <1>3, <1>4, <1>5, <1>6 DEF Inv

(* A step of a request that commits nothing: all but Start and Commit *)
LEMMA Quiet ==
  ASSUME Inv, Shape', NEW r \in Requests, r \in InFlight,
         UNCHANGED <<rows, charged, account, signin, overlapped>>,
         objects \subseteq objects', failed' \subseteq failed \cup {r},
         \A q \in Requests \ {r} : req'[q] = req[q],
         req'[r].user = req[r].user, req'[r].pc # "waiting",
         req'[r].pc = "commit" => r \in objects',
         r \in failed' => req'[r].pc = "failed"
  PROVE  Inv'
<1>1. \A q \in Requests : PaidFor(q)'
  <2>1. r \notin charged
    BY DEF Inv, PaidFor, InFlight
  <2> SUFFICES ASSUME NEW q \in Requests PROVE PaidFor(q)'
    OBVIOUS
  <2>2. PaidFor(q)
    BY DEF Inv
  <2>3. CASE q = r
    BY <2>1, <2>2, <2>3 DEF PaidFor, InFlight
  <2>4. CASE q # r
    BY <2>2, <2>4 DEF PaidFor
  <2> QED BY <2>3, <2>4
<1>2. \A g \in Guests : Tracked(g)'
  BY DEF Inv, Tracked
<1>3. \A q \in Requests \ overlapped' : \A g \in Guests : Undisturbed(q, g)'
  BY DEF Inv, Undisturbed, InFlight
<1>4. RowsTogether' /\ WorkFollowsSignIn'
  BY DEF Inv, RowsTogether, WorkFollowsSignIn
<1> QED BY <1>1, <1>2, <1>3, <1>4 DEF Inv

(* Steps that only move the request on *)
LEMMA GotoInv ==
  ASSUME Inv, NEW r \in Requests, r \in InFlight,
         NEW pc \in Pcs \ {"waiting", "commit"}, Goto(r, pc),
         UNCHANGED <<rows, charged, account, failed, signin, objects, overlapped>>
  PROVE  Inv'
<1>1. Shape'
  BY DEF Inv, Shape, Requested, Goto
<1>2. r \notin failed
  BY DEF Inv, PaidFor, InFlight
<1>3. /\ \A q \in Requests \ {r} : req'[q] = req[q]
      /\ req'[r].user = req[r].user /\ req'[r].pc = pc
  BY DEF Inv, Shape, Requested, Goto
<1> QED BY <1>1, <1>2, <1>3, Quiet

LEMMA LoadPhotoInv == ASSUME Inv, NEW r \in Requests, LoadPhoto(r) PROVE Inv'
BY GotoInv DEF LoadPhoto, Goto, InFlight, Pcs, tables

LEMMA ChooseOperationInv == ASSUME Inv, NEW r \in Requests, ChooseOperation(r) PROVE Inv'
<1>0. PICK op \in Operations : req' = [req EXCEPT ![r] = [@ EXCEPT !.pc = "prompt", !.operation = op]]
  BY DEF ChooseOperation
<1>1. Shape'
  <2>1. req' \in [Requests -> Requested]
    <3>1. [req[r] EXCEPT !.pc = "prompt", !.operation = op] \in Requested
      BY <1>0 DEF Inv, Shape, Requested, Pcs
    <3> QED BY <3>1, <1>0 DEF Inv, Shape
  <2> QED BY <2>1 DEF Inv, Shape, ChooseOperation, tables
<1>2. r \in InFlight /\ r \notin failed
  BY DEF Inv, PaidFor, InFlight, ChooseOperation
<1>3. /\ \A q \in Requests \ {r} : req'[q] = req[q]
      /\ req'[r].user = req[r].user /\ req'[r].pc = "prompt"
  BY <1>0 DEF Inv, Shape, Requested
<1>4. UNCHANGED <<rows, charged, account, failed, signin, objects, overlapped>>
  BY DEF ChooseOperation, tables
<1> QED BY <1>1, <1>2, <1>3, <1>4, Quiet

LEMMA BuildPromptInv == ASSUME Inv, NEW r \in Requests, BuildPrompt(r) PROVE Inv'
BY GotoInv DEF BuildPrompt, InFlight, Pcs, tables

LEMMA QueueInv == ASSUME Inv, NEW r \in Requests, Queue(r) PROVE Inv'
BY GotoInv DEF Queue, Goto, InFlight, Pcs, tables

LEMMA ProvideInv == ASSUME Inv, NEW r \in Requests, Provide(r) PROVE Inv'
BY GotoInv DEF Provide, InFlight, Pcs, tables

LEMMA FallThroughInv == ASSUME Inv, NEW r \in Requests, FallThrough(r) PROVE Inv'
BY GotoInv DEF FallThrough, Goto, InFlight, Pcs, tables

LEMMA AbortInv == ASSUME Inv, NEW r \in Requests, Abort(r) PROVE Inv'
BY GotoInv DEF Abort, Pcs, tables

(* The trace of a failure is about a request that is not charged *)
LEMMA FailInv == ASSUME Inv, NEW r \in Requests, Fail(r) PROVE Inv'
<1>1. Shape'
  BY DEF Inv, Shape, Requested, Fail, Goto, Pcs
<1>2. r \in InFlight
  BY DEF InFlight, Fail
<1>3. /\ \A q \in Requests \ {r} : req'[q] = req[q]
      /\ req'[r].user = req[r].user /\ req'[r].pc = "failed"
  BY DEF Inv, Shape, Requested, Fail, Goto
<1>4. /\ UNCHANGED <<rows, charged, account, signin, objects, overlapped>>
      /\ failed' \subseteq failed \cup {r}
  BY DEF Fail
<1> QED BY <1>1, <1>2, <1>3, <1>4, Quiet

LEMMA StoreInv == ASSUME Inv, NEW r \in Requests, Store(r) PROVE Inv'
<1>1. Shape'
  BY DEF Inv, Shape, Requested, Store, Goto, Pcs, tables
<1>2. r \in InFlight /\ r \notin failed
  BY DEF Inv, PaidFor, InFlight, Store
<1>3. /\ \A q \in Requests \ {r} : req'[q] = req[q]
      /\ req'[r].user = req[r].user /\ req'[r].pc = "commit"
  BY DEF Inv, Shape, Requested, Store, Goto
<1>4. /\ UNCHANGED <<rows, charged, account, failed, signin, overlapped>>
      /\ objects' = objects \cup {r}
  BY DEF Store, tables
<1> QED BY <1>1, <1>2, <1>3, <1>4, Quiet

(* A request begins with nothing bought and the user's sign-in, if one is  *)
(* under way, overlaps it.                                                 *)
LEMMA StartInv ==
  ASSUME Inv, NEW r \in Requests, NEW u \in Users, NEW photo \in PhotoUrls, NEW style \in Styles,
         NEW prefer \in Providers \cup {None}, Start(r, u, photo, style, prefer)
  PROVE  Inv'
<1>1. /\ req[r].pc = "waiting" /\ req'[r].pc = "photo" /\ req'[r].user = u
      /\ \A q \in Requests \ {r} : req'[q] = req[q]
      /\ req' \in [Requests -> Requested]
  <2> DEFINE new == [pc |-> "photo", user |-> u, photo |-> photo, style |-> style,
                     prefer |-> prefer, operation |-> None]
  <2>1. req[r] = Waiting /\ req' = [req EXCEPT ![r] = new]
    BY DEF Start, Request
  <2>2. new \in Requested
    BY DEF Requested, Pcs
  <2> QED BY <2>1, <2>2 DEF Inv, Shape, Waiting, Request
<1>2. /\ UNCHANGED <<rows, charged, account, failed, signin, objects>>
      /\ overlapped \subseteq overlapped' /\ overlapped' \subseteq overlapped \cup {r}
      /\ u \in SigningIn => r \in overlapped'
      /\ account[u] = "active"
  BY DEF Start, tables
<1>3. Shape'
  BY <1>1, <1>2 DEF Inv, Shape
<1>4. \A q \in Requests : PaidFor(q)'
  BY <1>1, <1>2 DEF Inv, PaidFor
<1>5. \A g \in Guests : Tracked(g)'
  BY <1>2 DEF Inv, Tracked
<1>6. ASSUME NEW q \in Requests \ overlapped', NEW g \in Guests PROVE Undisturbed(q, g)'
  <2>1. CASE q = r
    BY <2>1, <1>1, <1>2 DEF Undisturbed, SigningIn
  <2>2. CASE q # r
    BY <2>2, <1>1, <1>2 DEF Inv, Undisturbed, InFlight
  <2> QED BY <2>1, <2>2
<1>7. RowsTogether' /\ WorkFollowsSignIn'
  BY <1>2 DEF Inv, RowsTogether, WorkFollowsSignIn
<1> QED BY <1>3, <1>4, <1>5, <1>6, <1>7 DEF Inv

(* The commit writes the rows of one work for one user, who is not signing *)
(* in unless the request is known to be overlapped.                        *)
LEMMA CommitInv == ASSUME Inv, NEW r \in Requests, Commit(r) PROVE Inv'
<1>1. /\ req[r].pc = "commit" /\ r \in InFlight /\ req[r].user \in Users
      /\ r \in objects /\ r \notin charged /\ r \notin failed
      /\ \A t \in Tables : rows[r][t] = None
  BY DEF Inv, PaidFor, InFlight, Commit
<1>2. /\ req' \in [Requests -> Requested]
      /\ req'[r].pc = "delivered" /\ req'[r].user = req[r].user
      /\ \A q \in Requests \ {r} : req'[q] = req[q]
  BY DEF Inv, Shape, Requested, Commit, Goto, Pcs
<1>3. /\ rows' \in [Requests -> [Tables -> Users \cup {None}]]
      /\ \A t \in Tables : rows'[r][t] = req[r].user
      /\ \A q \in Requests \ {r} : rows'[q] = rows[q]
  BY <1>1 DEF Inv, Shape, Commit
<1>4. /\ UNCHANGED <<account, failed, signin, objects, overlapped>>
      /\ charged' = charged \cup {r}
  BY DEF Commit
<1>5. Shape'
  BY <1>2, <1>3, <1>4 DEF Inv, Shape
<1>6. ASSUME NEW q \in Requests PROVE PaidFor(q)'
  <2>1. PaidFor(q)
    BY DEF Inv
  <2>2. CASE q = r
    BY <2>2, <1>1, <1>2, <1>3, <1>4 DEF PaidFor
  <2>3. CASE q # r
    BY <2>1, <2>3, <1>2, <1>3, <1>4 DEF PaidFor
  <2> QED BY <2>2, <2>3
<1>7. ASSUME NEW g \in Guests PROVE Tracked(g)'
  <2>1. Tracked(g) /\ signin[g] \in SignIns
    BY DEF Inv, Shape
  <2>2. \A t \in Tables : \A q \in signin[g].moved[t] : rows'[q][t] = g
    BY <2>1, <1>1, <1>3, GenerateAssumption DEF Tracked, SignIns, Users
  <2>3. ASSUME NEW i \in 1..signin[g].done, NEW q \in Requests \ overlapped, rows'[q][UpdateOrder[i]] = g
        PROVE  q \in signin[g].moved[UpdateOrder[i]]
    <3>1. UpdateOrder[i] \in Tables
      BY <2>1 DEF SignIns, UpdateOrder, Tables
    <3>2. CASE q = r
      <4>1. req[r].user = g /\ signin[g].into = None
        BY <3>1, <3>2, <2>3, <1>1, <1>3 DEF Inv, Undisturbed
      <4> QED BY <4>1, <2>1 DEF Tracked, SignIns
    <3>3. CASE q # r
      BY <3>3, <2>1, <2>3, <1>3 DEF Tracked
    <3> QED BY <3>2, <3>3
  <2> QED BY <2>1, <2>2, <2>3, <1>4 DEF Tracked
<1>8. \A q \in Requests \ overlapped' : \A g \in Guests : Undisturbed(q, g)'
  BY <1>2, <1>4 DEF Inv, Undisturbed, InFlight
<1>9. RowsTogether'
  BY <1>3, <1>4 DEF Inv, RowsTogether
<1>10. ASSUME NEW q \in Requests \ overlapped', NEW g \in Guests, account'[g] = "merged"
       PROVE  \A t \in Tables : rows'[q][t] # g
  <2>1. CASE q = r
    BY <2>1, <1>1, <1>3, <1>4, <1>10 DEF Inv, Undisturbed
  <2>2. CASE q # r
    BY <2>2, <1>3, <1>4, <1>10 DEF Inv, WorkFollowsSignIn
  <2> QED BY <2>1, <2>2
<1> QED BY <1>5, <1>6, <1>7, <1>8, <1>9, <1>10 DEF Inv, WorkFollowsSignIn

-----------------------------------------------------------------------------
(* The steps of a sign-in change no row of another guest *)
LEMMA BeginSignInInv ==
  ASSUME Inv, NEW g \in Guests, NEW a \in Accounts, BeginSignIn(g, a) PROVE Inv'
<1>1. /\ signin' \in [Guests -> SignIns]
      /\ signin'[g].done = 0 /\ signin'[g].into = a
      /\ \A t \in Tables : signin'[g].moved[t] = {}
      /\ \A h \in Guests \ {g} : signin'[h] = signin[h]
  <2> DEFINE new == [into |-> a, done |-> 0, photos |-> {}, moved |-> [t \in Tables |-> {}]]
  <2>1. signin' = [signin EXCEPT ![g] = new]
    BY DEF BeginSignIn, SignInTo
  <2>2. new \in SignIns
    BY DEF SignIns
  <2> QED BY <2>1, <2>2 DEF Inv, Shape
<1>2. /\ UNCHANGED <<rows, charged, account, failed, req, objects>>
      /\ overlapped \subseteq overlapped'
      /\ \A r \in InFlight : req[r].user = g => r \in overlapped'
      /\ account[g] = "active"
  BY DEF BeginSignIn, tables
<1>3. a # None
  BY GenerateAssumption DEF Users
<1>4. Shape'
  BY <1>1, <1>2 DEF Inv, Shape
<1>5. \A r \in Requests : PaidFor(r)'
  BY <1>2 DEF Inv, PaidFor
<1>6. ASSUME NEW h \in Guests PROVE Tracked(h)'
  <2>1. CASE h = g
    BY <2>1, <1>1, <1>2, <1>3 DEF Tracked
  <2>2. CASE h # g
    BY <2>2, <1>1, <1>2 DEF Inv, Tracked
  <2> QED BY <2>1, <2>2
<1>7. \A r \in Requests \ overlapped' : \A h \in Guests : Undisturbed(r, h)'
  BY <1>1, <1>2 DEF Inv, Undisturbed, InFlight
<1>8. RowsTogether' /\ WorkFollowsSignIn'
  BY <1>2 DEF Inv, RowsTogether, WorkFollowsSignIn
<1> QED BY <1>4, <1>5, <1>6, <1>7, <1>8 DEF Inv

(* One UPDATE: every committed row of the guest in that table *)
LEMMA MoveTableInv == ASSUME Inv, NEW g \in Guests, MoveTable(g) PROVE Inv'
<1> DEFINE n == signin[g].done + 1
           table == UpdateOrder[n]
<1>1. /\ signin[g] \in SignIns /\ signin[g].into # None
      /\ n \in 1..3 /\ table \in Tables
  BY DEF Inv, Shape, SignIns, MoveTable, SigningIn, UpdateOrder, Tables
<1>2. /\ signin'[g].into = signin[g].into /\ signin'[g].done = n
      /\ signin'[g].moved = [signin[g].moved EXCEPT ![table] = RowsOf(g, table)]
      /\ signin'[g].photos \in SUBSET Photos
      /\ signin'[g] \in SignIns
      /\ \A h \in Guests \ {g} : signin'[h] = signin[h]
      /\ signin' \in [Guests -> SignIns]
  <2> DEFINE s == signin[g]
             moved == [s.moved EXCEPT ![table] = RowsOf(g, table)]
  <2>1. PICK photos \in SUBSET Photos :
          signin' = [signin EXCEPT ![g] =
                       [into |-> s.into, done |-> n, moved |-> moved, photos |-> photos]]
    BY <1>1 DEF MoveTable, SignIns
  <2>2. moved \in [Tables -> SUBSET Requests]
    BY <1>1 DEF SignIns, RowsOf
  <2>3. [into |-> s.into, done |-> n, moved |-> moved, photos |-> photos] \in SignIns
    BY <1>1, <2>2 DEF SignIns
  <2> HIDE DEF moved, n
  <2> QED BY <2>1, <2>3 DEF Inv, Shape, moved
<1>3. UNCHANGED <<rows, charged, account, failed, req, objects, overlapped>>
  BY DEF MoveTable, tables
<1>4. Shape'
  BY <1>2, <1>3 DEF Inv, Shape
<1>5. \A r \in Requests : PaidFor(r)'
  BY <1>3 DEF Inv, PaidFor
<1>6. Tracked(g)'
  <2>1. Tracked(g)
    BY DEF Inv
  <2>2. ASSUME NEW t \in Tables, NEW r \in signin'[g].moved[t] PROVE rows[r][t] = g
    <3>1. CASE t = table
      BY <3>1, <2>2, <1>1, <1>2 DEF RowsOf, SignIns
    <3>2. CASE t # table
      BY <3>2, <2>1, <2>2, <1>1, <1>2 DEF Tracked, SignIns
    <3> QED BY <3>1, <3>2
  <2>3. ASSUME NEW i \in 1..n, NEW r \in Requests \ overlapped, rows[r][UpdateOrder[i]] = g
        PROVE  r \in signin'[g].moved[UpdateOrder[i]]
    <3>1. UpdateOrder[i] \in Tables
      BY <1>1 DEF UpdateOrder, Tables
    <3>2. CASE i = n
      BY <3>1, <3>2, <2>3, <1>1, <1>2 DEF RowsOf, SignIns
    <3>3. CASE i # n
      <4>1. i \in 1..signin[g].done /\ UpdateOrder[i] # table
        BY <3>3, <1>1 DEF SignIns, UpdateOrder
      <4> QED BY <4>1, <3>1, <2>1, <2>3, <1>1, <1>2 DEF Tracked, SignIns
    <3> QED BY <3>2, <3>3
  <2> QED BY <2>1, <2>2, <2>3, <1>1, <1>2, <1>3 DEF Tracked
<1>7. \A h \in Guests \ {g} : Tracked(h)'
  BY <1>2, <1>3 DEF Inv, Tracked
<1>8. \A r \in Requests \ overlapped' : \A h \in Guests : Undisturbed(r, h)'
  BY <1>2, <1>3 DEF Inv, Undisturbed, InFlight
<1>9. RowsTogether' /\ WorkFollowsSignIn'
  BY <1>3 DEF Inv, RowsTogether, WorkFollowsSignIn
<1> QED BY <1>4, <1>5, <1>6, <1>7, <1>8, <1>9 DEF Inv

(* The commit of a sign-in: every row it has moved becomes the account's.  *)
(* Of a work that nothing overlapped it has moved all the rows or none.    *)
LEMMA CommitSignInInv == ASSUME Inv, NEW g \in Guests, CommitSignIn(g) PROVE Inv'
<1> DEFINE into == signin[g].into
           moved == signin[g].moved
<1>1. /\ signin[g] \in SignIns /\ into \in Accounts /\ into \in Users /\ into \notin Guests
      /\ signin[g].done = 3
  BY GenerateAssumption DEF Inv, Shape, SignIns, CommitSignIn, SigningIn, UpdateOrder, Users
<1>2. /\ signin' \in [Guests -> SignIns]
      /\ signin'[g].into = None /\ signin'[g].done = 0
      /\ \A t \in Tables : signin'[g].moved[t] = {}
      /\ \A h \in Guests \ {g} : signin'[h] = signin[h]
  BY DEF Inv, Shape, SignIns, CommitSignIn, NoSignIn, SignInTo
<1>3. /\ rows' \in [Requests -> [Tables -> Users \cup {None}]]
      /\ \A r \in Requests, t \in Tables :
           rows'[r][t] = IF r \in moved[t] THEN into ELSE rows[r][t]
  BY <1>1 DEF Inv, Shape, CommitSignIn
<1>4. /\ UNCHANGED <<charged, failed, req, objects, overlapped>>
      /\ account' = [account EXCEPT ![g] = "merged"]
  BY DEF CommitSignIn
<1>5. \A r \in Requests, t \in Tables : r \in moved[t] => rows[r][t] = g
  BY <1>1 DEF Inv, Tracked
<1>6. \A r \in Requests \ overlapped, t \in Tables : rows[r][t] = g => r \in moved[t]
  <2>1. \A t \in Tables : \E i \in 1..3 : UpdateOrder[i] = t
    <3>1. UpdateOrder[1] = "media" /\ UpdateOrder[2] = "generation" /\ UpdateOrder[3] = "message"
      BY DEF UpdateOrder
    <3> QED BY <3>1 DEF Tables
  <2> QED BY <2>1, <1>1 DEF Inv, Tracked
<1>7. Shape'
  BY <1>2, <1>3, <1>4 DEF Inv, Shape
<1>8. ASSUME NEW r \in Requests PROVE PaidFor(r)'
  <2>1. PaidFor(r)
    BY DEF Inv
  <2>2. r \notin charged => \A t \in Tables : r \notin moved[t]
    BY <2>1, <1>5, GenerateAssumption DEF PaidFor, Users
  <2> QED BY <2>1, <2>2, <1>1, <1>3, <1>4 DEF PaidFor
<1>9. ASSUME NEW h \in Guests PROVE Tracked(h)'
  <2>1. Tracked(h) /\ signin[h] \in SignIns
    BY DEF Inv, Shape
  <2>2. CASE h = g
    BY <2>2, <1>2 DEF Tracked
  <2>3. CASE h # g
    <3>1. \A t \in Tables : \A r \in signin[h].moved[t] : rows'[r][t] = h
      BY <2>1, <2>3, <1>3, <1>5 DEF Tracked, SignIns
    <3>2. ASSUME NEW i \in 1..signin[h].done, NEW r \in Requests \ overlapped, rows'[r][UpdateOrder[i]] = h
          PROVE  r \in signin[h].moved[UpdateOrder[i]]
      <4>1. UpdateOrder[i] \in Tables
        BY <2>1 DEF SignIns, UpdateOrder, Tables
      <4>2. rows[r][UpdateOrder[i]] = h
        BY <4>1, <3>2, <1>1, <1>3
      <4> QED BY <4>2, <2>1 DEF Tracked
    <3>3. account'[h] = account[h]
      BY <2>3, <1>4 DEF Inv, Shape
    <3> QED BY <2>1, <2>3, <3>1, <3>2, <3>3, <1>2, <1>4 DEF Tracked
  <2> QED BY <2>2, <2>3
<1>10. ASSUME NEW r \in Requests \ overlapped, NEW h \in Guests PROVE Undisturbed(r, h)'
  <2>1. Undisturbed(r, h) /\ Undisturbed(r, g)
    BY DEF Inv
  <2>2. CASE h = g
    BY <2>1, <2>2, <1>1, <1>4, GenerateAssumption DEF Undisturbed, InFlight, Users
  <2>3. CASE h # g
    BY <2>1, <2>3, <1>2, <1>4 DEF Inv, Shape, Undisturbed, InFlight
  <2> QED BY <2>2, <2>3
<1>11. RowsTogether'
  BY <1>3, <1>4, <1>5, <1>6 DEF Inv, RowsTogether
<1>12. ASSUME NEW r \in Requests \ overlapped, NEW h \in Guests, account'[h] = "merged",
              NEW t \in Tables
       PROVE  rows'[r][t] # h
  <2>1. CASE h = g
    BY <2>1, <1>1, <1>3, <1>6
  <2>2. CASE h # g
    BY <2>2, <1>1, <1>3, <1>4, <1>12 DEF Inv, Shape, WorkFollowsSignIn
  <2> QED BY <2>1, <2>2
<1> QED BY <1>4, <1>7, <1>8, <1>9, <1>10, <1>11, <1>12 DEF Inv, WorkFollowsSignIn

LEMMA AbortSignInInv == ASSUME Inv, NEW g \in Guests, AbortSignIn(g) PROVE Inv'
<1>1. /\ signin' \in [Guests -> SignIns]
      /\ signin'[g].into = None /\ signin'[g].done = 0
      /\ \A t \in Tables : signin'[g].moved[t] = {}
      /\ \A h \in Guests \ {g} : signin'[h] = signin[h]
  BY DEF Inv, Shape, SignIns, AbortSignIn, NoSignIn, SignInTo
<1>2. UNCHANGED <<rows, charged, account, failed, req, objects, overlapped>>
  BY DEF AbortSignIn, tables
<1>3. Shape'
  BY <1>1, <1>2 DEF Inv, Shape
<1>4. \A r \in Requests : PaidFor(r)'
  BY <1>2 DEF Inv, PaidFor
<1>5. ASSUME NEW h \in Guests PROVE Tracked(h)'
  <2>1. CASE h = g
    BY <2>1, <1>1 DEF Tracked
  <2>2. CASE h # g
    BY <2>2, <1>1, <1>2 DEF Inv, Tracked
  <2> QED BY <2>1, <2>2
<1>6. ASSUME NEW r \in Requests \ overlapped, NEW h \in Guests PROVE Undisturbed(r, h)'
  BY <1>1, <1>2 DEF Inv, Undisturbed, InFlight
<1>7. RowsTogether' /\ WorkFollowsSignIn'
  BY <1>2 DEF Inv, RowsTogether, WorkFollowsSignIn
<1> QED BY <1>2, <1>3, <1>4, <1>5, <1>6, <1>7 DEF Inv

-----------------------------------------------------------------------------
(* A switch in the registry, and a step of nobody, touch none of it *)
LEMMA SwitchInv ==
  ASSUME Inv, UNCHANGED <<tables, req, signin, objects, overlapped>> PROVE Inv'
BY DEF Inv, Shape, PaidFor, Tracked, Undisturbed, InFlight, RowsTogether, WorkFollowsSignIn, tables

LEMMA NextInv == Inv /\ [Next]_vars => Inv'
<1> SUFFICES ASSUME Inv, [Next]_vars PROVE Inv'
  OBVIOUS
<1>1. ASSUME NEW r \in Requests, NEW u \in Users, NEW photo \in PhotoUrls, NEW style \in Styles,
             NEW prefer \in Providers \cup {None}, Start(r, u, photo, style, prefer)
      PROVE  Inv'
  BY <1>1, StartInv
<1>2. ASSUME NEW r \in Requests, Proceed(r) PROVE Inv'
  BY <1>2, LoadPhotoInv, ChooseOperationInv, BuildPromptInv, QueueInv, ProvideInv, FallThroughInv,
     FailInv, StoreInv, CommitInv DEF Proceed
<1>3. ASSUME NEW r \in Requests, Abort(r) PROVE Inv'
  BY <1>3, AbortInv
<1>4. ASSUME NEW g \in Guests, NEW a \in Accounts, BeginSignIn(g, a) PROVE Inv'
  BY <1>4, BeginSignInInv
<1>5. ASSUME NEW g \in Guests, MoveTable(g) \/ CommitSignIn(g) \/ AbortSignIn(g) PROVE Inv'
  BY <1>5, MoveTableInv, CommitSignInInv, AbortSignInInv
<1>6. ASSUME NEW p \in Providers, Switch(p) PROVE Inv'
  BY <1>6, SwitchInv DEF Switch
<1>7. CASE UNCHANGED vars
  BY <1>7, SwitchInv DEF vars
<1> QED BY <1>1, <1>2, <1>3, <1>4, <1>5, <1>6, <1>7 DEF Next

-----------------------------------------------------------------------------
(* What Kept computes, as in VideoJobProofs.  The library's well-foundedness of <, without pairs *)
LEMMA LeastElement ==
  ASSUME NEW S \in SUBSET Nat, S # {}
  PROVE  \E x \in S : \A y \in S : ~(y < x)
<1> DEFINE R == {ss \in Nat \X Nat : ss[1] < ss[2]}
<1>1. R = OpToRel(<, Nat)
  BY DEF OpToRel
<1>2. IsWellFoundedOn(R, Nat)
  BY <1>1, NatLessThanWellFounded, Zenon
<1>3. \A x, y \in S : <<y, x>> \in R <=> y < x
  OBVIOUS
<1> HIDE DEF R
<1>4. PICK x \in S : \A y \in S : ~(<<y, x>> \in R)
  BY <1>2, WFMin
<1> QED BY <1>3, <1>4, Zenon

Keeps(f, s, S, n) ==
  f = [i \in 0..n |-> IF i = 0 THEN <<>>
                      ELSE IF s[i] \in S THEN Append(f[i - 1], s[i]) ELSE f[i - 1]]

(* The function in Kept's definition exists ... *)
LEMMA KeepsExists ==
  ASSUME NEW s, NEW S, NEW m \in Nat
  PROVE  \E f : Keeps(f, s, S, m)
<1> DEFINE Bad == {n \in 0..m : ~\E f : Keeps(f, s, S, n)}
<1>1. SUFFICES ASSUME Bad # {} PROVE FALSE
  OBVIOUS
<1>2. PICK x \in Bad : \A y \in Bad : ~(y < x)
  <2>1. Bad \in SUBSET Nat
    OBVIOUS
  <2> HIDE DEF Bad
  <2> QED BY <1>1, <2>1, LeastElement
<1>3. x \in 0..m /\ ~\E f : Keeps(f, s, S, x)
  OBVIOUS
<1>4. x # 0
  <2> SUFFICES ASSUME x = 0 PROVE FALSE
    OBVIOUS
  <2> DEFINE z == [i \in 0..0 |-> <<>>]
  <2>1. Keeps(z, s, S, 0)
    BY DEF Keeps
  <2> QED BY <1>3, <2>1
<1>5. x - 1 \in 0..m /\ x - 1 < x
  BY <1>3, <1>4
<1>6. PICK f : Keeps(f, s, S, x - 1)
  <2>1. x - 1 \notin Bad
    <3> HIDE DEF Bad
    <3> QED BY <1>2, <1>5
  <2> QED BY <1>5, <2>1
<1> DEFINE last == IF s[x] \in S THEN Append(f[x - 1], s[x]) ELSE f[x - 1]
           g == [i \in 0..x |-> IF i = x THEN last ELSE f[i]]
<1>7. Keeps(g, s, S, x)
  <2>1. \A i \in 0..x : g[i] = IF i = 0 THEN <<>>
                               ELSE IF s[i] \in S THEN Append(g[i - 1], s[i]) ELSE g[i - 1]
    <3> SUFFICES ASSUME NEW i \in 0..x
                 PROVE  g[i] = IF i = 0 THEN <<>>
                               ELSE IF s[i] \in S THEN Append(g[i - 1], s[i]) ELSE g[i - 1]
      OBVIOUS
    <3>1. CASE i = x
      <4>1. g[x] = last /\ g[x - 1] = f[x - 1]
        BY <1>3, <1>4, <1>5
      <4> QED BY <1>4, <3>1, <4>1
    <3>2. CASE i # x
      <4>1. g[i] = f[i] /\ i \in 0..(x - 1)
        BY <1>3, <3>2
      <4>2. i # 0 => g[i - 1] = f[i - 1]
        BY <1>3, <4>1
      <4> HIDE DEF g
      <4> QED BY <1>6, <4>1, <4>2 DEF Keeps
    <3> QED BY <3>1, <3>2
  <2> QED BY <2>1 DEF Keeps
<1> QED BY <1>3, <1>7

(* ... and what it has kept of the first n are those of them that are in   *)
(* S, in their order: at says where each was.                              *)
Selection(at, t, s, S, n) ==
  /\ at \in [1..Len(t) -> 1..n]
  /\ \A i \in 1..Len(t) : at[i] >= i /\ t[i] = s[at[i]] /\ s[at[i]] \in S
  /\ \A i, k \in 1..Len(t) : i < k => at[i] < at[k]
  /\ \A k \in 1..n : s[k] \in S => \E i \in 1..Len(t) : at[i] = k

LEMMA SelectionGrows ==
  ASSUME NEW T, NEW s \in Seq(T), NEW S, NEW n \in 1..Len(s), NEW t \in Seq(T),
         NEW at, Selection(at, t, s, S, n - 1), s[n] \in S
  PROVE  \E now : Selection(now, Append(t, s[n]), s, S, n)
<1> DEFINE u == Append(t, s[n])
           now == [i \in 1..Len(u) |-> IF i = Len(u) THEN n ELSE at[i]]
<1>1. /\ n \in Nat /\ s[n] \in T /\ Len(t) \in Nat /\ Len(u) = Len(t) + 1 /\ u[Len(u)] = s[n]
      /\ \A i \in 1..Len(t) : u[i] = t[i]
  OBVIOUS
<1>2. Len(t) <= n - 1
  <2>1. CASE Len(t) = 0
    BY <1>1, <2>1
  <2>2. CASE Len(t) # 0
    <3>1. Len(t) \in 1..Len(t)
      BY <1>1, <2>2
    <3>2. at[Len(t)] \in 1..(n - 1) /\ at[Len(t)] >= Len(t)
      BY <3>1 DEF Selection
    <3> QED BY <1>1, <3>2
  <2> QED BY <2>1, <2>2
<1> HIDE DEF u
<1>3. \A i \in 1..Len(u) : i # Len(u) => i \in 1..Len(t) /\ at[i] \in 1..(n - 1)
  BY <1>1 DEF Selection
<1>4. now[Len(u)] = n /\ \A i \in 1..Len(t) : now[i] = at[i]
  BY <1>1
<1>5. now \in [1..Len(u) -> 1..n]
  BY <1>1, <1>3
<1> HIDE DEF now
<1>6. ASSUME NEW i \in 1..Len(u) PROVE now[i] >= i /\ u[i] = s[now[i]] /\ s[now[i]] \in S
  <2>1. CASE i = Len(u)
    BY <1>1, <1>2, <1>4, <2>1
  <2>2. CASE i # Len(u)
    BY <1>1, <1>3, <1>4, <2>2 DEF Selection
  <2> QED BY <2>1, <2>2
<1>7. ASSUME NEW i \in 1..Len(u), NEW k \in 1..Len(u), i < k PROVE now[i] < now[k]
  <2>1. i \in 1..Len(t) /\ now[i] = at[i] /\ at[i] \in 1..(n - 1)
    BY <1>1, <1>3, <1>4, <1>7
  <2>2. CASE k = Len(u)
    BY <1>1, <1>4, <2>1, <2>2
  <2>3. CASE k # Len(u)
    BY <1>3, <1>4, <1>7, <2>1, <2>3 DEF Selection
  <2> QED BY <2>2, <2>3
<1>8. ASSUME NEW k \in 1..n, s[k] \in S PROVE \E i \in 1..Len(u) : now[i] = k
  <2>1. CASE k = n
    BY <1>1, <1>4, <2>1
  <2>2. CASE k # n
    <3>1. k \in 1..(n - 1)
      BY <1>1, <2>2
    <3>2. PICK i \in 1..Len(t) : at[i] = k
      BY <1>8, <3>1 DEF Selection
    <3> QED BY <1>1, <1>4, <3>2
  <2> QED BY <2>1, <2>2
<1>9. Selection(now, u, s, S, n)
  BY <1>5, <1>6, <1>7, <1>8 DEF Selection
<1> QED BY <1>9 DEF u

LEMMA KeptIs ==
  ASSUME NEW T, NEW s \in Seq(T), NEW S
  PROVE  /\ Kept(s, S) \in Seq(T)
         /\ \E at : Selection(at, Kept(s, S), s, S, Len(s))
<1> DEFINE m == Len(s)
           K == CHOOSE f : Keeps(f, s, S, m)
<1>1. m \in Nat /\ Kept(s, S) = K[m]
  BY DEF Kept, Keeps
<1> HIDE DEF m
<1>2. Keeps(K, s, S, m)
  <2>1. \E f : Keeps(f, s, S, m)
    BY <1>1, KeepsExists
  <2> HIDE DEF Keeps
  <2> QED BY <2>1, Zenon
<1> HIDE DEF K
<1>3. /\ K[0] = <<>>
      /\ \A i \in 1..m : K[i] = IF s[i] \in S THEN Append(K[i - 1], s[i]) ELSE K[i - 1]
  <2> DEFINE Step(i) == IF i = 0 THEN <<>>
                        ELSE IF s[i] \in S THEN Append(K[i - 1], s[i]) ELSE K[i - 1]
  <2>1. K = [i \in 0..m |-> Step(i)]
    BY <1>2 DEF Keeps
  <2>2. Step(0) = <<>> /\ \A i \in 1..m : Step(i) = IF s[i] \in S THEN Append(K[i - 1], s[i]) ELSE K[i - 1]
    OBVIOUS
  <2>3. 0 \in 0..m /\ \A i \in 1..m : i \in 0..m
    BY <1>1
  <2> HIDE DEF Step
  <2>4. \A i \in 0..m : K[i] = Step(i)
    BY <2>1
  <2> QED BY <2>2, <2>3, <2>4
<1> DEFINE Good(n) == K[n] \in Seq(T) /\ \E at : Selection(at, K[n], s, S, n)
           Bad == {n \in 0..m : ~Good(n)}
<1>4. Bad = {}
  <2> SUFFICES ASSUME Bad # {} PROVE FALSE
    OBVIOUS
  <2>1. PICK x \in Bad : \A y \in Bad : ~(y < x)
    <3>1. Bad \in SUBSET Nat
      BY <1>1
    <3> HIDE DEF Bad
    <3> QED BY <3>1, LeastElement
  <2>2. x \in 0..m /\ ~Good(x)
    OBVIOUS
  <2>3. Good(0)
    <3> DEFINE none == [i \in {} |-> 0]
    <3>1. Selection(none, <<>>, s, S, 0)
      BY DEF Selection
    <3> QED BY <1>3, <3>1
  <2>4. x # 0
    BY <2>2, <2>3
  <2>5. x \in 1..m /\ x - 1 \in 0..m /\ x - 1 < x
    BY <1>1, <2>2, <2>4
  <2>6. Good(x - 1)
    <3>1. x - 1 \notin Bad
      <4> HIDE DEF Bad
      <4> QED BY <2>1, <2>5
    <3> QED BY <2>5, <3>1
  <2>7. PICK at : Selection(at, K[x - 1], s, S, x - 1)
    BY <2>6
  <2>8. K[x - 1] \in Seq(T) /\ x \in 1..Len(s) /\ s[x] \in T
    BY <2>5, <2>6 DEF m
  <2>9. CASE s[x] \in S
    <3>1. K[x] = Append(K[x - 1], s[x])
      BY <1>3, <2>5, <2>9
    <3>2. \E now : Selection(now, Append(K[x - 1], s[x]), s, S, x)
      BY <2>7, <2>8, <2>9, SelectionGrows
    <3>3. Append(K[x - 1], s[x]) \in Seq(T)
      BY <2>8
    <3> QED BY <2>2, <3>1, <3>2, <3>3
  <2>10. CASE s[x] \notin S
    <3>1. K[x] = K[x - 1]
      BY <1>3, <2>5, <2>10
    <3>2. Selection(at, K[x - 1], s, S, x)
      BY <1>1, <2>5, <2>7, <2>8, <2>10 DEF Selection
    <3> QED BY <2>2, <2>8, <3>1, <3>2
  <2> QED BY <2>9, <2>10
<1>5. Good(m)
  BY <1>1, <1>4
<1> QED BY <1>1, <1>5 DEF m


-----------------------------------------------------------------------------
(* The queue of a request and the photo it was asked for.                  *)
QueueTypes ==
  /\ photoOwner \in [Photos -> Users] /\ enabled \subseteq Providers /\ overlapped \subseteq Requests
  /\ left \in [Requests -> Seq(Providers)] /\ tried \in [Requests -> Seq(Providers)]
  /\ steady \in [Requests -> SUBSET Providers]

(* No provider comes after a better one or twice, the preferred one first *)
Ordered(list, prefer) ==
  \A i, j \in DOMAIN list : i < j =>
    /\ list[j] # prefer
    /\ list[i] = prefer \/ Priority(list[i]) < Priority(list[j])

(* The providers that could have made the picture all the time *)
Able(r) == {p \in steady[r] : req[r].operation \in Can[p]}

(* Whoever is able has been asked or is still to be asked, in order *)
Asked(r) ==
  /\ req[r].pc # "waiting" => steady[r] \subseteq enabled
  /\ req[r].pc \in {"waiting", "photo", "operation", "prompt", "queue"} => tried[r] = <<>>
  /\ req[r].pc = "running" =>
       /\ left[r] # <<>>
       /\ Able(r) \subseteq ToSet(tried[r]) \cup ToSet(left[r])
       /\ Ordered(tried[r] \o left[r], req[r].prefer)
  /\ req[r].pc \in {"failing", "failed"} => Able(r) \subseteq ToSet(tried[r])
  /\ Ordered(tried[r], req[r].prefer)

Making == {"prompt", "queue", "running", "failing", "store", "commit", "delivered"}

(* The photo of a request is dropped for a reason ... *)
Dropped(r) ==
  /\ req[r].style = "portrait" => req[r].photo # None
  /\ req[r].pc \in Making /\ req[r].style = "portrait" /\ req[r].operation # "image_to_image" =>
       req[r].photo = Elsewhere \/ \A p \in steady[r] : "image_to_image" \notin Can[p]

(* ... and one that is used is the user's, or whose the work is by now *)
Owned(r) ==
  /\ req[r].pc = "operation" /\ req[r].photo \in Photos => photoOwner[req[r].photo] = req[r].user
  /\ req[r].pc \in Making /\ req[r].operation = "image_to_image" =>
       /\ req[r].photo \in Photos
       /\ photoOwner[req[r].photo] = IF req[r].pc = "delivered" THEN rows[r]["generation"] ELSE req[r].user

(* A sign-in takes all the photos of its guest with the first UPDATE *)
Taken(g) ==
  signin[g].photos = IF signin[g].done = 0 THEN {} ELSE {p \in Photos : photoOwner[p] = g}

Queues ==
  /\ QueueTypes
  /\ \A r \in Requests : Asked(r) /\ Dropped(r)
  /\ \A r \in Requests \ overlapped : Owned(r)
  /\ \A g \in Guests : Taken(g)

-----------------------------------------------------------------------------
(* candidates and preferred_first: those that are able, each once, the     *)
(* preferred one first and then the others by priority                     *)
LEMMA QueueIs ==
  ASSUME NEW able \in SUBSET Providers, NEW prefer
  PROVE  /\ Preferred(Kept(ProviderOrder, able), prefer) \in Seq(Providers)
         /\ ToSet(Preferred(Kept(ProviderOrder, able), prefer)) = able
         /\ Ordered(Preferred(Kept(ProviderOrder, able), prefer), prefer)
         /\ ToSet(Kept(ProviderOrder, able)) = able
<1> DEFINE C == Kept(ProviderOrder, able)
           F == Kept(C, {prefer})
           G == Kept(C, Providers \ {prefer})
<1>1. C \in Seq(Providers) /\ \E at : Selection(at, C, ProviderOrder, able, Len(ProviderOrder))
  BY GenerateAssumption, KeptIs
<1> HIDE DEF C
<1>2. F \in Seq(Providers) /\ \E at : Selection(at, F, C, {prefer}, Len(C))
  BY <1>1, KeptIs
<1>3. G \in Seq(Providers) /\ \E at : Selection(at, G, C, Providers \ {prefer}, Len(C))
  BY <1>1, KeptIs
<1> HIDE DEF F, G
<1>4. PICK at : Selection(at, C, ProviderOrder, able, Len(ProviderOrder))
  BY <1>1
<1>5. PICK af : Selection(af, F, C, {prefer}, Len(C))
  BY <1>2
<1>6. PICK ag : Selection(ag, G, C, Providers \ {prefer}, Len(C))
  BY <1>3
<1>7. /\ Len(C) \in Nat /\ Len(F) \in Nat /\ Len(G) \in Nat /\ Len(ProviderOrder) \in Nat
      /\ DOMAIN C = 1..Len(C) /\ DOMAIN F = 1..Len(F) /\ DOMAIN G = 1..Len(G)
      /\ DOMAIN ProviderOrder = 1..Len(ProviderOrder)
  BY <1>1, <1>2, <1>3, GenerateAssumption
<1>8. \A i \in DOMAIN ProviderOrder : Priority(ProviderOrder[i]) = i
  BY GenerateAssumption DEF Priority
<1>9. \A i, k \in 1..Len(C) : i < k => Priority(C[i]) < Priority(C[k])
  BY <1>4, <1>7, <1>8 DEF Selection
<1>10. ToSet(C) = able
  <2>1. ASSUME NEW p \in ToSet(C) PROVE p \in able
    BY <1>4, <1>7, <2>1 DEF Selection, ToSet
  <2>2. ASSUME NEW p \in able PROVE p \in ToSet(C)
    <3>1. PICK k \in 1..Len(ProviderOrder) : p = ProviderOrder[k]
      BY <1>7 DEF Providers, ToSet
    <3>2. PICK i \in 1..Len(C) : at[i] = k
      BY <1>4, <2>2, <3>1 DEF Selection
    <3>3. C[i] = p
      BY <1>4, <3>1, <3>2 DEF Selection
    <3> QED BY <1>7, <3>3 DEF ToSet
  <2> QED BY <2>1, <2>2
<1>11. \A i \in 1..Len(F) : F[i] = prefer /\ i = 1
  <2> SUFFICES ASSUME NEW i \in 1..Len(F) PROVE F[i] = prefer /\ i = 1
    OBVIOUS
  <2>1. F[i] = prefer /\ F[i] = C[af[i]] /\ af[i] \in 1..Len(C)
    BY <1>5 DEF Selection
  <2>2. CASE i # 1
    <3>1. 1 \in 1..Len(F) /\ 1 < i
      BY <1>7, <2>2
    <3>2. /\ F[1] = prefer /\ F[1] = C[af[1]] /\ af[1] \in 1..Len(C)
          /\ af[1] < af[i]
      BY <1>5, <3>1 DEF Selection
    <3>3. Priority(C[af[1]]) < Priority(C[af[i]]) /\ C[af[1]] = C[af[i]]
      BY <1>9, <2>1, <3>2
    <3>4. C[af[i]] \in ToSet(C)
      BY <1>7, <2>1 DEF ToSet
    <3>5. C[af[i]] \in Providers
      BY <1>10, <3>4
    <3>6. Priority(C[af[i]]) \in Nat
      <4>1. PICK k \in DOMAIN ProviderOrder : C[af[i]] = ProviderOrder[k]
        BY <3>5 DEF Providers, ToSet
      <4> QED BY <1>7, <1>8, <4>1
    <3> QED BY <3>3, <3>6
  <2> QED BY <2>1, <2>2
<1>12. \A i, k \in 1..Len(G) : /\ G[i] # prefer
                               /\ i < k => Priority(G[i]) < Priority(G[k])
  BY <1>6, <1>9 DEF Selection
<1> DEFINE q == F \o G
<1>13. /\ q \in Seq(Providers) /\ Len(q) = Len(F) + Len(G) /\ DOMAIN q = 1..(Len(F) + Len(G))
       /\ \A i \in 1..Len(F) : q[i] = F[i]
       /\ \A i \in DOMAIN q : i \notin 1..Len(F) => i - Len(F) \in 1..Len(G) /\ q[i] = G[i - Len(F)]
       /\ \A i \in 1..Len(G) : i + Len(F) \in DOMAIN q /\ q[i + Len(F)] = G[i]
  BY <1>2, <1>3, <1>7
<1> HIDE DEF q
<1>14. Ordered(q, prefer)
  <2> SUFFICES ASSUME NEW i \in DOMAIN q, NEW k \in DOMAIN q, i < k
               PROVE  q[k] # prefer /\ (q[i] = prefer \/ Priority(q[i]) < Priority(q[k]))
    BY DEF Ordered
  <2>1. k \notin 1..Len(F)
    BY <1>11, <1>13, <1>7
  <2>2. k - Len(F) \in 1..Len(G) /\ q[k] = G[k - Len(F)]
    BY <1>13, <2>1
  <2>3. CASE i \in 1..Len(F)
    BY <1>11, <1>12, <1>13, <2>2, <2>3
  <2>4. CASE i \notin 1..Len(F)
    <3>1. i - Len(F) \in 1..Len(G) /\ q[i] = G[i - Len(F)] /\ i - Len(F) < k - Len(F)
      BY <1>7, <1>13, <2>4
    <3> QED BY <1>12, <2>2, <3>1
  <2> QED BY <2>3, <2>4
<1>15. ToSet(q) = able
  <2>1. ASSUME NEW p \in ToSet(q) PROVE p \in able
    <3>1. PICK i \in DOMAIN q : p = q[i]
      BY DEF ToSet
    <3>2. CASE i \in 1..Len(F)
      <4>1. p = C[af[i]] /\ af[i] \in 1..Len(C)
        BY <1>5, <1>13, <3>1, <3>2 DEF Selection
      <4>2. p \in ToSet(C)
        BY <1>7, <4>1 DEF ToSet
      <4> QED BY <1>10, <4>2
    <3>3. CASE i \notin 1..Len(F)
      <4>1. i - Len(F) \in 1..Len(G) /\ p = G[i - Len(F)]
        BY <1>13, <3>1, <3>3
      <4>2. p = C[ag[i - Len(F)]] /\ ag[i - Len(F)] \in 1..Len(C)
        BY <1>6, <4>1 DEF Selection
      <4>3. p \in ToSet(C)
        BY <1>7, <4>2 DEF ToSet
      <4> QED BY <1>10, <4>3
    <3> QED BY <3>2, <3>3
  <2>2. ASSUME NEW p \in able PROVE p \in ToSet(q)
    <3>1. PICK k \in 1..Len(C) : p = C[k]
      BY <1>7, <1>10 DEF ToSet
    <3>2. CASE p = prefer
      <4>1. PICK i \in 1..Len(F) : af[i] = k
        BY <1>5, <3>1, <3>2 DEF Selection
      <4>2. F[i] = p /\ i \in DOMAIN q
        BY <1>5, <1>7, <1>13, <3>1, <4>1 DEF Selection
      <4> QED BY <1>13, <4>1, <4>2 DEF ToSet
    <3>3. CASE p # prefer
      <4>1. PICK i \in 1..Len(G) : ag[i] = k
        BY <1>6, <3>1, <3>3 DEF Selection
      <4>2. G[i] = p
        BY <1>6, <3>1, <4>1 DEF Selection
      <4> QED BY <1>13, <4>1, <4>2 DEF ToSet
    <3> QED BY <3>2, <3>3
  <2> QED BY <2>1, <2>2
<1>16. Preferred(C, prefer) = q
  BY DEF Preferred, q, F, G
<1> QED BY <1>10, <1>13, <1>14, <1>15, <1>16 DEF C

-----------------------------------------------------------------------------
LEMMA NoList == Len(<<>>) = 0 /\ DOMAIN <<>> = {} /\ ToSet(<<>>) = {} /\ \A S : <<>> \in Seq(S)
<1>1. Len(<<>>) = 0 /\ DOMAIN <<>> = {} /\ \A S : <<>> \in Seq(S)
  OBVIOUS
<1> QED BY <1>1 DEF ToSet

LEMMA InitQueues == Init => Queues
<1> SUFFICES ASSUME Init PROVE Queues
  OBVIOUS
<1>1. QueueTypes
  BY NoList DEF Init, QueueTypes
<1>2. ASSUME NEW r \in Requests PROVE Asked(r) /\ Dropped(r) /\ Owned(r)
  <2>1. /\ req[r].pc = "waiting" /\ req[r].style = "none" /\ tried[r] = <<>>
    BY DEF Init, Waiting, Request
  <2>2. Ordered(tried[r], req[r].prefer)
    BY <2>1, NoList DEF Ordered
  <2> QED BY <2>1, <2>2 DEF Asked, Dropped, Owned, Making
<1>3. ASSUME NEW g \in Guests PROVE Taken(g)
  <2>1. signin[g].done = 0 /\ signin[g].photos = {}
    BY DEF Init, NoSignIn, SignInTo
  <2> QED BY <2>1 DEF Taken
<1> QED BY <1>1, <1>2, <1>3 DEF Queues

(* What a step of one request leaves alone *)
LEMMA OneRequest ==
  ASSUME Queues, QueueTypes', NEW r \in Requests,
         UNCHANGED <<photoOwner, enabled, signin>>, overlapped \subseteq overlapped',
         \A q \in Requests \ {r} : /\ req'[q] = req[q] /\ tried'[q] = tried[q] /\ left'[q] = left[q]
                                   /\ steady'[q] = steady[q] /\ rows'[q] = rows[q],
         Asked(r)', Dropped(r)', r \notin overlapped' => Owned(r)'
  PROVE  Queues'
<1>1. ASSUME NEW q \in Requests PROVE Asked(q)' /\ Dropped(q)'
  <2>1. CASE q = r
    BY <2>1
  <2>2. CASE q # r
    <3>1. Asked(q) /\ Dropped(q)
      BY DEF Queues
    <3>2. /\ req'[q] = req[q] /\ tried'[q] = tried[q] /\ left'[q] = left[q] /\ steady'[q] = steady[q]
          /\ enabled' = enabled
      BY <2>2
    <3> QED BY <3>1, <3>2 DEF Asked, Dropped, Able, Ordered
  <2> QED BY <2>1, <2>2
<1>2. ASSUME NEW q \in Requests \ overlapped' PROVE Owned(q)'
  <2>1. CASE q = r
    BY <2>1
  <2>2. CASE q # r
    BY <2>2 DEF Queues, Owned
  <2> QED BY <2>1, <2>2
<1>3. ASSUME NEW g \in Guests PROVE Taken(g)'
  BY DEF Queues, Taken
<1> QED BY <1>1, <1>2, <1>3 DEF Queues

LEMMA GotoFacts ==
  ASSUME Shape, NEW r \in Requests, NEW pc, Goto(r, pc)
  PROVE  /\ req'[r].pc = pc /\ req'[r].user = req[r].user /\ req'[r].photo = req[r].photo
         /\ req'[r].style = req[r].style /\ req'[r].prefer = req[r].prefer
         /\ req'[r].operation = req[r].operation
         /\ \A q \in Requests \ {r} : req'[q] = req[q]
BY DEF Shape, Requested, Goto

(* A step that only moves the request on and asks nobody *)
LEMMA Onward ==
  ASSUME Inv, Queues, NEW r \in Requests, NEW pc, Goto(r, pc),
         UNCHANGED <<photoOwner, enabled, signin, overlapped, left, tried, steady>>,
         \A q \in Requests \ {r} : rows'[q] = rows[q],
         pc # "waiting" /\ req[r].pc # "waiting",
         pc \in {"photo", "operation", "prompt", "queue"} =>
           req[r].pc \in {"photo", "operation", "prompt", "queue"},
         pc # "running" /\ pc # "failing",
         pc = "failed" => req[r].pc = "failing",
         pc \in Making => req[r].pc \in Making /\ req[r].pc # "delivered",
         pc = "operation" /\ req[r].photo \in Photos => photoOwner[req[r].photo] = req[r].user,
         pc = "delivered" => rows'[r]["generation"] = req[r].user
  PROVE  Queues'
<1>0. QueueTypes /\ Asked(r) /\ Dropped(r) /\ (r \notin overlapped => Owned(r)) /\ Shape
  BY DEF Queues, Inv
<1>1. /\ req'[r].pc = pc /\ req'[r].user = req[r].user /\ req'[r].photo = req[r].photo
      /\ req'[r].style = req[r].style /\ req'[r].prefer = req[r].prefer
      /\ req'[r].operation = req[r].operation
      /\ \A q \in Requests \ {r} : req'[q] = req[q]
  BY <1>0, GotoFacts
<1>2. QueueTypes'
  BY <1>0 DEF QueueTypes
<1>3. Asked(r)'
  BY <1>0, <1>1 DEF Asked, Able, Ordered
<1>4. Dropped(r)'
  BY <1>0, <1>1 DEF Dropped
<1>5. r \notin overlapped' => Owned(r)'
  BY <1>0, <1>1 DEF Owned
<1> QED BY <1>1, <1>2, <1>3, <1>4, <1>5, OneRequest

LEMMA LoadPhotoQueues == ASSUME Inv, Queues, NEW r \in Requests, LoadPhoto(r) PROVE Queues'
<1> DEFINE next == IF req[r].photo \in Photos /\ photoOwner[req[r].photo] # req[r].user
                   THEN "refused" ELSE "operation"
<1>1. /\ req[r].pc = "photo" /\ Goto(r, next)
      /\ UNCHANGED <<photoOwner, enabled, signin, overlapped, left, tried, steady, rows>>
  BY DEF LoadPhoto, tables
<1>2. PICK pc : pc = next
  OBVIOUS
<1>3. pc \in {"refused", "operation"} /\ (pc = "operation" /\ req[r].photo \in Photos => photoOwner[req[r].photo] = req[r].user)
  BY <1>2
<1>4. Goto(r, pc)
  BY <1>1, <1>2
<1> HIDE DEF next
<1> QED BY <1>1, <1>3, <1>4, Onward DEF Making

LEMMA BuildPromptQueues == ASSUME Inv, Queues, NEW r \in Requests, BuildPrompt(r) PROVE Queues'
<1>1. PICK pc \in {"queue", "refused"} : Goto(r, pc)
  BY DEF BuildPrompt
<1>2. /\ req[r].pc = "prompt"
      /\ UNCHANGED <<photoOwner, enabled, signin, overlapped, left, tried, steady, rows>>
  BY DEF BuildPrompt, tables
<1> QED BY <1>1, <1>2, Onward DEF Making

LEMMA FailQueues == ASSUME Inv, Queues, NEW r \in Requests, Fail(r) PROVE Queues'
<1>1. /\ req[r].pc = "failing" /\ Goto(r, "failed")
      /\ UNCHANGED <<photoOwner, enabled, signin, overlapped, left, tried, steady, rows>>
  BY DEF Fail
<1> QED BY <1>1, Onward DEF Making

LEMMA StoreQueues == ASSUME Inv, Queues, NEW r \in Requests, Store(r) PROVE Queues'
<1>1. /\ req[r].pc = "store" /\ Goto(r, "commit")
      /\ UNCHANGED <<photoOwner, enabled, signin, overlapped, left, tried, steady, rows>>
  BY DEF Store, tables
<1> QED BY <1>1, Onward DEF Making

LEMMA CommitQueues == ASSUME Inv, Queues, NEW r \in Requests, Commit(r) PROVE Queues'
<1>1. /\ req[r].pc = "commit" /\ Goto(r, "delivered")
      /\ UNCHANGED <<photoOwner, enabled, signin, overlapped, left, tried, steady>>
      /\ rows' = [rows EXCEPT ![r] = [t \in Tables |-> req[r].user]]
  BY DEF Commit
<1>2. /\ \A q \in Requests \ {r} : rows'[q] = rows[q]
      /\ rows'[r]["generation"] = req[r].user
  BY <1>1 DEF Inv, Shape, Tables
<1> QED BY <1>1, <1>2, Onward DEF Making

LEMMA AbortQueues == ASSUME Inv, Queues, NEW r \in Requests, Abort(r) PROVE Queues'
<1>1. /\ r \in InFlight /\ Goto(r, "lost")
      /\ UNCHANGED <<photoOwner, enabled, signin, overlapped, left, tried, steady, rows>>
  BY DEF Abort, tables
<1> QED BY <1>1, Onward DEF Making, InFlight

(* A photo is edited only if somebody is there to do it *)
LEMMA ChooseOperationQueues ==
  ASSUME Inv, Queues, NEW r \in Requests, ChooseOperation(r) PROVE Queues'
<1> DEFINE able == {p \in enabled : "image_to_image" \in Can[p]}
<1>0. QueueTypes /\ Asked(r) /\ Dropped(r) /\ (r \notin overlapped => Owned(r)) /\ Shape
  BY DEF Queues, Inv
<1>1. PICK op \in Operations :
        /\ op = "image_to_image" <=> req[r].photo \in Photos /\ Candidates("image_to_image") # <<>>
        /\ req' = [req EXCEPT ![r] = [@ EXCEPT !.pc = "prompt", !.operation = op]]
  BY DEF ChooseOperation
<1>2. /\ req[r].pc = "operation"
      /\ UNCHANGED <<photoOwner, enabled, signin, overlapped, left, tried, steady, rows>>
  BY DEF ChooseOperation, tables
<1>3. /\ req'[r].pc = "prompt" /\ req'[r].user = req[r].user /\ req'[r].photo = req[r].photo
      /\ req'[r].style = req[r].style /\ req'[r].prefer = req[r].prefer
      /\ req'[r].operation = op
      /\ \A q \in Requests \ {r} : req'[q] = req[q]
  BY <1>0, <1>1 DEF Shape, Requested
<1>4. Candidates("image_to_image") = <<>> => able = {}
  <2>1. able \in SUBSET Providers /\ Candidates("image_to_image") = Kept(ProviderOrder, able)
    BY <1>0 DEF QueueTypes, Candidates
  <2> HIDE DEF able
  <2> QED BY <2>1, QueueIs, NoList
<1>5. Asked(r)'
  BY <1>0, <1>2, <1>3 DEF Asked, Ordered
<1>6. Dropped(r)'
  <2> SUFFICES ASSUME req[r].style = "portrait", op # "image_to_image"
               PROVE  req[r].photo = Elsewhere \/ \A p \in steady[r] : "image_to_image" \notin Can[p]
    BY <1>0, <1>2, <1>3 DEF Dropped
  <2>1. req[r].photo \in Photos \/ req[r].photo = Elsewhere
    BY <1>0 DEF Dropped, Shape, Requested, PhotoUrls
  <2>2. steady[r] \subseteq enabled
    BY <1>0, <1>2 DEF Asked
  <2> QED BY <1>1, <1>4, <2>1, <2>2
<1>7. r \notin overlapped' => Owned(r)'
  BY <1>0, <1>1, <1>2, <1>3 DEF Owned
<1>8. QueueTypes'
  BY <1>0, <1>2 DEF QueueTypes
<1> QED BY <1>2, <1>3, <1>5, <1>6, <1>7, <1>8, OneRequest

(* The queue: whoever has been able all the time is in it, in order *)
LEMMA QueueQueues == ASSUME Inv, Queues, NEW r \in Requests, Queue(r) PROVE Queues'
<1> DEFINE able == {p \in enabled : req[r].operation \in Can[p]}
<1>0. QueueTypes /\ Asked(r) /\ Dropped(r) /\ (r \notin overlapped => Owned(r)) /\ Shape
  BY DEF Queues, Inv
<1>1. PICK options : options = Preferred(Candidates(req[r].operation), req[r].prefer)
  OBVIOUS
<1>2. options \in Seq(Providers) /\ ToSet(options) = able /\ Ordered(options, req[r].prefer)
  <2>1. able \in SUBSET Providers /\ options = Preferred(Kept(ProviderOrder, able), req[r].prefer)
    BY <1>0, <1>1 DEF QueueTypes, Candidates
  <2> HIDE DEF able
  <2> QED BY <2>1, QueueIs
<1>3. PICK pc : pc = IF options = <<>> THEN "failing" ELSE "running"
  OBVIOUS
<1>4. /\ req[r].pc = "queue" /\ left' = [left EXCEPT ![r] = options] /\ Goto(r, pc)
      /\ UNCHANGED <<photoOwner, enabled, signin, overlapped, tried, steady, rows>>
  BY <1>1, <1>3 DEF Queue, tables
<1>5. /\ req'[r].pc = pc /\ req'[r].user = req[r].user /\ req'[r].photo = req[r].photo
      /\ req'[r].style = req[r].style /\ req'[r].prefer = req[r].prefer
      /\ req'[r].operation = req[r].operation
      /\ \A q \in Requests \ {r} : req'[q] = req[q]
  BY <1>0, <1>4, GotoFacts
<1>6. /\ left' \in [Requests -> Seq(Providers)] /\ left'[r] = options
      /\ \A q \in Requests \ {r} : left'[q] = left[q]
  BY <1>0, <1>2, <1>4 DEF QueueTypes
<1>7. QueueTypes'
  BY <1>0, <1>4, <1>6 DEF QueueTypes
<1>8. steady[r] \subseteq enabled /\ tried[r] = <<>> /\ Able(r) \subseteq able
  BY <1>0, <1>4 DEF Asked, Able
<1>9. Asked(r)'
  <2>1. /\ Able(r)' = Able(r) /\ tried'[r] = <<>> /\ steady'[r] \subseteq enabled'
    BY <1>4, <1>5, <1>8 DEF Able
  <2>2. <<>> \o options = options
    BY <1>2
  <2>3. Ordered(<<>>, req[r].prefer)
    BY NoList DEF Ordered
  <2>4. options = <<>> => Able(r) \subseteq {}
    BY <1>2, <1>8, NoList
  <2> HIDE DEF able, Able
  <2> QED BY <1>2, <1>3, <1>5, <1>6, <1>8, <2>1, <2>2, <2>3, <2>4, NoList DEF Asked
<1>10. Dropped(r)'
  BY <1>0, <1>3, <1>4, <1>5 DEF Dropped, Making
<1>11. r \notin overlapped' => Owned(r)'
  BY <1>0, <1>3, <1>4, <1>5 DEF Owned, Making
<1> QED BY <1>4, <1>5, <1>6, <1>7, <1>9, <1>10, <1>11, OneRequest

(* One more has been asked: what was asked and what is left stay in order *)
LEMMA AskOne ==
  ASSUME NEW s \in Seq(Providers), NEW t \in Seq(Providers), t # <<>>, NEW prefer,
         Ordered(s \o t, prefer)
  PROVE  /\ Append(s, Head(t)) \in Seq(Providers) /\ Tail(t) \in Seq(Providers)
         /\ Ordered(Append(s, Head(t)), prefer)
         /\ Append(s, Head(t)) \o Tail(t) = s \o t
         /\ ToSet(s) \cup ToSet(t) = ToSet(Append(s, Head(t))) \cup ToSet(Tail(t))
<1> DEFINE a == Append(s, Head(t))
           b == Tail(t)
           c == s \o t
<1>1. /\ Len(s) \in Nat /\ Len(t) \in Nat \ {0} /\ Head(t) \in Providers /\ Head(t) = t[1]
      /\ DOMAIN s = 1..Len(s) /\ DOMAIN t = 1..Len(t)
  BY NoList
<1>2. /\ a \in Seq(Providers) /\ Len(a) = Len(s) + 1 /\ DOMAIN a = 1..(Len(s) + 1) /\ a[Len(s) + 1] = t[1]
      /\ \A i \in 1..Len(s) : a[i] = s[i]
  BY <1>1
<1>3. /\ b \in Seq(Providers) /\ Len(b) = Len(t) - 1 /\ DOMAIN b = 1..(Len(t) - 1)
      /\ \A i \in 1..(Len(t) - 1) : b[i] = t[i + 1]
  BY <1>1
<1>4. /\ c \in Seq(Providers) /\ Len(c) = Len(s) + Len(t) /\ DOMAIN c = 1..(Len(s) + Len(t))
      /\ \A i \in 1..Len(s) : c[i] = s[i]
      /\ \A i \in 1..(Len(s) + Len(t)) : i > Len(s) => c[i] = t[i - Len(s)]
  BY <1>1
<1> HIDE DEF a, b, c
<1>5. \A i \in DOMAIN a : i \in DOMAIN c /\ a[i] = c[i]
  BY <1>1, <1>2, <1>4
<1>6. Ordered(a, prefer)
  BY <1>5 DEF Ordered, c
<1>7. a \o b = c
  <2> DEFINE d == a \o b
  <2>0. /\ d \in Seq(Providers) /\ Len(d) = Len(a) + Len(b)
        /\ \A i \in 1..Len(a) : d[i] = a[i]
        /\ \A i \in 1..(Len(a) + Len(b)) : i > Len(a) => d[i] = b[i - Len(a)]
    <3>1. a \in Seq(Providers) /\ b \in Seq(Providers)
      BY <1>2, <1>3
    <3> QED BY <3>1
  <2> HIDE DEF d
  <2>1. /\ d \in Seq(Providers) /\ Len(d) = Len(s) + Len(t)
        /\ \A i \in 1..(Len(s) + 1) : d[i] = a[i]
        /\ \A i \in 1..(Len(s) + Len(t)) : i > Len(s) + 1 => d[i] = b[i - (Len(s) + 1)]
    <3>1. Len(a) = Len(s) + 1 /\ Len(a) + Len(b) = Len(s) + Len(t)
      BY <1>1, <1>2, <1>3
    <3>2. \A i \in 1..(Len(s) + 1) : d[i] = a[i]
      BY <2>0, <3>1
    <3>3. \A i \in 1..(Len(s) + Len(t)) : i > Len(s) + 1 => d[i] = b[i - (Len(s) + 1)]
      BY <2>0, <3>1
    <3> QED BY <2>0, <3>1, <3>2, <3>3
  <2> HIDE DEF d
  <2>2. ASSUME NEW i \in 1..(Len(s) + Len(t)) PROVE d[i] = c[i]
    <3>1. CASE i \in 1..(Len(s) + 1)
      BY <1>1, <1>2, <1>5, <2>1, <3>1
    <3>2. CASE i \notin 1..(Len(s) + 1)
      <4>1. i > Len(s) + 1 /\ i - (Len(s) + 1) \in 1..(Len(t) - 1) /\ i - (Len(s) + 1) + 1 = i - Len(s)
        BY <1>1, <3>2
      <4>2. b[i - (Len(s) + 1)] = t[i - Len(s)]
        BY <1>3, <4>1
      <4>3. d[i] = b[i - (Len(s) + 1)] /\ c[i] = t[i - Len(s)]
        BY <1>1, <1>4, <2>1, <4>1
      <4> QED BY <4>2, <4>3
    <3> QED BY <3>1, <3>2
  <2>3. d = c
    BY <1>1, <1>4, <2>1, <2>2
  <2> QED BY <2>3 DEF d
<1>8. ToSet(s) \cup ToSet(t) = ToSet(a) \cup ToSet(b)
  <2>1. ASSUME NEW p \in ToSet(s) PROVE p \in ToSet(a)
    BY <1>1, <1>2 DEF ToSet
  <2>2. ASSUME NEW p \in ToSet(t) PROVE p \in ToSet(a) \cup ToSet(b)
    <3>1. PICK i \in 1..Len(t) : p = t[i]
      BY <1>1 DEF ToSet
    <3>2. CASE i = 1
      BY <1>1, <1>2, <3>1, <3>2 DEF ToSet
    <3>3. CASE i # 1
      <4>1. i - 1 \in 1..(Len(t) - 1) /\ p = b[i - 1]
        BY <1>1, <1>3, <3>1, <3>3
      <4> QED BY <1>3, <4>1 DEF ToSet
    <3> QED BY <3>2, <3>3
  <2>3. ASSUME NEW p \in ToSet(a) PROVE p \in ToSet(s) \cup ToSet(t)
    BY <1>1, <1>2 DEF ToSet
  <2>4. ASSUME NEW p \in ToSet(b) PROVE p \in ToSet(t)
    BY <1>1, <1>3 DEF ToSet
  <2> QED BY <2>1, <2>2, <2>3, <2>4
<1> QED BY <1>2, <1>3, <1>6, <1>7, <1>8 DEF a, b, c

LEMMA ProvideQueues ==
  ASSUME Inv, Queues, NEW r \in Requests, Provide(r) \/ FallThrough(r) PROVE Queues'
<1>0. QueueTypes /\ Asked(r) /\ Dropped(r) /\ (r \notin overlapped => Owned(r)) /\ Shape
  BY DEF Queues, Inv
<1>1. PICK s, t, asked, rest : s = tried[r] /\ t = left[r] /\ asked = Append(s, Head(t)) /\ rest = Tail(t)
  OBVIOUS
<1>2. /\ req[r].pc = "running" /\ tried' = [tried EXCEPT ![r] = asked]
      /\ UNCHANGED <<photoOwner, enabled, signin, overlapped, steady, rows>>
      /\ \/ Goto(r, "store") /\ left' = left
         \/ Goto(r, IF rest = <<>> THEN "failing" ELSE "running") /\ left' = [left EXCEPT ![r] = rest]
  BY <1>1 DEF Provide, FallThrough, tables
<1>3. PICK pc : /\ Goto(r, pc)
                /\ \/ pc = "store" /\ left' = left
                   \/ pc = (IF rest = <<>> THEN "failing" ELSE "running") /\ left' = [left EXCEPT ![r] = rest]
  BY <1>2
<1>4. /\ req'[r].pc = pc /\ req'[r].user = req[r].user /\ req'[r].photo = req[r].photo
      /\ req'[r].style = req[r].style /\ req'[r].prefer = req[r].prefer
      /\ req'[r].operation = req[r].operation
      /\ \A q \in Requests \ {r} : req'[q] = req[q]
  BY <1>0, <1>3, GotoFacts
<1>5. /\ s \in Seq(Providers) /\ t \in Seq(Providers) /\ t # <<>> /\ Ordered(s \o t, req[r].prefer)
      /\ Able(r) \subseteq ToSet(s) \cup ToSet(t)
  BY <1>0, <1>1, <1>2 DEF QueueTypes, Asked
<1>6. /\ asked \in Seq(Providers) /\ rest \in Seq(Providers) /\ Ordered(asked, req[r].prefer)
      /\ asked \o rest = s \o t /\ ToSet(s) \cup ToSet(t) = ToSet(asked) \cup ToSet(rest)
  BY <1>1, <1>5, AskOne
<1>7. /\ QueueTypes' /\ tried'[r] = asked /\ (pc = "running" => left'[r] = rest)
      /\ \A q \in Requests \ {r} : tried'[q] = tried[q] /\ left'[q] = left[q]
  BY <1>0, <1>2, <1>3, <1>6 DEF QueueTypes
<1>8. Asked(r)'
  <2>1. Able(r)' = Able(r) /\ steady'[r] \subseteq enabled'
    BY <1>0, <1>2, <1>4 DEF Able, Asked
  <2>2. rest = <<>> => Able(r) \subseteq ToSet(asked)
    BY <1>5, <1>6, NoList
  <2> HIDE DEF Able
  <2> QED BY <1>3, <1>4, <1>5, <1>6, <1>7, <2>1, <2>2 DEF Asked
<1>9. Dropped(r)'
  BY <1>0, <1>2, <1>3, <1>4 DEF Dropped, Making
<1>10. r \notin overlapped' => Owned(r)'
  BY <1>0, <1>2, <1>3, <1>4 DEF Owned, Making
<1> QED BY <1>2, <1>4, <1>7, <1>8, <1>9, <1>10, OneRequest

LEMMA StartQueues ==
  ASSUME Inv, Queues, NEW r \in Requests, NEW u \in Users, NEW photo \in PhotoUrls, NEW style \in Styles,
         NEW prefer \in Providers \cup {None}, Start(r, u, photo, style, prefer)
  PROVE  Queues'
<1>0. QueueTypes /\ Asked(r) /\ Shape
  BY DEF Queues, Inv
<1>1. /\ req[r].pc = "waiting" /\ req'[r].pc = "photo" /\ req'[r].photo = photo
      /\ req'[r].style = style /\ (style = "portrait" => photo # None)
      /\ \A q \in Requests \ {r} : req'[q] = req[q]
  <2> DEFINE new == [pc |-> "photo", user |-> u, photo |-> photo, style |-> style,
                     prefer |-> prefer, operation |-> None]
  <2>1. req[r] = Waiting /\ req' = [req EXCEPT ![r] = new] /\ (style = "portrait" => photo # None)
    BY DEF Start, Request
  <2> QED BY <1>0, <2>1 DEF Shape, Waiting, Request
<1>2. /\ UNCHANGED <<photoOwner, enabled, signin, left, tried, rows>>
      /\ steady' = [steady EXCEPT ![r] = enabled]
      /\ overlapped \subseteq overlapped' /\ overlapped' \subseteq overlapped \cup {r}
  BY DEF Start, tables
<1>3. tried[r] = <<>> /\ QueueTypes' /\ steady'[r] = enabled
  BY <1>0, <1>1, <1>2 DEF QueueTypes, Asked
<1>4. Ordered(<<>>, req'[r].prefer)
  BY NoList DEF Ordered
<1>5. Asked(r)'
  BY <1>1, <1>2, <1>3, <1>4 DEF Asked
<1>6. Dropped(r)' /\ Owned(r)'
  BY <1>1 DEF Dropped, Owned, Making
<1>7. \A q \in Requests \ {r} : steady'[q] = steady[q]
  BY <1>0, <1>2 DEF QueueTypes
<1> QED BY <1>1, <1>2, <1>3, <1>5, <1>6, <1>7, OneRequest

-----------------------------------------------------------------------------
LEMMA SwitchQueues == ASSUME Inv, Queues, NEW p \in Providers, Switch(p) PROVE Queues'
<1>1. /\ UNCHANGED <<req, left, tried, photoOwner, rows, signin, overlapped>>
      /\ enabled' \in {enabled \ {p}, enabled \cup {p}}
      /\ steady' = [r \in Requests |-> steady[r] \ {p}]
  BY DEF Switch, tables
<1>2. QueueTypes'
  BY <1>1 DEF Queues, QueueTypes
<1>3. ASSUME NEW r \in Requests PROVE Asked(r)' /\ Dropped(r)'
  <2>1. Asked(r) /\ Dropped(r) /\ steady'[r] = steady[r] \ {p}
    BY <1>1 DEF Queues
  <2>2. Able(r)' \subseteq Able(r)
    BY <1>1, <2>1 DEF Able
  <2>3. steady[r] \subseteq enabled => steady'[r] \subseteq enabled'
    BY <1>1, <2>1
  <2> HIDE DEF Able
  <2> QED BY <1>1, <2>1, <2>2, <2>3 DEF Asked, Dropped, Ordered
<1>4. \A r \in Requests \ overlapped' : Owned(r)'
  BY <1>1 DEF Queues, Owned
<1>5. \A g \in Guests : Taken(g)'
  BY <1>1 DEF Queues, Taken
<1> QED BY <1>2, <1>3, <1>4, <1>5 DEF Queues

LEMMA SameRequests ==
  ASSUME Queues, UNCHANGED <<req, left, tried, steady, enabled>>
  PROVE  \A r \in Requests : Asked(r)' /\ Dropped(r)'
<1> SUFFICES ASSUME NEW r \in Requests PROVE Asked(r)' /\ Dropped(r)'
  OBVIOUS
<1>1. Asked(r) /\ Dropped(r)
  BY DEF Queues
<1>2. Dropped(r)'
  BY <1>1 DEF Dropped
<1>3. Asked(r)'
  BY <1>1 DEF Asked, Able, Ordered
<1> QED BY <1>2, <1>3

(* Steps of a sign-in that no photo notices *)
LEMMA SignInQueues ==
  ASSUME Inv, Queues, NEW g \in Guests,
         UNCHANGED <<req, left, tried, steady, enabled, photoOwner, rows>>,
         overlapped \subseteq overlapped', overlapped' \subseteq Requests,
         \A h \in Guests \ {g} : signin'[h] = signin[h],
         Taken(g)'
  PROVE  Queues'
<1>1. QueueTypes' /\ \A r \in Requests : Asked(r)' /\ Dropped(r)'
  BY SameRequests DEF Queues, QueueTypes
<1>2. \A r \in Requests \ overlapped' : Owned(r)'
  BY DEF Queues, Owned
<1>3. ASSUME NEW h \in Guests PROVE Taken(h)'
  <2>1. CASE h = g
    BY <2>1
  <2>2. CASE h # g
    BY <2>2 DEF Queues, Taken
  <2> QED BY <2>1, <2>2
<1> QED BY <1>1, <1>2, <1>3 DEF Queues

LEMMA BeginSignInQueues ==
  ASSUME Inv, Queues, NEW g \in Guests, NEW a \in Accounts, BeginSignIn(g, a) PROVE Queues'
<1>1. /\ UNCHANGED <<req, left, tried, steady, enabled, photoOwner, rows>>
      /\ overlapped \subseteq overlapped' /\ overlapped' \subseteq Requests
      /\ signin' = [signin EXCEPT ![g] = SignInTo(a)]
  BY DEF BeginSignIn, tables, Queues, QueueTypes, InFlight
<1>2. signin'[g] = SignInTo(a) /\ \A h \in Guests \ {g} : signin'[h] = signin[h]
  BY <1>1 DEF Inv, Shape
<1>3. Taken(g)'
  BY <1>2 DEF Taken, SignInTo
<1> QED BY <1>1, <1>2, <1>3, SignInQueues

LEMMA AbortSignInQueues == ASSUME Inv, Queues, NEW g \in Guests, AbortSignIn(g) PROVE Queues'
<1>1. /\ UNCHANGED <<req, left, tried, steady, enabled, photoOwner, rows, overlapped>>
      /\ signin' = [signin EXCEPT ![g] = NoSignIn]
  BY DEF AbortSignIn, tables
<1>2. signin'[g] = NoSignIn /\ \A h \in Guests \ {g} : signin'[h] = signin[h]
  BY <1>1 DEF Inv, Shape
<1>3. Taken(g)'
  BY <1>2 DEF Taken, NoSignIn, SignInTo
<1> QED BY <1>1, <1>2, <1>3, SignInQueues DEF Queues, QueueTypes

LEMMA MoveTableQueues == ASSUME Inv, Queues, NEW g \in Guests, MoveTable(g) PROVE Queues'
<1>0. Taken(g) /\ signin[g] \in SignIns /\ signin \in [Guests -> SignIns]
  BY DEF Queues, Inv, Shape
<1>1. PICK n : n = signin[g].done + 1
  OBVIOUS
<1>2. PICK taken : taken = IF UpdateOrder[n] = "media" THEN {p \in Photos : photoOwner[p] = g}
                           ELSE signin[g].photos
  OBVIOUS
<1>3. n \in 1..3 /\ (UpdateOrder[n] = "media" <=> n = 1)
  BY <1>0, <1>1 DEF MoveTable, SignIns, UpdateOrder
<1>4. /\ UNCHANGED <<req, left, tried, steady, enabled, photoOwner, rows, overlapped>>
      /\ signin'[g].done = n /\ signin'[g].photos = taken
      /\ \A h \in Guests \ {g} : signin'[h] = signin[h]
  BY <1>0, <1>1, <1>2 DEF MoveTable, tables
<1>5. taken = {p \in Photos : photoOwner[p] = g}
  BY <1>0, <1>1, <1>2, <1>3 DEF Taken, SignIns
<1>6. Taken(g)'
  BY <1>3, <1>4, <1>5 DEF Taken
<1> QED BY <1>4, <1>6, SignInQueues DEF Queues, QueueTypes

(* The photo moves with the work that was made from it *)
LEMMA CommitSignInQueues == ASSUME Inv, Queues, NEW g \in Guests, CommitSignIn(g) PROVE Queues'
<1>0. /\ QueueTypes /\ Taken(g) /\ Tracked(g) /\ signin[g] \in SignIns /\ signin \in [Guests -> SignIns]
      /\ rows \in [Requests -> [Tables -> Users \cup {None}]] /\ req \in [Requests -> Requested]
  BY DEF Queues, Inv, Shape
<1>1. PICK into, photos, moved : into = signin[g].into /\ photos = signin[g].photos /\ moved = signin[g].moved
  OBVIOUS
<1>2. /\ UNCHANGED <<req, left, tried, steady, enabled, overlapped>>
      /\ into # None /\ signin[g].done = 3
      /\ rows' = [r \in Requests |-> [t \in Tables |-> IF r \in moved[t] THEN into ELSE rows[r][t]]]
      /\ photoOwner' = [p \in Photos |-> IF p \in photos THEN into ELSE photoOwner[p]]
      /\ signin' = [signin EXCEPT ![g] = NoSignIn]
  BY <1>1 DEF CommitSignIn, SigningIn, UpdateOrder
<1>3. into \in Accounts /\ into \in Users /\ into \notin Guests /\ photos = {p \in Photos : photoOwner[p] = g}
  BY <1>0, <1>1, <1>2, GenerateAssumption DEF SignIns, Users, Taken
<1>4. QueueTypes'
  BY <1>0, <1>2, <1>3 DEF QueueTypes
<1>5. \A r \in Requests : Asked(r)' /\ Dropped(r)'
  BY <1>2, SameRequests
<1>6. ASSUME NEW r \in Requests \ overlapped' PROVE Owned(r)'
  <2>1. Owned(r) /\ Undisturbed(r, g) /\ PaidFor(r)
    BY <1>2 DEF Queues, Inv
  <2>2. \A p \in Photos : photoOwner'[p] = IF photoOwner[p] = g THEN into ELSE photoOwner[p]
    BY <1>2, <1>3
  <2>3. rows'[r]["generation"] = IF rows[r]["generation"] = g THEN into ELSE rows[r]["generation"]
    <3>1. rows[r]["generation"] = g <=> r \in moved["generation"]
      <4>1. UpdateOrder[2] = "generation" /\ 2 \in 1..signin[g].done /\ "generation" \in Tables
        BY <1>2 DEF UpdateOrder, Tables
      <4> QED BY <1>0, <1>1, <1>2, <4>1 DEF Tracked
    <3> QED BY <1>2, <3>1 DEF Tables
  <2>4. r \in InFlight => req[r].user # g
    BY <1>1, <1>2, <2>1 DEF Undisturbed
  <2>5. req[r].pc = "operation" \/ (req[r].pc \in Making /\ req[r].pc # "delivered") => r \in InFlight
    BY DEF InFlight, Making
  <2> QED BY <1>2, <2>1, <2>2, <2>3, <2>4, <2>5 DEF Owned
<1>7. ASSUME NEW h \in Guests PROVE Taken(h)'
  <2>1. CASE h = g
    BY <1>0, <1>2, <2>1 DEF Taken, NoSignIn, SignInTo
  <2>2. CASE h # g
    <3>1. signin'[h] = signin[h] /\ Taken(h)
      BY <1>0, <1>2, <2>2 DEF Queues
    <3>2. \A p \in Photos : photoOwner'[p] = h <=> photoOwner[p] = h
      BY <1>2, <1>3, <2>2
    <3> QED BY <3>1, <3>2 DEF Taken
  <2> QED BY <2>1, <2>2
<1> QED BY <1>4, <1>5, <1>6, <1>7 DEF Queues

LEMMA NextQueues == Inv /\ Queues /\ [Next]_vars => Queues'
<1> SUFFICES ASSUME Inv, Queues, [Next]_vars PROVE Queues'
  OBVIOUS
<1>1. ASSUME NEW r \in Requests, NEW u \in Users, NEW photo \in PhotoUrls, NEW style \in Styles,
             NEW prefer \in Providers \cup {None}, Start(r, u, photo, style, prefer)
      PROVE  Queues'
  BY <1>1, StartQueues
<1>2. ASSUME NEW r \in Requests, Proceed(r) PROVE Queues'
  BY <1>2, LoadPhotoQueues, ChooseOperationQueues, BuildPromptQueues, QueueQueues, ProvideQueues,
     FailQueues, StoreQueues, CommitQueues DEF Proceed
<1>3. ASSUME NEW r \in Requests, Abort(r) PROVE Queues'
  BY <1>3, AbortQueues
<1>4. ASSUME NEW g \in Guests, NEW a \in Accounts, BeginSignIn(g, a) PROVE Queues'
  BY <1>4, BeginSignInQueues
<1>5. ASSUME NEW g \in Guests, MoveTable(g) \/ CommitSignIn(g) \/ AbortSignIn(g) PROVE Queues'
  BY <1>5, MoveTableQueues, CommitSignInQueues, AbortSignInQueues
<1>6. ASSUME NEW p \in Providers, Switch(p) PROVE Queues'
  BY <1>6, SwitchQueues
<1>7. CASE UNCHANGED vars
  <2>1. UNCHANGED <<req, left, tried, steady, enabled, photoOwner, rows, signin, overlapped>>
    BY <1>7 DEF vars, tables
  <2>2. \A r \in Requests : Asked(r)' /\ Dropped(r)'
    BY <2>1, SameRequests
  <2>3. QueueTypes' /\ \A r \in Requests \ overlapped' : Owned(r)'
    BY <2>1 DEF Queues, QueueTypes, Owned
  <2>4. \A g \in Guests : Taken(g)'
    BY <2>1 DEF Queues, Taken
  <2> QED BY <2>2, <2>3, <2>4 DEF Queues
<1> QED BY <1>1, <1>2, <1>3, <1>4, <1>5, <1>6, <1>7 DEF Next

-----------------------------------------------------------------------------
(* A charge is committed with the whole of a work whose picture is in      *)
(* storage, and with nothing else (generate, save_image, _record_failure). *)
THEOREM ChargeBuysWork == Spec => []ChargedForWork
<1>1. Inv => ChargedForWork
  <2> SUFFICES ASSUME Inv, NEW r \in Requests
               PROVE  /\ r \in charged <=> rows[r] # NoRows
                      /\ r \in charged => r \in objects /\ r \notin failed
    BY DEF ChargedForWork
  <2>1. PaidFor(r) /\ rows[r] \in [Tables -> Users \cup {None}]
    BY DEF Inv, Shape
  <2>2. CASE r \in charged
    <3>1. rows[r]["media"] # None
      BY <2>1, <2>2, GenerateAssumption DEF PaidFor, Tables
    <3> QED BY <2>1, <2>2, <3>1 DEF PaidFor, NoRows, Tables
  <2>3. CASE r \notin charged
    BY <2>1, <2>3 DEF PaidFor, NoRows
  <2> QED BY <2>2, <2>3
<1> QED BY InitInv, NextInv, <1>1, PTL DEF Spec

(* The rows of a work that no sign-in overlapped never part company, over  *)
(* the three UPDATEs of merge_guest_into.                                  *)
THEOREM WorksStayWhole == Spec => []RowsTogether
<1>1. Inv => RowsTogether
  BY DEF Inv
<1> QED BY InitInv, NextInv, <1>1, PTL DEF Spec

(* A guest who has signed in has left no such work behind *)
THEOREM WorksFollow == Spec => []WorkFollowsSignIn
<1>1. Inv => WorkFollowsSignIn
  BY DEF Inv
<1> QED BY InitInv, NextInv, <1>1, PTL DEF Spec

(* merge_guest_into moves whole works: the two facts together, as the runs *)
(* check them.                                                             *)
THEOREM WorksMove == Spec => []WorksMoveWhole
BY WorksStayWhole, WorksFollow, PTL DEF WorksMoveWhole

(* For any number of providers and whatever is switched on and off: when a *)
(* request fails, everybody who could have made the picture has been       *)
(* asked, the style's provider first and then by priority, and nobody      *)
(* twice (candidates, preferred_first, run in registry.py).                *)
THEOREM EverybodyIsAsked == Spec => []QueueInOrder
<1>1. Inv /\ Queues => QueueInOrder
  <2> SUFFICES ASSUME Inv, Queues PROVE QueueInOrder
    OBVIOUS
  <2>1. TypeOK
    <3>1. Len(UpdateOrder) = 3
      BY DEF UpdateOrder
    <3>2. ASSUME NEW r \in Requests
          PROVE  /\ req[r].user \in Users \cup {None}
                 /\ req[r].photo \in PhotoUrls /\ req[r].style \in Styles
                 /\ req[r].operation \in Operations \cup {None}
      BY DEF Inv, Shape, Requested
    <3>3. ASSUME NEW g \in Guests
          PROVE  /\ signin[g].into \in Accounts \cup {None} /\ signin[g].done \in 0..3
                 /\ signin[g].photos \subseteq Photos
                 /\ signin[g].moved \in [Tables -> SUBSET Requests]
      BY DEF Inv, Shape, SignIns
    <3> QED BY <3>1, <3>2, <3>3 DEF Inv, Shape, Queues, QueueTypes, TypeOK
  <2>2. EverybodyAsked
    BY DEF Queues, Asked, Able, EverybodyAsked
  <2>3. BestFirst
    BY DEF Queues, Asked, Ordered, BestFirst
  <2> QED BY <2>1, <2>2, <2>3 DEF QueueInOrder
<1> QED BY InitInv, NextInv, InitQueues, NextQueues, <1>1, PTL DEF Spec

(* A photo somebody sent is dropped from a style that needs it only if the *)
(* link was not ours or nobody who could edit was there all the time       *)
(* (_load_photo, generate).                                                *)
THEOREM PhotosAreUsed == Spec => []PhotoDroppedForAReason
<1>1. Inv /\ Queues => PhotoDroppedForAReason
  <2> SUFFICES ASSUME Inv, Queues, NEW r \in charged
               PROVE  req[r].style = "portrait" /\ req[r].operation # "image_to_image" =>
                        \/ req[r].photo = Elsewhere
                        \/ \A p \in steady[r] : "image_to_image" \notin Can[p]
    BY DEF PhotoDroppedForAReason
  <2>1. r \in Requests /\ PaidFor(r)
    BY DEF Inv, Shape
  <2>2. Dropped(r) /\ req[r].pc = "delivered"
    BY <2>1 DEF Queues, PaidFor
  <2> QED BY <2>2 DEF Dropped, Making
<1> QED BY InitInv, NextInv, InitQueues, NextQueues, <1>1, PTL DEF Spec

(* Whatever sign-ins do meanwhile, nobody's photo is drawn for somebody    *)
(* else, and the work made from it stays with its owner (_load_photo,      *)
(* merge_guest_into), unless a sign-in overlapped the request.             *)
THEOREM PhotosStayTheirs == Spec => []OwnPhoto
<1>1. Inv /\ Queues => OwnPhoto
  <2> SUFFICES ASSUME Inv, Queues, NEW r \in charged \ overlapped
               PROVE  req[r].operation = "image_to_image" =>
                        photoOwner[req[r].photo] = rows[r]["generation"]
    BY DEF OwnPhoto
  <2>1. r \in Requests /\ PaidFor(r)
    BY DEF Inv, Shape
  <2>2. Owned(r) /\ req[r].pc = "delivered"
    BY <2>1 DEF Queues, PaidFor
  <2> QED BY <2>2 DEF Owned, Making
<1> QED BY InitInv, NextInv, InitQueues, NextQueues, <1>1, PTL DEF Spec
=============================================================================
