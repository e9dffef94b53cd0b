--------------------------- MODULE AccountsProofs ---------------------------
(***************************************************************************)
(* What is proved of accounts, for any number of requests, devices, users  *)
(* and sessions: one account per address, single-use tokens, and that what *)
(* a person ends or answers stays as they left it.  The invariant says     *)
(* what a request in flight may still believe of the rows it has read.     *)
(* The rate limiter that stands before the sign-in routes comes last.      *)
(***************************************************************************)
EXTENDS Accounts, RateLimit, FiniteSetTheorems, TLAPS

States == {"absent", "active", "merged", "deleted"}
Places == {"idle", "token", "spend", "identity", "email", "merge", "row", "flush", "redis",
           "commit", "error"}
ReqRow == [pc : Places, kind : Kinds \cup {"none"}, device : Devices \cup {None},
           who : Users \cup {None}, with : Sids \cup {None}, target : Users \cup {None},
           creates : BOOLEAN, addressed : BOOLEAN, attaches : BOOLEAN, moves : BOOLEAN,
           overlapped : BOOLEAN]

Typed ==
  /\ user \in [Users -> UserRow]
  /\ identity \in [Providers -> Users \cup {None}]
  /\ prefs \in [Users -> Users \cup {None}]
  /\ session \in [Sids -> Users \cup {None}]
  /\ unused \subseteq Sids
  /\ token \in [Tokens -> {"none", "live", "gone"}]
  /\ device \in [Devices -> [cookie : Sids \cup {None}, bearer : Sids \cup {None}]]
  /\ req \in [Requests -> ReqRow]
  /\ uses \in [Tokens -> Nat]
  /\ answered \subseteq Users

-----------------------------------------------------------------------------
(* Rows.  An address belongs to a registered account that is there, what a *)
(* guest was folded into and whom a provider knows are registered.         *)
RowOK(u) ==
  /\ user[u].state = "absent" => user[u].kind = "none"
  /\ user[u].state = "merged" => /\ user[u].kind = "guest" /\ user[u].into \in Users \ {u}
                                 /\ user[user[u].into].kind = "registered"
  /\ user[u].email => user[u].state = "active" /\ user[u].kind = "registered"
  /\ u \in answered => user[u].state # "absent"
  /\ u \in answered /\ user[u].state = "active" => prefs[u] = u
  /\ u \notin raced /\ user[u].state = "merged" /\ prefs[u] # None => prefs[user[u].into] # None
  /\ u \notin raced /\ user[u].state = "deleted" =>
       ~user[u].email /\ ~user[u].name /\ ~user[u].password

OneAddress == \A u, v \in Users : user[u].email /\ user[v].email => u = v

IdentityOK(p) ==
  identity[p] # None =>
    /\ user[identity[p]].kind = "registered"
    /\ p = "email" /\ user[identity[p]].state = "active" => user[identity[p]].email

(* Sessions.  Only an id that nobody was given can be opened. *)
SessionsOK ==
  /\ \A s \in unused : session[s] = None
  /\ \A d \in Devices : device[d].cookie \notin unused /\ device[d].bearer \notin unused
  /\ ended \subseteq Sids \ unused
  /\ \A s \in ended \ crossed : session[s] = None

(* Tokens.  Until two requests have read it, one request at most is about  *)
(* to spend a token that nobody has spent.                                 *)
Spends(r, t) == req[r].pc = "spend" /\ TokenOf(req[r].kind) = t
TokenOK(t) ==
  /\ uses[t] > 0 => token[t] = "gone"
  /\ t \notin shared => /\ uses[t] <= 1
                        /\ \A r \in Requests : Spends(r, t) => uses[t] = 0
                        /\ \A r, q \in Requests : Spends(r, t) /\ Spends(q, t) => r = q

-----------------------------------------------------------------------------
(* Requests.  What a request knows for certain ... *)
Aims(r) == req[r].pc \in {"merge", "flush", "redis", "commit", "error"}   \* it has a target
Knows(r) ==
  LET t == req[r]
  IN  /\ t.pc = "idle" => /\ t.kind = "none" /\ t.who = None
                          /\ ~t.creates /\ ~t.addressed /\ ~t.moves /\ ~t.attaches
      /\ t.with \notin unused
      /\ t.who # None => user[t.who].state # "absent"
      /\ t.creates => Aims(r) /\ t.kind \in SigningIn /\ user[t.target].state = "absent"
      /\ t.kind = "guest" => t.creates
      /\ t.creates \/ t.moves \/ Aims(r) \/ t.kind = "onboard" => t.target \in Users
      /\ (Aims(r) \/ t.kind = "onboard") /\ ~t.creates => user[t.target].state # "absent"
      /\ Aims(r) /\ t.kind \in SigningIn \cup {"reset"} /\ ~t.creates =>
           user[t.target].kind = "registered"
      /\ t.kind = "onboard" => t.pc # "idle"
      /\ t.pc \in {"token", "spend"} => t.kind \in Consuming
      /\ t.pc = "identity" => t.kind \in {"magic", "google", "apple"}
      /\ t.pc = "merge" => t.kind \in SigningIn \ {"guest"}
      /\ t.pc \in {"token", "spend", "identity", "email", "row"} =>
           ~t.creates /\ ~t.addressed /\ ~t.moves /\ ~t.attaches
      /\ t.pc = "row" => t.kind \in {"profile", "delete"} /\ t.who # None
      /\ t.moves => Folds(r)
      /\ t.attaches => /\ t.kind \in SigningIn \ {"guest", "login"}
                       /\ Provider(t.kind) = "email" =>
                            \/ t.creates /\ t.addressed
                            \/ ~t.creates /\ (user[t.target].state = "active" => user[t.target].email)

(* ... what it knows as long as nobody else has committed ... *)
Believes(r) ==
  LET t == req[r]
  IN  ~t.overlapped =>
        /\ t.kind = "onboard" => user[t.target].state = "active"
        /\ Aims(r) /\ t.kind \in {"profile", "reset", "delete"} => user[t.target].state = "active"
        /\ t.who # None => user[t.who].state = "active"
        /\ (t.pc = "email" /\ t.kind \in {"magic", "google", "apple"}) \/ t.attaches =>
             ~Active(identity[Provider(t.kind)])
        /\ t.creates /\ t.addressed => \A u \in Users : ~user[u].email
        /\ t.moves => prefs[t.target] = None
        /\ t.pc \in {"flush", "redis", "commit"} /\ Folds(r) /\ ~t.moves =>
             prefs[t.target] # None \/ (t.pc # "flush" /\ prefs[t.who] = None)

(* ... and what its locks and its flush guarantee it *)
Holds(r) ==
  LET t == req[r]
  IN  r \in Flushed =>
        /\ HasEmail(r) => \A u \in Users : ~user[u].email
        /\ t.moves => prefs[t.target] = None /\ prefs[t.who] # None
FailedForAReason(r) ==
  req[r].pc = "error" =>
    \/ req[r].overlapped
    \/ LET owner == identity[Provider(req[r].kind)] IN owner # None /\ ~Active(owner)

Touches(r) ==     \* user_preferences rows
  (IF req[r].kind = "onboard" THEN {req[r].target} ELSE {})
    \cup (IF req[r].moves THEN {req[r].who, req[r].target} ELSE {})
Apart(r, q) ==
  r # q => /\ ~(req[r].creates /\ req[q].creates /\ req[r].target = req[q].target)
           /\ r \in Flushed /\ q \in Flushed =>
                ~(HasEmail(r) /\ HasEmail(q)) /\ Touches(r) \cap Touches(q) = {}

Inv ==
  /\ Typed
  /\ \A u \in Users : RowOK(u)
  /\ OneAddress
  /\ \A p \in Providers : IdentityOK(p)
  /\ SessionsOK
  /\ \A t \in Tokens : TokenOK(t)
  /\ \A r \in Requests : Knows(r) /\ Believes(r) /\ Holds(r) /\ FailedForAReason(r)
  /\ \A r, q \in Requests : Apart(r, q)

-----------------------------------------------------------------------------
LEMMA DoneIs ==
  /\ Done \in ReqRow /\ Done.pc = "idle" /\ Done.kind = "none" /\ Done.who = None
  /\ Done.with = None /\ Done.target = None
  /\ ~Done.creates /\ ~Done.addressed /\ ~Done.attaches /\ ~Done.moves /\ ~Done.overlapped
BY DEF Done, ReqRow, Places

LEMMA NobodyIs ==
  /\ Nobody \in UserRow /\ Nobody.state = "absent" /\ Nobody.kind = "none"
  /\ Nobody.email = FALSE /\ Nobody.name = FALSE /\ Nobody.password = FALSE /\ Nobody.into = None
BY DEF Nobody, UserRow

LEMMA InitInv == Init => Inv
<1> SUFFICES ASSUME Init PROVE Inv
  OBVIOUS
<1>1. Typed
  BY NobodyIs, DoneIs DEF Init, Typed, Signed
<1>2. /\ \A u \in Users : user[u] = Nobody
      /\ \A r \in Requests : req[r] = Done
      /\ answered = {} /\ ended = {}
  BY DEF Init
<1>3. \A u \in Users : RowOK(u)
  BY <1>2, NobodyIs DEF RowOK
<1>4. OneAddress /\ \A p \in Providers : IdentityOK(p)
  BY <1>2, NobodyIs DEF OneAddress, IdentityOK, Init
<1>5. SessionsOK
  BY <1>2, AccountsAssumption DEF Init, Signed, SessionsOK
<1>6. \A t \in Tokens : TokenOK(t)
  BY <1>2, DoneIs DEF Init, TokenOK, Spends
<1>7. \A r \in Requests : Knows(r)
  BY <1>2, DoneIs, AccountsAssumption DEF Knows, Aims, Init
<1>8. \A r \in Requests : Believes(r)
  BY <1>2, DoneIs DEF Believes, Aims
<1>9. \A r \in Requests : Holds(r) /\ FailedForAReason(r)
  BY <1>2, DoneIs DEF Holds, Flushed, FailedForAReason
<1>10. \A r, q \in Requests : Apart(r, q)
  BY <1>2, DoneIs DEF Apart, Flushed
<1> QED BY <1>1, <1>3, <1>4, <1>5, <1>6, <1>7, <1>8, <1>9, <1>10 DEF Inv

-----------------------------------------------------------------------------
Rest == <<tables, device, raced, answered>>

(* A step of one request that changes no row: what the others know, what   *)
(* they hold and what is said of the rows stays as it was                  *)
LEMMA OneRequestAnswered ==
  ASSUME Inv, NEW r \in Requests, NEW t \in ReqRow, req' = [req EXCEPT ![r] = t],
         UNCHANGED <<tables, raced, answered>>,
         device' \in [Devices -> [cookie : Sids \cup {None}, bearer : Sids \cup {None}]],
         unused' \subseteq unused, session' \in [Sids -> Users \cup {None}],
         token' \in [Tokens -> {"none", "live", "gone"}], uses' \in [Tokens -> Nat],
         SessionsOK', \A k \in Tokens : TokenOK(k)',
         Knows(r)', Believes(r)', Holds(r)', FailedForAReason(r)',
         \A q \in Requests \ {r} : Apart(r, q)'
  PROVE  Inv'
<1>1. Typed'
  BY DEF Inv, Typed, tables
<1>2. /\ req'[r] = t /\ \A q \in Requests \ {r} : req'[q] = req[q]
      /\ user' = user /\ identity' = identity /\ prefs' = prefs
      /\ raced' = raced /\ answered' = answered
  BY DEF Inv, Typed, tables
<1>3. \A u \in Users : RowOK(u)'
  BY <1>2 DEF Inv, RowOK
<1>4. OneAddress' /\ \A p \in Providers : IdentityOK(p)'
  BY <1>2 DEF Inv, OneAddress, IdentityOK
<1>5. ASSUME NEW q \in Requests \ {r}
      PROVE  Knows(q)' /\ Believes(q)' /\ Holds(q)' /\ FailedForAReason(q)'
  <2>1. req'[q] = req[q] /\ Knows(q) /\ Believes(q) /\ Holds(q) /\ FailedForAReason(q)
    BY <1>2 DEF Inv
  <2>2. Folds(q)' = Folds(q) /\ Aims(q)' = Aims(q) /\ (q \in Flushed)' = (q \in Flushed)
        /\ HasEmail(q)' = HasEmail(q) /\ \A u : Active(u)' = Active(u)
    BY <1>2, <2>1 DEF Folds, Aims, Flushed, HasEmail, Active
  <2>3. Knows(q)'
    BY <1>2, <2>1, <2>2 DEF Knows
  <2>4. Believes(q)'
    BY <1>2, <2>1, <2>2 DEF Believes
  <2>5. Holds(q)' /\ FailedForAReason(q)'
    BY <1>2, <2>1, <2>2 DEF Holds, FailedForAReason
  <2> QED BY <2>3, <2>4, <2>5
<1>6. ASSUME NEW p \in Requests, NEW q \in Requests PROVE Apart(p, q)'
  <2>1. CASE p = q
    BY <2>1 DEF Apart
  <2>2. CASE p # q /\ p = r
    BY <2>2
  <2>3. CASE p # q /\ q = r
    <3>1. Apart(r, p)'
      BY <2>3
    <3> QED BY <2>3, <3>1 DEF Apart
  <2>4. CASE p # r /\ q # r
    <3>1. Apart(p, q) /\ req'[p] = req[p] /\ req'[q] = req[q]
      BY <1>2, <2>4 DEF Inv
    <3>2. /\ (p \in Flushed)' = (p \in Flushed) /\ (q \in Flushed)' = (q \in Flushed)
          /\ HasEmail(p)' = HasEmail(p) /\ HasEmail(q)' = HasEmail(q)
          /\ Touches(p)' = Touches(p) /\ Touches(q)' = Touches(q)
      BY <3>1 DEF Flushed, HasEmail, Touches
    <3> QED BY <3>1, <3>2 DEF Apart
  <2> QED BY <2>1, <2>2, <2>3, <2>4
<1>7. \A q \in Requests : Knows(q)' /\ Believes(q)' /\ Holds(q)' /\ FailedForAReason(q)'
  BY <1>5
<1> QED BY <1>1, <1>3, <1>4, <1>6, <1>7 DEF Inv

(* The same while no client hears of it                                    *)
LEMMA OneRequest ==
  ASSUME Inv, NEW r \in Requests, NEW t \in ReqRow, req' = [req EXCEPT ![r] = t],
         UNCHANGED Rest,
         unused' \subseteq unused, session' \in [Sids -> Users \cup {None}],
         token' \in [Tokens -> {"none", "live", "gone"}], uses' \in [Tokens -> Nat],
         SessionsOK', \A k \in Tokens : TokenOK(k)',
         Knows(r)', Believes(r)', Holds(r)', FailedForAReason(r)',
         \A q \in Requests \ {r} : Apart(r, q)'
  PROVE  Inv'
<1>1. /\ UNCHANGED <<tables, raced, answered>>
      /\ device' \in [Devices -> [cookie : Sids \cup {None}, bearer : Sids \cup {None}]]
  BY DEF Rest, Inv, Typed
<1> QED BY <1>1, OneRequestAnswered

(* A step to a place where nothing is written and no token is held *)
LEMMA Quiet ==
  ASSUME Inv, NEW r \in Requests, NEW t \in ReqRow, req' = [req EXCEPT ![r] = t],
         UNCHANGED <<tables, redis, device, histories>>,
         t.pc \notin {"spend", "redis", "commit"},
         t.creates => \/ t.target \in Fresh
                      \/ req[r].creates /\ req[r].target = t.target,
         Knows(r)', Believes(r)', FailedForAReason(r)'
  PROVE  Inv'
<1>1. /\ req'[r] = t /\ \A q \in Requests \ {r} : req'[q] = req[q]
      /\ UNCHANGED <<session, unused, token, uses, shared, ended, crossed, device, user>>
  BY DEF Inv, Typed, tables, redis, histories
<1>2. SessionsOK'
  BY <1>1 DEF Inv, SessionsOK
<1>3. ASSUME NEW k \in Tokens PROVE TokenOK(k)'
  <2>1. TokenOK(k) /\ \A q \in Requests : Spends(q, k)' => Spends(q, k)
    BY <1>1 DEF Inv, Spends
  <2> QED BY <1>1, <2>1 DEF TokenOK
<1>4. Holds(r)' /\ (r \notin Flushed)'
  BY <1>1 DEF Holds, Flushed
<1>5. ASSUME NEW q \in Requests \ {r} PROVE Apart(r, q)'
  <2>1. Apart(r, q) /\ req'[q] = req[q]
    BY <1>1 DEF Inv
  <2>2. t.creates /\ req[q].creates => t.target # req[q].target
    BY <2>1 DEF Apart, Fresh, Taken
  <2> QED BY <1>1, <1>4, <2>1, <2>2 DEF Apart
<1>6. /\ unused' \subseteq unused /\ session' \in [Sids -> Users \cup {None}]
      /\ token' \in [Tokens -> {"none", "live", "gone"}] /\ uses' \in [Tokens -> Nat]
  BY <1>1 DEF Inv, Typed
<1>7. UNCHANGED Rest
  BY DEF Rest, histories
<1> QED BY <1>2, <1>3, <1>4, <1>5, <1>6, <1>7, OneRequest

-----------------------------------------------------------------------------
(* A request begins with the context of its client's session, which was    *)
(* handed out before                                                       *)
LEMMA ContextIs ==
  ASSUME Inv, NEW d \in Devices
  PROVE  /\ SidOf(d) \in Sids \cup {None} /\ SidOf(d) \notin unused
         /\ Context(d) \in Users \cup {None}
         /\ Context(d) # None => user[Context(d)].state = "active"
<1>1. SidOf(d) \in Sids \cup {None} /\ SidOf(d) \notin unused
  BY DEF Inv, Typed, SessionsOK, SidOf
<1>2. Context(d) \in Users \cup {None}
  BY <1>1 DEF Context, Inv, Typed
<1>3. Context(d) # None => user[Context(d)].state = "active"
  BY DEF Context, Active
<1> QED BY <1>1, <1>2, <1>3

LEMMA NewIs ==
  ASSUME Inv, NEW d \in Devices, NEW kind \in Kinds, NEW pc \in Places
  PROVE  LET t == New(kind, d, pc)
         IN  /\ t \in ReqRow /\ t.pc = pc /\ t.kind = kind /\ t.who = Context(d) /\ t.with = SidOf(d)
             /\ t.target = None /\ ~t.overlapped
             /\ ~t.creates /\ ~t.addressed /\ ~t.attaches /\ ~t.moves
BY DoneIs, ContextIs DEF New, ReqRow

LEMMA BeginInv ==
  ASSUME Inv, NEW r \in Requests, NEW d \in Devices,
         \/ CreateGuest(r, d) \/ Register(r, d) \/ Login(r, d) \/ Verify(r, d) \/ GoogleCallback(r, d)
         \/ AppleAuth(r, d) \/ ForgotPassword(r, d) \/ ResetPassword(r, d)
         \/ UpdateProfile(r, d) \/ DeleteProfile(r, d) \/ SaveAnswers(r, d)
  PROVE  Inv'
<1> DEFINE c == Context(d)
<1>1. /\ SidOf(d) \notin unused /\ c \in Users \cup {None}
      /\ c # None => user[c].state = "active"
  BY ContextIs
<1>2. ASSUME NEW t, Begin(r, t)
      PROVE  /\ req' = [req EXCEPT ![r] = t] /\ UNCHANGED <<tables, redis, device, histories>>
             /\ req'[r] = t /\ user' = user /\ prefs' = prefs /\ unused' = unused
  BY <1>2 DEF Begin, Set, Inv, Typed, tables, redis
<1>3. ASSUME NEW kind \in Kinds, NEW pc \in {"email", "token", "identity", "row"},
             Begin(r, New(kind, d, pc)),
             kind \in {"profile", "delete"} <=> pc = "row",
             kind \notin {"guest", "onboard"},
             pc = "row" => c # None,
             pc = "token" => kind \in Consuming, pc = "identity" => kind = "apple",
             pc = "email" => kind \notin {"magic", "google", "apple"}
      PROVE  Inv'
  <2> DEFINE t == New(kind, d, pc)
  <2>1. pc \in Places
    BY DEF Places
  <2>2. /\ t \in ReqRow /\ t.pc = pc /\ t.kind = kind /\ t.who = c /\ t.with = SidOf(d)
        /\ ~t.creates /\ ~t.addressed /\ ~t.attaches /\ ~t.moves
    BY <2>1, NewIs
  <2> HIDE DEF t, c
  <2>3. /\ req' = [req EXCEPT ![r] = t] /\ UNCHANGED <<tables, redis, device, histories>>
        /\ req'[r] = t /\ user' = user /\ prefs' = prefs /\ unused' = unused
    BY <1>2, <1>3 DEF t
  <2>4. Knows(r)'
    BY <1>1, <1>3, <2>2, <2>3 DEF Knows, Aims
  <2>5. Believes(r)' /\ FailedForAReason(r)'
    BY <1>1, <1>3, <2>2, <2>3 DEF Believes, Aims, FailedForAReason
  <2> QED BY <1>3, <2>2, <2>3, <2>4, <2>5, Quiet
<1>4. CASE CreateGuest(r, d)
  <2>1. PICK u \in Fresh : Begin(r, [New("guest", d, "flush") EXCEPT !.target = u, !.creates = TRUE])
    BY <1>4 DEF CreateGuest
  <2> DEFINE n == New("guest", d, "flush")
             t == [n EXCEPT !.target = u, !.creates = TRUE]
  <2>2. /\ n \in ReqRow /\ n.pc = "flush" /\ n.kind = "guest" /\ n.who = c /\ n.with = SidOf(d)
        /\ ~n.attaches /\ ~n.moves /\ ~n.addressed
    BY NewIs DEF Kinds, SigningIn, Places
  <2> HIDE DEF n
  <2>3. u \in Users /\ user[u].state = "absent"
    BY DEF Fresh
  <2>4. /\ t \in ReqRow /\ t.pc = "flush" /\ t.kind = "guest" /\ t.who = c /\ t.with = SidOf(d)
        /\ t.target = u /\ t.creates /\ ~t.attaches /\ ~t.moves /\ ~t.addressed
    BY <2>2, <2>3 DEF ReqRow
  <2>5. /\ req' = [req EXCEPT ![r] = t] /\ UNCHANGED <<tables, redis, device, histories>>
        /\ req'[r] = t /\ user' = user /\ prefs' = prefs /\ unused' = unused
    BY <1>2, <2>1 DEF n
  <2> HIDE DEF t, c
  <2>6. Knows(r)'
    BY <1>1, <2>3, <2>4, <2>5 DEF Knows, Aims, SigningIn
  <2>7. Believes(r)' /\ FailedForAReason(r)'
    BY <1>1, <2>4, <2>5 DEF Believes, Aims, FailedForAReason, Folds, Merging
  <2> QED BY <2>4, <2>5, <2>6, <2>7, Quiet
<1>5. CASE SaveAnswers(r, d)
  <2> DEFINE n == New("onboard", d, "flush")
             t == [n EXCEPT !.target = c]
  <2>1. /\ n \in ReqRow /\ n.pc = "flush" /\ n.kind = "onboard" /\ n.who = c /\ n.with = SidOf(d)
        /\ ~n.creates /\ ~n.attaches /\ ~n.moves
    BY NewIs DEF Kinds, Places
  <2> HIDE DEF n
  <2>2. c # None /\ c \in Users
    BY <1>1, <1>5 DEF SaveAnswers
  <2>3. /\ t \in ReqRow /\ t.pc = "flush" /\ t.kind = "onboard" /\ t.who = c /\ t.with = SidOf(d)
        /\ t.target = c /\ ~t.creates /\ ~t.attaches /\ ~t.moves
    BY <2>1, <2>2 DEF ReqRow
  <2>4. /\ req' = [req EXCEPT ![r] = t] /\ UNCHANGED <<tables, redis, device, histories>>
        /\ req'[r] = t /\ user' = user /\ prefs' = prefs /\ unused' = unused
    BY <1>2, <1>5 DEF n, SaveAnswers
  <2> HIDE DEF t, c
  <2>5. Knows(r)'
    BY <1>1, <2>2, <2>3, <2>4 DEF Knows, Aims, SigningIn, Merging
  <2>6. Believes(r)' /\ FailedForAReason(r)'
    BY <1>1, <2>2, <2>3, <2>4 DEF Believes, Aims, FailedForAReason, Folds, Merging
  <2> QED BY <2>3, <2>4, <2>5, <2>6, Quiet
<1>6. {"register", "login", "magic", "google", "apple", "forgot", "reset", "profile", "delete"} \subseteq Kinds
  BY DEF Kinds, SigningIn, Merging
<1>7. {"magic", "google", "reset"} \subseteq Consuming
  BY DEF Consuming
<1> QED BY <1>3, <1>4, <1>5, <1>6, <1>7 DEF Register, Login, Verify, GoogleCallback, AppleAuth, ForgotPassword,
                                    ResetPassword, UpdateProfile, DeleteProfile

-----------------------------------------------------------------------------
(* The steps that only read rows                                           *)
LEMMA EndInv ==
  ASSUME Inv, NEW r \in Requests, Set(r, Done), UNCHANGED <<tables, redis, device, histories>>
  PROVE  Inv'
<1>1. /\ req' = [req EXCEPT ![r] = Done] /\ req'[r] = Done /\ unused' = unused
      /\ user' = user /\ prefs' = prefs /\ identity' = identity
  BY DEF Set, Inv, Typed, redis, tables
<1>2. None \notin unused
  BY AccountsAssumption DEF Inv, Typed
<1>3. Knows(r)'
  BY <1>1, <1>2, DoneIs DEF Knows, Aims
<1>4. Believes(r)' /\ FailedForAReason(r)'
  BY <1>1, DoneIs DEF Believes, Aims, FailedForAReason
<1> QED BY <1>1, <1>3, <1>4, DoneIs, Quiet

(* A sign-in has found its account, or makes one                           *)
LEMMA FoundInv ==
  ASSUME Inv, NEW r \in Requests, NEW t \in ReqRow, Set(r, t),
         UNCHANGED <<tables, redis, device, histories>>,
         req[r].pc \in {"identity", "email"},
         t.pc = "merge", t.kind = req[r].kind, t.kind \in SigningIn \ {"guest"},
         t.who = req[r].who, t.with = req[r].with, t.overlapped = req[r].overlapped,
         t.moves = req[r].moves, t.target \in Users,
         \/ t.creates /\ t.target \in Fresh /\ (t.addressed => ByEmail = {})
         \/ ~t.creates /\ user[t.target].kind = "registered" /\ user[t.target].state # "absent",
         t.attaches =>
           /\ t.kind # "login"
           /\ ~t.overlapped => ~Active(identity[Provider(t.kind)])
           /\ \/ t.creates /\ (Provider(t.kind) = "email" => t.addressed)
              \/ ~t.creates /\ user[t.target].email
  PROVE  Inv'
<1>1. /\ req' = [req EXCEPT ![r] = t] /\ req'[r] = t /\ unused' = unused
      /\ user' = user /\ prefs' = prefs /\ identity' = identity
  BY DEF Set, Inv, Typed, redis, tables
<1>2. Knows(r) /\ Believes(r) /\ ~req[r].moves
  BY DEF Inv, Knows
<1>3. t.creates => user[t.target].state = "absent"
  BY DEF Fresh
<1>4. Knows(r)'
  BY <1>1, <1>2, <1>3 DEF Knows, Aims
<1>5. ByEmail = {} => \A u \in Users : ~user[u].email
  BY AccountsAssumption DEF ByEmail, Inv, RowOK, Active
<1>6. \A u : Active(u)' = Active(u)
  BY <1>1 DEF Active
<1>7. Believes(r)'
  BY <1>1, <1>2, <1>5, <1>6 DEF Believes, Aims, SigningIn, Merging
<1>8. FailedForAReason(r)'
  BY <1>1 DEF FailedForAReason
<1> QED BY <1>1, <1>4, <1>7, <1>8, Quiet

LEMMA MovesOn ==
  ASSUME Inv, NEW r \in Requests, NEW pc \in Places
  PROVE  LET t == [req[r] EXCEPT !.pc = pc]
         IN  /\ t \in ReqRow /\ t.pc = pc /\ t.kind = req[r].kind /\ t.device = req[r].device
             /\ t.who = req[r].who /\ t.with = req[r].with /\ t.target = req[r].target
             /\ t.creates = req[r].creates /\ t.addressed = req[r].addressed
             /\ t.attaches = req[r].attaches /\ t.moves = req[r].moves
             /\ t.overlapped = req[r].overlapped
BY DEF Inv, Typed, ReqRow

LEMMA NewAccountIs ==
  ASSUME Inv, NEW r \in Requests, NEW u \in Users
  PROVE  LET t == NewAccount(req[r], u)
         IN  /\ t \in ReqRow /\ t.pc = "merge" /\ t.kind = req[r].kind
             /\ t.who = req[r].who /\ t.with = req[r].with /\ t.target = u
             /\ t.creates = TRUE /\ t.addressed = TRUE /\ t.attaches = TRUE
             /\ t.moves = req[r].moves /\ t.overlapped = req[r].overlapped
<1>1. req[r] \in ReqRow
  BY DEF Inv, Typed
<1> QED BY <1>1 DEF NewAccount, ReqRow, Places

LEMMA ByEmailIs ==
  ASSUME Inv, NEW u \in ByEmail
  PROVE  u \in Users /\ user[u].state = "active" /\ user[u].kind = "registered" /\ user[u].email
BY DEF ByEmail, Active, Inv, RowOK

LEMMA ByIdentityInv ==
  ASSUME Inv, NEW r \in Requests, ByIdentity(r)
  PROVE  Inv'
<1> DEFINE owner == identity[Provider(req[r].kind)]
<1>1. /\ req[r].pc = "identity" /\ UNCHANGED <<tables, redis, device, histories>>
      /\ \/ Active(owner) /\ Set(r, [req[r] EXCEPT !.pc = "merge", !.target = owner])
         \/ ~Active(owner) /\ Set(r, [req[r] EXCEPT !.pc = "email"])
         \/ /\ ~Active(owner) /\ req[r].kind \in {"google", "apple"}
            /\ \E u \in Fresh : Set(r, [req[r] EXCEPT !.pc = "merge", !.target = u,
                                                      !.creates = TRUE, !.attaches = TRUE])
  BY DEF ByIdentity
<1>2. req[r] \in ReqRow /\ Knows(r) /\ Believes(r)
  BY DEF Inv, Typed
<1>3. /\ req[r].kind \in {"magic", "google", "apple"} /\ req[r].kind \in SigningIn \ {"guest"}
      /\ ~req[r].creates /\ ~req[r].addressed /\ ~req[r].attaches /\ ~req[r].moves
  BY <1>1, <1>2 DEF Knows, SigningIn, Merging
<1>4. Provider(req[r].kind) \in Providers
  BY <1>3 DEF Provider, Providers
<1>5. ASSUME Active(owner), Set(r, [req[r] EXCEPT !.pc = "merge", !.target = owner]) PROVE Inv'
  <2>1. owner \in Users /\ user[owner].kind = "registered" /\ user[owner].state = "active"
    BY <1>4, <1>5 DEF Inv, Typed, IdentityOK, Active
  <2> DEFINE t == [req[r] EXCEPT !.pc = "merge", !.target = owner]
  <2>2. /\ t \in ReqRow /\ t.pc = "merge" /\ t.kind = req[r].kind
        /\ t.who = req[r].who /\ t.with = req[r].with /\ t.target = owner
        /\ t.creates = req[r].creates /\ t.addressed = req[r].addressed /\ t.attaches = req[r].attaches
        /\ t.moves = req[r].moves /\ t.overlapped = req[r].overlapped
    BY <1>2, <2>1 DEF ReqRow, Places
  <2>3. Set(r, t)
    BY <1>5
  <2> HIDE DEF t, owner
  <2> QED BY <1>1, <1>3, <2>1, <2>2, <2>3, FoundInv
<1>6. ASSUME ~Active(owner), Set(r, [req[r] EXCEPT !.pc = "email"]) PROVE Inv'
  <2> DEFINE t == [req[r] EXCEPT !.pc = "email"]
  <2>1. /\ t \in ReqRow /\ t.pc = "email" /\ t.kind = req[r].kind
        /\ t.who = req[r].who /\ t.with = req[r].with /\ t.target = req[r].target
        /\ t.creates = req[r].creates /\ t.addressed = req[r].addressed /\ t.attaches = req[r].attaches
        /\ t.moves = req[r].moves /\ t.overlapped = req[r].overlapped
    BY MovesOn DEF Places
  <2>2. Set(r, t)
    BY <1>6
  <2> HIDE DEF t
  <2>3. /\ req' = [req EXCEPT ![r] = t] /\ req'[r] = t /\ unused' = unused
        /\ user' = user /\ prefs' = prefs /\ identity' = identity
    BY <1>1, <2>2 DEF Set, Inv, Typed, redis, tables
  <2>4. Knows(r)'
    BY <1>2, <1>3, <2>1, <2>3 DEF Knows, Aims
  <2>5. Believes(r)' /\ FailedForAReason(r)'
    BY <1>2, <1>3, <1>6, <2>1, <2>3 DEF Believes, Aims, FailedForAReason, Active
  <2> QED BY <1>1, <1>3, <2>1, <2>3, <2>4, <2>5, Quiet
<1>7. ASSUME ~Active(owner), req[r].kind \in {"google", "apple"}, NEW u \in Fresh,
             Set(r, [req[r] EXCEPT !.pc = "merge", !.target = u, !.creates = TRUE, !.attaches = TRUE])
      PROVE  Inv'
  <2>1. ~req[r].addressed \/ req[r].addressed
    OBVIOUS
  <2> DEFINE t == [req[r] EXCEPT !.pc = "merge", !.target = u, !.creates = TRUE, !.attaches = TRUE]
  <2>2. /\ t \in ReqRow /\ t.pc = "merge" /\ t.kind = req[r].kind
        /\ t.who = req[r].who /\ t.with = req[r].with /\ t.target = u
        /\ t.creates = TRUE /\ t.addressed = req[r].addressed /\ t.attaches = TRUE
        /\ t.moves = req[r].moves /\ t.overlapped = req[r].overlapped
    BY <1>2, <1>7 DEF ReqRow, Places, Fresh
  <2>3. Set(r, t)
    BY <1>7
  <2>4. ~req[r].addressed
    BY <1>1, <1>2 DEF Knows
  <2>5. Provider(req[r].kind) # "email"
    BY <1>7 DEF Provider
  <2>6. ~Active(identity[Provider(t.kind)]) /\ t.target \in Users
    BY <1>7, <2>2 DEF Fresh
  <2> HIDE DEF t, owner
  <2> QED BY <1>1, <1>3, <1>7, <2>2, <2>3, <2>4, <2>5, <2>6, FoundInv
<1> QED BY <1>1, <1>5, <1>6, <1>7

LEMMA ByAddressInv ==
  ASSUME Inv, NEW r \in Requests, FindByEmail(r) \/ RegisterFinds(r) \/ LoginFinds(r) \/ ResetFinds(r)
  PROVE  Inv'
<1>1. /\ req[r].pc = "email" /\ UNCHANGED <<tables, redis, device, histories>>
      /\ req[r].kind \in {"magic", "google", "apple", "register", "login", "reset"}
  BY DEF FindByEmail, RegisterFinds, LoginFinds, ResetFinds, Looks, redis
<1>2. req[r] \in ReqRow /\ Knows(r) /\ Believes(r)
  BY DEF Inv, Typed
<1>3. ~req[r].creates /\ ~req[r].addressed /\ ~req[r].attaches /\ ~req[r].moves
  BY <1>1, <1>2 DEF Knows
<1>4. req[r].kind # "reset" => req[r].kind \in SigningIn \ {"guest"}
  BY <1>1 DEF SigningIn, Merging
<1>5. CASE Set(r, Done)
  BY <1>1, <1>5, EndInv
<1>6. ASSUME NEW u \in ByEmail, req[r].kind \in {"magic", "google", "apple"},
             Set(r, [req[r] EXCEPT !.pc = "merge", !.target = u, !.attaches = TRUE])
      PROVE  Inv'
  <2> DEFINE t == [req[r] EXCEPT !.pc = "merge", !.target = u, !.attaches = TRUE]
  <2>1. u \in Users /\ user[u].state = "active" /\ user[u].kind = "registered" /\ user[u].email
    BY ByEmailIs
  <2>2. /\ t \in ReqRow /\ t.pc = "merge" /\ t.kind = req[r].kind
        /\ t.who = req[r].who /\ t.with = req[r].with /\ t.target = u
        /\ t.creates = req[r].creates /\ t.addressed = req[r].addressed /\ t.attaches = TRUE
        /\ t.moves = req[r].moves /\ t.overlapped = req[r].overlapped
    BY <1>2, <2>1 DEF ReqRow, Places
  <2>3. Set(r, t)
    BY <1>6
  <2>4. ~t.overlapped => ~Active(identity[Provider(t.kind)])
    BY <1>1, <1>2, <1>6, <2>2 DEF Believes
  <2> HIDE DEF t
  <2> QED BY <1>1, <1>3, <1>4, <1>6, <2>1, <2>2, <2>3, <2>4, FoundInv
<1>7. ASSUME ByEmail = {}, NEW u \in Fresh, req[r].kind \in {"magic", "google", "apple", "register"},
             Set(r, NewAccount(req[r], u))
      PROVE  Inv'
  <2> DEFINE t == NewAccount(req[r], u)
  <2>1. u \in Users
    BY DEF Fresh
  <2>2. /\ t \in ReqRow /\ t.pc = "merge" /\ t.kind = req[r].kind
        /\ t.who = req[r].who /\ t.with = req[r].with /\ t.target = u
        /\ t.creates = TRUE /\ t.addressed = TRUE /\ t.attaches = TRUE
        /\ t.moves = req[r].moves /\ t.overlapped = req[r].overlapped
    BY <2>1, NewAccountIs
  <2>3. Set(r, t)
    BY <1>7
  <2> HIDE DEF t
  <2>4. ASSUME ~t.overlapped PROVE ~Active(identity[Provider(t.kind)])
    <3>1. CASE req[r].kind # "register"
      BY <1>1, <1>2, <1>7, <2>2, <2>4, <3>1 DEF Believes
    <3>2. CASE req[r].kind = "register"
      <4>1. Provider(t.kind) = "email"
        BY <2>2, <3>2 DEF Provider
      <4>2. identity["email"] \in Users \cup {None} /\ IdentityOK("email")
        BY DEF Inv, Typed, Providers
      <4>3. ASSUME Active(identity["email"]) PROVE FALSE
        BY <1>7, <4>2, <4>3 DEF Active, IdentityOK, ByEmail
      <4> QED BY <4>1, <4>3
    <3> QED BY <3>1, <3>2
  <2> QED BY <1>1, <1>3, <1>4, <1>7, <2>1, <2>2, <2>3, <2>4, FoundInv
<1>8. ASSUME NEW u \in ByEmail, NEW pc \in {"merge", "flush"}, pc = "merge" <=> req[r].kind = "login",
             pc = "flush" <=> req[r].kind = "reset",
             Set(r, [req[r] EXCEPT !.pc = pc, !.target = u])
      PROVE  Inv'
  <2> DEFINE t == [req[r] EXCEPT !.pc = pc, !.target = u]
  <2>1. u \in Users /\ user[u].state = "active" /\ user[u].kind = "registered" /\ user[u].email
    BY ByEmailIs
  <2>2. /\ t \in ReqRow /\ t.pc = pc /\ t.kind = req[r].kind
        /\ t.who = req[r].who /\ t.with = req[r].with /\ t.target = u
        /\ t.creates = req[r].creates /\ t.addressed = req[r].addressed /\ t.attaches = req[r].attaches
        /\ t.moves = req[r].moves /\ t.overlapped = req[r].overlapped
    BY <1>2, <2>1 DEF ReqRow, Places
  <2>3. Set(r, t)
    BY <1>8
  <2> HIDE DEF t
  <2>4. CASE pc = "merge"
    BY <1>1, <1>3, <1>4, <1>8, <2>1, <2>2, <2>3, <2>4, FoundInv
  <2>5. CASE pc = "flush"
    <3>1. /\ req' = [req EXCEPT ![r] = t] /\ req'[r] = t /\ unused' = unused
          /\ user' = user /\ prefs' = prefs /\ identity' = identity
      BY <1>1, <2>3 DEF Set, Inv, Typed, redis, tables
    <3>2. Knows(r)'
      BY <1>2, <1>3, <1>8, <2>1, <2>2, <2>5, <3>1 DEF Knows, Aims
    <3>3. Believes(r)' /\ FailedForAReason(r)'
      BY <1>2, <1>3, <1>8, <2>1, <2>2, <2>5, <3>1 DEF Believes, Aims, FailedForAReason, Folds, Merging
    <3> QED BY <1>1, <1>3, <2>2, <2>5, <3>1, <3>2, <3>3, Quiet
  <2> QED BY <2>4, <2>5
<1>9. HasPassword \subseteq ByEmail
  BY DEF HasPassword
<1> QED BY <1>5, <1>6, <1>7, <1>8, <1>9 DEF FindByEmail, RegisterFinds, LoginFinds, ResetFinds, Looks

LEMMA ReadPrefsInv ==
  ASSUME Inv, NEW r \in Requests, ReadPrefs(r)
  PROVE  Inv'
<1> DEFINE m == Folds(r) /\ prefs[req[r].target] = None
           t == [req[r] EXCEPT !.pc = "flush", !.moves = m]
<1>1. req[r].pc = "merge" /\ Set(r, t) /\ UNCHANGED <<tables, redis, device, histories>>
  BY DEF ReadPrefs
<1>2. req[r] \in ReqRow /\ Knows(r) /\ Believes(r)
  BY DEF Inv, Typed
<1>3. m \in BOOLEAN
  OBVIOUS
<1> HIDE DEF m
<1>4. /\ t \in ReqRow /\ t.pc = "flush" /\ t.kind = req[r].kind
      /\ t.who = req[r].who /\ t.with = req[r].with /\ t.target = req[r].target
      /\ t.creates = req[r].creates /\ t.addressed = req[r].addressed /\ t.attaches = req[r].attaches
      /\ t.moves = m /\ t.overlapped = req[r].overlapped
  BY <1>2, <1>3 DEF ReqRow, Places
<1> HIDE DEF t
<1>5. /\ req' = [req EXCEPT ![r] = t] /\ req'[r] = t /\ unused' = unused
      /\ user' = user /\ prefs' = prefs /\ identity' = identity
  BY <1>1 DEF Set, Inv, Typed, redis, tables
<1>6. Folds(r)' = Folds(r) /\ (m => Folds(r)) /\ (Folds(r) /\ ~m => prefs[req[r].target] # None)
      /\ (m => prefs[req[r].target] = None)
  BY <1>4, <1>5 DEF Folds, m
<1>7. Knows(r)'
  BY <1>1, <1>2, <1>4, <1>5, <1>6 DEF Knows, Aims
<1>8. Believes(r)' /\ FailedForAReason(r)'
  BY <1>1, <1>2, <1>4, <1>5, <1>6 DEF Believes, Aims, FailedForAReason, Active
<1> QED BY <1>1, <1>4, <1>5, <1>7, <1>8, Quiet

LEMMA ReadRowInv ==
  ASSUME Inv, NEW r \in Requests, ReadRow(r)
  PROVE  Inv'
<1> DEFINE t == [req[r] EXCEPT !.pc = "flush", !.target = req[r].who]
<1>1. /\ req[r].pc = "row" /\ Active(req[r].who) /\ Set(r, t)
      /\ UNCHANGED <<tables, redis, device, histories>>
  BY DEF ReadRow
<1>2. req[r] \in ReqRow /\ Knows(r) /\ Believes(r)
  BY DEF Inv, Typed
<1>3. /\ t \in ReqRow /\ t.pc = "flush" /\ t.kind = req[r].kind
      /\ t.who = req[r].who /\ t.with = req[r].with /\ t.target = req[r].who
      /\ t.creates = req[r].creates /\ t.addressed = req[r].addressed /\ t.attaches = req[r].attaches
      /\ t.moves = req[r].moves /\ t.overlapped = req[r].overlapped
  BY <1>2 DEF ReqRow, Places
<1> HIDE DEF t
<1>4. /\ req' = [req EXCEPT ![r] = t] /\ req'[r] = t /\ unused' = unused
      /\ user' = user /\ prefs' = prefs /\ identity' = identity
  BY <1>1 DEF Set, Inv, Typed, redis, tables
<1>5. req[r].who \in Users /\ user[req[r].who].state = "active"
      /\ req[r].kind \in {"profile", "delete"}
  BY <1>1, <1>2 DEF Active, ReqRow, Knows
<1>6. Knows(r)'
  BY <1>1, <1>2, <1>3, <1>4, <1>5 DEF Knows, Aims, SigningIn, Merging
<1>7. Believes(r)' /\ FailedForAReason(r)'
  BY <1>1, <1>2, <1>3, <1>4, <1>5 DEF Believes, Knows, Aims, FailedForAReason, Folds, Merging
<1>8. ~t.creates
  BY <1>1, <1>2, <1>3 DEF Knows
<1> QED BY <1>1, <1>3, <1>4, <1>6, <1>7, <1>8, Quiet

(* Where the row is gone a deletion still ends the session                 *)
LEMMA NoRowInv ==
  ASSUME Inv, NEW r \in Requests, NoRow(r)
  PROVE  Inv'
<1>1. /\ req[r].pc = "row" /\ Set(r, Done)
      /\ UNCHANGED <<tables, unused, token, histories>>
      /\ \/ session' = session
         \/ session' = [session EXCEPT ![req[r].with] = None]
      /\ \/ device' = device
         \/ device' = [device EXCEPT ![req[r].device] = Signed]
  <2>1. CASE req[r].kind = "delete"
    BY <2>1 DEF NoRow, Received, SigningIn
  <2>2. CASE req[r].kind # "delete"
    BY <2>2 DEF NoRow
  <2> QED BY <2>1, <2>2
<1>2. /\ req' = [req EXCEPT ![r] = Done] /\ req'[r] = Done
      /\ \A q \in Requests \ {r} : req'[q] = req[q]
      /\ user' = user /\ prefs' = prefs /\ identity' = identity /\ unused' = unused
      /\ token' = token /\ uses' = uses /\ shared' = shared /\ ended' = ended /\ crossed' = crossed
  BY <1>1 DEF Set, Inv, Typed, tables, histories
<1>3. None \notin unused
  BY AccountsAssumption DEF Inv, Typed
<1>4. Knows(r)' /\ Believes(r)' /\ Holds(r)' /\ FailedForAReason(r)'
  BY <1>2, <1>3, DoneIs DEF Knows, Aims, Believes, Holds, Flushed, FailedForAReason
<1>5. /\ session' \in [Sids -> Users \cup {None}]
      /\ \A s \in Sids : session'[s] = session[s] \/ session'[s] = None
  BY <1>1 DEF Inv, Typed
<1>6. Signed \in [cookie : Sids \cup {None}, bearer : Sids \cup {None}]
      /\ Signed.cookie = None /\ Signed.bearer = None
  BY DEF Signed
<1>7. /\ device' \in [Devices -> [cookie : Sids \cup {None}, bearer : Sids \cup {None}]]
      /\ \A d \in Devices : device'[d] = device[d] \/ device'[d] = Signed
  BY <1>1, <1>6 DEF Inv, Typed
<1>8. SessionsOK'
  <2>1. SessionsOK /\ unused \subseteq Sids
    BY DEF Inv, Typed
  <2>2. \A s \in unused : session'[s] = None
    BY <1>5, <2>1 DEF SessionsOK
  <2>3. \A s \in ended \ crossed : session'[s] = None
    BY <1>5, <2>1 DEF SessionsOK
  <2>4. \A d \in Devices : device'[d].cookie \notin unused /\ device'[d].bearer \notin unused
    BY <1>3, <1>6, <1>7, <2>1 DEF SessionsOK
  <2> QED BY <1>2, <2>1, <2>2, <2>3, <2>4 DEF SessionsOK
<1>9. ASSUME NEW x \in Tokens PROVE TokenOK(x)'
  <2>1. TokenOK(x) /\ \A q \in Requests : Spends(q, x)' => Spends(q, x)
    BY <1>2, DoneIs DEF Inv, Spends
  <2> QED BY <1>2, <2>1 DEF TokenOK
<1>10. ASSUME NEW q \in Requests \ {r} PROVE Apart(r, q)'
  BY <1>2, DoneIs DEF Apart, Flushed
<1>11. /\ unused' \subseteq unused /\ UNCHANGED <<tables, raced, answered>>
       /\ token' \in [Tokens -> {"none", "live", "gone"}] /\ uses' \in [Tokens -> Nat]
  BY <1>1, <1>2 DEF Inv, Typed, histories
<1> QED BY <1>2, <1>4, <1>5, <1>7, <1>8, <1>9, <1>10, <1>11, DoneIs, OneRequestAnswered

LEMMA AbortInv ==
  ASSUME Inv, NEW r \in Requests, Abort(r)
  PROVE  Inv'
BY EndInv DEF Abort

-----------------------------------------------------------------------------
(* Single-use tokens                                                       *)
LEMMA ReadTokenInv ==
  ASSUME Inv, NEW r \in Requests, ReadToken(r)
  PROVE  Inv'
<1> DEFINE k == TokenOf(req[r].kind)
           others == {q \in Requests \ {r} : req[q].pc = "spend" /\ TokenOf(req[q].kind) = k}
           t == IF token[k] = "live" THEN [req[r] EXCEPT !.pc = "spend"] ELSE Done
<1>1. /\ req[r].pc = "token" /\ req' = [req EXCEPT ![r] = t]
      /\ shared' = IF token[k] = "live" /\ others # {} THEN shared \cup {k} ELSE shared
      /\ UNCHANGED <<tables, redis, device, uses, raced, answered, ended, crossed>>
  BY DEF ReadToken, Goto, Set, Inv, Typed
<1>2. req[r] \in ReqRow /\ Knows(r) /\ Believes(r)
  BY DEF Inv, Typed
<1>3. CASE token[k] = "live"
  <2> DEFINE n == [req[r] EXCEPT !.pc = "spend"]
  <2>1. /\ n \in ReqRow /\ n.pc = "spend" /\ n.kind = req[r].kind
        /\ n.who = req[r].who /\ n.with = req[r].with /\ n.target = req[r].target
        /\ n.creates = req[r].creates /\ n.addressed = req[r].addressed /\ n.attaches = req[r].attaches
        /\ n.moves = req[r].moves /\ n.overlapped = req[r].overlapped
    BY MovesOn DEF Places
  <2>2. req' = [req EXCEPT ![r] = n]
    BY <1>1, <1>3
  <2> HIDE DEF n, t
  <2>3. /\ req'[r] = n /\ \A q \in Requests \ {r} : req'[q] = req[q]
        /\ user' = user /\ prefs' = prefs /\ identity' = identity /\ device' = device
        /\ session' = session /\ unused' = unused /\ token' = token /\ uses' = uses
        /\ ended' = ended /\ crossed' = crossed
    BY <1>1, <2>2 DEF Inv, Typed, tables, redis
  <2>4. Knows(r)' /\ Believes(r)' /\ Holds(r)' /\ FailedForAReason(r)'
    <3>1. Knows(r)'
      BY <1>1, <1>2, <2>1, <2>3 DEF Knows, Aims
    <3>2. Believes(r)'
      BY <1>1, <1>2, <2>1, <2>3 DEF Knows, Believes, Aims
    <3> QED BY <2>1, <2>3, <3>1, <3>2 DEF Holds, Flushed, FailedForAReason
  <2>5. SessionsOK'
    BY <2>3 DEF Inv, SessionsOK
  <2>6. ASSUME NEW x \in Tokens PROVE TokenOK(x)'
    <3>1. TokenOK(x) /\ uses[x] \in Nat /\ shared \subseteq shared'
      BY <1>1 DEF Inv, Typed
    <3>2. \A q \in Requests \ {r} : Spends(q, x)' = Spends(q, x)
      BY <2>3 DEF Spends
    <3>3. Spends(r, x)' <=> x = k
      BY <2>1, <2>3 DEF Spends
    <3>4. CASE x # k
      <4>1. \A q \in Requests : Spends(q, x)' => Spends(q, x)
        BY <3>2, <3>3, <3>4
      <4> QED BY <2>3, <3>1, <4>1 DEF TokenOK
    <3>5. CASE x = k
      <4>1. uses[x] = 0
        BY <1>3, <3>1, <3>5 DEF TokenOK
      <4>2. x \notin shared' => \A q \in Requests \ {r} : ~Spends(q, x)'
        BY <1>1, <1>3, <3>2, <3>5 DEF Spends
      <4> QED BY <2>3, <3>1, <4>1, <4>2 DEF TokenOK
    <3> QED BY <3>4, <3>5
  <2>7. \A q \in Requests \ {r} : Apart(r, q)'
    BY <1>1, <1>2, <2>1, <2>3 DEF Apart, Knows, Aims, Flushed
  <2>8. /\ session' \in [Sids -> Users \cup {None}] /\ unused' \subseteq unused
        /\ token' \in [Tokens -> {"none", "live", "gone"}] /\ uses' \in [Tokens -> Nat]
        /\ UNCHANGED Rest
    BY <1>1, <2>3 DEF Inv, Typed, Rest
  <2> QED BY <2>1, <2>2, <2>4, <2>5, <2>6, <2>7, <2>8, OneRequest
<1>4. CASE token[k] # "live"
  <2>1. Set(r, Done) /\ UNCHANGED <<tables, redis, device, histories>>
    BY <1>1, <1>4 DEF Set, histories
  <2> QED BY <2>1, EndInv
<1> QED BY <1>3, <1>4

LEMMA SpendTokenInv ==
  ASSUME Inv, NEW r \in Requests, SpendToken(r)
  PROVE  Inv'
<1> DEFINE k == TokenOf(req[r].kind)
           n == [req[r] EXCEPT !.pc = IF req[r].kind = "reset" THEN "email" ELSE "identity"]
<1>1. /\ req[r].pc = "spend"
      /\ token' = [token EXCEPT ![k] = "gone"] /\ uses' = [uses EXCEPT ![k] = @ + 1]
      /\ req' = [req EXCEPT ![r] = n] \/ req' = [req EXCEPT ![r] = Done]
      /\ UNCHANGED <<tables, session, unused, device, shared, raced, answered, ended, crossed>>
  BY DEF SpendToken, Goto, Set, Inv, Typed
<1>2. req[r] \in ReqRow /\ Knows(r) /\ Believes(r)
  BY DEF Inv, Typed
<1>3. k \in Tokens
  BY DEF TokenOf, Tokens
<1>4. PICK t \in {n, Done} : req' = [req EXCEPT ![r] = t]
  BY <1>1
<1>5. ASSUME t # Done
      PROVE  /\ t \in ReqRow /\ t.pc = (IF req[r].kind = "reset" THEN "email" ELSE "identity")
             /\ t.kind = req[r].kind
             /\ t.who = req[r].who /\ t.with = req[r].with /\ t.target = req[r].target
             /\ t.creates = req[r].creates /\ t.addressed = req[r].addressed
             /\ t.attaches = req[r].attaches
             /\ t.moves = req[r].moves /\ t.overlapped = req[r].overlapped
  <2>1. t = n
    BY <1>4, <1>5
  <2>2. (IF req[r].kind = "reset" THEN "email" ELSE "identity") \in Places
    BY DEF Places
  <2> QED BY <2>1, <2>2, MovesOn
<1> HIDE DEF n
<1>6. /\ req'[r] = t /\ \A q \in Requests \ {r} : req'[q] = req[q]
      /\ user' = user /\ prefs' = prefs /\ identity' = identity /\ device' = device
      /\ session' = session /\ unused' = unused /\ shared' = shared
      /\ ended' = ended /\ crossed' = crossed
  BY <1>1, <1>4 DEF Inv, Typed, tables
<1>7. None \notin unused
  BY AccountsAssumption DEF Inv, Typed
<1>8. t \in ReqRow /\ Knows(r)' /\ Believes(r)' /\ Holds(r)' /\ FailedForAReason(r)'
      /\ t.pc \notin {"spend", "redis", "commit"} /\ ~t.creates
  <2>1. CASE t = Done
    <3>1. Knows(r)'
      BY <1>6, <1>7, <2>1, DoneIs DEF Knows, Aims
    <3> QED BY <1>6, <2>1, <3>1, DoneIs DEF Believes, Aims, Holds, Flushed, FailedForAReason
  <2>2. CASE t # Done
    <3>0. req[r].kind # "reset" => req[r].kind \in {"magic", "google"}
      BY <1>1, <1>2 DEF Knows, Consuming
    <3>1. Knows(r)'
      BY <1>1, <1>2, <1>5, <1>6, <2>2, <3>0 DEF Knows, Aims
    <3>2. Believes(r)'
      BY <1>1, <1>2, <1>5, <1>6, <2>2 DEF Knows, Believes, Aims
    <3>3. ~t.creates
      BY <1>1, <1>2, <1>5, <2>2 DEF Knows
    <3> QED BY <1>5, <1>6, <2>2, <3>1, <3>2, <3>3 DEF Holds, Flushed, FailedForAReason
  <2> QED BY <2>1, <2>2
<1>9. SessionsOK'
  BY <1>6 DEF Inv, SessionsOK
<1>10. ASSUME NEW x \in Tokens PROVE TokenOK(x)'
  <2>1. TokenOK(x) /\ uses[x] \in Nat /\ TokenOK(k)
    BY <1>3 DEF Inv, Typed
  <2>2. \A q \in Requests : Spends(q, x)' => q # r /\ Spends(q, x)
    BY <1>6, <1>8 DEF Spends
  <2>3. CASE x # k
    <3>1. token'[x] = token[x] /\ uses'[x] = uses[x]
      BY <1>1, <2>3 DEF Inv, Typed
    <3> QED BY <1>6, <2>1, <2>2, <3>1 DEF TokenOK
  <2>4. CASE x = k
    <3>1. token'[x] = "gone" /\ uses'[x] = uses[x] + 1
      BY <1>1, <2>4 DEF Inv, Typed
    <3>2. Spends(r, x)
      BY <1>1, <2>4 DEF Spends
    <3>3. x \notin shared => uses[x] = 0 /\ \A q \in Requests : ~Spends(q, x)'
      BY <2>1, <2>2, <3>2 DEF TokenOK
    <3> QED BY <1>6, <2>1, <3>1, <3>3 DEF TokenOK
  <2> QED BY <2>3, <2>4
<1>11. \A q \in Requests \ {r} : Apart(r, q)'
  BY <1>6, <1>8 DEF Apart, Flushed
<1>12. /\ session' \in [Sids -> Users \cup {None}] /\ unused' \subseteq unused
       /\ token' \in [Tokens -> {"none", "live", "gone"}] /\ uses' \in [Tokens -> Nat]
       /\ UNCHANGED Rest
  BY <1>1, <1>3, <1>6 DEF Inv, Typed, Rest
<1> QED BY <1>4, <1>8, <1>9, <1>10, <1>11, <1>12, OneRequest

LEMMA ForgotFindsInv ==
  ASSUME Inv, NEW r \in Requests, ForgotFinds(r)
  PROVE  Inv'
<1>1. /\ req' = [req EXCEPT ![r] = Done]
      /\ \/ token' = token
         \/ token["reset"] = "none" /\ token' = [token EXCEPT !["reset"] = "live"]
      /\ UNCHANGED <<tables, session, unused, device, histories>>
  BY DEF ForgotFinds, Set, Looks
<1>2. /\ req'[r] = Done /\ \A q \in Requests \ {r} : req'[q] = req[q]
      /\ user' = user /\ prefs' = prefs /\ identity' = identity /\ device' = device
      /\ session' = session /\ unused' = unused /\ uses' = uses /\ shared' = shared
      /\ ended' = ended /\ crossed' = crossed
  BY <1>1 DEF Inv, Typed, tables, histories
<1>3. None \notin unused
  BY AccountsAssumption DEF Inv, Typed
<1>4. Knows(r)'
  BY <1>2, <1>3, DoneIs DEF Knows, Aims
<1>5. Believes(r)' /\ Holds(r)' /\ FailedForAReason(r)'
  BY <1>2, DoneIs DEF Believes, Aims, Holds, Flushed, FailedForAReason
<1>6. SessionsOK'
  BY <1>2 DEF Inv, SessionsOK
<1>7. ASSUME NEW x \in Tokens PROVE TokenOK(x)'
  <2>1. TokenOK(x) /\ uses[x] \in Nat
    BY DEF Inv, Typed
  <2>2. \A q \in Requests : Spends(q, x)' => Spends(q, x)
    BY <1>2, DoneIs DEF Spends
  <2>3. uses[x] > 0 => token'[x] = "gone"
    BY <1>1, <2>1 DEF TokenOK, Inv, Typed, Tokens
  <2> QED BY <1>2, <2>1, <2>2, <2>3 DEF TokenOK
<1>8. \A q \in Requests \ {r} : Apart(r, q)'
  BY <1>2, DoneIs DEF Apart, Flushed
<1>9. /\ session' \in [Sids -> Users \cup {None}] /\ unused' \subseteq unused
      /\ token' \in [Tokens -> {"none", "live", "gone"}] /\ uses' \in [Tokens -> Nat]
      /\ UNCHANGED Rest
  BY <1>1, <1>2 DEF Inv, Typed, Rest, histories
<1> QED BY <1>1, <1>4, <1>5, <1>6, <1>7, <1>8, <1>9, DoneIs, OneRequest

-----------------------------------------------------------------------------
(* What happens to tokens, sessions and clients between requests           *)
LEMMA NoRequest ==
  ASSUME Inv, UNCHANGED <<tables, unused, req, uses, shared, raced, answered>>,
         session' \in [Sids -> Users \cup {None}],
         token' \in [Tokens -> {"none", "live", "gone"}],
         device' \in [Devices -> [cookie : Sids \cup {None}, bearer : Sids \cup {None}]],
         \A t \in Tokens : token'[t] = token[t] \/ token[t] = "none" \/ token'[t] = "gone",
         SessionsOK'
  PROVE  Inv'
<1>1. /\ user' = user /\ identity' = identity /\ prefs' = prefs /\ unused' = unused
      /\ req' = req /\ uses' = uses /\ shared' = shared /\ raced' = raced /\ answered' = answered
  BY DEF tables
<1>2. Typed'
  BY <1>1 DEF Inv, Typed
<1>3. (\A u \in Users : RowOK(u)') /\ OneAddress' /\ \A p \in Providers : IdentityOK(p)'
  BY <1>1 DEF Inv, RowOK, OneAddress, IdentityOK
<1>4. ASSUME NEW t \in Tokens PROVE TokenOK(t)'
  <2>1. TokenOK(t) /\ uses[t] \in Nat /\ \A q \in Requests : Spends(q, t)' = Spends(q, t)
    BY <1>1 DEF Inv, Typed, Spends
  <2> QED BY <1>1, <2>1 DEF TokenOK
<1>5. ASSUME NEW r \in Requests
      PROVE  Knows(r)' /\ Believes(r)' /\ Holds(r)' /\ FailedForAReason(r)'
  <2>1. Knows(r) /\ Believes(r) /\ Holds(r) /\ FailedForAReason(r)
    BY DEF Inv
  <2>2. Folds(r)' = Folds(r) /\ Aims(r)' = Aims(r) /\ (r \in Flushed)' = (r \in Flushed)
        /\ HasEmail(r)' = HasEmail(r) /\ \A u : Active(u)' = Active(u)
    BY <1>1 DEF Folds, Aims, Flushed, HasEmail, Active
  <2>3. Knows(r)'
    BY <1>1, <2>1, <2>2 DEF Knows
  <2>4. Believes(r)'
    BY <1>1, <2>1, <2>2 DEF Believes
  <2> QED BY <1>1, <2>1, <2>2, <2>3, <2>4 DEF Holds, FailedForAReason
<1>6. ASSUME NEW r \in Requests, NEW q \in Requests PROVE Apart(r, q)'
  BY <1>1 DEF Inv, Apart, Flushed, HasEmail, Touches
<1> QED BY <1>2, <1>3, <1>4, <1>5, <1>6 DEF Inv

LEMMA IssueTokenInv ==
  ASSUME Inv, NEW t \in Tokens, IssueToken(t)
  PROVE  Inv'
<1>1. /\ token[t] = "none" /\ token' = [token EXCEPT ![t] = "live"]
      /\ UNCHANGED <<tables, session, unused, device, req, histories>>
  BY DEF IssueToken
<1>2. SessionsOK'
  BY <1>1 DEF Inv, SessionsOK, histories
<1>3. /\ session' \in [Sids -> Users \cup {None}] /\ token' \in [Tokens -> {"none", "live", "gone"}]
      /\ device' \in [Devices -> [cookie : Sids \cup {None}, bearer : Sids \cup {None}]]
      /\ \A x \in Tokens : token'[x] = token[x] \/ token[x] = "none" \/ token'[x] = "gone"
  BY <1>1 DEF Inv, Typed
<1>4. UNCHANGED <<tables, unused, req, uses, shared, raced, answered>>
  BY <1>1 DEF histories
<1> QED BY <1>2, <1>3, <1>4, NoRequest

LEMMA ExpireInv ==
  ASSUME Inv, Expire
  PROVE  Inv'
<1>1. /\ \/ session' = session
         \/ \E s \in Sids : session' = [session EXCEPT ![s] = None]
      /\ \/ token' = token
         \/ \E t \in Tokens : token' = [token EXCEPT ![t] = "gone"]
      /\ UNCHANGED <<tables, unused, device, req, histories>>
  BY DEF Expire
<1>2. /\ session' \in [Sids -> Users \cup {None}] /\ token' \in [Tokens -> {"none", "live", "gone"}]
      /\ device' \in [Devices -> [cookie : Sids \cup {None}, bearer : Sids \cup {None}]]
      /\ \A x \in Tokens : token'[x] = token[x] \/ token[x] = "none" \/ token'[x] = "gone"
      /\ \A s \in Sids : session'[s] = session[s] \/ session'[s] = None
  BY <1>1 DEF Inv, Typed
<1>3. SessionsOK'
  <2>1. /\ unused' = unused /\ device' = device /\ ended' = ended /\ crossed' = crossed
        /\ unused \subseteq Sids /\ session \in [Sids -> Users \cup {None}] /\ SessionsOK
    BY <1>1 DEF histories, Inv, Typed
  <2>2. \A s : s \in ended \ crossed => session'[s] = None
    BY <1>1, <1>2, <2>1 DEF SessionsOK
  <2>3. \A s \in unused : session'[s] = None
    BY <1>2, <2>1 DEF SessionsOK
  <2> QED BY <2>1, <2>2, <2>3 DEF SessionsOK
<1>4. UNCHANGED <<tables, unused, req, uses, shared, raced, answered>>
  BY <1>1 DEF histories
<1> QED BY <1>2, <1>3, <1>4, NoRequest

LEMMA LogoutInv ==
  ASSUME Inv, NEW d \in Devices, Logout(d)
  PROVE  Inv'
<1>1. /\ SidOf(d) # None
      /\ session' = [s \in Sids |-> IF s = LoggedOut(d) THEN None ELSE session[s]]
      /\ device' = [device EXCEPT ![d] = Signed]
      /\ ended' = ended \cup {SidOf(d)}
      /\ crossed' = IF device[d].cookie \notin {None, SidOf(d)} THEN crossed \cup {SidOf(d)} ELSE crossed
      /\ UNCHANGED <<tables, unused, token, req, uses, shared, raced, answered>>
  BY DEF Logout
<1>2. SidOf(d) \in Sids /\ SidOf(d) \notin unused
  BY <1>1, ContextIs
<1>3. /\ session' \in [Sids -> Users \cup {None}] /\ token' \in [Tokens -> {"none", "live", "gone"}]
      /\ \A x \in Tokens : token'[x] = token[x] \/ token[x] = "none" \/ token'[x] = "gone"
  BY <1>1 DEF Inv, Typed
<1>4. Signed \in [cookie : Sids \cup {None}, bearer : Sids \cup {None}]
      /\ Signed.cookie = None /\ Signed.bearer = None
  BY DEF Signed
<1>5. /\ device' \in [Devices -> [cookie : Sids \cup {None}, bearer : Sids \cup {None}]]
      /\ \A e \in Devices : device'[e] = IF e = d THEN Signed ELSE device[e]
  BY <1>1, <1>4 DEF Inv, Typed
<1>6. SessionsOK'
  <2>1. unused' = unused /\ unused \subseteq Sids /\ None \notin unused /\ SessionsOK
        /\ ended \subseteq ended' /\ crossed \subseteq crossed'
    BY <1>1, AccountsAssumption DEF Inv, Typed
  <2>2. \A s \in unused : session'[s] = None
    BY <1>1, <2>1 DEF SessionsOK
  <2>3. \A e \in Devices : device'[e].cookie \notin unused /\ device'[e].bearer \notin unused
    BY <1>4, <1>5, <2>1 DEF SessionsOK
  <2>4. ended' \subseteq Sids \ unused
    BY <1>1, <1>2, <2>1 DEF SessionsOK
  <2>5. SidOf(d) \notin crossed' => LoggedOut(d) = SidOf(d)
    BY <1>1 DEF LoggedOut, SidOf
  <2>6. ASSUME NEW s \in ended' \ crossed' PROVE session'[s] = None
    <3>1. CASE s = SidOf(d)
      BY <1>1, <1>2, <2>5, <3>1
    <3>2. CASE s # SidOf(d)
      <4>1. s \in ended \ crossed /\ session[s] = None
        BY <1>1, <2>1, <3>2 DEF SessionsOK
      <4>2. s \in Sids
        BY <2>1, <4>1 DEF SessionsOK
      <4> QED BY <1>1, <4>1, <4>2
    <3> QED BY <3>1, <3>2
  <2> QED BY <2>1, <2>2, <2>3, <2>4, <2>6 DEF SessionsOK
<1> QED BY <1>1, <1>3, <1>5, <1>6, NoRequest

-----------------------------------------------------------------------------
(* A flush waits for the rows and keys of other flushed requests, so what  *)
(* two flushed requests have written never meets                           *)
LEMMA FlushInv ==
  ASSUME Inv, NEW r \in Requests, Flush(r)
  PROVE  Inv'
<1> DEFINE m == Moves(r)
           c == Conflicts(r)
           pc == IF c THEN "error"
                 ELSE IF req[r].kind \in SigningIn \cup {"delete"} THEN "redis" ELSE "commit"
           t == [req[r] EXCEPT !.moves = m, !.pc = pc]
<1>1. /\ req[r].pc = "flush" /\ ~Blocked(r) /\ req' = [req EXCEPT ![r] = t]
      /\ UNCHANGED <<tables, redis, device, histories>>
  BY DEF Flush, Set
<1>2. req[r] \in ReqRow /\ Knows(r) /\ Believes(r)
  BY DEF Inv, Typed
<1>3. m \in BOOLEAN /\ (m => req[r].moves /\ prefs[req[r].who] # None)
      /\ (~m => ~req[r].moves \/ prefs[req[r].who] = None)
  BY <1>2 DEF Moves, ReqRow
<1>4. pc \in Places /\ pc \in {"error", "redis", "commit"} /\ (pc = "error" <=> c)
  BY DEF Places
<1>5. (c => \/ HasEmail(r) /\ \E u \in Users : user[u].email
            \/ req[r].attaches /\ identity[Provider(req[r].kind)] # None
            \/ m /\ prefs[req[r].target] # None)
      /\ (~c => /\ HasEmail(r) => \A u \in Users : ~user[u].email
                /\ m => prefs[req[r].target] = None)
  BY DEF Conflicts
<1> HIDE DEF m, c, pc
<1>6. /\ t \in ReqRow /\ t.pc = pc /\ t.kind = req[r].kind
      /\ t.who = req[r].who /\ t.with = req[r].with /\ t.target = req[r].target
      /\ t.creates = req[r].creates /\ t.addressed = req[r].addressed /\ t.attaches = req[r].attaches
      /\ t.moves = m /\ t.overlapped = req[r].overlapped
  BY <1>2, <1>3, <1>4 DEF ReqRow
<1> HIDE DEF t
<1>7. /\ req'[r] = t /\ \A q \in Requests \ {r} : req'[q] = req[q]
      /\ user' = user /\ prefs' = prefs /\ identity' = identity /\ device' = device
      /\ session' = session /\ unused' = unused /\ token' = token /\ uses' = uses
      /\ shared' = shared /\ ended' = ended /\ crossed' = crossed
  BY <1>1 DEF Inv, Typed, tables, redis, histories
<1>8. Folds(r)' = Folds(r) /\ HasEmail(r)' = HasEmail(r)
  BY <1>6, <1>7 DEF Folds, HasEmail
<1>9. Knows(r)'
  BY <1>1, <1>2, <1>3, <1>4, <1>6, <1>7, <1>8 DEF Knows, Aims
<1>10. Believes(r)'
  BY <1>1, <1>2, <1>3, <1>4, <1>6, <1>7, <1>8 DEF Believes, Aims, Active
<1>11. Holds(r)'
  BY <1>3, <1>4, <1>5, <1>6, <1>7, <1>8 DEF Holds, Flushed
<1>12. FailedForAReason(r)'
  <2> SUFFICES ASSUME c, ~req[r].overlapped
               PROVE  identity[Provider(req[r].kind)] # None /\ ~Active(identity[Provider(req[r].kind)])
    BY <1>4, <1>6, <1>7 DEF FailedForAReason, Active
  <2>1. ~(HasEmail(r) /\ \E u \in Users : user[u].email)
    BY <1>2 DEF Believes, HasEmail
  <2>2. ~(m /\ prefs[req[r].target] # None)
    BY <1>2, <1>3 DEF Believes
  <2>3. req[r].attaches => ~Active(identity[Provider(req[r].kind)])
    BY <1>2 DEF Believes
  <2> QED BY <1>5, <2>1, <2>2, <2>3
<1>13. SessionsOK'
  BY <1>7 DEF Inv, SessionsOK
<1>14. ASSUME NEW x \in Tokens PROVE TokenOK(x)'
  <2>1. TokenOK(x) /\ \A q \in Requests : Spends(q, x)' => Spends(q, x)
    BY <1>4, <1>6, <1>7 DEF Inv, Spends
  <2> QED BY <1>7, <2>1 DEF TokenOK
<1>15. ASSUME NEW q \in Requests \ {r} PROVE Apart(r, q)'
  <2>1. Apart(r, q) /\ Holds(q) /\ req'[q] = req[q]
    BY <1>7 DEF Inv
  <2>2. (q \in Flushed)' = (q \in Flushed) /\ HasEmail(q)' = HasEmail(q) /\ Touches(q)' = Touches(q)
    BY <2>1 DEF Flushed, HasEmail, Touches
  <2>3. CASE q \in Flushed
    <3>1. Locks(q) \cap Locks(r) = {}
      BY <1>1, <2>3 DEF Blocked
    <3>2. ~(HasEmail(r) /\ HasEmail(q))
      BY <3>1 DEF Locks
    <3>3. \A x \in Touches(q) : <<"prefs", x>> \in Locks(q)
      <4>1. req[q].moves => Moves(q)
        BY <2>1, <2>3 DEF Holds, Moves
      <4> QED BY <4>1 DEF Touches, Locks
    <3>4. \A x \in Touches(r)' : <<"prefs", x>> \in Locks(r)
      <4>1. req'[r].moves = Moves(r) /\ req'[r].kind = req[r].kind
            /\ req'[r].who = req[r].who /\ req'[r].target = req[r].target
        BY <1>6, <1>7 DEF m
      <4> QED BY <4>1 DEF Touches, Locks
    <3>5. Touches(r)' \cap Touches(q) = {}
      BY <3>1, <3>3, <3>4
    <3>6. ~(req'[r].creates /\ req'[q].creates /\ req'[r].target = req'[q].target)
      BY <1>6, <1>7, <2>1 DEF Apart
    <3> QED BY <1>8, <2>2, <3>2, <3>5, <3>6 DEF Apart
  <2>4. CASE q \notin Flushed
    BY <1>6, <1>7, <2>1, <2>2, <2>4 DEF Apart
  <2> QED BY <2>3, <2>4
<1>16. /\ session' \in [Sids -> Users \cup {None}] /\ unused' \subseteq unused
       /\ token' \in [Tokens -> {"none", "live", "gone"}] /\ uses' \in [Tokens -> Nat]
       /\ UNCHANGED Rest
  BY <1>1, <1>7 DEF Inv, Typed, Rest, histories
<1> QED BY <1>1, <1>6, <1>9, <1>10, <1>11, <1>12, <1>13, <1>14, <1>15, <1>16, OneRequest

LEMMA RedisInv ==
  ASSUME Inv, NEW r \in Requests, Redis(r)
  PROVE  Inv'
<1>1. req[r].pc = "redis" /\ UNCHANGED <<tables, token, device, histories>>
  BY DEF Redis
<1>2. req[r] \in ReqRow /\ Knows(r) /\ Believes(r) /\ Holds(r) /\ req[r].target \in Users
  BY <1>1 DEF Inv, Typed, Knows, Aims
<1>3. PICK t \in ReqRow :
        /\ req' = [req EXCEPT ![r] = t] /\ t.pc = "commit" /\ t.kind = req[r].kind
        /\ t.who = req[r].who /\ t.target = req[r].target
        /\ t.creates = req[r].creates /\ t.addressed = req[r].addressed /\ t.attaches = req[r].attaches
        /\ t.moves = req[r].moves /\ t.overlapped = req[r].overlapped
        /\ \/ /\ t.with = req[r].with /\ unused' = unused
              /\ session' = [session EXCEPT ![req[r].with] = None]
           \/ \E s \in unused : /\ t.with = s /\ unused' = unused \ {s}
                                /\ session' = [session EXCEPT ![s] = req[r].target]
  <2>1. CASE req[r].kind = "delete"
    <3> DEFINE n == [req[r] EXCEPT !.pc = "commit"]
    <3>1. n \in ReqRow /\ n.pc = "commit" /\ n.kind = req[r].kind
          /\ n.who = req[r].who /\ n.with = req[r].with /\ n.target = req[r].target
          /\ n.creates = req[r].creates /\ n.addressed = req[r].addressed /\ n.attaches = req[r].attaches
          /\ n.moves = req[r].moves /\ n.overlapped = req[r].overlapped
      BY MovesOn DEF Places
    <3>2. req' = [req EXCEPT ![r] = n] /\ unused' = unused
          /\ session' = [session EXCEPT ![req[r].with] = None]
      BY <2>1 DEF Redis, Goto, Inv, Typed
    <3> HIDE DEF n
    <3> QED BY <3>1, <3>2
  <2>2. CASE req[r].kind # "delete"
    <3>1. PICK s \in unused : /\ session' = [session EXCEPT ![s] = req[r].target]
                              /\ unused' = unused \ {s}
                              /\ Set(r, [req[r] EXCEPT !.pc = "commit", !.with = s])
      BY <2>2 DEF Redis
    <3> DEFINE n == [req[r] EXCEPT !.pc = "commit", !.with = s]
    <3>2. n \in ReqRow /\ n.pc = "commit" /\ n.kind = req[r].kind
          /\ n.who = req[r].who /\ n.with = s /\ n.target = req[r].target
          /\ n.creates = req[r].creates /\ n.addressed = req[r].addressed /\ n.attaches = req[r].attaches
          /\ n.moves = req[r].moves /\ n.overlapped = req[r].overlapped
      BY <1>2 DEF Places, ReqRow, Inv, Typed
    <3>3. req' = [req EXCEPT ![r] = n]
      BY <3>1 DEF Set
    <3> HIDE DEF n
    <3> QED BY <3>1, <3>2, <3>3
  <2> QED BY <2>1, <2>2
<1>4. /\ req'[r] = t /\ \A q \in Requests \ {r} : req'[q] = req[q]
      /\ user' = user /\ prefs' = prefs /\ identity' = identity /\ device' = device
      /\ token' = token /\ uses' = uses /\ shared' = shared /\ ended' = ended /\ crossed' = crossed
      /\ unused' \subseteq unused /\ t.with \notin unused'
  BY <1>1, <1>2, <1>3 DEF Inv, Typed, tables, histories, Knows
<1>5. Folds(r)' = Folds(r) /\ HasEmail(r)' = HasEmail(r) /\ Touches(r)' = Touches(r)
      /\ r \in Flushed
  BY <1>1, <1>3, <1>4 DEF Folds, HasEmail, Touches, Flushed
<1>6. Knows(r)'
  BY <1>1, <1>2, <1>3, <1>4, <1>5 DEF Knows, Aims
<1>7. Believes(r)'
  BY <1>1, <1>2, <1>3, <1>4, <1>5 DEF Believes, Aims, Active
<1>8. Holds(r)' /\ FailedForAReason(r)'
  BY <1>2, <1>3, <1>4, <1>5 DEF Holds, FailedForAReason
<1>9. session' \in [Sids -> Users \cup {None}] /\ unused' \subseteq Sids
  BY <1>2, <1>3 DEF Inv, Typed
<1>10. SessionsOK'
  <2>1. SessionsOK /\ unused \subseteq Sids /\ session \in [Sids -> Users \cup {None}]
    BY DEF Inv, Typed
  <2>2. \A s \in unused' : session'[s] = None
    BY <1>3, <2>1 DEF SessionsOK
  <2>3. \A s \in ended \ crossed : session'[s] = None
    BY <1>3, <2>1 DEF SessionsOK
  <2> QED BY <1>4, <2>1, <2>2, <2>3 DEF SessionsOK
<1>11. ASSUME NEW x \in Tokens PROVE TokenOK(x)'
  <2>1. TokenOK(x) /\ \A q \in Requests : Spends(q, x)' => Spends(q, x)
    BY <1>3, <1>4 DEF Inv, Spends
  <2> QED BY <1>4, <2>1 DEF TokenOK
<1>12. ASSUME NEW q \in Requests \ {r} PROVE Apart(r, q)'
  <2>1. Apart(r, q) /\ req'[q] = req[q]
    BY <1>4 DEF Inv
  <2>2. (q \in Flushed)' = (q \in Flushed) /\ HasEmail(q)' = HasEmail(q) /\ Touches(q)' = Touches(q)
    BY <2>1 DEF Flushed, HasEmail, Touches
  <2> QED BY <1>3, <1>4, <1>5, <2>1, <2>2 DEF Apart
<1>13. /\ token' \in [Tokens -> {"none", "live", "gone"}] /\ uses' \in [Tokens -> Nat]
       /\ UNCHANGED Rest
  BY <1>1, <1>4 DEF Inv, Typed, Rest, histories
<1> QED BY <1>3, <1>4, <1>6, <1>7, <1>8, <1>9, <1>10, <1>11, <1>12, <1>13, OneRequest

-----------------------------------------------------------------------------
(* What a commit makes of one users row                                    *)
Written(r, x) ==
  LET t == req[r]
      old == user[x]
      new == user'[x]
  IN  \/ new = old /\ ~(x = t.target /\ t.creates) /\ ~(x = t.who /\ Folds(r))
      \/ /\ x = t.target /\ t.creates /\ old.state = "absent"
         /\ new.state = "active" /\ new.email = (t.kind # "guest" /\ t.addressed)
         /\ new.kind = IF t.kind = "guest" THEN "guest" ELSE "registered"
      \/ /\ x = t.who /\ Folds(r) /\ old.state # "absent"
         /\ new.state = "merged" /\ new.into = t.target
         /\ new.kind = old.kind /\ new.email = old.email
      \/ /\ x = t.target /\ t.kind \in {"profile", "reset"} /\ old.state # "absent"
         /\ new.state = old.state /\ new.into = old.into
         /\ new.kind = old.kind /\ new.email = old.email
      \/ /\ x = t.target /\ t.kind = "delete" /\ old.state # "absent"
         /\ new.state = "deleted" /\ new.kind = old.kind
         /\ ~new.email /\ ~new.name /\ ~new.password

LEMMA CommitsWhat ==
  ASSUME Inv, NEW r \in Requests, Commit(r)
  PROVE  LET t == req[r]
         IN  /\ t.pc = "commit" /\ r \in Flushed /\ t \in ReqRow /\ t.target \in Users
             /\ Folds(r) => /\ t.who \in Users \ {t.target} /\ user[t.who].kind = "guest"
                            /\ user[t.who].state # "absent" /\ t.kind \in Merging
             /\ t.creates => user[t.target].state = "absent" /\ t.kind \in SigningIn
             /\ ~t.creates => user[t.target].state # "absent"
             /\ ~t.creates /\ t.kind \in SigningIn \cup {"reset"} => user[t.target].kind = "registered"
             /\ t.moves => Folds(r) /\ prefs[t.target] = None /\ prefs[t.who] # None
             /\ Knows(r) /\ Believes(r) /\ Holds(r)
<1>1. /\ req[r].pc = "commit" /\ req[r] \in ReqRow /\ Knows(r) /\ Believes(r) /\ Holds(r)
      /\ r \in Flushed /\ Aims(r)
  BY DEF Commit, Inv, Typed, Flushed, Aims
<1>2. /\ req[r].target \in Users /\ (req[r].moves => Folds(r))
      /\ req[r].creates => user[req[r].target].state = "absent" /\ req[r].kind \in SigningIn
      /\ ~req[r].creates => user[req[r].target].state # "absent"
      /\ ~req[r].creates /\ req[r].kind \in SigningIn \cup {"reset"} =>
           user[req[r].target].kind = "registered"
  BY <1>1 DEF Knows
<1>3. Folds(r) => /\ req[r].who \in Users /\ user[req[r].who].kind = "guest"
                  /\ user[req[r].who].state # "absent" /\ req[r].kind \in Merging
  BY <1>1 DEF Folds, ReqRow, Knows
<1>4. Folds(r) => req[r].who # req[r].target
  BY <1>2, <1>3 DEF SigningIn
<1> QED BY <1>1, <1>2, <1>3, <1>4 DEF Holds

LEMMA RowIs ==
  ASSUME NEW row \in UserRow, NEW v \in Users
  PROVE  /\ [row EXCEPT !.name = TRUE] \in UserRow /\ [row EXCEPT !.name = TRUE].state = row.state
         /\ [row EXCEPT !.name = TRUE].into = row.into /\ [row EXCEPT !.name = TRUE].kind = row.kind
         /\ [row EXCEPT !.name = TRUE].email = row.email
         /\ [row EXCEPT !.password = TRUE] \in UserRow
         /\ [row EXCEPT !.password = TRUE].state = row.state
         /\ [row EXCEPT !.password = TRUE].into = row.into
         /\ [row EXCEPT !.password = TRUE].kind = row.kind
         /\ [row EXCEPT !.password = TRUE].email = row.email
         /\ Erased(row) \in UserRow /\ Erased(row).state = "deleted" /\ Erased(row).kind = row.kind
         /\ ~Erased(row).email /\ ~Erased(row).name /\ ~Erased(row).password
         /\ [row EXCEPT !.state = "merged", !.into = v] \in UserRow
         /\ [row EXCEPT !.state = "merged", !.into = v].state = "merged"
         /\ [row EXCEPT !.state = "merged", !.into = v].into = v
         /\ [row EXCEPT !.state = "merged", !.into = v].kind = row.kind
         /\ [row EXCEPT !.state = "merged", !.into = v].email = row.email
BY DEF UserRow, Erased

LEMMA RowsWritten ==
  ASSUME Inv, NEW r \in Requests, Commit(r)
  PROVE  user' \in [Users -> UserRow] /\ \A x \in Users : Written(r, x)
<1> DEFINE t == req[r]
<1>1. /\ t.pc = "commit" /\ t \in ReqRow /\ t.target \in Users
      /\ Folds(r) => /\ t.who \in Users \ {t.target} /\ user[t.who].kind = "guest"
                     /\ user[t.who].state # "absent" /\ t.kind \in Merging
      /\ t.creates => user[t.target].state = "absent" /\ t.kind \in SigningIn
      /\ ~t.creates => user[t.target].state # "absent"
  BY CommitsWhat
<1>2. user' = UserRows(r) /\ user \in [Users -> UserRow]
  BY DEF Commit, Inv, Typed
<1>3. /\ Created(r) \in UserRow /\ Created(r).state = "active"
      /\ Created(r).email = (t.kind # "guest" /\ t.addressed)
      /\ Created(r).kind = IF t.kind = "guest" THEN "guest" ELSE "registered"
  BY <1>1, NobodyIs DEF Created, UserRow, ReqRow
<1>4. {"profile", "reset", "delete"} \cap SigningIn = {} /\ Merging \subseteq SigningIn
  BY DEF SigningIn, Merging
<1>5. CASE t.kind \in {"profile", "reset", "delete"}
  <2> DEFINE old == user[t.target]
             new == CASE t.kind = "profile" -> [old EXCEPT !.name = TRUE]
                      [] t.kind = "reset" -> [old EXCEPT !.password = TRUE]
                      [] t.kind = "delete" -> Erased(old)
  <2>0. t.creates = FALSE
    BY <1>1, <1>4, <1>5 DEF ReqRow
  <2>1. user' = [user EXCEPT ![t.target] = new]
    <3>1. CASE t.kind = "profile"
      <4>1. new = [old EXCEPT !.name = TRUE]
        BY <3>1
      <4>2. user' = [user EXCEPT ![t.target].name = TRUE]
        BY <1>2, <2>0, <3>1 DEF UserRows
      <4> QED BY <4>1, <4>2
    <3>2. CASE t.kind = "reset"
      <4>1. new = [old EXCEPT !.password = TRUE]
        BY <3>2
      <4>2. user' = [user EXCEPT ![t.target].password = TRUE]
        BY <1>2, <2>0, <3>2 DEF UserRows
      <4> QED BY <4>1, <4>2
    <3>3. CASE t.kind = "delete"
      <4>1. new = Erased(old)
        BY <3>3
      <4>2. user' = [user EXCEPT ![t.target] = Erased(user[t.target])]
        BY <1>2, <2>0, <3>3 DEF UserRows
      <4> QED BY <4>1, <4>2
    <3> QED BY <1>5, <3>1, <3>2, <3>3
  <2>2. old \in UserRow /\ old.state # "absent"
    BY <1>1, <1>2, <1>4, <1>5
  <2>3. new \in UserRow
    <3>1. \A row \in UserRow : /\ [row EXCEPT !.name = TRUE] \in UserRow
                               /\ [row EXCEPT !.password = TRUE] \in UserRow /\ Erased(row) \in UserRow
      BY <1>1, RowIs
    <3> QED BY <1>5, <2>2, <3>1
  <2>4. /\ t.kind \in {"profile", "reset"} => /\ new.state = old.state /\ new.into = old.into
                                              /\ new.kind = old.kind /\ new.email = old.email
        /\ t.kind = "delete" => /\ new.state = "deleted" /\ new.kind = old.kind
                                /\ ~new.email /\ ~new.name /\ ~new.password
    BY <1>5, <2>2, <1>1, RowIs
  <2> HIDE DEF new
  <2>5. user' \in [Users -> UserRow] /\ user'[t.target] = new
        /\ \A x \in Users \ {t.target} : user'[x] = user[x]
    BY <1>1, <1>2, <2>1, <2>3
  <2>6. ~Folds(r)
    BY <1>1, <1>4, <1>5
  <2> QED BY <1>5, <2>0, <2>2, <2>4, <2>5, <2>6 DEF Written
<1>8. ASSUME NEW row \in [Users -> UserRow], user' = Merged(r, row),
             \A x \in Users \ {t.target} : row[x] = user[x],
             \/ row = user /\ ~t.creates
             \/ t.creates /\ row[t.target] = Created(r)
      PROVE  user' \in [Users -> UserRow] /\ \A x \in Users : Written(r, x)
  <2>1. CASE ~Folds(r)
    BY <1>1, <1>3, <1>8, <2>1 DEF Merged, Written
  <2>2. CASE Folds(r)
    <3>1. user' = [row EXCEPT ![t.who].state = "merged", ![t.who].into = t.target]
      BY <1>8, <2>2 DEF Merged
    <3>0. row \in [Users -> UserRow] /\ t.who \in Users \ {t.target}
      BY <1>1, <1>8, <2>2
    <3>2. /\ \A x \in Users \ {t.who} : user'[x] = row[x]
          /\ user'[t.who] = [row[t.who] EXCEPT !.state = "merged", !.into = t.target]
          /\ row[t.who] = user[t.who]
      BY <1>1, <1>8, <2>2, <3>1
    <3>3. /\ user'[t.who] \in UserRow /\ user'[t.who].state = "merged" /\ user'[t.who].into = t.target
          /\ user'[t.who].kind = user[t.who].kind /\ user'[t.who].email = user[t.who].email
      <4>1. row[t.who] \in UserRow /\ t.target \in Users
        BY <1>1, <3>0
      <4> DEFINE old == row[t.who]
                 v == t.target
      <4>2. user'[t.who] = [old EXCEPT !.state = "merged", !.into = v]
        BY <3>2
      <4>3. old \in UserRow /\ v \in Users /\ old = user[t.who]
        BY <3>2, <4>1
      <4> HIDE DEF old, v
      <4> DEFINE m == [old EXCEPT !.state = "merged", !.into = v]
      <4>4. m \in UserRow /\ m.state = "merged" /\ m.into = v /\ m.kind = old.kind /\ m.email = old.email
        BY <4>3 DEF UserRow
      <4>5. user'[t.who] = m
        BY <4>2
      <4> HIDE DEF m
      <4> QED BY <4>3, <4>4, <4>5 DEF v
    <3>4. user' \in [Users -> UserRow]
      <4> DEFINE w == t.who
                 n == [row[w] EXCEPT !.state = "merged", !.into = t.target]
      <4>1. user' = [row EXCEPT ![w] = n]
        BY <3>1
      <4>2. n \in UserRow
        BY <3>2, <3>3
      <4>3. w \in Users
        BY <3>0
      <4> HIDE DEF n, w
      <4> QED BY <3>0, <4>1, <4>2, <4>3
    <3>5. ASSUME NEW x \in Users PROVE Written(r, x)
      <4>1. CASE x = t.who
        BY <1>1, <2>2, <3>3, <4>1 DEF Written
      <4>2. CASE x # t.who
        BY <1>1, <1>3, <1>8, <3>2, <4>2 DEF Written
      <4> QED BY <4>1, <4>2
    <3> QED BY <3>4, <3>5
  <2> QED BY <2>1, <2>2
<1>9. CASE t.kind \notin {"profile", "reset", "delete"}
  <2>1. CASE t.creates
    <3> DEFINE row == [user EXCEPT ![t.target] = Created(r)]
    <3>1. row \in [Users -> UserRow] /\ row[t.target] = Created(r)
          /\ \A x \in Users \ {t.target} : row[x] = user[x]
      BY <1>1, <1>2, <1>3
    <3>2. user' = Merged(r, row)
      BY <1>2, <1>9, <2>1 DEF UserRows
    <3> HIDE DEF row, t
    <3> QED BY <1>8, <2>1, <3>1, <3>2
  <2>2. CASE ~t.creates
    <3>1. user' = Merged(r, user)
      BY <1>2, <1>9, <2>2 DEF UserRows
    <3> QED BY <1>2, <1>8, <2>2, <3>1
  <2> QED BY <2>1, <2>2
<1> QED BY <1>5, <1>9

(* ... so whoever is there stays there, and of the same kind               *)
LEMMA RowsStay ==
  ASSUME Inv, NEW r \in Requests, Commit(r), NEW x \in Users, user[x].state # "absent"
  PROVE  /\ user'[x].state # "absent" /\ user'[x].kind = user[x].kind
         /\ user'[x].state = "active" => user[x].state = "active" /\ user'[x].email = user[x].email
         /\ user'[x].email => user[x].email
<1>1. Written(r, x)
  BY RowsWritten
<1>2. user[x] \in UserRow /\ user'[x] \in UserRow
  BY RowsWritten DEF Inv, Typed
<1> QED BY <1>1, <1>2 DEF Written, UserRow

(* The answers a commit leaves, where it touches them                      *)
LEMMA AnswersWritten ==
  ASSUME Inv, NEW r \in Requests, Commit(r)
  PROVE  /\ prefs' \in [Users -> Users \cup {None}]
         /\ \A x \in Users \ Touches(r) : prefs'[x] = prefs[x]
         /\ req[r].kind = "onboard" => prefs'[req[r].target] = req[r].target /\ ~req[r].moves
         /\ req[r].moves => prefs'[req[r].target] = prefs[req[r].who] /\ prefs'[req[r].who] = None
         /\ req[r].kind # "onboard" /\ ~req[r].moves => prefs' = prefs
<1> DEFINE t == req[r]
<1>1. /\ t.target \in Users /\ prefs \in [Users -> Users \cup {None}]
      /\ t.moves => t.kind \in Merging /\ t.who \in Users \ {t.target}
  BY CommitsWhat DEF Inv, Typed
<1>2. prefs' = Answers(r)
  BY DEF Commit
<1>3. "onboard" \notin Merging
  BY DEF Merging
<1>4. CASE t.kind = "onboard"
  BY <1>1, <1>2, <1>3, <1>4 DEF Answers, Touches
<1>5. CASE t.kind # "onboard" /\ t.moves
  BY <1>1, <1>2, <1>3, <1>5 DEF Answers, Touches
<1>6. CASE t.kind # "onboard" /\ ~t.moves
  BY <1>1, <1>2, <1>6 DEF Answers
<1> QED BY <1>4, <1>5, <1>6

-----------------------------------------------------------------------------
(* A commit: the rows it leaves are sound ...                              *)
LEMMA CommitRows ==
  ASSUME Inv, NEW r \in Requests, Commit(r), NEW x \in Users
  PROVE  RowOK(x)'
<1> DEFINE t == req[r]
           old == user[x]
           new == user'[x]
<1>1. /\ t.pc = "commit" /\ r \in Flushed /\ t \in ReqRow /\ t.target \in Users
      /\ Folds(r) => /\ t.who \in Users \ {t.target} /\ user[t.who].kind = "guest"
                     /\ user[t.who].state # "absent" /\ t.kind \in Merging
      /\ t.creates => user[t.target].state = "absent" /\ t.kind \in SigningIn
      /\ ~t.creates => user[t.target].state # "absent"
      /\ ~t.creates /\ t.kind \in SigningIn \cup {"reset"} => user[t.target].kind = "registered"
      /\ t.moves => Folds(r) /\ prefs[t.target] = None /\ prefs[t.who] # None
      /\ Believes(r)
  BY CommitsWhat
<1>2. Written(r, x) /\ old \in UserRow /\ new \in UserRow /\ RowOK(x)
  BY RowsWritten DEF Inv, Typed
<1>3. /\ prefs \in [Users -> Users \cup {None}] /\ prefs' \in [Users -> Users \cup {None}]
      /\ \A y \in Users \ Touches(r) : prefs'[y] = prefs[y]
      /\ t.kind = "onboard" => prefs'[t.target] = t.target /\ ~t.moves
      /\ t.moves => prefs'[t.target] = prefs[t.who] /\ prefs'[t.who] = None
      /\ t.kind # "onboard" /\ ~t.moves => prefs' = prefs
  BY AnswersWritten DEF Inv, Typed
<1>4. /\ raced' = IF t.overlapped THEN raced \cup ({t.who, t.target} \ {None}) ELSE raced
      /\ answered' = IF t.kind = "onboard" THEN answered \cup {t.target} ELSE answered
  BY DEF Commit
<1>5. None \notin Users /\ Merging \subseteq SigningIn /\ "guest" \notin Merging
      /\ {"profile", "reset", "delete", "onboard"} \cap SigningIn = {}
  BY AccountsAssumption DEF SigningIn, Merging
<1>6. Folds(r) => user'[t.target].kind = "registered"
  <2>1. CASE t.creates
    <3>1. Written(r, t.target)
      BY <1>1, RowsWritten
    <3> QED BY <1>1, <1>5, <2>1, <3>1 DEF Written
  <2>2. CASE ~t.creates
    BY <1>1, <1>5, <2>2, RowsStay
  <2> QED BY <2>1, <2>2
<1>7. new.state = "absent" => new.kind = "none"
  BY <1>2 DEF Written, RowOK
<1>8. ASSUME new.state = "merged"
      PROVE  new.kind = "guest" /\ new.into \in Users \ {x} /\ user'[new.into].kind = "registered"
  <2>1. CASE x = t.who /\ Folds(r) /\ new.into = t.target /\ new.kind = old.kind
    BY <1>1, <1>6, <2>1
  <2>2. CASE old.state = "merged" /\ new.into = old.into /\ new.kind = old.kind
    <3>1. old.kind = "guest" /\ old.into \in Users \ {x} /\ user[old.into].kind = "registered"
      BY <1>2, <2>2 DEF RowOK
    <3>2. user[old.into].state # "absent"
      BY <3>1 DEF Inv, RowOK
    <3> QED BY <2>2, <3>1, <3>2, RowsStay
  <2> QED BY <1>2, <1>8, <2>1, <2>2 DEF Written
<1>9. new.email => new.state = "active" /\ new.kind = "registered"
  BY <1>1, <1>2 DEF Written, RowOK
<1>10. x \in answered' => new.state # "absent"
  BY <1>1, <1>2, <1>4, <1>5 DEF Written, RowOK
<1>11. x \in answered' /\ new.state = "active" => prefs'[x] = x
  <2> SUFFICES ASSUME x \in answered', new.state = "active" PROVE prefs'[x] = x
    OBVIOUS
  <2>1. CASE t.kind = "onboard" /\ x = t.target
    BY <1>3, <2>1
  <2>2. CASE ~(t.kind = "onboard" /\ x = t.target)
    <3>1. x \in answered /\ old.state # "absent"
      BY <1>2, <1>4, <2>2 DEF RowOK
    <3>2. old.state = "active" /\ prefs[x] = x
      BY <1>2, <3>1, RowsStay DEF RowOK
    <3>3. CASE t.moves
      <4>1. x # t.who
        BY <1>1, <1>2, <3>3 DEF Written
      <4>2. x # t.target
        BY <1>1, <1>5, <3>2, <3>3
      <4>3. x \notin Touches(r)
        BY <1>1, <1>5, <3>3, <4>1, <4>2 DEF Touches
      <4> QED BY <1>3, <3>2, <4>3
    <3>4. CASE ~t.moves
      <4>1. x \notin Touches(r)
        BY <2>2, <3>4 DEF Touches
      <4> QED BY <1>3, <3>2, <4>1
    <3> QED BY <3>3, <3>4
  <2> QED BY <2>1, <2>2
<1>12. ASSUME x \notin raced', new.state = "merged", prefs'[x] # None
       PROVE  prefs'[new.into] # None
  <2>1. CASE x = t.who /\ Folds(r) /\ new.into = t.target
    <3>1. ~t.overlapped
      BY <1>1, <1>4, <1>5, <1>12, <2>1
    <3>2. ~t.moves /\ t.kind # "onboard"
      BY <1>1, <1>3, <1>5, <1>12, <2>1
    <3> QED BY <1>1, <1>3, <1>12, <2>1, <3>1, <3>2 DEF Believes
  <2>2. CASE /\ ~(x = t.who /\ Folds(r))
             /\ old.state = "merged" /\ new.into = old.into /\ new.kind = old.kind
    <3>1. /\ x \notin raced /\ (prefs[x] # None => prefs[old.into] # None)
          /\ old.kind = "guest" /\ old.into \in Users /\ user[old.into].kind = "registered"
      BY <1>2, <1>4, <1>12, <2>2 DEF RowOK
    <3>2. CASE t.kind = "onboard"
      <4>1. t.target # x
        BY <1>1, <1>4, <1>5, <1>12, <2>2, <3>2 DEF Believes
      <4>2. Touches(r) = {t.target}
        BY <1>3, <3>2 DEF Touches
      <4> QED BY <1>1, <1>3, <1>5, <1>12, <2>2, <3>1, <3>2, <4>1, <4>2
    <3>3. CASE t.moves
      <4>1. t.target # x
        <5>1. CASE t.creates
          BY <1>1, <2>2, <5>1
        <5>2. CASE ~t.creates
          BY <1>1, <1>5, <2>2, <3>1, <3>3, <5>2
        <5> QED BY <5>1, <5>2
      <4>2. old.into # t.who /\ x # t.who
        BY <1>1, <2>2, <3>1, <3>3
      <4>3. Touches(r) = {t.who, t.target}
        BY <1>1, <1>5, <3>3 DEF Touches
      <4> QED BY <1>1, <1>3, <1>5, <1>12, <2>2, <3>1, <3>3, <4>1, <4>2, <4>3
    <3>4. CASE t.kind # "onboard" /\ ~t.moves
      BY <1>3, <1>12, <2>2, <3>1, <3>4
    <3> QED BY <3>2, <3>3, <3>4
  <2> QED BY <1>1, <1>2, <1>5, <1>12, <2>1, <2>2 DEF Written
<1>13. ASSUME x \notin raced', new.state = "deleted"
       PROVE  ~new.email /\ ~new.name /\ ~new.password
  <2>1. CASE new = old
    BY <1>2, <1>4, <1>13, <2>1 DEF RowOK
  <2>2. CASE x = t.target /\ t.kind \in {"profile", "reset"} /\ old.state = "deleted"
    <3>1. t.overlapped
      BY <1>1, <2>2 DEF Believes, Aims
    <3> QED BY <1>1, <1>4, <1>5, <1>13, <2>2, <3>1
  <2> QED BY <1>2, <1>13, <2>1, <2>2 DEF Written
<1> HIDE DEF t, old, new
<1> QED BY <1>7, <1>8, <1>9, <1>10, <1>11, <1>12, <1>13 DEF RowOK, new

(* ... the request is done and every other one is marked ...               *)
LEMMA Marked ==
  ASSUME Inv, NEW r \in Requests, Commit(r)
  PROVE  /\ req' \in [Requests -> ReqRow] /\ req'[r] = Done
         /\ \A q \in Requests \ {r} :
              LET o == req[q]
                  n == req'[q]
              IN  /\ n.pc = o.pc /\ n.kind = o.kind /\ n.who = o.who /\ n.with = o.with
                  /\ n.target = o.target /\ n.creates = o.creates /\ n.addressed = o.addressed
                  /\ n.attaches = o.attaches /\ n.moves = o.moves
                  /\ o.pc # "idle" => n.overlapped
<1>1. req' = Overlapped(r, Done) /\ req \in [Requests -> ReqRow]
  BY DEF Commit, Inv, Typed
<1>2. ASSUME NEW o \in ReqRow
      PROVE  LET n == [o EXCEPT !.overlapped = TRUE]
             IN  /\ n \in ReqRow
                 /\ n.pc = o.pc /\ n.kind = o.kind /\ n.who = o.who /\ n.with = o.with
                 /\ n.target = o.target /\ n.creates = o.creates /\ n.addressed = o.addressed
                 /\ n.attaches = o.attaches /\ n.moves = o.moves /\ n.overlapped = TRUE
  BY <1>2 DEF ReqRow
<1>3. req'[r] = Done
  BY <1>1 DEF Overlapped
<1>4. ASSUME NEW q \in Requests \ {r}
      PROVE  LET o == req[q]
                 n == req'[q]
             IN  /\ n \in ReqRow
                 /\ n.pc = o.pc /\ n.kind = o.kind /\ n.who = o.who /\ n.with = o.with
                 /\ n.target = o.target /\ n.creates = o.creates /\ n.addressed = o.addressed
                 /\ n.attaches = o.attaches /\ n.moves = o.moves
                 /\ o.pc # "idle" => n.overlapped
  <2>1. CASE req[q].pc = "idle"
    BY <1>1, <2>1 DEF Overlapped
  <2>2. CASE req[q].pc # "idle"
    <3> DEFINE o == req[q]
               n == [o EXCEPT !.overlapped = TRUE]
    <3>1. req'[q] = n
      BY <1>1, <2>2 DEF Overlapped
    <3>2. o \in ReqRow
      BY <1>1
    <3> HIDE DEF o
    <3>3. /\ n \in ReqRow
          /\ n.pc = o.pc /\ n.kind = o.kind /\ n.who = o.who /\ n.with = o.with
          /\ n.target = o.target /\ n.creates = o.creates /\ n.addressed = o.addressed
          /\ n.attaches = o.attaches /\ n.moves = o.moves /\ n.overlapped = TRUE
      BY <1>2, <3>2
    <3> HIDE DEF n
    <3> QED BY <3>1, <3>3 DEF o
  <2> QED BY <2>1, <2>2
<1>5. req' \in [Requests -> ReqRow]
  BY <1>1, <1>3, <1>4, DoneIs DEF Overlapped
<1> QED BY <1>3, <1>4, <1>5

(* ... and what the others know and hold stays true                        *)
LEMMA CommitOthers ==
  ASSUME Inv, NEW r \in Requests, Commit(r), NEW q \in Requests \ {r}
  PROVE  Knows(q)' /\ Believes(q)' /\ Holds(q)' /\ FailedForAReason(q)'
<1> DEFINE o == req[q]
           n == req'[q]
<1>1. /\ n.pc = o.pc /\ n.kind = o.kind /\ n.who = o.who /\ n.with = o.with
      /\ n.target = o.target /\ n.creates = o.creates /\ n.addressed = o.addressed
      /\ n.attaches = o.attaches /\ n.moves = o.moves
      /\ o.pc # "idle" => n.overlapped
  BY Marked
<1>2. /\ o \in ReqRow /\ Knows(q) /\ Believes(q) /\ Holds(q) /\ Apart(r, q) /\ unused' = unused
  BY DEF Inv, Typed, Commit, redis
<1>3. /\ req[r].target \in Users /\ r \in Flushed
      /\ req[r].moves => prefs[req[r].target] = None /\ prefs[req[r].who] # None
  BY CommitsWhat
<1>4. Aims(q)' = Aims(q) /\ (q \in Flushed)' = (q \in Flushed) /\ HasEmail(q)' = HasEmail(q)
  BY <1>1 DEF Aims, Flushed, HasEmail
<1>5. \A x \in Users : user[x].state # "absent" =>
        /\ user'[x].state # "absent" /\ user'[x].kind = user[x].kind
        /\ user'[x].state = "active" => user[x].state = "active" /\ user'[x].email = user[x].email
  BY RowsStay
<1>6. Folds(q) => Folds(q)'
  BY <1>1, <1>2, <1>5 DEF Folds, Knows, ReqRow
<1>7. o.creates => user'[o.target].state = "absent"
  <2> SUFFICES ASSUME o.creates PROVE user'[o.target].state = "absent"
    OBVIOUS
  <2>1. o.target \in Users /\ user[o.target].state = "absent"
        /\ ~(req[r].creates /\ req[r].target = o.target)
    BY <1>2 DEF Knows, Apart
  <2>2. Written(r, o.target)
    BY <2>1, RowsWritten
  <2> QED BY <2>1, <2>2 DEF Written
<1>8. Knows(q)'
  <2> HIDE DEF o, n
  <2>1. /\ o.who # None => o.who \in Users /\ user[o.who].state # "absent"
        /\ o.creates \/ o.moves \/ Aims(q) \/ o.kind = "onboard" => o.target \in Users
    BY <1>2 DEF o, Knows, ReqRow
  <2>2. o.who # None => user'[o.who].state # "absent"
    BY <1>5, <2>1
  <2>3. (Aims(q) \/ o.kind = "onboard") /\ ~o.creates => user'[o.target].state # "absent"
    BY <1>2, <1>5, <2>1 DEF o, Knows
  <2>4. Aims(q) /\ o.kind \in SigningIn \cup {"reset"} /\ ~o.creates => user'[o.target].kind = "registered"
    BY <1>2, <1>5, <2>1 DEF o, Knows
  <2>5. o.attaches => /\ o.kind \in SigningIn \ {"guest", "login"}
                      /\ Provider(o.kind) = "email" =>
                           \/ o.creates /\ o.addressed
                           \/ ~o.creates /\ (user'[o.target].state = "active" => user'[o.target].email)
    <3> SUFFICES ASSUME o.attaches PROVE
                      /\ o.kind \in SigningIn \ {"guest", "login"}
                      /\ Provider(o.kind) = "email" =>
                           \/ o.creates /\ o.addressed
                           \/ ~o.creates /\ (user'[o.target].state = "active" => user'[o.target].email)
      OBVIOUS
    <3>1. o.kind \in SigningIn \ {"guest", "login"} /\ Aims(q)
      BY <1>2 DEF o, Knows, Aims, ReqRow, Places
    <3> QED BY <1>2, <1>5, <2>1, <3>1 DEF o, Knows
  <2> QED BY <1>1, <1>2, <1>4, <1>6, <1>7, <2>1, <2>2, <2>3, <2>4, <2>5 DEF o, n, Knows
<1>9. Believes(q)'
  <2>1. CASE o.pc = "idle"
    BY <1>1, <1>2, <2>1 DEF Believes, Knows, Aims
  <2>2. CASE o.pc # "idle"
    BY <1>1, <2>2 DEF Believes
  <2> QED BY <2>1, <2>2
<1>10. Holds(q)'
  <2> SUFFICES ASSUME q \in Flushed PROVE
                 /\ HasEmail(q) => \A u \in Users : ~user'[u].email
                 /\ o.moves => prefs'[o.target] = None /\ prefs'[o.who] # None
    BY <1>1, <1>4 DEF Holds
  <2>1. ASSUME HasEmail(q), NEW u \in Users PROVE ~user'[u].email
    <3>1. ~user[u].email /\ ~HasEmail(r)
      BY <1>2, <1>3, <2>1 DEF Holds, Apart
    <3>2. Written(r, u)
      BY RowsWritten
    <3> QED BY <3>1, <3>2 DEF Written, HasEmail
  <2>2. ASSUME o.moves PROVE prefs'[o.target] = None /\ prefs'[o.who] # None
    <3>1. o.target \in Users /\ o.who \in Users /\ Touches(r) \cap Touches(q) = {}
      BY <1>2, <1>3, <2>2 DEF Knows, Folds, ReqRow, Apart
    <3>2. o.target \notin Touches(r) /\ o.who \notin Touches(r)
      BY <2>2, <3>1 DEF Touches
    <3> QED BY <1>2, <2>2, <3>1, <3>2, AnswersWritten DEF Holds
  <2> QED BY <2>1, <2>2
<1>11. FailedForAReason(q)'
  BY <1>1 DEF FailedForAReason
<1> QED BY <1>8, <1>9, <1>10, <1>11

LEMMA CommitInv ==
  ASSUME Inv, NEW r \in Requests, Commit(r)
  PROVE  Inv'
<1> DEFINE t == req[r]
<1>1. /\ t.pc = "commit" /\ r \in Flushed /\ t \in ReqRow /\ t.target \in Users
      /\ Folds(r) => t.who \in Users \ {t.target} /\ user[t.who].kind = "guest" /\ t.kind \in Merging
      /\ t.creates => user[t.target].state = "absent" /\ t.kind \in SigningIn
      /\ ~t.creates => user[t.target].state # "absent"
      /\ ~t.creates /\ t.kind \in SigningIn \cup {"reset"} => user[t.target].kind = "registered"
      /\ Knows(r) /\ Holds(r)
  BY CommitsWhat
<1>2. /\ identity' = IF t.attaches THEN [identity EXCEPT ![Provider(t.kind)] = t.target] ELSE identity
      /\ device' = Received(t)
      /\ UNCHANGED <<session, unused, token, uses, shared, ended, crossed>>
  BY DEF Commit, redis
<1>3. /\ req' \in [Requests -> ReqRow] /\ req'[r] = Done
      /\ \A q \in Requests \ {r} :
              LET o == req[q]
                  n == req'[q]
              IN  /\ n.pc = o.pc /\ n.kind = o.kind /\ n.who = o.who /\ n.with = o.with
                  /\ n.target = o.target /\ n.creates = o.creates /\ n.addressed = o.addressed
                  /\ n.attaches = o.attaches /\ n.moves = o.moves
                  /\ o.pc # "idle" => n.overlapped
  BY Marked
<1>4. user' \in [Users -> UserRow] /\ \A x \in Users : Written(r, x)
  BY RowsWritten
<1>5. /\ device' \in [Devices -> [cookie : Sids \cup {None}, bearer : Sids \cup {None}]]
      /\ \A d \in Devices : /\ device'[d].cookie \in {device[d].cookie, t.with, None}
                            /\ device'[d].bearer \in {device[d].bearer, t.with, None}
  <2> DEFINE Given == [cookie : Sids \cup {None}, bearer : Sids \cup {None}]
             d == t.device
  <2>1. device \in [Devices -> Given] /\ t.with \in Sids \cup {None}
    BY <1>1 DEF Inv, Typed, ReqRow
  <2>2. CASE t.kind \in SigningIn
    <3> DEFINE c == IF t.kind = "google" /\ d \in Apps THEN device[d].cookie ELSE t.with
               b == IF d \in Apps THEN t.with ELSE device[d].bearer
    <3>1. device' = [device EXCEPT ![d].cookie = c, ![d].bearer = b]
      BY <1>2, <2>2 DEF Received, SigningIn, Merging
    <3>2. c \in {device[d].cookie, t.with} /\ b \in {device[d].bearer, t.with}
      OBVIOUS
    <3> HIDE DEF c, b
    <3>3. CASE d \in Devices
      <4>1. device[d] \in Given
        BY <2>1, <3>3
      <4> DEFINE o == device[d]
                 row == [o EXCEPT !.cookie = c, !.bearer = b]
      <4>2. c \in Sids \cup {None} /\ b \in Sids \cup {None}
        BY <2>1, <3>2, <4>1
      <4>3. row \in Given /\ row.cookie = c /\ row.bearer = b
        <5> HIDE DEF o
        <5>1. o \in Given
          BY <4>1 DEF o
        <5> QED BY <4>2, <5>1
      <4>4. /\ device'[d] = row
            /\ \A e \in Devices \ {d} : device'[e] = device[e]
            /\ device' = [e \in Devices |-> device'[e]]
        <5>1. device'[d] = [device[d] EXCEPT !.cookie = c, !.bearer = b]
          BY <2>1, <3>1, <3>3
        <5>2. \A e \in Devices \ {d} : device'[e] = device[e]
          BY <2>1, <3>1
        <5>3. device' = [e \in Devices |-> device'[e]]
          BY <2>1, <3>1
        <5> QED BY <5>1, <5>2, <5>3
      <4> HIDE DEF row
      <4>5. \A e \in Devices : device'[e] \in Given
        BY <2>1, <4>3, <4>4
      <4>6. device' \in [Devices -> Given]
        BY <4>4, <4>5
      <4> QED BY <3>2, <4>3, <4>4, <4>6
    <3>4. CASE d \notin Devices
      <4>1. device' = device
        BY <2>1, <3>1, <3>4
      <4> QED BY <2>1, <4>1
    <3> QED BY <3>3, <3>4
  <2>3. CASE t.kind = "delete"
    <3>1. Signed \in Given /\ Signed.cookie = None /\ Signed.bearer = None
      BY DEF Signed
    <3>2. device' = [device EXCEPT ![d] = Signed]
      BY <1>2, <2>3 DEF Received, SigningIn, Merging
    <3> QED BY <2>1, <3>1, <3>2
  <2>4. CASE t.kind \notin SigningIn \cup {"delete"}
    BY <1>2, <2>1, <2>4 DEF Received
  <2> QED BY <2>2, <2>3, <2>4
<1>6. Typed'
  <2>1. t.kind \in Kinds => Provider(t.kind) \in Providers
    BY DEF Provider, Providers
  <2>2. identity' \in [Providers -> Users \cup {None}]
    BY <1>1, <1>2 DEF Inv, Typed
  <2>3. answered' \subseteq Users
    BY <1>1 DEF Commit, Inv, Typed
  <2> QED BY <1>2, <1>3, <1>4, <1>5, <2>2, <2>3, AnswersWritten DEF Inv, Typed
<1>7. \A x \in Users : RowOK(x)'
  BY CommitRows
<1>8. OneAddress'
  <2> SUFFICES ASSUME NEW u \in Users, NEW v \in Users, user'[u].email, user'[v].email
               PROVE  u = v
    BY DEF OneAddress
  <2>1. Written(r, u) /\ Written(r, v)
    BY <1>4
  <2>2. \A x \in Users : user'[x].email => user[x].email \/ (x = t.target /\ HasEmail(r))
    BY <1>4 DEF Written, HasEmail
  <2>3. HasEmail(r) => \A x \in Users : ~user[x].email
    BY <1>1 DEF Holds
  <2> QED BY <2>2, <2>3 DEF Inv, OneAddress
<1>9. ASSUME NEW p \in Providers PROVE IdentityOK(p)'
  <2>1. identity \in [Providers -> Users \cup {None}] /\ IdentityOK(p)
    BY DEF Inv, Typed
  <2>2. CASE t.attaches /\ p = Provider(t.kind)
    <3>1. identity'[p] = t.target
      BY <1>2, <2>1, <2>2
    <3>2. /\ t.kind \in SigningIn \ {"guest", "login"}
          /\ p = "email" => \/ t.creates /\ t.addressed
                            \/ ~t.creates /\ (user[t.target].state = "active" => user[t.target].email)
      BY <1>1, <2>2 DEF Knows
    <3>3. CASE t.creates
      <4>1. Written(r, t.target)
        BY <1>1, <1>4
      <4>2. user'[t.target].kind = "registered" /\ user'[t.target].email = t.addressed
        BY <1>1, <3>2, <3>3, <4>1 DEF Written, SigningIn, Merging, ReqRow
      <4> QED BY <3>1, <3>2, <3>3, <4>2 DEF IdentityOK
    <3>4. CASE ~t.creates
      <4>1. user'[t.target].kind = "registered"
            /\ (user'[t.target].state = "active" =>
                  user[t.target].state = "active" /\ user'[t.target].email = user[t.target].email)
        BY <1>1, <3>2, <3>4, RowsStay
      <4> QED BY <3>1, <3>2, <3>4, <4>1 DEF IdentityOK
    <3> QED BY <3>3, <3>4
  <2>3. CASE ~(t.attaches /\ p = Provider(t.kind))
    <3>1. identity'[p] = identity[p]
      BY <1>2, <2>1, <2>3
    <3> SUFFICES ASSUME identity[p] # None
                 PROVE  /\ user'[identity[p]].kind = "registered"
                        /\ p = "email" /\ user'[identity[p]].state = "active" => user'[identity[p]].email
      BY <3>1 DEF IdentityOK
    <3>2. identity[p] \in Users /\ user[identity[p]].kind = "registered" /\ user[identity[p]].state # "absent"
      BY <2>1 DEF IdentityOK, Inv, RowOK
    <3> QED BY <2>1, <3>2, RowsStay DEF IdentityOK
  <2> QED BY <2>2, <2>3
<1>10. SessionsOK'
  BY <1>1, <1>2, <1>5, AccountsAssumption DEF Inv, SessionsOK, Knows, Typed
<1>11. ASSUME NEW x \in Tokens PROVE TokenOK(x)'
  <2>1. TokenOK(x) /\ \A q \in Requests : Spends(q, x)' => Spends(q, x)
    BY <1>3, DoneIs DEF Inv, Spends
  <2> QED BY <1>2, <2>1 DEF TokenOK
<1>12. ASSUME NEW q \in Requests
       PROVE  Knows(q)' /\ Believes(q)' /\ Holds(q)' /\ FailedForAReason(q)'
  <2>1. CASE q # r
    BY <2>1, CommitOthers
  <2>2. CASE q = r
    <3>1. None \notin unused /\ unused' = unused
      BY <1>2, AccountsAssumption DEF Inv, Typed
    <3>2. Knows(r)'
      BY <1>3, <3>1, DoneIs DEF Knows, Aims
    <3>3. Believes(r)' /\ Holds(r)' /\ FailedForAReason(r)'
      BY <1>3, DoneIs DEF Believes, Aims, Holds, Flushed, FailedForAReason
    <3> QED BY <2>2, <3>2, <3>3
  <2> QED BY <2>1, <2>2
<1>13. ASSUME NEW p \in Requests, NEW q \in Requests PROVE Apart(p, q)'
  <2>1. CASE p = r \/ q = r
    BY <1>3, <2>1, DoneIs DEF Apart, Flushed
  <2>2. CASE p # r /\ q # r
    <3>1. Apart(p, q)
      BY DEF Inv
    <3>2. /\ (p \in Flushed)' = (p \in Flushed) /\ (q \in Flushed)' = (q \in Flushed)
          /\ HasEmail(p)' = HasEmail(p) /\ HasEmail(q)' = HasEmail(q)
          /\ Touches(p)' = Touches(p) /\ Touches(q)' = Touches(q)
      BY <1>3, <2>2 DEF Flushed, HasEmail, Touches
    <3> QED BY <1>3, <2>2, <3>1, <3>2 DEF Apart
  <2> QED BY <2>1, <2>2
<1> QED BY <1>6, <1>7, <1>8, <1>9, <1>10, <1>11, <1>12, <1>13 DEF Inv

-----------------------------------------------------------------------------
(* Every step of any request, client or clock keeps the invariant          *)
LEMMA StepInv == Inv /\ [Next]_vars => Inv'
<1> SUFFICES ASSUME Inv, [Next]_vars PROVE Inv'
  OBVIOUS
<1>1. ASSUME NEW r \in Requests, NEW d \in Devices,
             \/ CreateGuest(r, d) \/ Register(r, d) \/ Login(r, d) \/ Verify(r, d) \/ GoogleCallback(r, d)
             \/ AppleAuth(r, d) \/ ForgotPassword(r, d) \/ ResetPassword(r, d)
             \/ UpdateProfile(r, d) \/ DeleteProfile(r, d) \/ SaveAnswers(r, d)
      PROVE  Inv'
  BY <1>1, BeginInv
<1>2. ASSUME NEW r \in Requests,
             \/ ReadToken(r) \/ SpendToken(r) \/ ByIdentity(r) \/ FindByEmail(r) \/ RegisterFinds(r)
             \/ LoginFinds(r) \/ ForgotFinds(r) \/ ResetFinds(r) \/ ReadPrefs(r) \/ ReadRow(r)
             \/ NoRow(r) \/ Flush(r) \/ Redis(r) \/ Commit(r) \/ Abort(r)
      PROVE  Inv'
  BY <1>2, ReadTokenInv, SpendTokenInv, ByIdentityInv, ByAddressInv, ForgotFindsInv, ReadPrefsInv,
     ReadRowInv, NoRowInv, FlushInv, RedisInv, CommitInv, AbortInv
<1>3. CASE MagicLink \/ GoogleLogin
  BY <1>3, IssueTokenInv DEF MagicLink, GoogleLogin, Tokens
<1>4. CASE Expire
  BY <1>4, ExpireInv
<1>5. ASSUME NEW d \in Devices, Logout(d) PROVE Inv'
  BY <1>5, LogoutInv
<1>6. CASE UNCHANGED vars
  <2>1. /\ UNCHANGED <<tables, unused, req, uses, shared, raced, answered, session, token, device,
                       ended, crossed>>
    BY <1>6 DEF vars, redis, histories
  <2>2. SessionsOK'
    BY <2>1 DEF Inv, SessionsOK
  <2>3. /\ session' \in [Sids -> Users \cup {None}] /\ token' \in [Tokens -> {"none", "live", "gone"}]
        /\ device' \in [Devices -> [cookie : Sids \cup {None}, bearer : Sids \cup {None}]]
        /\ \A t \in Tokens : token'[t] = token[t]
    BY <2>1 DEF Inv, Typed
  <2> QED BY <2>1, <2>2, <2>3, NoRequest
<1> QED BY <1>1, <1>2, <1>3, <1>4, <1>5, <1>6 DEF Next

(* What requests know, believe and hold is true of every reachable state   *)
THEOREM Invariance == Spec => []Inv
BY InitInv, StepInv, PTL DEF Spec

-----------------------------------------------------------------------------
(* Rows keep their shape, and "must not split a person in two": however    *)
(* sign-ins overlap, the address belongs to one account.                   *)
THEOREM SoundRows == Spec => []RowsSound
<1>1. Inv => TypeOK
  <2> SUFFICES ASSUME Inv PROVE TypeOK
    OBVIOUS
  <2>1. ASSUME NEW u \in Users
        PROVE  user[u] \in UserRow
               /\ (user[u].state = "merged" => user[u].kind = "guest" /\ user[u].into \in Users \ {u})
    BY DEF Inv, Typed, RowOK
  <2>2. \A r \in Requests : req[r].kind \in Kinds \cup {"none"} /\ req[r].target \in Users \cup {None}
    BY DEF Inv, Typed, ReqRow
  <2> QED BY <2>1, <2>2 DEF Inv, Typed, SessionsOK, TypeOK
<1>2. Inv => OneAccountPerPerson
  <2> SUFFICES ASSUME Inv PROVE Cardinality(ByEmail) <= 1
    BY DEF OneAccountPerPerson
  <2>1. CASE ByEmail = {}
    BY <2>1, FS_EmptySet
  <2>2. ASSUME NEW u \in ByEmail PROVE Cardinality(ByEmail) = 1
    <3>1. ByEmail = {u}
      BY <2>2 DEF Inv, OneAddress, ByEmail
    <3> QED BY <3>1, FS_Singleton
  <2> QED BY <2>1, <2>2
<1> QED BY <1>1, <1>2, Invariance, PTL DEF RowsSound

(* A magic link, a reset link and an OAuth state are accepted once, unless *)
(* two requests had read the key before either of them deleted it.         *)
THEOREM TokensSpentOnce == Spec => []SingleUse
<1>1. Inv => SingleUse
  BY DEF Inv, TokenOK, SingleUse
<1> QED BY <1>1, Invariance, PTL

(* A sign-in ends in a server error only if another request committed in   *)
(* its time, or its identity still belongs to a deleted account.           *)
THEOREM ErrorsHaveACause == Spec => []ErrorOnlyFromOldRows
<1>1. Inv => ErrorOnlyFromOldRows
  BY DEF Inv, FailedForAReason, ErrorOnlyFromOldRows
<1> QED BY <1>1, Invariance, PTL

(* Whoever answered the quiz keeps those answers when guests are folded    *)
(* in, and a folded guest's answers travel to an account that has none.    *)
THEOREM AnswersFollowThePerson == Spec => []AnswersFollow
<1>1. Inv => AnswersFollow
  BY DEF Inv, Typed, RowOK, Active, AnswersFollow, OwnAnswersKept, AnswersTravel
<1> QED BY <1>1, Invariance, PTL

(* A deleted account shows no address, name or password, and a session     *)
(* that its client logged out of opens nothing.                            *)
THEOREM EndsStay == Spec => []GoneIsGone
<1>1. Inv => GoneIsGone
  BY DEF Inv, RowOK, SessionsOK, GoneIsGone, DeletedIsBlank, LogoutEnds
<1> QED BY <1>1, Invariance, PTL

-----------------------------------------------------------------------------
(* The rate limiter that stands before registration, log-in and the two    *)
(* forgotten-password routes (RateLimit): it keeps its types, every window *)
(* ends unless the hit that opened it is lost, and no interval as long as  *)
(* a window admits more than twice the limit, for any limit, window and    *)
(* number of hitters.                                                      *)

LimiterInv == LimiterTypeOK /\ WindowEnds

(* An empty key, counted as 0, has no expiry and no hits *)
LEMMA LimiterInitInv == LimiterInit => LimiterInv
BY RateLimitAssumption DEF LimiterInit, LimiterInv, LimiterTypeOK, WindowEnds, Ticks, Forever

(* INCR: the hit that opens a window is in `opening` until its EXPIRE; any *)
(* other finds the expiry, or the opener, already there.                   *)
LEMMA IncrInv == ASSUME LimiterInv, NEW h \in Hitters, Incr(h) PROVE LimiterInv'
<1>1. LimiterTypeOK'
  <2>1. count' \in 0..MaxCount
    BY RateLimitAssumption DEF LimiterInv, LimiterTypeOK, Incr
  <2>2. admitted' \in [Times -> Nat]
    BY DEF LimiterInv, LimiterTypeOK, Incr
  <2>3. opening' \subseteq Hitters
    BY DEF LimiterInv, LimiterTypeOK, Incr
  <2> QED BY <2>1, <2>2, <2>3 DEF LimiterInv, LimiterTypeOK, Incr, Ticks
<1>2. WindowEnds'
  <2>1. CASE count = 0
    BY <2>1 DEF LimiterInv, WindowEnds, Incr, StartsWindow
  <2>2. CASE count # 0
    <3>1. count > 0
      BY <2>2 DEF LimiterInv, LimiterTypeOK
    <3> QED BY <3>1 DEF LimiterInv, WindowEnds, Incr
  <2> QED BY <2>1, <2>2
<1> QED BY <1>1, <1>2 DEF LimiterInv

(* EXPIRE: whoever leaves `opening` leaves an expiry behind *)
LEMMA SetExpiryInv == ASSUME LimiterInv, NEW h \in Hitters, SetExpiry(h) PROVE LimiterInv'
<1>1. LimiterTypeOK'
  BY RateLimitAssumption DEF LimiterInv, LimiterTypeOK, SetExpiry, Ticks, Forever
<1>2. WindowEnds'
  BY RateLimitAssumption DEF LimiterInv, LimiterTypeOK, WindowEnds, SetExpiry, Ticks, Forever
<1> QED BY <1>1, <1>2 DEF LimiterInv

(* Time: a key and its expiry vanish together *)
LEMMA TickInv == ASSUME LimiterInv, Tick PROVE LimiterInv'
<1>1. LimiterTypeOK'
  BY RateLimitAssumption DEF LimiterInv, LimiterTypeOK, Tick, Ticks, Forever
<1>2. WindowEnds'
  BY DEF LimiterInv, LimiterTypeOK, WindowEnds, Tick
<1> QED BY <1>1, <1>2 DEF LimiterInv

(* A lost hitter is remembered *)
LEMMA LoseInv == ASSUME LimiterInv, NEW h \in Hitters, Lose(h) PROVE LimiterInv'
BY DEF LimiterInv, LimiterTypeOK, WindowEnds, Lose

LEMMA LimiterNextInv == LimiterInv /\ [LimiterNext]_limiterVars => LimiterInv'
<1> SUFFICES ASSUME LimiterInv, [LimiterNext]_limiterVars PROVE LimiterInv'
  OBVIOUS
<1>1. CASE Tick
  BY <1>1, TickInv
<1>2. ASSUME NEW h \in Hitters, Incr(h) PROVE LimiterInv'
  BY <1>2, IncrInv
<1>3. ASSUME NEW h \in Hitters, SetExpiry(h) PROVE LimiterInv'
  BY <1>3, SetExpiryInv
<1>4. ASSUME NEW h \in Hitters, Lose(h) PROVE LimiterInv'
  BY <1>4, LoseInv
<1>5. CASE UNCHANGED limiterVars
  BY <1>5 DEF LimiterInv, LimiterTypeOK, WindowEnds, limiterVars
<1> QED BY <1>1, <1>2, <1>3, <1>4, <1>5 DEF LimiterNext

(* The types of rate_limit.py's key hold for ever *)
THEOREM LimiterTypes == LimiterSpec => []LimiterTypeOK
<1>1. LimiterInv => LimiterTypeOK
  BY DEF LimiterInv
<1> QED BY LimiterInitInv, LimiterNextInv, <1>1, PTL DEF LimiterSpec

(* A counted key has an expiry, or a hit about to set it, unless that hit  *)
(* was lost: nobody else is refused for ever (rate_limit.hit).             *)
THEOREM EveryWindowEnds == LimiterSpec => []WindowEnds
<1>1. LimiterInv => WindowEnds
  BY DEF LimiterInv
<1> QED BY LimiterInitInv, LimiterNextInv, <1>1, PTL DEF LimiterSpec

-----------------------------------------------------------------------------
(* The count of admitted hits never falls and stands still after now.      *)
Grows ==
  /\ \A t, u \in Times : t <= u => admitted[t] <= admitted[u]
  /\ \A t \in Times : t > now => admitted[t] = admitted[now + 1]

(* The windows before s have left at most one limit in the last of them    *)
Before(s) == \A t \in 0..s : s - t <= Window => admitted[s] - admitted[t] <= Limit

(* The key was opened at s and will last for a window at least             *)
Opened(s) ==
  /\ expiry # Forever => s + Window <= expiry
  /\ admitted[now + 1] - admitted[s] <= count
  /\ admitted[now + 1] - admitted[s] <= Limit
  /\ Before(s)

Closed ==
  /\ expiry = Forever
  /\ admitted[now + 1] = admitted[now]
  /\ Before(now)

Windowed ==
  /\ Grows
  /\ count = 0 => Closed
  /\ count > 0 => \E s \in Ticks : s <= now /\ Opened(s)

(* What the state says in plain numbers *)
LEMMA Numbers ==
  ASSUME LimiterTypeOK
  PROVE  /\ now \in Nat /\ MaxTime \in Nat /\ now <= MaxTime /\ count \in Nat
         /\ Limit \in Nat /\ Window \in Nat /\ Window > 0 /\ now + 1 \in Times /\ now \in Times
         /\ expiry \in Int /\ (expiry = Forever \/ expiry > now)
         /\ \A t \in Times : t \in Nat /\ admitted[t] \in Nat
BY RateLimitAssumption DEF LimiterTypeOK, Ticks, Times, Forever

LEMMA InitWindowed == LimiterInit => Windowed
<1> SUFFICES ASSUME LimiterInit PROVE Windowed
  OBVIOUS
<1>1. \A t \in Times : admitted[t] = 0
  BY DEF LimiterInit
<1>2. now = 0 /\ 0 \in Times /\ 1 \in Times /\ count = 0 /\ expiry = Forever
  BY RateLimitAssumption DEF LimiterInit, Times
<1> QED BY <1>1, <1>2, RateLimitAssumption DEF Windowed, Grows, Closed, Before, Times

(* INCR of a key that is not there opens it now; any other hit is allowed  *)
(* as long as the whole key is within the limit.                           *)
LEMMA IncrWindowed == ASSUME LimiterTypeOK, Windowed, NEW h \in Hitters, Incr(h) PROVE Windowed'
<1> DEFINE more == IF Allowed(count') THEN 1 ELSE 0
<1>1. /\ now' = now /\ expiry' = expiry /\ count' = count + 1
      /\ \A t \in Times : admitted'[t] = IF t > now THEN admitted[t] + more ELSE admitted[t]
  BY Numbers DEF Incr
<1>2. more \in {0, 1} /\ (more = 1 => count + 1 <= Limit)
  BY <1>1 DEF Allowed
<1> HIDE DEF more
<1>3. Grows'
  <2>1. ASSUME NEW t \in Times, NEW u \in Times, t <= u PROVE admitted'[t] <= admitted'[u]
    BY <1>1, <1>2, <2>1, Numbers DEF Windowed, Grows
  <2>2. ASSUME NEW t \in Times, t > now' PROVE admitted'[t] = admitted'[now' + 1]
    BY <1>1, <1>2, <2>2, Numbers DEF Windowed, Grows
  <2> QED BY <2>1, <2>2 DEF Grows
<1>4. ASSUME NEW s \in Ticks, s <= now, Before(s) PROVE Before(s)'
  <2>1. \A t \in 0..s : t \in Times /\ admitted'[t] = admitted[t]
    BY <1>1, <1>4, Numbers DEF Ticks, Times
  <2> QED BY <2>1, <1>4 DEF Before, Ticks
<1>5. PICK s \in Ticks :
        /\ s <= now /\ Before(s)
        /\ expiry # Forever => s + Window <= expiry
        /\ admitted[now + 1] - admitted[s] <= count
        /\ admitted[now + 1] - admitted[s] <= Limit
  <2>1. CASE count = 0
    BY <2>1, Numbers DEF Windowed, Closed, Ticks
  <2>2. CASE count > 0
    BY <2>2 DEF Windowed, Opened
  <2> QED BY <2>1, <2>2, Numbers
<1>6. s \in Times /\ admitted'[s] = admitted[s] /\ admitted'[now + 1] = admitted[now + 1] + more
  BY <1>1, <1>5, Numbers DEF Ticks, Times
<1>7. s <= now' /\ Opened(s)'
  <2>1. admitted'[now' + 1] - admitted'[s] <= count'
    BY <1>1, <1>2, <1>5, <1>6, Numbers
  <2>2. admitted'[now' + 1] - admitted'[s] <= Limit
    BY <1>1, <1>2, <1>5, <1>6, <2>1, Numbers
  <2> QED BY <1>1, <1>4, <1>5, <2>1, <2>2 DEF Opened
<1>8. count' # 0
  BY <1>1, Numbers
<1> QED BY <1>3, <1>7, <1>8 DEF Windowed

(* EXPIRE is never early: it counts from now, which is not before s.       *)
LEMMA SetExpiryWindowed == ASSUME LimiterTypeOK, Windowed, NEW h \in Hitters, SetExpiry(h) PROVE Windowed'
<1>1. /\ now' = now /\ count' = count /\ admitted' = admitted
      /\ expiry' = IF count > 0 THEN now + Window ELSE Forever
  BY DEF SetExpiry
<1>2. Grows'
  BY <1>1 DEF Windowed, Grows
<1>3. count' = 0 => Closed'
  BY <1>1 DEF Windowed, Closed, Before
<1>4. ASSUME count > 0, NEW s \in Ticks, s <= now, Opened(s) PROVE s <= now' /\ Opened(s)'
  BY <1>1, <1>4, Numbers DEF Opened, Before, Ticks
<1> QED BY <1>1, <1>2, <1>3, <1>4 DEF Windowed

(* A key that expires was opened a whole window ago.                       *)
LEMMA TickWindowed == ASSUME LimiterTypeOK, Windowed, Tick PROVE Windowed'
<1>1. /\ now' = now + 1 /\ now < MaxTime /\ admitted' = admitted
      /\ IF expiry = now + 1 THEN count' = 0 /\ expiry' = Forever
                             ELSE count' = count /\ expiry' = expiry
  BY DEF Tick
<1>2. now + 2 \in Times /\ admitted[now + 2] = admitted[now + 1]
  BY <1>1, Numbers DEF Windowed, Grows, Times
<1>3. Grows'
  <2>1. ASSUME NEW t \in Times, t > now + 1 PROVE admitted[t] = admitted[now + 2]
    <3>1. t > now
      BY <2>1, Numbers
    <3> QED BY <1>2, <3>1 DEF Windowed, Grows
  <2>2. (now + 1) + 1 = now + 2
    BY Numbers
  <2> QED BY <1>1, <2>1, <2>2 DEF Windowed, Grows
<1>4. now' + 1 = now + 2
  BY <1>1, Numbers
<1>5. CASE count = 0
  <2>1. Closed /\ expiry # now + 1
    BY <1>5, Numbers DEF Windowed, Closed, Forever
  <2>2. ASSUME NEW t \in 0..(now + 1), (now + 1) - t <= Window
        PROVE  admitted[now + 1] - admitted[t] <= Limit
    <3>1. CASE t = now + 1
      BY <3>1, Numbers
    <3>2. CASE t # now + 1
      BY <2>1, <2>2, <3>2, Numbers DEF Closed, Before
    <3> QED BY <3>1, <3>2
  <2>3. Closed'
    BY <1>1, <1>2, <1>4, <2>1, <2>2 DEF Closed, Before
  <2> QED BY <1>1, <1>3, <1>5, <2>1, <2>3 DEF Windowed
<1>6. CASE count > 0 /\ expiry = now + 1
  <2>1. PICK s \in Ticks : s <= now /\ Opened(s)
    BY <1>6 DEF Windowed
  <2>2. s + Window <= now + 1 /\ admitted[now + 1] - admitted[s] <= Limit /\ s \in Times
    BY <1>6, <2>1, Numbers DEF Opened, Forever, Ticks, Times
  <2>3. ASSUME NEW t \in 0..(now + 1), (now + 1) - t <= Window
        PROVE  admitted[now + 1] - admitted[t] <= Limit
    <3>1. t \in Times /\ s <= t
      BY <2>2, <2>3, Numbers DEF Times
    <3>2. admitted[s] <= admitted[t]
      BY <2>2, <3>1 DEF Windowed, Grows
    <3> QED BY <2>2, <3>1, <3>2, Numbers
  <2>4. Closed'
    BY <1>1, <1>2, <1>4, <1>6, <2>3 DEF Closed, Before
  <2> QED BY <1>1, <1>3, <1>6, <2>4 DEF Windowed
<1>7. CASE count > 0 /\ expiry # now + 1
  <2>1. PICK s \in Ticks : s <= now /\ Opened(s)
    BY <1>7 DEF Windowed
  <2>2. s <= now' /\ Opened(s)'
    BY <1>1, <1>2, <1>4, <1>7, <2>1, Numbers DEF Opened, Before, Ticks
  <2> QED BY <1>1, <1>3, <1>7, <2>2 DEF Windowed
<1> QED BY <1>5, <1>6, <1>7, Numbers

LEMMA NextWindowed == LimiterInv /\ Windowed /\ [LimiterNext]_limiterVars => Windowed'
<1> SUFFICES ASSUME LimiterInv, Windowed, [LimiterNext]_limiterVars PROVE Windowed'
  OBVIOUS
<1>1. LimiterTypeOK
  BY DEF LimiterInv
<1>2. CASE Tick
  BY <1>1, <1>2, TickWindowed
<1>3. ASSUME NEW h \in Hitters, Incr(h) PROVE Windowed'
  BY <1>1, <1>3, IncrWindowed
<1>4. ASSUME NEW h \in Hitters, SetExpiry(h) PROVE Windowed'
  BY <1>1, <1>4, SetExpiryWindowed
<1>5. ASSUME NEW h \in Hitters, Lose(h) PROVE Windowed'
  BY <1>5 DEF Lose, Windowed, Grows, Closed, Opened, Before
<1>6. CASE UNCHANGED limiterVars
  BY <1>6 DEF limiterVars, Windowed, Grows, Closed, Opened, Before
<1> QED BY <1>2, <1>3, <1>4, <1>5, <1>6 DEF LimiterNext

(* A hit counts in the intervals that reach beyond now.  As long as a      *)
(* window at most, they start after the key was opened, at s, or reach     *)
(* back into the one window before it.                                     *)
LEMMA IncrTwice ==
  ASSUME LimiterTypeOK, LimiterTypeOK', Windowed', TwicePerWindow, NEW h \in Hitters, Incr(h)
  PROVE  TwicePerWindow'
<1> SUFFICES ASSUME NEW t \in Times, NEW u \in Times, t <= u, u - t <= Window
             PROVE  admitted'[u] - admitted'[t] <= 2 * Limit
  BY DEF TwicePerWindow
<1>1. /\ now' = now /\ count' > 0
      /\ \A k \in Times : k <= now => admitted'[k] = admitted[k]
  BY Numbers DEF Incr
<1>2. /\ \A k \in Times : k \in Nat /\ admitted'[k] \in Nat
      /\ Limit \in Nat /\ Window \in Nat /\ now \in Nat
  BY Numbers DEF LimiterTypeOK
<1>3. CASE u <= now
  <2>1. admitted[u] - admitted[t] <= 2 * Limit /\ t <= now
    BY <1>2, <1>3 DEF TwicePerWindow
  <2> QED BY <1>1, <1>3, <2>1
<1>4. CASE u > now
  <2>1. PICK s \in Ticks : s <= now /\ Opened(s)'
    BY <1>1 DEF Windowed
  <2>2. s \in Times /\ s \in Nat
    BY RateLimitAssumption DEF Ticks, Times
  <2>3. admitted'[u] = admitted'[now + 1] /\ admitted'[now + 1] - admitted'[s] <= Limit
    BY <1>1, <1>4, <2>1 DEF Windowed, Grows, Opened
  <2>4. CASE s <= t
    <3>1. admitted'[s] <= admitted'[t]
      BY <2>2, <2>4 DEF Windowed, Grows
    <3>2. now + 1 \in Times
      BY Numbers
    <3> QED BY <1>2, <2>2, <2>3, <3>1, <3>2
  <2>5. CASE t < s
    <3>1. t \in 0..s /\ s - t <= Window
      BY <1>2, <1>4, <2>1, <2>2, <2>5
    <3>2. admitted'[s] - admitted'[t] <= Limit
      BY <2>1, <3>1 DEF Opened, Before
    <3>3. now + 1 \in Times
      BY Numbers
    <3> QED BY <1>2, <2>2, <2>3, <3>2, <3>3
  <2> QED BY <1>2, <2>2, <2>4, <2>5
<1> QED BY <1>2, <1>3, <1>4

LEMMA NextTwice ==
  LimiterTypeOK /\ LimiterTypeOK' /\ Windowed' /\ TwicePerWindow /\ [LimiterNext]_limiterVars => TwicePerWindow'
<1> SUFFICES ASSUME LimiterTypeOK, LimiterTypeOK', Windowed', TwicePerWindow, [LimiterNext]_limiterVars
             PROVE  TwicePerWindow'
  OBVIOUS
<1>1. ASSUME NEW h \in Hitters, Incr(h) PROVE TwicePerWindow'
  BY <1>1, IncrTwice
<1>2. ASSUME admitted' = admitted PROVE TwicePerWindow'
  BY <1>2 DEF TwicePerWindow
<1>3. ASSUME NEW h \in Hitters, SetExpiry(h) \/ Lose(h) PROVE TwicePerWindow'
  BY <1>2, <1>3 DEF SetExpiry, Lose
<1>4. CASE Tick \/ UNCHANGED limiterVars
  BY <1>2, <1>4 DEF Tick, limiterVars
<1> QED BY <1>1, <1>3, <1>4 DEF LimiterNext

(* However hits interleave, wherever a window's boundary falls and         *)
(* whichever openers are lost: no interval as long as a window admits more *)
(* than twice the limit (rate_limit.hit).                                  *)
THEOREM TwiceTheLimit == LimiterSpec => []TwicePerWindow
<1>1. LimiterInit => TwicePerWindow
  <2> SUFFICES ASSUME LimiterInit PROVE TwicePerWindow
    OBVIOUS
  <2>1. \A t \in Times : admitted[t] = 0
    BY DEF LimiterInit
  <2> QED BY <2>1, RateLimitAssumption DEF TwicePerWindow
<1>2. LimiterInv => LimiterTypeOK
  BY DEF LimiterInv
<1> QED BY LimiterInitInv, LimiterNextInv, InitWindowed, NextWindowed, NextTwice, <1>1, <1>2, PTL DEF LimiterSpec
=============================================================================
