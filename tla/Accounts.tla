------------------------------ MODULE Accounts ------------------------------
(***************************************************************************)
(* Who somebody is: accounts and identities in PostgreSQL, sessions and    *)
(* single-use tokens in Redis (routers/auth.py, profile.py, onboarding.py, *)
(* services/identity_service.py, auth_service.py, repositories/users.py,   *)
(* deps.py).  The module follows one person, who has one e-mail address    *)
(* and one id at each provider, through any number of guests and accounts; *)
(* other people's rows never meet theirs.  A request reads what is         *)
(* committed (READ COMMITTED), flushes its INSERTs and UPDATEs, which wait *)
(* for the rows and index entries of other flushed requests, works on      *)
(* Redis at once, and commits.  A request over its rate limit (RateLimit)  *)
(* or with a wrong password leaves no trace and is left out.               *)
(***************************************************************************)
EXTENDS Integers, FiniteSets

CONSTANTS
  Users, Sids,   \* ids of users and sessions
  Devices,       \* clients; they send what they were last given
  Apps,          \* those that keep the session token besides the cookie jar
  Requests,      \* the requests in flight
  MaxEvents,     \* bound: requests, logouts and expiries of one behaviour
  None

ASSUME AccountsAssumption == Apps \subseteq Devices /\ None \notin Users \cup Sids
                              /\ MaxEvents \in Nat

VARIABLES
  user,       \* users
  identity,   \* auth_identities: the user each provider's id belongs to
  prefs,      \* user_preferences: whose answers a user's row holds
  session,    \* session:{sid}: the user, None before and after
  unused,     \* session ids not drawn yet
  token,      \* magic:, reset: and oauth_state: keys of one token each
  device,     \* the cookie and the bearer token a client sends
  req,        \* requests
  events,     \* requests, logouts and expiries so far
  uses,       \* history: how often a token was accepted
  shared,     \* history: tokens that two requests read before either deleted it
  raced,      \* history: users whose rows were written by a request in
              \* whose time another one committed
  answered,   \* history: users who answered the quiz themselves
  ended,      \* history: the sessions that requests were resolved with when
              \* their client logged out
  crossed     \* history: those whose client sent another session's cookie too

tables == <<user, identity, prefs>>
redis == <<session, unused, token>>
histories == <<uses, shared, raced, answered, ended, crossed>>
vars == <<tables, redis, device, req, events, histories>>

Providers == {"email", "google", "apple"}
Tokens == {"magic", "reset", "state"}
Merging == {"register", "login", "apple"}
SigningIn == Merging \cup {"guest", "magic", "google"}
Consuming == {"magic", "google", "reset"}
Kinds == SigningIn \cup {"forgot", "reset", "profile", "delete", "onboard"}

Provider(kind) == CASE kind = "google" -> "google" [] kind = "apple" -> "apple" [] OTHER -> "email"
TokenOf(kind) == CASE kind = "magic" -> "magic" [] kind = "google" -> "state" [] OTHER -> "reset"

Nobody == [state |-> "absent", kind |-> "none", email |-> FALSE, name |-> FALSE,
           password |-> FALSE, into |-> None]
Signed == [cookie |-> None, bearer |-> None]
Done == [pc |-> "idle", kind |-> "none", device |-> None, who |-> None, with |-> None,
         target |-> None, creates |-> FALSE, addressed |-> FALSE, attaches |-> FALSE, moves |-> FALSE,
         overlapped |-> FALSE]

Init ==
  /\ user = [u \in Users |-> Nobody]
  /\ identity = [p \in Providers |-> None]
  /\ prefs = [u \in Users |-> None]
  /\ session = [s \in Sids |-> None]
  /\ unused = Sids
  /\ token = [t \in Tokens |-> "none"]
  /\ device = [d \in Devices |-> Signed]
  /\ req = [r \in Requests |-> Done]
  /\ events = 0
  /\ uses = [t \in Tokens |-> 0]
  /\ shared = {} /\ raced = {} /\ answered = {} /\ ended = {} /\ crossed = {}

Active(u) == u # None /\ user[u].state = "active"

(* optional_context: the header wins over the cookie, and only an active   *)
(* user is anybody                                                         *)
SidOf(d) == IF device[d].bearer # None THEN device[d].bearer ELSE device[d].cookie
Context(d) ==
  LET s == SidOf(d)
  IN  IF s # None /\ Active(session[s]) THEN session[s] ELSE None

Taken == {req[r].target : r \in {q \in Requests : req[q].creates}}
Fresh == {u \in Users : user[u].state = "absent"} \ Taken
ByEmail == {u \in Users : Active(u) /\ user[u].email}

Counts == events < MaxEvents /\ events' = events + 1
Set(r, t) == req' = [req EXCEPT ![r] = t]
Goto(r, pc) == req' = [req EXCEPT ![r].pc = pc]

-----------------------------------------------------------------------------
(* A request begins: its client's context is loaded in a session of its    *)
(* own, and is not looked at again.                                        *)
New(kind, d, pc) ==
  [Done EXCEPT !.kind = kind, !.device = d, !.who = Context(d), !.with = SidOf(d), !.pc = pc]
Begin(r, t) ==
  /\ req[r].pc = "idle" /\ Counts
  /\ t.kind \in SigningIn => unused # {}
  /\ Set(r, t)
  /\ UNCHANGED <<tables, redis, device, histories>>

CreateGuest(r, d) ==
  \E u \in Fresh : Begin(r, [New("guest", d, "flush") EXCEPT !.target = u, !.creates = TRUE])
Register(r, d) == Begin(r, New("register", d, "email"))
Login(r, d) == Begin(r, New("login", d, "email"))
Verify(r, d) == Begin(r, New("magic", d, "token"))
GoogleCallback(r, d) == Begin(r, New("google", d, "token"))
AppleAuth(r, d) == Begin(r, New("apple", d, "identity"))
ForgotPassword(r, d) == Begin(r, New("forgot", d, "email"))
ResetPassword(r, d) == Begin(r, New("reset", d, "token"))
UpdateProfile(r, d) == Context(d) # None /\ Begin(r, New("profile", d, "row"))
DeleteProfile(r, d) == Context(d) # None /\ Begin(r, New("delete", d, "row"))
SaveAnswers(r, d) ==
  Context(d) # None /\ Begin(r, [New("onboard", d, "flush") EXCEPT !.target = Context(d)])

IssueToken(t) ==
  /\ token[t] = "none"
  /\ token' = [token EXCEPT ![t] = "live"]
  /\ UNCHANGED <<events, tables, session, unused, device, req, histories>>
MagicLink == IssueToken("magic")
GoogleLogin == IssueToken("state")

(* ex=: a token's or a session's time to live is over *)
Expire ==
  /\ Counts
  /\ \/ \E t \in Tokens : token[t] = "live" /\ token' = [token EXCEPT ![t] = "gone"]
                          /\ UNCHANGED session
     \/ \E s \in Sids : session[s] # None /\ session' = [session EXCEPT ![s] = None]
                        /\ UNCHANGED token
  /\ UNCHANGED <<tables, unused, device, req, histories>>

(* consume_magic_token, consume_reset_token, google_callback: GET ...      *)
ReadToken(r) ==
  LET t == TokenOf(req[r].kind)
      others == {q \in Requests \ {r} : req[q].pc = "spend" /\ TokenOf(req[q].kind) = t}
  IN  /\ req[r].pc = "token"
      /\ IF token[t] = "live" THEN Goto(r, "spend") ELSE Set(r, Done)
      /\ shared' = IF token[t] = "live" /\ others # {} THEN shared \cup {t} ELSE shared
      /\ UNCHANGED <<events, tables, redis, device, uses, raced, answered, ended, crossed>>

MutantTokenStays(r) ==
  LET t == TokenOf(req[r].kind)
  IN  /\ req[r].pc = "spend"
      /\ uses' = [uses EXCEPT ![t] = @ + 1]
      /\ Goto(r, IF req[r].kind = "reset" THEN "email" ELSE "identity")
      /\ UNCHANGED <<events, tables, redis, device, shared, raced, answered, ended, crossed>>

(* ... and DEL.  Google may then refuse the code.                          *)
SpendToken(r) ==
  LET t == TokenOf(req[r].kind)
  IN  /\ req[r].pc = "spend"
      /\ token' = [token EXCEPT ![t] = "gone"]
      /\ uses' = [uses EXCEPT ![t] = @ + 1]
      /\ \/ Goto(r, IF req[r].kind = "reset" THEN "email" ELSE "identity")
         \/ req[r].kind = "google" /\ Set(r, Done)
      /\ UNCHANGED <<events, tables, session, unused, device, shared, raced, answered, ended, crossed>>

NewAccount(t, u) == [t EXCEPT !.pc = "merge", !.target = u, !.creates = TRUE, !.addressed = TRUE,
                              !.attaches = TRUE]

MutantNoLookup(r) ==
  /\ req[r].pc = "identity" /\ Goto(r, "email")
  /\ UNCHANGED <<events, tables, redis, device, histories>>

(* get_or_create_oauth_user: by identity, and else by address.  Apple and  *)
(* Google may keep the address to themselves.                              *)
ByIdentity(r) ==
  LET owner == identity[Provider(req[r].kind)]
      t == req[r]
  IN  /\ t.pc = "identity"
      /\ \/ Active(owner) /\ Set(r, [t EXCEPT !.pc = "merge", !.target = owner])
         \/ ~Active(owner) /\ Set(r, [t EXCEPT !.pc = "email"])
         \/ /\ ~Active(owner) /\ t.kind \in {"google", "apple"}
            /\ \E u \in Fresh :
                 Set(r, [t EXCEPT !.pc = "merge", !.target = u, !.creates = TRUE, !.attaches = TRUE])
      /\ UNCHANGED <<events, tables, redis, device, histories>>

Looks(r, kinds) ==
  /\ req[r].pc = "email" /\ req[r].kind \in kinds
  /\ UNCHANGED <<events, tables, session, unused, device, histories>>

(* An account that is found has a name already, so filling in a missing    *)
(* one is left out (an empty string, which a registration or a profile may *)
(* have given it, would be filled in here).                                *)
FindByEmail(r) ==
  LET t == req[r]
  IN  /\ Looks(r, {"magic", "google", "apple"}) /\ UNCHANGED token
      /\ \/ \E u \in ByEmail : Set(r, [t EXCEPT !.pc = "merge", !.target = u, !.attaches = TRUE])
         \/ ByEmail = {} /\ \E u \in Fresh : Set(r, NewAccount(t, u))

RegisterFinds(r) ==
  /\ Looks(r, {"register"}) /\ UNCHANGED token
  /\ \/ ByEmail # {} /\ Set(r, Done)
     \/ ByEmail = {} /\ \E u \in Fresh : Set(r, NewAccount(req[r], u))

HasPassword == {u \in ByEmail : user[u].password}
LoginFinds(r) ==
  /\ Looks(r, {"login"}) /\ UNCHANGED token
  /\ \/ HasPassword = {} /\ Set(r, Done)
     \/ \E u \in HasPassword : Set(r, [req[r] EXCEPT !.pc = "merge", !.target = u])

ForgotFinds(r) ==
  /\ Looks(r, {"forgot"}) /\ Set(r, Done)
  /\ token' = IF HasPassword # {} /\ token["reset"] = "none" THEN [token EXCEPT !["reset"] = "live"]
              ELSE token

ResetFinds(r) ==
  /\ Looks(r, {"reset"}) /\ UNCHANGED token
  /\ \/ ByEmail = {} /\ Set(r, Done)
     \/ \E u \in ByEmail : Set(r, [req[r] EXCEPT !.pc = "flush", !.target = u])

Folds(r) == req[r].kind \in Merging /\ req[r].who # None /\ user[req[r].who].kind = "guest"

(* merge_guest_into: the guest's answers move if the account has none      *)
ReadPrefs(r) ==
  /\ req[r].pc = "merge"
  /\ Set(r, [req[r] EXCEPT !.pc = "flush",
                           !.moves = Folds(r) /\ prefs[req[r].target] = None])
  /\ UNCHANGED <<events, tables, redis, device, histories>>

(* update_profile and delete_profile: users_repo.get *)
ReadRow(r) ==
  /\ req[r].pc = "row" /\ Active(req[r].who)
  /\ Set(r, [req[r] EXCEPT !.pc = "flush", !.target = req[r].who])
  /\ UNCHANGED <<events, tables, redis, device, histories>>

-----------------------------------------------------------------------------
(* The rows and index entries a request has written and not committed      *)
HasEmail(r) == req[r].creates /\ req[r].addressed
WritesTarget(r) == req[r].kind \in {"reset", "profile", "delete"}
Moves(r) == req[r].moves /\ prefs[req[r].who] # None
Locks(r) ==
  (IF HasEmail(r) THEN {<<"email", None>>} ELSE {})
    \cup (IF req[r].attaches THEN {<<"identity", Provider(req[r].kind)>>} ELSE {})
    \cup (IF WritesTarget(r) THEN {<<"user", req[r].target>>} ELSE {})
    \cup (IF Folds(r) THEN {<<"user", req[r].who>>} ELSE {})
    \cup (IF req[r].kind = "onboard" THEN {<<"prefs", req[r].target>>} ELSE {})
    \cup (IF Moves(r) THEN {<<"prefs", req[r].who>>, <<"prefs", req[r].target>>} ELSE {})

Flushed == {r \in Requests : req[r].pc \in {"redis", "commit"}}
Blocked(r) == \E q \in Flushed \ {r} : Locks(q) \cap Locks(r) # {}

(* Unique keys: users.email, uq_auth_identities_provider_external and the  *)
(* primary key of user_preferences                                         *)
MutantNotUnique(r) == Moves(r) /\ prefs[req[r].target] # None
MutantOverwriteAnswers(r) ==
  \/ HasEmail(r) /\ \E u \in Users : user[u].email
  \/ req[r].attaches /\ identity[Provider(req[r].kind)] # None
Conflicts(r) ==
  \/ HasEmail(r) /\ \E u \in Users : user[u].email
  \/ req[r].attaches /\ identity[Provider(req[r].kind)] # None
  \/ Moves(r) /\ prefs[req[r].target] # None

Flush(r) ==
  /\ req[r].pc = "flush" /\ ~Blocked(r)
  /\ Set(r, [req[r] EXCEPT !.moves = Moves(r),
       !.pc = IF Conflicts(r) THEN "error"
              ELSE IF req[r].kind \in SigningIn \cup {"delete"} THEN "redis" ELSE "commit"])
  /\ UNCHANGED <<events, tables, redis, device, histories>>

(* create_session_for_user_id, or delete_session: before the commit        *)
Redis(r) ==
  /\ req[r].pc = "redis"
  /\ IF req[r].kind = "delete"
     THEN /\ session' = [session EXCEPT ![req[r].with] = None]
          /\ Goto(r, "commit")
          /\ UNCHANGED unused
     ELSE \E s \in unused :
            /\ session' = [session EXCEPT ![s] = req[r].target]
            /\ unused' = unused \ {s}
            /\ Set(r, [req[r] EXCEPT !.pc = "commit", !.with = s])
  /\ UNCHANGED <<events, tables, token, device, histories>>

Merged(r, row) == IF Folds(r) THEN [row EXCEPT ![req[r].who].state = "merged",
                                               ![req[r].who].into = req[r].target] ELSE row

Created(r) ==
  IF req[r].kind = "guest"
  THEN [Nobody EXCEPT !.state = "active", !.kind = "guest"]
  ELSE [Nobody EXCEPT !.state = "active", !.kind = "registered", !.name = TRUE,
                      !.email = req[r].addressed, !.password = req[r].kind = "register"]

MutantKeepPassword(row) == [row EXCEPT !.state = "deleted", !.email = FALSE, !.name = FALSE]
Erased(row) == [row EXCEPT !.state = "deleted", !.email = FALSE, !.name = FALSE, !.password = FALSE]

(* The users rows a request leaves.  An UPDATE sets its columns and does   *)
(* not ask whether the row was deleted since it was read.                  *)
UserRows(r) ==
  LET t == req[r]
  IN  CASE t.kind = "profile" -> [user EXCEPT ![t.target].name = TRUE]
        [] t.kind = "reset"   -> [user EXCEPT ![t.target].password = TRUE]
        [] t.kind = "delete"  -> [user EXCEPT ![t.target] = Erased(@)]
        [] t.creates          -> Merged(r, [user EXCEPT ![t.target] = Created(r)])
        [] OTHER              -> Merged(r, user)

(* The answers a request leaves: save_answers upserts, a merge moves       *)
Answers(r) ==
  LET t == req[r]
  IN  IF t.kind = "onboard" THEN [prefs EXCEPT ![t.target] = t.target]
      ELSE IF t.moves THEN [prefs EXCEPT ![t.target] = prefs[t.who], ![t.who] = None]
      ELSE prefs

(* What the client keeps of the answer.  Every sign-in sets the cookie,    *)
(* but Google's for an app, which ends outside its cookie jar; the end of  *)
(* a session clears it, and an app then forgets its token.                 *)
Received(t) ==
  LET d == t.device
  IN  CASE t.kind \in SigningIn ->
             [device EXCEPT ![d].cookie = IF t.kind = "google" /\ d \in Apps THEN @ ELSE t.with,
                            ![d].bearer = IF d \in Apps THEN t.with ELSE @]
        [] t.kind = "delete" -> [device EXCEPT ![d] = Signed]
        [] OTHER -> device

(* users_repo.get finds no row: an update ends there, a deletion still     *)
(* ends the session and, if its answer arrives, the cookie.  An account    *)
(* that is gone stays gone, so nothing can come between the two.           *)
NoRow(r) ==
  /\ req[r].pc = "row" /\ ~Active(req[r].who)
  /\ Set(r, Done)
  /\ IF req[r].kind = "delete"
     THEN /\ session' = [session EXCEPT ![req[r].with] = None]
          /\ device' \in {device, Received(req[r])}
     ELSE UNCHANGED <<session, device>>
  /\ UNCHANGED <<events, tables, unused, token, histories>>

Overlapped(r, t) == [q \in Requests |->
  IF q = r THEN t ELSE IF req[q].pc = "idle" THEN req[q] ELSE [req[q] EXCEPT !.overlapped = TRUE]]

Commit(r) ==
  LET t == req[r]
  IN  /\ t.pc = "commit"
      /\ user' = UserRows(r)
      /\ identity' = IF t.attaches THEN [identity EXCEPT ![Provider(t.kind)] = t.target] ELSE identity
      /\ prefs' = Answers(r)
      /\ device' = Received(t)
      /\ req' = Overlapped(r, Done)
      /\ raced' = IF t.overlapped THEN raced \cup ({t.who, t.target} \ {None}) ELSE raced
      /\ answered' = IF t.kind = "onboard" THEN answered \cup {t.target} ELSE answered
      /\ UNCHANGED <<events, redis, uses, shared, ended, crossed>>

(* An IntegrityError, a client that went away, a connection that was lost: *)
(* the transaction is rolled back, and what Redis was told stays.  Before  *)
(* the flush that leaves no trace, and a request just begins later.        *)
Abort(r) ==
  /\ req[r].pc \in {"redis", "commit", "error"}
  /\ Set(r, Done)
  /\ UNCHANGED <<events, tables, redis, device, histories>>

(* DELETE /me: here the cookie wins over the header                        *)
LoggedOut(d) == IF device[d].cookie # None THEN device[d].cookie ELSE device[d].bearer
Logout(d) ==
  /\ SidOf(d) # None /\ Counts
  /\ session' = [s \in Sids |-> IF s = LoggedOut(d) THEN None ELSE session[s]]
  /\ device' = [device EXCEPT ![d] = Signed]
  /\ ended' = ended \cup {SidOf(d)}
  /\ crossed' = IF device[d].cookie \notin {None, SidOf(d)} THEN crossed \cup {SidOf(d)} ELSE crossed
  /\ UNCHANGED <<tables, unused, token, req, uses, shared, raced, answered>>

Next ==
  \/ \E r \in Requests, d \in Devices :
       \/ CreateGuest(r, d) \/ Register(r, d) \/ Login(r, d) \/ Verify(r, d) \/ GoogleCallback(r, d)
       \/ AppleAuth(r, d) \/ ForgotPassword(r, d) \/ ResetPassword(r, d)
       \/ UpdateProfile(r, d) \/ DeleteProfile(r, d) \/ SaveAnswers(r, d)
  \/ \E r \in Requests :
       \/ ReadToken(r) \/ SpendToken(r) \/ ByIdentity(r) \/ FindByEmail(r) \/ RegisterFinds(r)
       \/ LoginFinds(r) \/ ForgotFinds(r) \/ ResetFinds(r) \/ ReadPrefs(r) \/ ReadRow(r)
       \/ NoRow(r) \/ Flush(r) \/ Redis(r) \/ Commit(r) \/ Abort(r)
  \/ MagicLink \/ GoogleLogin \/ Expire
  \/ \E d \in Devices : Logout(d)

Spec == Init /\ [][Next]_vars

-----------------------------------------------------------------------------
UserRow == [state : {"absent", "active", "merged", "deleted"}, kind : {"none", "guest", "registered"},
            email : BOOLEAN, name : BOOLEAN, password : BOOLEAN, into : Users \cup {None}]

(* Rows, keys and requests keep their shape, and an account that is folded *)
(* away is a guest and goes into somebody else.                            *)
TypeOK ==
  /\ \A u \in Users : user[u] \in UserRow
                    /\ (user[u].state = "merged" => user[u].kind = "guest" /\ user[u].into \in Users \ {u})
  /\ identity \in [Providers -> Users \cup {None}]
  /\ prefs \in [Users -> Users \cup {None}]
  /\ session \in [Sids -> Users \cup {None}]
  /\ unused \subseteq Sids /\ \A s \in unused : session[s] = None
  /\ token \in [Tokens -> {"none", "live", "gone"}]
  /\ device \in [Devices -> [cookie : Sids \cup {None}, bearer : Sids \cup {None}]]
  /\ \A r \in Requests : req[r].kind \in Kinds \cup {"none"} /\ req[r].target \in Users \cup {None}

(* "must not split a person in two": however two first sign-ins overlap,   *)
(* the address belongs to one account, because the second INSERT waits for *)
(* the first and breaks users.email.                                       *)
OneAccountPerPerson == Cardinality(ByEmail) <= 1

(* A magic link, a reset link and an OAuth state are accepted once, unless *)
(* two requests had read the key before either of them deleted it.         *)
SingleUse == \A t \in Tokens : uses[t] <= 1 \/ t \in shared

(* "the person disappears": a deleted row holds no address, name or        *)
(* password, unless a request that overlapped the deletion wrote it back.  *)
DeletedIsBlank ==
  \A u \in Users \ raced : user[u].state = "deleted" =>
    ~user[u].email /\ ~user[u].name /\ ~user[u].password

(* A sign-in ends in a server error only if another request committed in   *)
(* its time, or if its identity still belongs to a deleted account:        *)
(* delete_profile leaves auth_identities, and the next sign-in through     *)
(* that provider breaks its unique key.                                    *)
ErrorOnlyFromOldRows ==
  \A r \in Requests : req[r].pc = "error" =>
    \/ req[r].overlapped
    \/ LET owner == identity[Provider(req[r].kind)] IN owner # None /\ ~Active(owner)

(* Whoever answered the quiz keeps those answers when guests are folded    *)
(* in, however the two requests overlap.                                   *)
OwnAnswersKept == \A u \in answered : Active(u) => prefs[u] = u

(* Answers "travel to the account on sign-in": a folded guest leaves none  *)
(* behind unless the account has some, or something overlapped the merge.  *)
AnswersTravel ==
  \A u \in Users \ raced : user[u].state = "merged" /\ prefs[u] # None => prefs[user[u].into] # None

(* After logging out, the session the client was acting with is gone,      *)
(* unless its cookie jar held another one: logout prefers the cookie and   *)
(* everything else the header.                                             *)
LogoutEnds == \A s \in ended \ crossed : session[s] = None

(* The unique columns keep people apart and together: rows keep their      *)
(* shape and an address has one account, however requests overlap.         *)
RowsSound == TypeOK /\ OneAccountPerPerson

(* The answers of the onboarding quiz over a sign-in: the account's own    *)
(* win, and where it has none the guest's travel along.                    *)
AnswersFollow == OwnAnswersKept /\ AnswersTravel

(* What a person ends stays ended: a deleted account shows nothing of      *)
(* them, and a session that was logged out opens nothing.                  *)
GoneIsGone == DeletedIsBlank /\ LogoutEnds
=============================================================================
