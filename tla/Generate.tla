------------------------------ MODULE Generate ------------------------------
(***************************************************************************)
(* POST /api/generate for pictures (app/routers/generate.py) together with *)
(* the provider registry it runs (app/services/generation/registry.py),    *)
(* the media it stores, and the sign-in that moves a guest's rows to an    *)
(* account while pictures are being made.                                  *)
(*                                                                         *)
(* A request runs in one transaction: the charge, the generation row, the  *)
(* media row and the chat message become visible to others at the commit,  *)
(* all at once.  Three effects are not part of it: the object in storage,  *)
(* the trace of a failure, which a session of its own commits, and         *)
(* whatever others commit meanwhile.  A sign-in is a transaction too, but  *)
(* the isolation is READ COMMITTED: each of its UPDATEs works on the rows  *)
(* committed when that UPDATE runs.  The requests that are refused before  *)
(* the charge (rate limit, unknown tile or style, contradicting type,      *)
(* video switched off, no tokens) leave no trace and are left out; what    *)
(* the charge does to the wallet is in Wallet and WalletTx.                *)
(***************************************************************************)
EXTENDS Integers, Sequences, SequencesExt, Lists

CONSTANTS
  Requests,        \* one id for a request, its generation row and its result
  Guests, Accounts,
  Photos,          \* media ids of uploaded reference photos
  Elsewhere,       \* a photo_url that is not of the form /api/media/...
  ProviderOrder,   \* generation_providers in order of priority
  Can,             \* what a provider's row and its adapter both can do
  None             \* absent value

Users == Guests \cup Accounts
Providers == ToSet(ProviderOrder)
Operations == {"text_to_image", "image_to_image"}
PhotoUrls == Photos \cup {Elsewhere, None}
(* What is asked for: a tile or free text, a style of the catalogue, or a  *)
(* style whose input_spec says needs_photo                                 *)
Styles == {"none", "plain", "portrait"}
Tables == {"media", "generation", "message"}
UpdateOrder == <<"media", "generation", "message">>

ASSUME GenerateAssumption ==
  /\ Guests \cap Accounts = {}
  /\ None \notin Users \cup Photos \cup Providers \cup {Elsewhere}
  /\ Elsewhere \notin Photos
  /\ ProviderOrder \in Seq(Providers)
  /\ \A i, j \in DOMAIN ProviderOrder : ProviderOrder[i] = ProviderOrder[j] => i = j
  /\ Can \in [Providers -> SUBSET Operations]

VARIABLES
  account,     \* users: "active", or "merged" once folded into an account
  photoOwner,  \* media rows of the photos: user_id
  enabled,     \* providers that are switched on and have their keys
  req,         \* the requests
  left,        \* the providers a request has still to ask, best first
  signin,      \* the sign-in under way, by guest
  rows,        \* committed rows of a finished work: their user_id, by table
  charged,     \* the requests whose charge is committed
  failed,      \* committed traces of failed attempts (status failed, cost 0)
  objects,     \* results in storage
  tried,       \* history: the providers a request called, in order
  steady,      \* history: the providers that were enabled ever since it began
  overlapped   \* history: the requests under way while their guest signed in

tables == <<rows, charged, photoOwner, account, failed>>
vars == <<tables, enabled, req, left, signin, objects, tried, steady, overlapped>>

(* Operators named Mutant... are plausible mistakes in the definition they *)
(* precede; the specification never uses them.                             *)

NoRows == [t \in Tables |-> None]
Request(pc, user, photo, style, prefer) ==
  [pc |-> pc, user |-> user, photo |-> photo, style |-> style, prefer |-> prefer, operation |-> None]
Waiting == Request("waiting", None, None, "none", None)
SignInTo(a) == [into |-> a, done |-> 0, photos |-> {}, moved |-> [t \in Tables |-> {}]]
NoSignIn == SignInTo(None)

Init ==
  /\ account = [u \in Users |-> "active"]
  /\ photoOwner \in [Photos -> Users]
  /\ enabled \in SUBSET Providers
  /\ req = [r \in Requests |-> Waiting]
  /\ left = [r \in Requests |-> <<>>]
  /\ signin = [g \in Guests |-> NoSignIn]
  /\ rows = [r \in Requests |-> NoRows]
  /\ charged = {} /\ failed = {} /\ objects = {} /\ overlapped = {}
  /\ tried = [r \in Requests |-> <<>>]
  /\ steady = [r \in Requests |-> {}]

Goto(r, pc) == req' = [req EXCEPT ![r].pc = pc]
InFlight == {r \in Requests : req[r].pc \notin {"waiting", "delivered", "refused", "failed", "lost"}}
SigningIn == {g \in Guests : signin[g].into # None}

(* registry.candidates: one SELECT, best first *)
Candidates(op) == Kept(ProviderOrder, {p \in enabled : op \in Can[p]})

(* registry.run moves the style's provider to the front and keeps the rest *)
MutantPreferOnly(options, prefer) ==
  IF prefer = None THEN options ELSE Kept(options, {prefer})
Preferred(options, prefer) ==
  Kept(options, {prefer}) \o Kept(options, Providers \ {prefer})

-----------------------------------------------------------------------------
(* A session of the user is resolved and the charge is made, invisibly to  *)
(* others until the commit.  Only a style may name a provider, and a style *)
(* that needs a photo is refused unless the request names one.             *)
Start(r, u, photo, style, prefer) ==
  /\ req[r] = Waiting
  /\ account[u] = "active"
  /\ style = "portrait" => photo # None
  /\ prefer # None => style # "none"
  /\ req' = [req EXCEPT ![r] = Request("photo", u, photo, style, prefer)]
  /\ steady' = [steady EXCEPT ![r] = enabled]
  /\ overlapped' = IF u \in SigningIn THEN overlapped \cup {r} ELSE overlapped
  /\ UNCHANGED <<tables, enabled, left, signin, objects, tried>>

(* _load_photo: nothing for a link of another form, 404 unless the photo   *)
(* is the user's                                                           *)
MutantAnyonesPhoto(r) ==
  /\ req[r].pc = "photo"
  /\ Goto(r, "operation")
  /\ UNCHANGED <<tables, enabled, left, signin, objects, tried, steady, overlapped>>
LoadPhoto(r) ==
  LET photo == req[r].photo
  IN  /\ req[r].pc = "photo"
      /\ Goto(r, IF photo \in Photos /\ photoOwner[photo] # req[r].user
                 THEN "refused" ELSE "operation")
      /\ UNCHANGED <<tables, enabled, left, signin, objects, tried, steady, overlapped>>

(* A photo makes it an edit only if somebody can edit right now *)
MutantAskFirst(r) ==
  LET options == Candidates("text_to_image")
      editing == /\ req[r].photo \in Photos /\ options # <<>>
                 /\ "image_to_image" \in Can[Head(options)]
  IN  /\ req[r].pc = "operation"
      /\ \E op \in Operations :
           /\ op = "image_to_image" <=> editing
           /\ req' = [req EXCEPT ![r] = [@ EXCEPT !.pc = "prompt", !.operation = op]]
      /\ UNCHANGED <<tables, enabled, left, signin, objects, tried, steady, overlapped>>
ChooseOperation(r) ==
  LET editing == req[r].photo \in Photos /\ Candidates("image_to_image") # <<>>
  IN  /\ req[r].pc = "operation"
      /\ \E op \in Operations :
           /\ op = "image_to_image" <=> editing
           /\ req' = [req EXCEPT ![r] = [@ EXCEPT !.pc = "prompt", !.operation = op]]
      /\ UNCHANGED <<tables, enabled, left, signin, objects, tried, steady, overlapped>>

(* A style's own text needs nobody; anything else may need a translation   *)
(* nobody can give (PromptUnavailable), which leaves no trace.             *)
BuildPrompt(r) ==
  /\ req[r].pc = "prompt"
  /\ \E pc \in {"queue"} \cup (IF req[r].style = "none" THEN {"refused"} ELSE {}) : Goto(r, pc)
  /\ UNCHANGED <<tables, enabled, left, signin, objects, tried, steady, overlapped>>

(* The registry is asked again: its rows may have changed since *)
MutantWaitForProvider(r) ==
  LET options == Preferred(Candidates(req[r].operation), req[r].prefer)
  IN  /\ req[r].pc = "queue" /\ options # <<>>
      /\ left' = [left EXCEPT ![r] = options]
      /\ Goto(r, "running")
      /\ UNCHANGED <<tables, enabled, signin, objects, tried, steady, overlapped>>
Queue(r) ==
  LET options == Preferred(Candidates(req[r].operation), req[r].prefer)
  IN  /\ req[r].pc = "queue"
      /\ left' = [left EXCEPT ![r] = options]
      /\ Goto(r, IF options = <<>> THEN "failing" ELSE "running")
      /\ UNCHANGED <<tables, enabled, signin, objects, tried, steady, overlapped>>

(* adapter.run returns a picture ...                                       *)
Provide(r) ==
  /\ req[r].pc = "running"
  /\ tried' = [tried EXCEPT ![r] = Append(@, Head(left[r]))]
  /\ Goto(r, "store")
  /\ UNCHANGED <<tables, enabled, left, signin, objects, steady, overlapped>>

(* ... or raises, and the next one is tried *)
FallThrough(r) ==
  LET rest == Tail(left[r])
  IN  /\ req[r].pc = "running"
      /\ tried' = [tried EXCEPT ![r] = Append(@, Head(left[r]))]
      /\ left' = [left EXCEPT ![r] = rest]
      /\ Goto(r, IF rest = <<>> THEN "failing" ELSE "running")
      /\ UNCHANGED <<tables, enabled, signin, objects, steady, overlapped>>

(* Everybody failed: the trace is committed by another session, if it gets *)
(* a connection, and raising rolls the charge back.                        *)
MutantFailKeepsCharge(r) ==
  /\ req[r].pc = "failing"
  /\ failed' = failed \cup {r}
  /\ charged' = charged \cup {r}
  /\ Goto(r, "failed")
  /\ UNCHANGED <<rows, photoOwner, account, enabled, left, signin, objects, tried, steady, overlapped>>
Fail(r) ==
  /\ req[r].pc = "failing"
  /\ failed' \in {failed, failed \cup {r}}
  /\ Goto(r, "failed")
  /\ UNCHANGED <<rows, charged, photoOwner, account, enabled, left, signin, objects, tried, steady, overlapped>>

(* save_image: the object before the row *)
Store(r) ==
  /\ req[r].pc = "store"
  /\ objects' = objects \cup {r}
  /\ Goto(r, "commit")
  /\ UNCHANGED <<tables, enabled, left, signin, tried, steady, overlapped>>

Commit(r) ==
  /\ req[r].pc = "commit"
  /\ rows' = [rows EXCEPT ![r] = [t \in Tables |-> req[r].user]]
  /\ charged' = charged \cup {r}
  /\ Goto(r, "delivered")
  /\ UNCHANGED <<account, photoOwner, failed, enabled, left, signin, objects, tried, steady, overlapped>>

(* The process, a connection or the client is lost, or a step raises an    *)
(* exception nobody expects (bytes that are no picture, storage that is    *)
(* down): the transaction is rolled back.                                  *)
Abort(r) ==
  /\ r \in InFlight
  /\ Goto(r, "lost")
  /\ UNCHANGED <<tables, enabled, left, signin, objects, tried, steady, overlapped>>

-----------------------------------------------------------------------------
(* users.merge_guest_into.  One sign-in of a guest at a time; what two of  *)
(* them do to each other is in WalletTx.                                   *)
BeginSignIn(g, a) ==
  /\ g \notin SigningIn /\ account[g] = "active" /\ account[a] = "active"
  /\ signin' = [signin EXCEPT ![g] = SignInTo(a)]
  /\ overlapped' = overlapped \cup {r \in InFlight : req[r].user = g}
  /\ UNCHANGED <<tables, enabled, req, left, objects, tried, steady>>

(* The rows an UPDATE moves: those of the guest committed by now *)
MutantMediaStays(g, table) == IF table = "media" THEN {} ELSE {r \in Requests : rows[r][table] = g}
RowsOf(g, table) == {r \in Requests : rows[r][table] = g}

MoveTable(g) ==
  LET s == signin[g]
      table == UpdateOrder[s.done + 1]
  IN  /\ g \in SigningIn /\ s.done < Len(UpdateOrder)
      /\ signin' = [signin EXCEPT ![g] =
                      [into |-> s.into, done |-> s.done + 1,
                       moved |-> [s.moved EXCEPT ![table] = RowsOf(g, table)],
                       photos |-> IF table = "media"
                                  THEN {p \in Photos : photoOwner[p] = g} ELSE s.photos]]
      /\ UNCHANGED <<tables, enabled, req, left, objects, tried, steady, overlapped>>

CommitSignIn(g) ==
  LET s == signin[g]
  IN  /\ g \in SigningIn /\ s.done = Len(UpdateOrder)
      /\ account' = [account EXCEPT ![g] = "merged"]
      /\ rows' = [r \in Requests |->
                    [t \in Tables |-> IF r \in s.moved[t] THEN s.into ELSE rows[r][t]]]
      /\ photoOwner' = [p \in Photos |-> IF p \in s.photos THEN s.into ELSE photoOwner[p]]
      /\ signin' = [signin EXCEPT ![g] = NoSignIn]
      /\ UNCHANGED <<charged, failed, enabled, req, left, objects, tried, steady, overlapped>>

AbortSignIn(g) ==
  /\ g \in SigningIn
  /\ signin' = [signin EXCEPT ![g] = NoSignIn]
  /\ UNCHANGED <<tables, enabled, req, left, objects, tried, steady, overlapped>>

(* An UPDATE of generation_providers: is_enabled *)
Switch(p) ==
  /\ enabled' = IF p \in enabled THEN enabled \ {p} ELSE enabled \cup {p}
  /\ steady' = [r \in Requests |-> steady[r] \ {p}]
  /\ UNCHANGED <<tables, req, left, signin, objects, tried, overlapped>>

Proceed(r) ==
  \/ LoadPhoto(r) \/ ChooseOperation(r) \/ BuildPrompt(r) \/ Queue(r) \/ Provide(r)
  \/ FallThrough(r) \/ Fail(r) \/ Store(r) \/ Commit(r)

Next ==
  \/ \E r \in Requests, u \in Users, photo \in PhotoUrls, style \in Styles,
        prefer \in Providers \cup {None} : Start(r, u, photo, style, prefer)
  \/ \E r \in Requests : Proceed(r) \/ Abort(r)
  \/ \E g \in Guests, a \in Accounts : BeginSignIn(g, a)
  \/ \E g \in Guests : MoveTable(g) \/ CommitSignIn(g) \/ AbortSignIn(g)
  \/ \E p \in Providers : Switch(p)

Spec == Init /\ [][Next]_vars
FairSpec == Spec /\ \A r \in Requests : WF_vars(Proceed(r))

-----------------------------------------------------------------------------
(* Every variable holds a value of its kind (the tables of generate.py,    *)
(* registry.py and users.py).                                              *)
TypeOK ==
  /\ account \in [Users -> {"active", "merged"}]
  /\ photoOwner \in [Photos -> Users]
  /\ enabled \subseteq Providers
  /\ rows \in [Requests -> [Tables -> Users \cup {None}]]
  /\ charged \subseteq Requests /\ failed \subseteq Requests /\ objects \subseteq Requests
  /\ overlapped \subseteq Requests
  /\ left \in [Requests -> Seq(Providers)] /\ tried \in [Requests -> Seq(Providers)]
  /\ steady \in [Requests -> SUBSET Providers]
  /\ \A r \in Requests : /\ req[r].user \in Users \cup {None}
                         /\ req[r].photo \in PhotoUrls /\ req[r].style \in Styles
                         /\ req[r].operation \in Operations \cup {None}
  /\ \A g \in Guests : /\ signin[g].into \in Accounts \cup {None}
                       /\ signin[g].done \in 0..Len(UpdateOrder)
                       /\ signin[g].photos \subseteq Photos
                       /\ signin[g].moved \in [Tables -> SUBSET Requests]

(* Whoever is charged has a complete work whose picture is in storage, and *)
(* whoever has a work is charged; a failed attempt is never charged.       *)
ChargedForWork ==
  \A r \in Requests :
    /\ r \in charged <=> rows[r] # NoRows
    /\ r \in charged => r \in objects /\ r \notin failed

(* The rows of one work never part company, unless a sign-in overlapped    *)
(* the request: who sees the work in the history can load its picture and  *)
(* finds it in the chat.                                                   *)
RowsTogether ==
  \A r \in Requests \ overlapped : \A t1, t2 \in Tables : rows[r][t1] = rows[r][t2]

(* "Whoever generated something before logging in must find it there       *)
(* afterwards" (auth.py:43-44): a sign-in takes along every work that was  *)
(* not under way at the time.  One that was stays with the guest.          *)
WorkFollowsSignIn ==
  \A r \in Requests \ overlapped : \A g \in Guests :
    account[g] = "merged" => \A t \in Tables : rows[r][t] # g

(* Nobody is refused a picture that a provider could have made: when a     *)
(* request fails, every provider that does the operation and was on from   *)
(* the first to the last has been asked, whatever the style prefers.       *)
EverybodyAsked ==
  \A r \in Requests : req[r].pc = "failed" =>
    {p \in steady[r] : req[r].operation \in Can[p]} \subseteq ToSet(tried[r])

(* No provider is asked, and paid by us, twice for one request; and one    *)
(* that is asked before another one is the style's or has the better       *)
(* priority.                                                               *)
Priority(p) == CHOOSE i \in DOMAIN ProviderOrder : ProviderOrder[i] = p
BestFirst ==
  \A r \in Requests : \A i, j \in DOMAIN tried[r] :
    i < j => LET p == tried[r][i]
                 q == tried[r][j]
             IN  /\ q # req[r].prefer
                 /\ p = req[r].prefer \/ Priority(p) < Priority(q)

(* A style that needs the person's photo is drawn without it, and paid     *)
(* for, only if the link is not one of ours or nobody who could edit was   *)
(* there all the time ("without it this would be another picture, and the  *)
(* person has already paid", generate.py:97-98).                           *)
PhotoDroppedForAReason ==
  \A r \in charged : req[r].style = "portrait" /\ req[r].operation # "image_to_image" =>
    \/ req[r].photo = Elsewhere
    \/ \A p \in steady[r] : "image_to_image" \notin Can[p]

(* Nobody's photo is sent to a provider for somebody else: a work made     *)
(* from a photo belongs to the photo's owner, or did when it was made.     *)
OwnPhoto ==
  \A r \in charged \ overlapped :
    req[r].operation = "image_to_image" => photoOwner[req[r].photo] = rows[r]["generation"]

(* Every attempt is answered *)
EveryAttemptEnds == \A r \in Requests : r \in InFlight ~> r \notin InFlight

(* The queue of providers (candidates, preferred_first): whoever could     *)
(* have made the picture is asked before anybody is refused, the best      *)
(* first and nobody twice.                                                 *)
QueueInOrder == TypeOK /\ EverybodyAsked /\ BestFirst

(* merge_guest_into moves a work's rows together and leaves none behind,   *)
(* but for the works of requests that it overlapped.                       *)
WorksMoveWhole == RowsTogether /\ WorkFollowsSignIn
=============================================================================
