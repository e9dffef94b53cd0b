------------------------------ MODULE Library ------------------------------
(***************************************************************************)
(* A person's pictures: uploads and works, their bytes in object storage,  *)
(* share links and deletion (repositories/media.py and generations.py,     *)
(* routers/media.py and generations.py, storage/), beside the thread of    *)
(* Chat.  Storage obeys at once and knows no rollback; rows are committed  *)
(* (READ COMMITTED), and a flushed UPDATE or INSERT holds its row or key.  *)
(* Every upload here is the same photograph, which is the case dedup is    *)
(* about; generate's path to a picture is the module Generate.             *)
(***************************************************************************)
EXTENDS Chat

CONSTANTS
  Guest, Account,  \* two owners: a guest and the account they sign in to
  Works, Photos,   \* media ids of generations and of uploads
  Jobs,            \* requests in flight
  MaxJobs,         \* bound: requests of one behaviour
  Nil

Owners == {Guest, Account}
Assets == Works \cup Photos

ASSUME LibraryAssumption == Guest # Account /\ Works \cap Photos = {} /\ MaxJobs \in Nat

VARIABLES
  asset,     \* media_assets
  work,      \* generations; the row and its result have one owner
  bytes,     \* the objects in storage, each with its thumbnail
  job,       \* requests
  jobs,      \* requests so far; also the source of share ids
  links,     \* history: the links people were handed
  reshared,  \* history: works whose link a second share replaced
  cutShort   \* history: assets whose deletion stopped after storage was told

rows == <<asset, work>>
libraryVars == <<rows, bytes, job, jobs, links, reshared, cutShort>>
vars == <<libraryVars, chatVars>>

NoWork == [row |-> "absent", owner |-> Nil, share |-> 0]
NoJob == [pc |-> "idle", kind |-> "none", who |-> Nil, thing |-> Nil, link |-> 0, moved |-> {},
          overlapped |-> FALSE]

Init ==
  /\ asset = [x \in Assets |-> [row |-> "absent", owner |-> Nil]]
  /\ work = [w \in Works |-> NoWork]
  /\ bytes = {} /\ links = {} /\ reshared = {} /\ cutShort = {}
  /\ job = [j \in Jobs |-> NoJob] /\ jobs = 0
  /\ ChatInit

Live(x) == asset[x].row = "live"
Mine(w, u) == work[w].row = "live" /\ work[w].owner = u          \* generations.get
UploadsOf(u) == {p \in Photos : Live(p) /\ asset[p].owner = u}
FreshOf(X) == {x \in X : asset[x].row = "absent" /\ \A j \in Jobs : job[j].thing # x} \ bytes

(* get_by_share_id, _is_shared and get_media *)
IsShared(w) == work[w].share # 0 /\ work[w].row = "live"
Resolves(id) == {w \in Works : IsShared(w) /\ work[w].share = id}
Served(x, u) == /\ Live(x) /\ x \in bytes
                /\ asset[x].owner = u \/ (x \in Works /\ IsShared(x))

Put_(j, t) == job' = [job EXCEPT ![j] = t]
Request(j, kind, u, t) ==
  /\ job[j].pc = "idle" /\ jobs < MaxJobs
  /\ jobs' = jobs + 1
  /\ Put_(j, [t EXCEPT !.kind = kind, !.who = u])
  /\ UNCHANGED <<rows, bytes, reshared, cutShort, chatVars>>
Step(j, from, to) ==
  /\ job[j].pc = from /\ Put_(j, [job[j] EXCEPT !.pc = to])
  /\ UNCHANGED <<rows, jobs, links, reshared, chatVars>>

-----------------------------------------------------------------------------
(* POST /uploads: save_image finds the photograph, or stores it again *)
Found(u) == UploadsOf(u) # {}                          \* find_upload_by_hash
Upload(j, u) ==
  /\ UNCHANGED links
  /\ \/ Found(u) /\ Request(j, "upload", u, NoJob)
     \/ /\ ~Found(u)
        /\ \E p \in FreshOf(Photos) : Request(j, "upload", u, [NoJob EXCEPT !.pc = "put", !.thing = p])

(* POST /generate, once the provider has answered: save_image of the result *)
Store(j, u) ==
  /\ UNCHANGED links
  /\ \E w \in FreshOf(Works) : Request(j, "work", u, [NoJob EXCEPT !.pc = "put", !.thing = w])

(* Object first, row second *)
MutantRowFirst(j) ==
  Step(j, "put", "flush") /\ UNCHANGED <<bytes, cutShort>>
PutObject(j) ==
  Step(j, "put", "flush") /\ bytes' = bytes \cup {job[j].thing} /\ UNCHANGED cutShort

(* DELETE /generations/{id}: the row is read, the bytes are erased, and    *)
(* then both rows are hidden                                               *)
Delete(j, u) ==
  /\ UNCHANGED links
  /\ \E w \in Works : Mine(w, u) /\ Request(j, "delete", u, [NoJob EXCEPT !.pc = "erase", !.thing = w])
EraseBytes(j) ==
  Step(j, "erase", "flush") /\ bytes' = bytes \ {job[j].thing} /\ UNCHANGED cutShort

(* POST /generations/{id}/share: ensure_share_id keeps a link it has read  *)
MutantNewLink(j, u) ==
  /\ UNCHANGED links
  /\ \E w \in Works :
       Mine(w, u) /\ Request(j, "share", u, [NoJob EXCEPT !.pc = "flush", !.thing = w, !.link = jobs'])
Share(j, u) ==
  \E w \in Works :
    /\ Mine(w, u)
    /\ \/ /\ work[w].share # 0 /\ links' = links \cup {<<w, work[w].share>>}
          /\ Request(j, "share", u, NoJob)
       \/ /\ work[w].share = 0 /\ UNCHANGED links
          /\ Request(j, "share", u, [NoJob EXCEPT !.pc = "flush", !.thing = w, !.link = jobs'])

(* _merge_guest on a sign-in: UPDATE media_assets and generations *)
SignIn(j) ==
  /\ UNCHANGED links
  /\ Request(j, "signin", Guest, [NoJob EXCEPT !.pc = "flush"])

-----------------------------------------------------------------------------
(* uq_media_user_upload_hash: the keys and the rows a request holds once   *)
(* it has flushed                                                          *)
GuestRows == {x \in Assets : asset[x].row # "absent" /\ asset[x].owner = Guest}
Holds(j) ==
  LET t == job[j]
  IN  CASE t.kind = "upload" -> {<<"photo", t.who>>}
        [] t.kind = "signin" -> (IF UploadsOf(Guest) = {} THEN {} ELSE {<<"photo", Account>>})
                                  \cup {<<"row", x>> : x \in GuestRows}
        [] OTHER -> {<<"row", t.thing>>}

MutantNoKey(j) == FALSE
Breaks(j) ==
  \/ job[j].kind = "upload" /\ UploadsOf(job[j].who) # {}
  \/ job[j].kind = "signin" /\ UploadsOf(Guest) # {} /\ UploadsOf(Account) # {}

Flush(j) ==
  /\ job[j].pc = "flush"
  /\ \A i \in Jobs \ {j} : job[i].pc = "commit" => Holds(i) \cap Holds(j) = {}
  /\ Put_(j, [job[j] EXCEPT !.pc = IF Breaks(j) THEN "error" ELSE "commit",
                            !.moved = IF job[j].kind = "signin" THEN GuestRows ELSE {}])
  /\ UNCHANGED <<rows, bytes, jobs, links, reshared, cutShort, chatVars>>

MovedWorks(t) ==
  [w \in Works |-> IF w \in t.moved THEN [work[w] EXCEPT !.owner = Account] ELSE work[w]]

Committed(j) ==
  LET t == job[j]
      x == t.thing
  IN  CASE t.kind = "upload" ->
             asset' = [asset EXCEPT ![x] = [row |-> "live", owner |-> t.who]] /\ UNCHANGED work
        [] t.kind = "work" ->
             /\ asset' = [asset EXCEPT ![x] = [row |-> "live", owner |-> t.who]]
             /\ work' = [work EXCEPT ![x] = [row |-> "live", owner |-> t.who, share |-> 0]]
        [] t.kind = "delete" ->
             /\ asset' = [asset EXCEPT ![x].row = "deleted"]
             /\ work' = [work EXCEPT ![x].row = "deleted", ![x].share = 0]
        [] t.kind = "share" -> work' = [work EXCEPT ![x].share = t.link] /\ UNCHANGED asset
        [] OTHER ->
             /\ asset' = [y \in Assets |->
                            IF y \in t.moved THEN [asset[y] EXCEPT !.owner = Account] ELSE asset[y]]
             /\ work' = MovedWorks(t)

Commit(j) ==
  LET t == job[j]
  IN  /\ t.pc = "commit"
      /\ Committed(j)
      /\ links' = IF t.kind = "share" THEN links \cup {<<t.thing, t.link>>} ELSE links
      /\ reshared' = IF t.kind = "share" /\ t.overlapped /\ work[t.thing].share # 0
                     THEN reshared \cup {t.thing} ELSE reshared
      /\ job' = [i \in Jobs |-> IF i = j THEN NoJob
                                ELSE IF job[i].pc = "idle" THEN job[i]
                                ELSE [job[i] EXCEPT !.overlapped = TRUE]]
      /\ UNCHANGED <<bytes, jobs, cutShort, chatVars>>

(* Rollback, on an error or when the request is lost: storage keeps what   *)
(* it was told                                                             *)
Abort(j) ==
  /\ job[j].pc \notin {"idle", "put"}
  /\ cutShort' = IF job[j].kind = "delete" /\ job[j].pc # "erase"
                 THEN cutShort \cup {job[j].thing} ELSE cutShort
  /\ Put_(j, NoJob)
  /\ UNCHANGED <<rows, bytes, jobs, links, reshared, chatVars>>

LibraryNext ==
  \E j \in Jobs :
    \/ \E u \in Owners : Upload(j, u) \/ Store(j, u) \/ Delete(j, u) \/ Share(j, u)
    \/ SignIn(j) \/ PutObject(j) \/ EraseBytes(j) \/ Flush(j) \/ Commit(j) \/ Abort(j)

Next == LibraryNext \/ (ChatNext /\ UNCHANGED libraryVars)

Spec == Init /\ [][Next]_vars

-----------------------------------------------------------------------------
(* Rows, objects and requests keep their shape; a work and its picture     *)
(* have one owner.                                                         *)
TypeOK ==
  /\ asset \in [Assets -> [row : {"absent", "live", "deleted"}, owner : Owners \cup {Nil}]]
  /\ \A w \in Works : /\ work[w].row \in {"absent", "live", "deleted"} /\ work[w].share \in 0..MaxJobs
                      /\ work[w].owner = asset[w].owner /\ work[w].row = asset[w].row
  /\ bytes \subseteq Assets
  /\ \A j \in Jobs : job[j].thing \in Assets \cup {Nil}

(* "A row pointing at nothing is a broken screen": whatever is lost half   *)
(* way, a live row has its bytes, unless a deletion that told storage      *)
(* first is still under way or was cut short.                              *)
NoBrokenScreen ==
  \A x \in Assets : Live(x) =>
    x \in bytes \cup cutShort \/ \E j \in Jobs : job[j].kind = "delete" /\ job[j].thing = x

(* "'Delete' means the file is erased from storage and the share link      *)
(* stops working": also when a share that had read the row commits after   *)
(* the deletion and leaves its link on the hidden row.                     *)
DeletedIsGone ==
  \A w \in Works : work[w].row = "deleted" =>
    /\ w \notin bytes /\ \A u \in Owners \cup {Nil} : ~Served(w, u)
    /\ \A id \in 1..MaxJobs : w \notin Resolves(id)

(* A link that was handed out leads to its work for as long as that lives, *)
(* unless two shares that had both read no link overlapped: the later one  *)
(* replaces the link of the earlier.                                       *)
HandedLinksWork ==
  \A l \in links : work[l[1]].row = "live" /\ l[1] \notin reshared => l[1] \in Resolves(l[2])

(* "The same picture uploaded twice is stored once", however two uploads   *)
(* and a sign-in overlap.                                                  *)
OneCopy == \A u \in Owners : Cardinality(UploadsOf(u)) <= 1

(* An upload breaks the unique key only when another request committed in  *)
(* its time (and the person is told that the image cannot be read); a      *)
(* sign-in breaks it only for a guest who uploaded a photograph that the   *)
(* account has too.                                                        *)
ErrorsAreSamePhoto ==
  \A j \in Jobs : job[j].pc = "error" =>
    \/ job[j].kind = "upload" /\ job[j].overlapped
    \/ job[j].kind = "signin" /\ UploadsOf(Guest) # {} /\ UploadsOf(Account) # {}

(* A link leads to its work as long as there is one, and no longer         *)
(* (create_share, delete_generation).                                      *)
LinksLead == DeletedIsGone /\ HandedLinksWork

(* A photograph is kept once for each owner (uq_media_user_upload_hash),   *)
(* and only the same photograph from two sides at once is ever an error.   *)
OnePhotoOneCopy == TypeOK /\ OneCopy /\ ErrorsAreSamePhoto
=============================================================================
