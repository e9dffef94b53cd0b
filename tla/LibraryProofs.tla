---------------------------- MODULE LibraryProofs ----------------------------
(***************************************************************************)
(* What is proved of pictures: no live row loses its bytes but by a        *)
(* deletion, nothing deleted can be seen, links that were handed out lead  *)
(* to their works, and each owner has one copy of a photograph.  The       *)
(* invariant says what a request knows of the picture it is about, and     *)
(* which unique keys it holds.  And of the thread that Library takes over  *)
(* from Chat: what its readers see and what the model is told of it.       *)
(***************************************************************************)
EXTENDS Library, FiniteSetTheorems, TLAPS

RowStates == {"absent", "live", "deleted"}
AssetRow == [row : RowStates, owner : Owners \cup {Nil}]
WorkRow == [row : RowStates, owner : Owners \cup {Nil}, share : Nat]
JobRow == [pc : {"idle", "put", "erase", "flush", "commit", "error"},
           kind : {"none", "upload", "work", "delete", "share", "signin"},
           who : Owners \cup {Nil}, thing : Assets \cup {Nil}, link : Nat,
           moved : SUBSET Assets, overlapped : BOOLEAN]

Typed ==
  /\ asset \in [Assets -> AssetRow] /\ work \in [Works -> WorkRow]
  /\ job \in [Jobs -> JobRow] /\ jobs \in Nat

Creates(j) == job[j].kind \in {"upload", "work"} /\ job[j].pc # "idle"

(* A request that makes a picture is about a row nobody has seen, one that *)
(* deletes about a row that was there and, after the first step, about     *)
(* bytes that are not; a link that was computed from a row without one was *)
(* computed before anything else was committed.                            *)
Knows(j) ==
  /\ job[j].pc = "put" => Creates(j)
  /\ job[j].pc = "erase" => job[j].kind = "delete"
  /\ Creates(j) =>
       /\ job[j].pc # "erase" /\ job[j].thing \in Assets /\ asset[job[j].thing].row = "absent"
       /\ job[j].kind = "work" => job[j].thing \in Works
       /\ job[j].kind = "upload" => job[j].thing \in Photos
       /\ job[j].pc # "put" => job[j].thing \in bytes
  /\ job[j].kind = "delete" =>
       /\ job[j].pc # "idle" /\ job[j].thing \in Works /\ asset[job[j].thing].row # "absent"
       /\ job[j].pc # "erase" => job[j].thing \notin bytes
  /\ job[j].kind = "share" /\ job[j].pc # "idle" =>
       /\ job[j].thing \in Works /\ asset[job[j].thing].row # "absent" /\ job[j].link # 0
       /\ ~job[j].overlapped => work[job[j].thing].share = 0

Apart == \A i, j \in Jobs : Creates(i) /\ Creates(j) /\ job[i].thing = job[j].thing => i = j

(* A picture and its row agree, and a live row has bytes or a deletion     *)
(* that has told storage                                                   *)
Erasing(x) == \E j \in Jobs : job[j].kind = "delete" /\ job[j].thing = x /\ job[j].pc # "erase"
Whole(x) ==
  /\ x \in Works => work[x].row = asset[x].row
  /\ asset[x].row = "live" => x \in bytes \cup cutShort \/ Erasing(x)
  /\ asset[x].row = "deleted" => x \notin bytes

Leads(l) ==
  /\ l[1] \in Works /\ work[l[1]].row # "absent" /\ l[2] # 0
  /\ work[l[1]].row = "live" /\ l[1] \notin reshared => work[l[1]].share = l[2]

Inv ==
  /\ Typed
  /\ \A j \in Jobs : Knows(j)
  /\ Apart
  /\ \A x \in Assets : Whole(x)
  /\ \A l \in links : Leads(l)

-----------------------------------------------------------------------------
(* What one photograph, one copy rests on.  Adds: a request that holds the *)
(* key (u, photograph) of uq_media_user_upload_hash and will use it.       *)
Adds(j, u) ==
  /\ job[j].pc = "commit"
  /\ \/ job[j].kind = "upload" /\ job[j].who = u
     \/ job[j].kind = "signin" /\ u = Account /\ job[j].moved \cap Photos # {}
Merges(j) == job[j].kind = "signin" /\ job[j].pc = "commit"

(* An upload that nothing overlapped still finds no copy, one that was     *)
(* flushed will be the only one, and a sign-in moves rows that are still   *)
(* the guest's to an account that has no copy of a photograph among them.  *)
Knocks(j) ==
  /\ job[j].link \in 0..MaxJobs
  /\ job[j].pc # "idle" => job[j].kind # "none"
  /\ job[j].pc = "error" => job[j].kind \in {"upload", "signin"}
  /\ job[j].kind = "upload" /\ job[j].pc # "idle" =>
       /\ job[j].who \in Owners
       /\ ~job[j].overlapped \/ job[j].pc = "commit" => UploadsOf(job[j].who) = {}
       /\ job[j].pc = "error" => job[j].overlapped
  /\ Merges(j) => job[j].moved \subseteq GuestRows
  /\ Merges(j) /\ job[j].moved \cap Photos # {} => UploadsOf(Account) = {}
  /\ job[j].kind = "signin" /\ job[j].pc = "error" => UploadsOf(Guest) # {} /\ UploadsOf(Account) # {}

Sound ==
  /\ \A w \in Works : work[w].share \in 0..MaxJobs /\ work[w].owner = asset[w].owner
  /\ \A p \in Photos : asset[p].row # "deleted"
  /\ \A u \in Owners : \A p, q \in UploadsOf(u) : p = q

KeysApart ==
  \A i, j \in Jobs : i # j =>
    /\ \A u \in Owners : ~(Adds(i, u) /\ Adds(j, u))
    /\ Merges(i) /\ Merges(j) => job[i].moved \cap job[j].moved = {}

PhotoInv ==
  /\ jobs \in 0..MaxJobs /\ bytes \subseteq Assets
  /\ Sound
  /\ \A j \in Jobs : Knocks(j)
  /\ KeysApart

-----------------------------------------------------------------------------
LEMMA InitInv == Init => Inv
<1> SUFFICES ASSUME Init PROVE Inv
  OBVIOUS
<1>1. Typed
  BY DEF Init, Typed, AssetRow, WorkRow, JobRow, RowStates, NoWork, NoJob
<1>2. /\ \A j \in Jobs : job[j].pc = "idle" /\ job[j].kind = "none"
      /\ \A x \in Assets : asset[x].row = "absent"
      /\ \A w \in Works : work[w].row = "absent"
      /\ links = {}
  BY DEF Init, NoJob, NoWork
<1> QED BY <1>1, <1>2 DEF Inv, Knows, Creates, Apart, Whole, Leads, Assets

LEMMA NoJobIs ==
  /\ NoJob \in JobRow /\ NoJob.pc = "idle" /\ NoJob.kind = "none" /\ NoJob.overlapped = FALSE
  /\ NoJob.thing = Nil /\ NoJob.link = 0
BY DEF NoJob, JobRow

(* A step that changes one request and no picture *)
LEMMA OneJob ==
  ASSUME Inv, NEW j \in Jobs, NEW t \in JobRow, job' = [job EXCEPT ![j] = t],
         UNCHANGED <<rows, bytes, cutShort, reshared>>, jobs' \in Nat,
         job[j].kind = "delete" /\ job[j].pc # "erase" =>
           t.kind = "delete" /\ t.pc # "erase" /\ t.thing = job[j].thing,
         Knows(j)',
         \A i \in Jobs \ {j} : Creates(i) /\ Creates(j)' => job[i].thing # t.thing,
         \A l \in links' : l \in links \/ Leads(l)
  PROVE  Inv'
<1>1. Typed'
  BY DEF Inv, Typed, rows
<1>2. /\ job'[j] = t /\ \A i \in Jobs \ {j} : job'[i] = job[i]
      /\ asset' = asset /\ work' = work
  BY DEF Inv, Typed, rows
<1>3. ASSUME NEW i \in Jobs PROVE Knows(i)'
  <2>1. CASE i = j
    BY <2>1
  <2>2. CASE i # j
    <3>1. Knows(i) /\ job'[i] = job[i]
      BY <1>2, <2>2 DEF Inv
    <3> QED BY <1>2, <3>1 DEF Knows, Creates
  <2> QED BY <2>1, <2>2
<1>4. Apart'
  BY <1>2 DEF Inv, Apart, Creates
<1>5. ASSUME NEW x \in Assets PROVE Whole(x)'
  <2>1. Whole(x)
    BY DEF Inv
  <2>2. Erasing(x) => Erasing(x)'
    <3> SUFFICES ASSUME NEW i \in Jobs, job[i].kind = "delete", job[i].thing = x, job[i].pc # "erase"
                 PROVE  job'[i].kind = "delete" /\ job'[i].thing = x /\ job'[i].pc # "erase"
      BY DEF Erasing
    <3> QED BY <1>2
  <2> QED BY <1>2, <2>1, <2>2 DEF Whole
<1>6. \A l \in links' : Leads(l)'
  BY <1>2 DEF Inv, Leads
<1> QED BY <1>1, <1>3, <1>4, <1>5, <1>6 DEF Inv

(* What any new request is *)
Asked(s, kind, u) == [s EXCEPT !.kind = kind, !.who = u]
LEMMA RequestIs ==
  ASSUME Inv, NEW j \in Jobs, NEW kind, NEW u, NEW s, Request(j, kind, u, s)
  PROVE  /\ job[j].pc = "idle" /\ job[j].kind # "delete"
         /\ job' = [job EXCEPT ![j] = Asked(s, kind, u)]
         /\ job'[j] = Asked(s, kind, u)
         /\ jobs' \in Nat /\ jobs' # 0
         /\ UNCHANGED <<rows, bytes, cutShort, reshared>>
<1>1. /\ job[j].pc = "idle"
      /\ job' = [job EXCEPT ![j] = Asked(s, kind, u)]
      /\ jobs' = jobs + 1
      /\ UNCHANGED <<rows, bytes, cutShort, reshared>>
  BY DEF Request, Put_, Asked
<1>2. jobs' \in Nat /\ jobs' # 0
  BY <1>1 DEF Inv, Typed
<1>3. job \in [Jobs -> JobRow]
  BY DEF Inv, Typed
<1>4. job'[j] = Asked(s, kind, u)
  BY <1>1, <1>3
<1>5. job[j].kind # "delete"
  BY <1>1 DEF Inv, Knows
<1> QED BY <1>1, <1>2, <1>4, <1>5

(* An upload or a result begins with a row and bytes nobody has *)
LEMMA CreateInv ==
  ASSUME Inv, NEW j \in Jobs, NEW u \in Owners, Upload(j, u) \/ Store(j, u)
  PROVE  Inv'
<1>1. ASSUME Request(j, "upload", u, NoJob), links' = links
      PROVE  Inv'
  <2> DEFINE t == Asked(NoJob, "upload", u)
  <2>1. t \in JobRow /\ t.pc = "idle" /\ t.kind = "upload"
    BY NoJobIs DEF JobRow, Asked
  <2>2. /\ job[j].kind # "delete" /\ job' = [job EXCEPT ![j] = t] /\ job'[j] = t /\ jobs' \in Nat
        /\ UNCHANGED <<rows, bytes, cutShort, reshared>>
    BY <1>1, RequestIs
  <2> HIDE DEF t
  <2>3. Knows(j)' /\ ~Creates(j)'
    BY <2>1, <2>2 DEF Knows, Creates
  <2> QED BY <1>1, <2>1, <2>2, <2>3, OneJob
<1>2. ASSUME NEW x \in Assets, NEW kind \in {"upload", "work"}, kind = "work" => x \in Works,
             kind = "upload" => x \in Photos, x \in FreshOf({x}), links' = links,
             Request(j, kind, u, [NoJob EXCEPT !.pc = "put", !.thing = x])
      PROVE  Inv'
  <2> DEFINE t == Asked([NoJob EXCEPT !.pc = "put", !.thing = x], kind, u)
  <2>1. t \in JobRow /\ t.pc = "put" /\ t.kind = kind /\ t.thing = x
    BY NoJobIs DEF JobRow, Asked
  <2>2. /\ job[j].kind # "delete" /\ job' = [job EXCEPT ![j] = t] /\ job'[j] = t /\ jobs' \in Nat
        /\ UNCHANGED <<rows, bytes, cutShort, reshared>>
    BY <1>2, RequestIs
  <2> HIDE DEF t
  <2>3. asset[x].row = "absent" /\ \A i \in Jobs : job[i].thing # x
    BY <1>2 DEF FreshOf
  <2>4. Knows(j)'
    BY <1>2, <2>1, <2>2, <2>3 DEF Knows, Creates, rows
  <2> QED BY <1>2, <2>1, <2>2, <2>3, <2>4, OneJob
<1>3. ASSUME NEW X, NEW x \in FreshOf(X) PROVE x \in FreshOf({x}) /\ x \in X
  BY <1>3 DEF FreshOf
<1>4. CASE Upload(j, u)
  <2>1. CASE Request(j, "upload", u, NoJob)
    BY <1>1, <1>4, <2>1 DEF Upload
  <2>2. CASE \E x \in FreshOf(Photos) : Request(j, "upload", u, [NoJob EXCEPT !.pc = "put", !.thing = x])
    <3>1. PICK x \in FreshOf(Photos) : Request(j, "upload", u, [NoJob EXCEPT !.pc = "put", !.thing = x])
      BY <2>2
    <3> QED BY <1>2, <1>3, <1>4, <3>1 DEF Upload, Assets
  <2> QED BY <1>4, <2>1, <2>2 DEF Upload
<1>5. CASE Store(j, u)
  <2>1. PICK x \in FreshOf(Works) : Request(j, "work", u, [NoJob EXCEPT !.pc = "put", !.thing = x])
    BY <1>5 DEF Store
  <2> QED BY <1>2, <1>3, <1>5, <2>1 DEF Store, Assets
<1> QED BY <1>4, <1>5

(* A deletion knows its row, a share that the row had no link, and a       *)
(* sign-in no row at all                                                   *)
LEMMA AskInv ==
  ASSUME Inv, NEW j \in Jobs, NEW u \in Owners, Delete(j, u) \/ Share(j, u) \/ SignIn(j)
  PROVE  Inv'
<1>1. ASSUME NEW w \in Works, Mine(w, u)
      PROVE  w \in Assets /\ asset[w].row = "live" /\ work[w].row = "live"
  BY <1>1 DEF Mine, Inv, Whole, Assets
<1>2. CASE Delete(j, u)
  <2>1. PICK w \in Works :
          /\ links' = links /\ Mine(w, u)
          /\ Request(j, "delete", u, [NoJob EXCEPT !.pc = "erase", !.thing = w])
    BY <1>2 DEF Delete
  <2> DEFINE t == Asked([NoJob EXCEPT !.pc = "erase", !.thing = w], "delete", u)
  <2>2. t \in JobRow /\ t.pc = "erase" /\ t.kind = "delete" /\ t.thing = w
    BY NoJobIs DEF JobRow, Asked, Assets
  <2>3. /\ job[j].kind # "delete" /\ job' = [job EXCEPT ![j] = t] /\ job'[j] = t /\ jobs' \in Nat
        /\ UNCHANGED <<rows, bytes, cutShort, reshared>>
    BY <2>1, RequestIs
  <2> HIDE DEF t
  <2>4. Knows(j)' /\ ~Creates(j)'
    BY <1>1, <2>1, <2>2, <2>3 DEF Knows, Creates, rows
  <2> QED BY <2>1, <2>2, <2>3, <2>4, OneJob
<1>3. CASE Share(j, u)
  <2>1. PICK w \in Works :
          /\ Mine(w, u)
          /\ \/ /\ work[w].share # 0 /\ links' = links \cup {<<w, work[w].share>>}
                /\ Request(j, "share", u, NoJob)
             \/ /\ work[w].share = 0 /\ UNCHANGED links
                /\ Request(j, "share", u, [NoJob EXCEPT !.pc = "flush", !.thing = w, !.link = jobs'])
    BY <1>3 DEF Share
  <2>2. CASE work[w].share # 0 /\ links' = links \cup {<<w, work[w].share>>} /\ Request(j, "share", u, NoJob)
    <3> DEFINE t == Asked(NoJob, "share", u)
    <3>1. t \in JobRow /\ t.pc = "idle" /\ t.kind = "share"
      BY NoJobIs DEF JobRow, Asked
    <3>2. /\ job[j].kind # "delete" /\ job' = [job EXCEPT ![j] = t] /\ job'[j] = t /\ jobs' \in Nat
          /\ UNCHANGED <<rows, bytes, cutShort, reshared>>
      BY <2>2, RequestIs
    <3> HIDE DEF t
    <3>3. Knows(j)' /\ ~Creates(j)'
      BY <3>1, <3>2 DEF Knows, Creates
    <3>4. Leads(<<w, work[w].share>>)
      BY <1>1, <2>1, <2>2 DEF Leads
    <3> QED BY <2>2, <3>1, <3>2, <3>3, <3>4, OneJob
  <2>3. CASE /\ work[w].share = 0 /\ UNCHANGED links
             /\ Request(j, "share", u, [NoJob EXCEPT !.pc = "flush", !.thing = w, !.link = jobs'])
    <3> DEFINE t == Asked([NoJob EXCEPT !.pc = "flush", !.thing = w, !.link = jobs'], "share", u)
    <3>1. /\ job[j].kind # "delete" /\ job' = [job EXCEPT ![j] = t] /\ job'[j] = t
          /\ jobs' \in Nat /\ jobs' # 0 /\ UNCHANGED <<rows, bytes, cutShort, reshared>>
      BY <2>3, RequestIs
    <3>2. /\ t \in JobRow /\ t.pc = "flush" /\ t.kind = "share" /\ t.thing = w /\ t.link = jobs'
          /\ t.overlapped = FALSE
      BY <3>1, NoJobIs DEF JobRow, Asked, Assets
    <3> HIDE DEF t
    <3>3. Knows(j)' /\ ~Creates(j)'
      BY <1>1, <2>1, <2>3, <3>1, <3>2 DEF Knows, Creates, rows
    <3> QED BY <2>3, <3>1, <3>2, <3>3, OneJob
  <2> QED BY <2>1, <2>2, <2>3
<1>4. CASE SignIn(j)
  <2> DEFINE t == Asked([NoJob EXCEPT !.pc = "flush"], "signin", Guest)
  <2>1. t \in JobRow /\ t.pc = "flush" /\ t.kind = "signin"
    BY NoJobIs DEF JobRow, Asked, Owners
  <2>2. /\ job[j].kind # "delete" /\ job' = [job EXCEPT ![j] = t] /\ job'[j] = t /\ jobs' \in Nat
        /\ UNCHANGED <<rows, bytes, cutShort, reshared>> /\ links' = links
    BY <1>4, RequestIs DEF SignIn
  <2> HIDE DEF t
  <2>3. Knows(j)' /\ ~Creates(j)'
    BY <2>1, <2>2 DEF Knows, Creates
  <2> QED BY <2>1, <2>2, <2>3, OneJob
<1> QED BY <1>2, <1>3, <1>4

(* What a request flushes is what it has asked for *)
LEMMA FlushInv ==
  ASSUME Inv, NEW j \in Jobs, Flush(j)
  PROVE  Inv'
<1> DEFINE p == IF Breaks(j) THEN "error" ELSE "commit"
           m == IF job[j].kind = "signin" THEN GuestRows ELSE {}
           t == [job[j] EXCEPT !.pc = p, !.moved = m]
<1>1. /\ job[j].pc = "flush" /\ job' = [job EXCEPT ![j] = t]
      /\ UNCHANGED <<rows, bytes, jobs, links, reshared, cutShort>>
  BY DEF Flush, Put_
<1>2. job[j] \in JobRow /\ jobs \in Nat /\ Knows(j) /\ job \in [Jobs -> JobRow]
  BY DEF Inv, Typed
<1>3. p \in {"error", "commit"} /\ m \in SUBSET Assets
  BY DEF GuestRows
<1> HIDE DEF p, m
<1>4. /\ t \in JobRow /\ t.pc = p /\ t.kind = job[j].kind /\ t.thing = job[j].thing
      /\ t.link = job[j].link /\ t.overlapped = job[j].overlapped
  BY <1>2, <1>3 DEF JobRow
<1>5. job'[j] = t
  BY <1>1, <1>2
<1> HIDE DEF t
<1>6. Knows(j)' /\ (Creates(j)' => Creates(j))
  BY <1>1, <1>2, <1>3, <1>4, <1>5 DEF Knows, Creates, rows
<1>7. \A i \in Jobs \ {j} : Creates(i) /\ Creates(j)' => job[i].thing # t.thing
  BY <1>4, <1>6 DEF Inv, Apart
<1>8. job[j].kind = "delete" => t.kind = "delete" /\ t.pc # "erase" /\ t.thing = job[j].thing
  BY <1>3, <1>4
<1> QED BY <1>1, <1>2, <1>4, <1>6, <1>7, <1>8, OneJob

(* The object of a new picture, which no row is about yet *)
LEMMA PutInv ==
  ASSUME Inv, NEW j \in Jobs, PutObject(j)
  PROVE  Inv'
<1> DEFINE t == [job[j] EXCEPT !.pc = "flush"]
<1>1. /\ job[j].pc = "put" /\ job' = [job EXCEPT ![j] = t] /\ bytes' = bytes \cup {job[j].thing}
      /\ UNCHANGED <<asset, work, jobs, links, reshared, cutShort>>
  BY DEF PutObject, Step, Put_, rows
<1>2. job[j] \in JobRow /\ Knows(j) /\ Typed
  BY DEF Inv, Typed
<1>3. /\ t \in JobRow /\ t.pc = "flush" /\ t.kind = job[j].kind /\ t.thing = job[j].thing
  BY <1>2 DEF JobRow
<1>4. job'[j] = t /\ \A i \in Jobs \ {j} : job'[i] = job[i]
  BY <1>1, <1>2 DEF Typed
<1>5. Typed'
  BY <1>1, <1>2, <1>3 DEF Typed
<1> HIDE DEF t
<1>6. Creates(j) /\ job[j].thing \in Assets /\ asset[job[j].thing].row = "absent"
  BY <1>1, <1>2 DEF Knows
<1>7. ASSUME NEW i \in Jobs PROVE Knows(i)'
  <2>1. CASE i = j
    BY <1>1, <1>2, <1>3, <1>4, <1>6, <2>1 DEF Knows, Creates
  <2>2. CASE i # j
    <3>1. Knows(i) /\ job'[i] = job[i]
      BY <1>4, <2>2 DEF Inv
    <3>2. job[i].kind = "delete" => job[i].thing # job[j].thing
      BY <1>6, <3>1 DEF Knows
    <3> QED BY <1>1, <3>1, <3>2 DEF Knows, Creates
  <2> QED BY <2>1, <2>2
<1>8. Apart'
  BY <1>3, <1>4, <1>6 DEF Inv, Apart, Creates
<1>9. ASSUME NEW x \in Assets PROVE Whole(x)'
  <2>1. Whole(x)
    BY DEF Inv
  <2>2. Erasing(x) => Erasing(x)'
    BY <1>4, <1>6 DEF Erasing, Creates
  <2> QED BY <1>1, <1>6, <2>1, <2>2 DEF Whole
<1>10. \A l \in links' : Leads(l)'
  BY <1>1 DEF Inv, Leads
<1> QED BY <1>5, <1>7, <1>8, <1>9, <1>10 DEF Inv

(* Storage is told before the row is hidden: from here until then, or for  *)
(* as long as the deletion that stopped is remembered, a live row may have *)
(* no bytes                                                                *)
LEMMA EraseInv ==
  ASSUME Inv, NEW j \in Jobs, EraseBytes(j)
  PROVE  Inv'
<1> DEFINE t == [job[j] EXCEPT !.pc = "flush"]
<1>1. /\ job[j].pc = "erase" /\ job' = [job EXCEPT ![j] = t] /\ bytes' = bytes \ {job[j].thing}
      /\ UNCHANGED <<asset, work, jobs, links, reshared, cutShort>>
  BY DEF EraseBytes, Step, Put_, rows
<1>2. job[j] \in JobRow /\ Knows(j) /\ Typed
  BY DEF Inv, Typed
<1>3. /\ t \in JobRow /\ t.pc = "flush" /\ t.kind = job[j].kind /\ t.thing = job[j].thing
  BY <1>2 DEF JobRow
<1>4. job'[j] = t /\ \A i \in Jobs \ {j} : job'[i] = job[i]
  BY <1>1, <1>2 DEF Typed
<1>5. Typed'
  BY <1>1, <1>2, <1>3 DEF Typed
<1> HIDE DEF t
<1>6. /\ job[j].kind = "delete" /\ ~Creates(j)
      /\ job[j].thing \in Works /\ asset[job[j].thing].row # "absent"
  BY <1>1, <1>2 DEF Knows, Creates
<1>7. ASSUME NEW i \in Jobs PROVE Knows(i)'
  <2>1. CASE i = j
    BY <1>1, <1>3, <1>4, <1>6, <2>1 DEF Knows, Creates
  <2>2. CASE i # j
    <3>1. Knows(i) /\ job'[i] = job[i]
      BY <1>4, <2>2 DEF Inv
    <3>2. Creates(i) => job[i].thing # job[j].thing
      BY <1>6, <3>1 DEF Knows
    <3> QED BY <1>1, <3>1, <3>2 DEF Knows, Creates
  <2> QED BY <2>1, <2>2
<1>8. Apart'
  BY <1>3, <1>4, <1>6 DEF Inv, Apart, Creates
<1>9. ASSUME NEW x \in Assets PROVE Whole(x)'
  <2>1. Whole(x)
    BY DEF Inv
  <2>2. Erasing(x) => Erasing(x)'
    BY <1>1, <1>4 DEF Erasing
  <2>3. x = job[j].thing => Erasing(x)'
    BY <1>3, <1>4, <1>6 DEF Erasing
  <2> QED BY <1>1, <2>1, <2>2, <2>3 DEF Whole
<1>10. \A l \in links' : Leads(l)'
  BY <1>1 DEF Inv, Leads
<1> QED BY <1>5, <1>7, <1>8, <1>9, <1>10 DEF Inv

(* What a deletion told storage before it was lost is remembered *)
LEMMA AbortInv ==
  ASSUME Inv, NEW j \in Jobs, Abort(j)
  PROVE  Inv'
<1>1. /\ job' = [job EXCEPT ![j] = NoJob]
      /\ cutShort' = IF job[j].kind = "delete" /\ job[j].pc # "erase"
                     THEN cutShort \cup {job[j].thing} ELSE cutShort
      /\ UNCHANGED <<asset, work, bytes, jobs, links, reshared>>
  BY DEF Abort, Put_, rows
<1>2. Typed
  BY DEF Inv
<1>3. job'[j] = NoJob /\ \A i \in Jobs \ {j} : job'[i] = job[i]
  BY <1>1, <1>2 DEF Typed
<1>4. Typed'
  BY <1>1, <1>2, NoJobIs DEF Typed
<1>5. ASSUME NEW i \in Jobs PROVE Knows(i)'
  <2>1. CASE i = j
    BY <1>3, <2>1, NoJobIs DEF Knows, Creates
  <2>2. CASE i # j
    BY <1>1, <1>3, <2>2 DEF Inv, Knows, Creates
  <2> QED BY <2>1, <2>2
<1>6. Apart'
  BY <1>3, NoJobIs DEF Inv, Apart, Creates
<1>7. ASSUME NEW x \in Assets PROVE Whole(x)'
  <2>1. Whole(x)
    BY DEF Inv
  <2>2. Erasing(x) => Erasing(x)' \/ x \in cutShort'
    BY <1>1, <1>3 DEF Erasing
  <2>3. cutShort \subseteq cutShort'
    BY <1>1
  <2> QED BY <1>1, <2>1, <2>2, <2>3 DEF Whole
<1>8. \A l \in links' : Leads(l)'
  BY <1>1 DEF Inv, Leads
<1> QED BY <1>4, <1>5, <1>6, <1>7, <1>8 DEF Inv

(* What a commit does to the rows, kind by kind: only the picture it is    *)
(* about appears or is hidden, and only its own link is written            *)
RowsAfter(j) ==
  LET x == job[j].thing
  IN  /\ asset' \in [Assets -> AssetRow] /\ work' \in [Works -> WorkRow]
      /\ \A y \in Assets : asset'[y].row # asset[y].row =>
           \/ y = x /\ Creates(j) /\ asset'[y].row = "live" /\ y \in bytes
           \/ y = x /\ job[j].kind = "delete"
      /\ job[j].kind = "delete" => asset'[x].row = "deleted" /\ x \notin bytes
      /\ \A w \in Works : work'[w].row = asset'[w].row
      /\ \A w \in Works : work[w].row = "live" /\ work'[w].row = "live" =>
           \/ work'[w].share = work[w].share
           \/ w = x /\ job[j].kind = "share"
      /\ job[j].kind = "share" => work'[x].share = job[j].link

LEMMA CommitRows ==
  ASSUME Inv, NEW j \in Jobs, Commit(j)
  PROVE  RowsAfter(j)
<1> DEFINE t == job[j]
           x == t.thing
<1>1. Committed(j) /\ t.pc = "commit"
  BY DEF Commit
<1>2. /\ asset \in [Assets -> AssetRow] /\ work \in [Works -> WorkRow] /\ t \in JobRow /\ Knows(j)
      /\ \A w \in Works : work[w].row = asset[w].row
  BY DEF Inv, Typed, Whole, Assets
<1>3. /\ t.who \in Owners \cup {Nil} /\ t.link \in Nat
  BY <1>2 DEF JobRow
<1>4. CASE t.kind = "upload"
  <2>1. asset' = [asset EXCEPT ![x] = [row |-> "live", owner |-> t.who]] /\ work' = work
    BY <1>1, <1>4 DEF Committed
  <2>2. x \in Photos /\ x \notin Works /\ x \in Assets /\ x \in bytes /\ Creates(j) /\ asset[x].row = "absent"
    BY <1>1, <1>2, <1>4, LibraryAssumption DEF Knows, Creates, Assets
  <2>3. [row |-> "live", owner |-> t.who] \in AssetRow
    BY <1>3 DEF AssetRow, RowStates
  <2> HIDE DEF t, x
  <2>4. asset' \in [Assets -> AssetRow] /\ work' \in [Works -> WorkRow]
    BY <1>2, <2>1, <2>3
  <2>5. asset'[x].row = "live" /\ \A y \in Assets \ {x} : asset'[y] = asset[y]
    BY <1>2, <2>1, <2>2
  <2>6. \A w \in Works : work'[w].row = asset'[w].row
    BY <1>2, <2>1, <2>2, <2>5 DEF Assets
  <2> QED BY <1>4, <2>1, <2>2, <2>4, <2>5, <2>6 DEF RowsAfter, t, x
<1>5. CASE t.kind = "work"
  <2>1. /\ asset' = [asset EXCEPT ![x] = [row |-> "live", owner |-> t.who]]
        /\ work' = [work EXCEPT ![x] = [row |-> "live", owner |-> t.who, share |-> 0]]
    BY <1>1, <1>5 DEF Committed
  <2>2. x \in Works /\ x \in Assets /\ x \in bytes /\ Creates(j) /\ asset[x].row = "absent"
    BY <1>1, <1>2, <1>5 DEF Knows, Creates, Assets
  <2>3. /\ [row |-> "live", owner |-> t.who] \in AssetRow
        /\ [row |-> "live", owner |-> t.who, share |-> 0] \in WorkRow
    BY <1>3 DEF AssetRow, WorkRow, RowStates
  <2> HIDE DEF t, x
  <2>4. asset' \in [Assets -> AssetRow] /\ work' \in [Works -> WorkRow]
    BY <1>2, <2>1, <2>3
  <2>5. /\ asset'[x].row = "live" /\ \A y \in Assets \ {x} : asset'[y] = asset[y]
        /\ work'[x].row = "live" /\ \A w \in Works \ {x} : work'[w] = work[w]
    BY <1>2, <2>1, <2>2
  <2>6. \A w \in Works : work'[w].row = asset'[w].row
    BY <1>2, <2>5 DEF Assets
  <2>7. work[x].row = "absent"
    BY <1>2, <2>2
  <2> QED BY <1>5, <2>2, <2>4, <2>5, <2>6, <2>7 DEF RowsAfter, t, x
<1>6. CASE t.kind = "delete"
  <2>1. /\ asset' = [asset EXCEPT ![x].row = "deleted"]
        /\ work' = [work EXCEPT ![x].row = "deleted", ![x].share = 0]
    BY <1>1, <1>6 DEF Committed
  <2>2. x \in Works /\ x \in Assets /\ x \notin bytes
    BY <1>1, <1>2, <1>6 DEF Knows, Assets
  <2> HIDE DEF t, x
  <2>3. asset[x] \in AssetRow /\ work[x] \in WorkRow
    BY <1>2, <2>2
  <2>4. /\ [asset[x] EXCEPT !.row = "deleted"] \in AssetRow
        /\ [[work[x] EXCEPT !.row = "deleted"] EXCEPT !.share = 0] \in WorkRow
    BY <2>3 DEF AssetRow, WorkRow, RowStates
  <2>5. /\ asset' = [asset EXCEPT ![x] = [asset[x] EXCEPT !.row = "deleted"]]
        /\ work' = [work EXCEPT ![x] = [[work[x] EXCEPT !.row = "deleted"] EXCEPT !.share = 0]]
    BY <1>2, <2>1, <2>2
  <2>6. asset' \in [Assets -> AssetRow] /\ work' \in [Works -> WorkRow]
    BY <1>2, <2>4, <2>5
  <2>7. /\ asset'[x].row = "deleted" /\ \A y \in Assets \ {x} : asset'[y] = asset[y]
        /\ work'[x].row = "deleted" /\ \A w \in Works \ {x} : work'[w] = work[w]
    BY <1>2, <2>2, <2>3, <2>5 DEF AssetRow, WorkRow
  <2>8. \A w \in Works : work'[w].row = asset'[w].row
    BY <1>2, <2>7 DEF Assets
  <2> QED BY <1>6, <2>2, <2>6, <2>7, <2>8 DEF RowsAfter, t, x
<1>7. CASE t.kind = "share"
  <2>1. work' = [work EXCEPT ![x].share = t.link] /\ asset' = asset
    BY <1>1, <1>7 DEF Committed
  <2>2. x \in Works
    BY <1>1, <1>2, <1>7 DEF Knows
  <2> HIDE DEF t, x
  <2>3. work[x] \in WorkRow /\ t.link \in Nat
    BY <1>2, <1>3, <2>2
  <2>4. [work[x] EXCEPT !.share = t.link] \in WorkRow
    BY <2>3 DEF WorkRow
  <2>5. work' = [work EXCEPT ![x] = [work[x] EXCEPT !.share = t.link]]
    BY <1>2, <2>1, <2>2
  <2>6. work' \in [Works -> WorkRow]
    BY <1>2, <2>4, <2>5
  <2>7. /\ work'[x].row = work[x].row /\ work'[x].share = t.link
        /\ \A w \in Works \ {x} : work'[w] = work[w]
    BY <1>2, <2>2, <2>3, <2>5 DEF WorkRow
  <2> QED BY <1>2, <1>7, <2>1, <2>2, <2>6, <2>7 DEF RowsAfter, t, x
<1>8. CASE t.kind \in {"signin", "none"}
  <2>1. /\ asset' = [y \in Assets |-> IF y \in t.moved THEN [asset[y] EXCEPT !.owner = Account] ELSE asset[y]]
        /\ work' = [w \in Works |-> IF w \in t.moved THEN [work[w] EXCEPT !.owner = Account] ELSE work[w]]
    BY <1>1, <1>8 DEF Committed, MovedWorks
  <2>2. ASSUME NEW y \in Assets PROVE [asset[y] EXCEPT !.owner = Account] \in AssetRow
    BY <1>2 DEF AssetRow, Owners
  <2>3. ASSUME NEW w \in Works PROVE [work[w] EXCEPT !.owner = Account] \in WorkRow
    BY <1>2 DEF WorkRow, Owners
  <2> HIDE DEF t, x
  <2>4. asset' \in [Assets -> AssetRow] /\ work' \in [Works -> WorkRow]
    BY <1>2, <2>1, <2>2, <2>3
  <2>5. /\ \A y \in Assets : asset'[y].row = asset[y].row
        /\ \A w \in Works : work'[w].row = work[w].row /\ work'[w].share = work[w].share
    BY <1>2, <2>1 DEF AssetRow, WorkRow
  <2> QED BY <1>2, <1>8, <2>4, <2>5 DEF RowsAfter, t, x, Assets
<1> QED BY <1>2, <1>4, <1>5, <1>6, <1>7, <1>8 DEF JobRow

LEMMA CommitInv ==
  ASSUME Inv, NEW j \in Jobs, Commit(j)
  PROVE  Inv'
<1>1. RowsAfter(j) /\ Knows(j) /\ Typed
  BY CommitRows DEF Inv
<1>2. /\ job[j].pc = "commit" /\ UNCHANGED <<bytes, jobs, cutShort>>
      /\ links' = IF job[j].kind = "share" THEN links \cup {<<job[j].thing, job[j].link>>} ELSE links
      /\ reshared' = IF job[j].kind = "share" /\ job[j].overlapped /\ work[job[j].thing].share # 0
                     THEN reshared \cup {job[j].thing} ELSE reshared
      /\ job' = [i \in Jobs |-> IF i = j THEN NoJob
                                ELSE IF job[i].pc = "idle" THEN job[i]
                                ELSE [job[i] EXCEPT !.overlapped = TRUE]]
  BY DEF Commit
<1>3. ASSUME NEW i \in Jobs, i # j
      PROVE  /\ job'[i] \in JobRow /\ job'[i].pc = job[i].pc /\ job'[i].kind = job[i].kind
             /\ job'[i].thing = job[i].thing /\ job'[i].link = job[i].link
             /\ job[i].pc # "idle" => job'[i].overlapped
  <2>1. job[i] \in JobRow
    BY <1>1 DEF Typed
  <2>2. CASE job[i].pc = "idle"
    BY <1>2, <1>3, <2>1, <2>2
  <2>3. CASE job[i].pc # "idle"
    <3>1. job'[i] = [job[i] EXCEPT !.overlapped = TRUE]
      BY <1>2, <1>3, <2>3
    <3> QED BY <2>1, <3>1 DEF JobRow
  <2> QED BY <2>2, <2>3
<1>4. job'[j] = NoJob
  BY <1>2
<1>5. Typed'
  <2>1. \A i \in Jobs : job'[i] \in JobRow
    BY <1>3, <1>4, NoJobIs
  <2>2. job' \in [Jobs -> JobRow]
    BY <1>2, <2>1
  <2> QED BY <1>1, <1>2, <2>2 DEF Typed, RowsAfter
<1>6. ASSUME NEW i \in Jobs PROVE Knows(i)'
  <2>1. CASE i = j
    BY <1>4, <2>1, NoJobIs DEF Knows, Creates
  <2>2. CASE i # j
    <3>1. Knows(i)
      BY DEF Inv
    <3>2. Creates(i) => asset'[job[i].thing].row = "absent"
      <4>1. Creates(i) /\ Creates(j) => job[i].thing # job[j].thing
        BY <2>2 DEF Inv, Apart
      <4>2. Creates(i) => job[i].thing \in Assets /\ asset[job[i].thing].row = "absent"
        BY <3>1 DEF Knows
      <4>3. job[j].kind = "delete" => asset[job[j].thing].row # "absent"
        BY <1>1 DEF Knows
      <4> QED BY <1>1, <4>1, <4>2, <4>3 DEF RowsAfter
    <3>3. \A y \in Assets : asset[y].row # "absent" => asset'[y].row # "absent"
      BY <1>1 DEF RowsAfter
    <3> QED BY <1>2, <1>3, <2>2, <3>1, <3>2, <3>3 DEF Knows, Creates, Assets
  <2> QED BY <2>1, <2>2
<1>7. Apart'
  BY <1>3, <1>4, NoJobIs DEF Inv, Apart, Creates
<1>8. ASSUME NEW x \in Assets PROVE Whole(x)'
  <2>1. Whole(x)
    BY DEF Inv
  <2>2. Erasing(x) => Erasing(x)' \/ asset'[x].row = "deleted"
    BY <1>1, <1>3 DEF Erasing, RowsAfter
  <2>3. asset'[x].row = "live" => x \in bytes \/ asset[x].row = "live"
    BY <1>1 DEF RowsAfter
  <2>4. asset'[x].row = "deleted" => x \notin bytes
    BY <1>1, <2>1 DEF RowsAfter, Whole
  <2> QED BY <1>1, <1>2, <2>1, <2>2, <2>3, <2>4 DEF RowsAfter, Whole
<1>9. ASSUME NEW l \in links' PROVE Leads(l)'
  <2>1. \A w \in Works : /\ work[w].row = asset[w].row
                         /\ work[w].row # "absent" => work'[w].row # "absent"
                         /\ work[w].row # "absent" /\ work'[w].row = "live" => work[w].row = "live"
    <3>1. \A w \in Works : work[w].row = asset[w].row /\ work'[w].row = asset'[w].row
      BY <1>1 DEF Inv, Whole, RowsAfter, Assets
    <3>2. Creates(j) => asset[job[j].thing].row = "absent"
      BY <1>1 DEF Knows
    <3> QED BY <1>1, <3>1, <3>2 DEF RowsAfter, Assets
  <2>2. CASE l \in links
    <3>1. Leads(l)
      BY <2>2 DEF Inv
    <3>2. reshared \subseteq reshared'
      BY <1>2
    <3>3. CASE job[j].kind = "share" /\ l[1] = job[j].thing /\ work[l[1]].share = l[2]
      <4>1. job[j].overlapped \/ work[job[j].thing].share = 0
        BY <1>1, <1>2, <3>3 DEF Knows
      <4>2. l[1] \in reshared'
        BY <1>2, <3>1, <3>3, <4>1 DEF Leads
      <4> QED BY <2>1, <3>1, <4>2 DEF Leads
    <3> QED BY <1>1, <2>1, <3>1, <3>2, <3>3 DEF Leads, RowsAfter
  <2>3. CASE l \notin links
    <3>1. job[j].kind = "share" /\ l = <<job[j].thing, job[j].link>>
      BY <1>2, <2>3
    <3>2. /\ job[j].thing \in Works /\ asset[job[j].thing].row # "absent" /\ job[j].link # 0
      BY <1>1, <1>2, <3>1 DEF Knows
    <3>3. work'[job[j].thing].share = job[j].link
      BY <1>1, <3>1 DEF RowsAfter
    <3> QED BY <2>1, <3>1, <3>2, <3>3 DEF Leads
  <2> QED BY <2>2, <2>3
<1> QED BY <1>5, <1>6, <1>7, <1>8, <1>9 DEF Inv

-----------------------------------------------------------------------------
LEMMA InvStep == Inv /\ [Next]_vars => Inv'
<1> SUFFICES ASSUME Inv, [Next]_vars PROVE Inv'
  OBVIOUS
<1>1. CASE LibraryNext
  <2>1. PICK j \in Jobs :
          \/ \E u \in Owners : Upload(j, u) \/ Store(j, u) \/ Delete(j, u) \/ Share(j, u)
          \/ SignIn(j) \/ PutObject(j) \/ EraseBytes(j) \/ Flush(j) \/ Commit(j) \/ Abort(j)
    BY <1>1 DEF LibraryNext
  <2>2. ASSUME NEW u \in Owners, Upload(j, u) \/ Store(j, u) \/ Delete(j, u) \/ Share(j, u) PROVE Inv'
    BY <2>2, CreateInv, AskInv
  <2>3. CASE SignIn(j)
    <3>1. Guest \in Owners
      BY DEF Owners
    <3> QED BY <2>3, <3>1, AskInv
  <2> QED BY <2>1, <2>2, <2>3, PutInv, EraseInv, FlushInv, CommitInv, AbortInv
<1>2. CASE UNCHANGED libraryVars
  BY <1>2 DEF libraryVars, rows, Inv, Typed, Knows, Creates, Apart, Whole, Erasing, Leads
<1> QED BY <1>1, <1>2 DEF Next, vars

LEMMA InvHolds == Spec => []Inv
BY InitInv, InvStep, PTL DEF Spec

-----------------------------------------------------------------------------
LEMMA InitPhotos == Init => PhotoInv
<1> SUFFICES ASSUME Init PROVE PhotoInv
  OBVIOUS
<1>1. /\ \A j \in Jobs : /\ job[j].pc = "idle" /\ job[j].kind = "none" /\ job[j].link = 0
      /\ \A x \in Assets : asset[x].row = "absent" /\ asset[x].owner = Nil
      /\ \A w \in Works : work[w].owner = Nil /\ work[w].share = 0
      /\ bytes = {} /\ jobs = 0
  BY DEF Init, NoJob, NoWork
<1>2. \A u \in Owners : UploadsOf(u) = {}
  BY <1>1 DEF UploadsOf, Live, Assets
<1>3. MaxJobs \in Nat
  BY LibraryAssumption
<1>4. Sound
  BY <1>1, <1>2, <1>3 DEF Sound, Assets
<1>5. ASSUME NEW j \in Jobs PROVE Knocks(j)
  BY <1>1, <1>3 DEF Knocks, Merges
<1>6. KeysApart
  BY <1>1 DEF KeysApart, Adds, Merges
<1> QED BY <1>1, <1>3, <1>4, <1>5, <1>6 DEF PhotoInv

(* What a request will use it holds *)
LEMMA KeysHeld ==
  ASSUME Inv, PhotoInv, NEW j \in Jobs
  PROVE  /\ \A u \in Owners : Adds(j, u) => <<"photo", u>> \in Holds(j)
         /\ Merges(j) => \A x \in job[j].moved : <<"row", x>> \in Holds(j)
<1>1. Knocks(j) /\ Sound
  BY DEF PhotoInv
<1>2. ASSUME NEW u \in Owners, Adds(j, u) PROVE <<"photo", u>> \in Holds(j)
  <2>1. CASE job[j].kind = "upload"
    BY <1>2, <2>1 DEF Adds, Holds
  <2>2. CASE job[j].kind = "signin" /\ u = Account /\ job[j].moved \cap Photos # {}
    <3>1. PICK p \in Photos : p \in job[j].moved
      BY <2>2
    <3>2. p \in GuestRows
      BY <1>1, <1>2, <2>2, <3>1 DEF Adds, Merges, Knocks
    <3>3. asset[p].row = "live"
      <4>1. asset[p].row \in {"absent", "live", "deleted"}
        BY DEF Inv, Typed, AssetRow, RowStates, Assets
      <4> QED BY <1>1, <3>2, <4>1 DEF GuestRows, Sound
    <3>4. UploadsOf(Guest) # {}
      BY <3>2, <3>3 DEF UploadsOf, Live, GuestRows
    <3> QED BY <2>2, <3>4 DEF Holds
  <2> QED BY <1>2, <2>1, <2>2 DEF Adds
<1>3. ASSUME Merges(j), NEW x \in job[j].moved PROVE <<"row", x>> \in Holds(j)
  <2>1. x \in GuestRows
    BY <1>1, <1>3 DEF Knocks
  <2> QED BY <1>3, <2>1 DEF Holds, Merges
<1> QED BY <1>2, <1>3

(* A step that changes one request and no row *)
LEMMA OneJobPhotos ==
  ASSUME Inv, PhotoInv, NEW j \in Jobs, NEW t, job' = [job EXCEPT ![j] = t],
         UNCHANGED rows, jobs' \in 0..MaxJobs, bytes' \subseteq Assets,
         Knocks(j)',
         t.pc = "commit" =>
           \A i \in Jobs \ {j} : /\ \A u \in Owners : ~(Adds(i, u) /\ Adds(j, u)')
                                 /\ Merges(i) /\ Merges(j)' => job[i].moved \cap t.moved = {}
  PROVE  PhotoInv'
<1>1. /\ job'[j] = t /\ \A i \in Jobs \ {j} : job'[i] = job[i]
      /\ asset' = asset /\ work' = work
  BY DEF Inv, Typed, rows
<1>2. \A u : UploadsOf(u)' = UploadsOf(u)
  BY <1>1 DEF UploadsOf, Live
<1>3. GuestRows' = GuestRows
  BY <1>1 DEF GuestRows
<1>4. Sound'
  BY <1>1, <1>2 DEF PhotoInv, Sound
<1>5. ASSUME NEW i \in Jobs PROVE Knocks(i)'
  <2>1. CASE i = j
    BY <2>1
  <2>2. CASE i # j
    <3>1. Knocks(i) /\ job'[i] = job[i]
      BY <1>1, <2>2 DEF PhotoInv
    <3> QED BY <1>1, <1>2, <1>3, <3>1 DEF Knocks, Merges
  <2> QED BY <2>1, <2>2
<1>6. ASSUME NEW i \in Jobs \ {j}
      PROVE  /\ \A u \in Owners : ~(Adds(i, u) /\ Adds(j, u))'
             /\ (Merges(i) /\ Merges(j) => job[i].moved \cap job[j].moved = {})'
  <2>1. /\ \A u : Adds(i, u)' <=> Adds(i, u)
        /\ Merges(i)' <=> Merges(i)
        /\ job'[i] = job[i]
    BY <1>1 DEF Adds, Merges
  <2>2. CASE t.pc = "commit"
    BY <1>1, <2>1, <2>2
  <2>3. CASE t.pc # "commit"
    BY <1>1, <2>3 DEF Adds, Merges
  <2> QED BY <2>2, <2>3
<1>7. ASSUME NEW i \in Jobs \ {j}, NEW k \in Jobs \ {j}, i # k
      PROVE  /\ \A u \in Owners : ~(Adds(i, u) /\ Adds(k, u))'
             /\ (Merges(i) /\ Merges(k) => job[i].moved \cap job[k].moved = {})'
  BY <1>1, <1>7 DEF PhotoInv, KeysApart, Adds, Merges
<1>8. KeysApart'
  <2> SUFFICES ASSUME NEW i \in Jobs, NEW k \in Jobs, i # k
               PROVE  /\ \A u \in Owners : ~(Adds(i, u) /\ Adds(k, u))'
                      /\ (Merges(i) /\ Merges(k) => job[i].moved \cap job[k].moved = {})'
    BY DEF KeysApart
  <2>1. CASE k = j
    BY <1>6, <2>1
  <2>2. CASE i = j
    BY <1>6, <2>2
  <2> QED BY <1>7, <2>1, <2>2
<1> QED BY <1>4, <1>5, <1>8 DEF PhotoInv

(* A new request: an upload begins when its owner has no copy, or ends at  *)
(* the copy there is                                                       *)
LEMMA AskPhotos ==
  ASSUME Inv, PhotoInv, NEW j \in Jobs, NEW u \in Owners,
         Upload(j, u) \/ Store(j, u) \/ Delete(j, u) \/ Share(j, u) \/ SignIn(j)
  PROVE  PhotoInv'
<1>1. ASSUME NEW kind \in {"upload", "work", "delete", "share", "signin"}, NEW o \in Owners, NEW s \in JobRow,
             s.pc \in {"idle", "put", "erase", "flush"}, s.link \in {0, jobs'},
             Request(j, kind, o, s), kind = "upload" => s.pc = "idle" \/ UploadsOf(o) = {}
      PROVE  PhotoInv'
  <2> DEFINE t == Asked(s, kind, o)
  <2>1. t.pc = s.pc /\ t.kind = kind /\ t.who = o /\ t.link = s.link
    BY DEF Asked, JobRow
  <2>2. job' = [job EXCEPT ![j] = t] /\ job'[j] = t /\ UNCHANGED <<rows, bytes>>
    BY <1>1, RequestIs
  <2> HIDE DEF t
  <2>3. jobs' \in 0..MaxJobs
    BY <1>1, LibraryAssumption DEF Request, PhotoInv
  <2>4. s.link \in 0..MaxJobs
    BY <1>1, <2>3, LibraryAssumption
  <2>5. UploadsOf(o)' = UploadsOf(o)
    BY <2>2 DEF UploadsOf, Live, rows
  <2>6. Knocks(j)'
    BY <1>1, <2>1, <2>2, <2>4, <2>5 DEF Knocks, Merges
  <2>7. t.pc # "commit"
    BY <1>1, <2>1
  <2>8. bytes' \subseteq Assets /\ UNCHANGED rows
    BY <2>2 DEF PhotoInv
  <2> QED BY <2>2, <2>3, <2>6, <2>7, <2>8, OneJobPhotos
<1>2. ASSUME NEW pc \in {"idle", "put", "erase", "flush"}, NEW x \in Assets
      PROVE  LET s == [NoJob EXCEPT !.pc = pc, !.thing = x]
             IN  s \in JobRow /\ s.pc = pc /\ s.link = 0
  BY NoJobIs DEF JobRow
<1>3. CASE Upload(j, u)
  <2>1. CASE Request(j, "upload", u, NoJob)
    BY <1>1, <2>1, NoJobIs
  <2>2. ASSUME NEW p \in FreshOf(Photos), ~Found(u),
               Request(j, "upload", u, [NoJob EXCEPT !.pc = "put", !.thing = p])
        PROVE  PhotoInv'
    <3>1. p \in Assets /\ UploadsOf(u) = {}
      BY <2>2 DEF FreshOf, Assets, Found
    <3> QED BY <1>1, <1>2, <2>2, <3>1
  <2> QED BY <1>3, <2>1, <2>2 DEF Upload
<1>4. CASE Store(j, u)
  <2>1. PICK w \in FreshOf(Works) : Request(j, "work", u, [NoJob EXCEPT !.pc = "put", !.thing = w])
    BY <1>4 DEF Store
  <2>2. w \in Assets
    BY DEF FreshOf, Assets
  <2> QED BY <1>1, <1>2, <2>1, <2>2
<1>5. CASE Delete(j, u)
  <2>1. PICK w \in Works : Request(j, "delete", u, [NoJob EXCEPT !.pc = "erase", !.thing = w])
    BY <1>5 DEF Delete
  <2>2. w \in Assets
    BY DEF Assets
  <2> QED BY <1>1, <1>2, <2>1, <2>2
<1>6. CASE Share(j, u)
  <2>1. PICK w \in Works :
          \/ Request(j, "share", u, NoJob)
          \/ Request(j, "share", u, [NoJob EXCEPT !.pc = "flush", !.thing = w, !.link = jobs'])
    BY <1>6 DEF Share
  <2>2. CASE Request(j, "share", u, NoJob)
    BY <1>1, <2>2, NoJobIs
  <2>3. CASE Request(j, "share", u, [NoJob EXCEPT !.pc = "flush", !.thing = w, !.link = jobs'])
    <3> DEFINE s == [NoJob EXCEPT !.pc = "flush", !.thing = w, !.link = jobs']
    <3>1. jobs' \in Nat
      BY <2>3, RequestIs
    <3>2. s \in JobRow /\ s.pc = "flush" /\ s.link = jobs'
      BY <3>1, NoJobIs DEF JobRow, Assets
    <3> HIDE DEF s
    <3>3. Request(j, "share", u, s)
      BY <2>3 DEF s
    <3> QED BY <1>1, <3>2, <3>3
  <2> QED BY <2>1, <2>2, <2>3
<1>7. CASE SignIn(j)
  <2> DEFINE s == [NoJob EXCEPT !.pc = "flush"]
  <2>1. s \in JobRow /\ s.pc = "flush" /\ s.link = 0
    BY NoJobIs DEF JobRow
  <2> HIDE DEF s
  <2>2. Request(j, "signin", Guest, s) /\ Guest \in Owners
    BY <1>7 DEF SignIn, Owners, s
  <2> QED BY <1>1, <2>1, <2>2
<1> QED BY <1>3, <1>4, <1>5, <1>6, <1>7

(* Storage and rollbacks know nothing of keys *)
LEMMA MovePhotos ==
  ASSUME Inv, PhotoInv, NEW j \in Jobs, PutObject(j) \/ EraseBytes(j) \/ Abort(j)
  PROVE  PhotoInv'
<1>1. job[j] \in JobRow /\ Knows(j) /\ Knocks(j) /\ job \in [Jobs -> JobRow]
  BY DEF Inv, Typed, PhotoInv
<1>2. CASE PutObject(j) \/ EraseBytes(j)
  <2> DEFINE t == [job[j] EXCEPT !.pc = "flush"]
  <2>1. /\ job' = [job EXCEPT ![j] = t] /\ UNCHANGED <<rows, jobs>> /\ job[j].pc \in {"put", "erase"}
        /\ bytes' \in {bytes \cup {job[j].thing}, bytes \ {job[j].thing}}
    BY <1>2 DEF PutObject, EraseBytes, Step, Put_
  <2>2. /\ t.pc = "flush" /\ t.kind = job[j].kind /\ t.link = job[j].link /\ t.who = job[j].who
        /\ t.overlapped = job[j].overlapped
    BY <1>1 DEF JobRow
  <2>3. job'[j] = t
    BY <1>1, <2>1
  <2> HIDE DEF t
  <2>4. \A u : UploadsOf(u)' = UploadsOf(u)
    BY <2>1 DEF UploadsOf, Live, rows
  <2>5. Knocks(j)'
    BY <1>1, <2>1, <2>2, <2>3, <2>4 DEF Knocks, Merges
  <2>6. job[j].thing \in Assets
    BY <1>1, <2>1 DEF Knows, Creates, Assets
  <2>7. bytes' \subseteq Assets /\ jobs' \in 0..MaxJobs /\ t.pc # "commit" /\ UNCHANGED rows
    BY <2>1, <2>2, <2>6 DEF PhotoInv
  <2> QED BY <2>1, <2>5, <2>7, OneJobPhotos
<1>3. CASE Abort(j)
  <2>1. job' = [job EXCEPT ![j] = NoJob] /\ UNCHANGED <<rows, bytes, jobs>>
    BY <1>3 DEF Abort, Put_
  <2>2. job'[j] = NoJob
    BY <1>1, <2>1
  <2>3. Knocks(j)'
    BY <2>2, NoJobIs, LibraryAssumption DEF Knocks, Merges
  <2>4. bytes' \subseteq Assets /\ jobs' \in 0..MaxJobs /\ NoJob.pc # "commit" /\ UNCHANGED rows
    BY <2>1, NoJobIs DEF PhotoInv
  <2> QED BY <2>1, <2>3, <2>4, OneJobPhotos
<1> QED BY <1>2, <1>3

(* A flush waits for the keys and rows that others hold: what it then sees *)
(* of them stays so until it commits                                       *)
LEMMA FlushPhotos ==
  ASSUME Inv, PhotoInv, NEW j \in Jobs, Flush(j)
  PROVE  PhotoInv'
<1> DEFINE p == IF Breaks(j) THEN "error" ELSE "commit"
           m == IF job[j].kind = "signin" THEN GuestRows ELSE {}
           t == [job[j] EXCEPT !.pc = p, !.moved = m]
<1>1. /\ job[j].pc = "flush" /\ job' = [job EXCEPT ![j] = t]
      /\ UNCHANGED <<rows, bytes, jobs>>
      /\ \A i \in Jobs \ {j} : job[i].pc = "commit" => Holds(i) \cap Holds(j) = {}
  BY DEF Flush, Put_
<1>2. job[j] \in JobRow /\ Knocks(j) /\ job \in [Jobs -> JobRow] /\ Sound
  BY DEF Inv, Typed, PhotoInv
<1>3. /\ t.pc = p /\ t.kind = job[j].kind /\ t.who = job[j].who /\ t.moved = m
      /\ t.link = job[j].link /\ t.overlapped = job[j].overlapped
  BY <1>2 DEF JobRow
<1>4. job'[j] = t /\ asset' = asset
  BY <1>1, <1>2 DEF rows
<1> HIDE DEF t
<1>5. (\A u : UploadsOf(u)' = UploadsOf(u)) /\ GuestRows' = GuestRows
  BY <1>4 DEF UploadsOf, Live, GuestRows
<1>6. m \cap Photos # {} => UploadsOf(Guest) # {}
  <2> SUFFICES ASSUME NEW q \in Photos, q \in GuestRows PROVE UploadsOf(Guest) # {}
    OBVIOUS
  <2>1. asset[q].row \in {"absent", "live", "deleted"}
    BY DEF Inv, Typed, AssetRow, RowStates, Assets
  <2> QED BY <1>2, <2>1 DEF GuestRows, UploadsOf, Live, Sound
<1>7. Knocks(j)'
  <2>1. p = "error" => /\ job[j].kind \in {"upload", "signin"}
                       /\ job[j].kind = "upload" => UploadsOf(job[j].who) # {}
                       /\ job[j].kind = "signin" => UploadsOf(Guest) # {} /\ UploadsOf(Account) # {}
    BY DEF Breaks
  <2>2. p = "commit" => /\ job[j].kind = "upload" => UploadsOf(job[j].who) = {}
                        /\ job[j].kind = "signin" => UploadsOf(Guest) = {} \/ UploadsOf(Account) = {}
    BY DEF Breaks
  <2>3. p \in {"error", "commit"} /\ (job[j].kind = "signin" => m = GuestRows)
    OBVIOUS
  <2> HIDE DEF p, m
  <2> QED BY <1>1, <1>2, <1>3, <1>4, <1>5, <1>6, <2>1, <2>2, <2>3 DEF Knocks, Merges
<1>8. ASSUME NEW i \in Jobs \ {j}
      PROVE  /\ \A u \in Owners : ~(Adds(i, u) /\ Adds(j, u)')
             /\ Merges(i) /\ Merges(j)' => job[i].moved \cap t.moved = {}
  <2>1. /\ \A u \in Owners : Adds(i, u) => <<"photo", u>> \in Holds(i)
        /\ Merges(i) => \A x \in job[i].moved : <<"row", x>> \in Holds(i)
    BY KeysHeld
  <2>2. \A u \in Owners : Adds(j, u)' => <<"photo", u>> \in Holds(j)
    <3> SUFFICES ASSUME NEW u \in Owners, Adds(j, u)' PROVE <<"photo", u>> \in Holds(j)
      OBVIOUS
    <3>1. CASE job[j].kind = "upload"
      BY <1>3, <1>4, <3>1 DEF Adds, Holds
    <3>2. CASE job[j].kind = "signin" /\ u = Account /\ m \cap Photos # {}
      BY <1>6, <3>2 DEF Holds
    <3> QED BY <1>3, <1>4, <3>1, <3>2 DEF Adds
  <2>3. Merges(j)' => \A x \in t.moved : <<"row", x>> \in Holds(j)
    BY <1>3, <1>4 DEF Merges, Holds
  <2>4. /\ \A u : Adds(i, u) => job[i].pc = "commit"
        /\ Merges(i) => job[i].pc = "commit"
    BY DEF Adds, Merges
  <2>5. job[i].pc = "commit" => Holds(i) \cap Holds(j) = {}
    BY <1>1
  <2> QED BY <2>1, <2>2, <2>3, <2>4, <2>5
<1>9. bytes' \subseteq Assets /\ jobs' \in 0..MaxJobs /\ UNCHANGED rows
  BY <1>1 DEF PhotoInv
<1> QED BY <1>1, <1>7, <1>8, <1>9, OneJobPhotos

(* What a commit does to owners: a key is used by the request that holds   *)
(* it, only a sign-in takes photographs from a guest, and it takes them to *)
(* an account that has none                                                *)
OwnersAfter(j) ==
  /\ \A u \in Owners : ~Adds(j, u) => UploadsOf(u)' \subseteq UploadsOf(u)
  /\ \A u \in Owners : Adds(j, u) => UploadsOf(u) = {} /\ \A p, q \in UploadsOf(u)' : p = q
  /\ UploadsOf(Account) \subseteq UploadsOf(Account)'
  /\ ~Adds(j, Account) => UploadsOf(Guest) \subseteq UploadsOf(Guest)'
  /\ \A y \in GuestRows : y \in GuestRows' \/ (Merges(j) /\ y \in job[j].moved)
  /\ \A p \in Photos : asset'[p].row # "deleted"
  /\ \A w \in Works : work'[w].share \in 0..MaxJobs /\ work'[w].owner = asset'[w].owner

(* ... when it is about a work, whose owner it leaves or sets with its row *)
LEMMA WorkCommits ==
  ASSUME Inv, PhotoInv, NEW j \in Jobs, Commit(j), job[j].kind \in {"work", "delete", "share"}
  PROVE  OwnersAfter(j)
<1> DEFINE x == job[j].thing
<1>1. Committed(j) /\ job[j].pc = "commit"
  BY DEF Commit
<1>2. /\ asset \in [Assets -> AssetRow] /\ work \in [Works -> WorkRow] /\ job[j] \in JobRow
      /\ Knows(j) /\ Knocks(j) /\ Sound
      /\ \A w \in Works : work[w].row = asset[w].row
  BY DEF Inv, Typed, Whole, Assets, PhotoInv
<1>3. x \in Works /\ x \in Assets /\ x \notin Photos
  BY <1>1, <1>2, LibraryAssumption DEF Knows, Creates, Assets
<1>4. /\ asset' \in [Assets -> AssetRow] /\ work' \in [Works -> WorkRow]
      /\ \A y \in Assets \ {x} : asset'[y] = asset[y]
      /\ \A w \in Works \ {x} : work'[w] = work[w]
      /\ work'[x].owner = asset'[x].owner /\ work'[x].share \in 0..MaxJobs
      /\ asset[x].row # "absent" => asset'[x].row # "absent" /\ asset'[x].owner = asset[x].owner
  <2>1. RowsAfter(j)
    BY CommitRows
  <2>2. work[x] \in WorkRow /\ asset[x] \in AssetRow /\ work[x].owner = asset[x].owner
    BY <1>2, <1>3 DEF Sound
  <2>3. job[j].link \in 0..MaxJobs /\ work[x].share \in 0..MaxJobs
    BY <1>2, <1>3 DEF Knocks, Sound
  <2>4. 0 \in 0..MaxJobs
    BY LibraryAssumption
  <2>5. CASE job[j].kind = "work"
    <3>1. /\ asset' = [asset EXCEPT ![x] = [row |-> "live", owner |-> job[j].who]]
          /\ work' = [work EXCEPT ![x] = [row |-> "live", owner |-> job[j].who, share |-> 0]]
      BY <1>1, <2>5 DEF Committed
    <3>2. asset[x].row = "absent"
      BY <1>1, <1>2, <2>5 DEF Knows, Creates
    <3> HIDE DEF x
    <3> QED BY <1>2, <1>3, <2>1, <2>4, <3>1, <3>2 DEF RowsAfter
  <2>6. CASE job[j].kind = "delete"
    <3>1. /\ asset' = [asset EXCEPT ![x].row = "deleted"]
          /\ work' = [work EXCEPT ![x].row = "deleted", ![x].share = 0]
      BY <1>1, <2>6 DEF Committed
    <3> HIDE DEF x
    <3>2. asset' = [asset EXCEPT ![x] = [asset[x] EXCEPT !.row = "deleted"]]
      BY <1>2, <1>3, <3>1
    <3>3. work' = [work EXCEPT ![x] = [[work[x] EXCEPT !.row = "deleted"] EXCEPT !.share = 0]]
      BY <1>2, <1>3, <3>1
    <3>4. /\ asset'[x].row = "deleted" /\ asset'[x].owner = asset[x].owner
          /\ \A y \in Assets \ {x} : asset'[y] = asset[y]
      BY <1>2, <1>3, <2>2, <3>2 DEF AssetRow
    <3>5. /\ work'[x].owner = work[x].owner /\ work'[x].share = 0
          /\ \A w \in Works \ {x} : work'[w] = work[w]
      BY <1>2, <1>3, <2>2, <3>3 DEF WorkRow
    <3> QED BY <2>1, <2>2, <2>4, <3>4, <3>5 DEF RowsAfter
  <2>7. CASE job[j].kind = "share"
    <3>1. work' = [work EXCEPT ![x].share = job[j].link] /\ asset' = asset
      BY <1>1, <2>7 DEF Committed
    <3> HIDE DEF x
    <3>2. work' = [work EXCEPT ![x] = [work[x] EXCEPT !.share = job[j].link]]
      BY <1>2, <1>3, <3>1
    <3>3. /\ work'[x].owner = work[x].owner /\ work'[x].share = job[j].link
          /\ \A w \in Works \ {x} : work'[w] = work[w]
      BY <1>2, <1>3, <2>2, <3>2 DEF WorkRow
    <3> QED BY <2>1, <2>2, <2>3, <3>1, <3>3 DEF RowsAfter
  <2> QED BY <2>5, <2>6, <2>7
<1>5. \A u : ~Adds(j, u)
  BY DEF Adds
<1> HIDE DEF x
<1>6. \A p \in Photos : asset'[p] = asset[p]
  BY <1>3, <1>4 DEF Assets
<1>7. \A u : UploadsOf(u)' = UploadsOf(u)
  BY <1>6 DEF UploadsOf, Live
<1>8. \A y \in GuestRows : y \in GuestRows'
  BY <1>4 DEF GuestRows
<1>9. \A w \in Works : work'[w].share \in 0..MaxJobs /\ work'[w].owner = asset'[w].owner
  BY <1>2, <1>4 DEF Sound, Assets
<1> QED BY <1>2, <1>5, <1>6, <1>7, <1>8, <1>9 DEF OwnersAfter, Sound

(* ... when it is an upload, the first of its owner *)
LEMMA UploadCommits ==
  ASSUME Inv, PhotoInv, NEW j \in Jobs, Commit(j), job[j].kind = "upload"
  PROVE  OwnersAfter(j)
<1> DEFINE x == job[j].thing
<1>0. PICK o \in Owners : o = job[j].who
  BY DEF PhotoInv, Knocks, Commit
<1>1. /\ job[j].pc = "commit" /\ work' = work
      /\ asset' = [asset EXCEPT ![x] = [row |-> "live", owner |-> o]]
  BY <1>0 DEF Commit, Committed
<1>2. /\ asset \in [Assets -> AssetRow] /\ Knows(j) /\ Knocks(j) /\ Sound
  BY DEF Inv, Typed, PhotoInv
<1>3. /\ x \in Photos /\ x \in Assets /\ x \notin Works /\ asset[x].row = "absent"
      /\ UploadsOf(o) = {}
  BY <1>0, <1>1, <1>2, LibraryAssumption DEF Knows, Knocks, Creates, Assets
<1>4. \A u \in Owners : Adds(j, u) <=> u = o
  BY <1>0, <1>1 DEF Adds
<1> HIDE DEF x
<1>5. /\ asset'[x].row = "live" /\ asset'[x].owner = o
      /\ \A y \in Assets \ {x} : asset'[y] = asset[y]
  BY <1>1, <1>2, <1>3
<1>6. ASSUME NEW u \in Owners, u # o PROVE UploadsOf(u)' = UploadsOf(u)
  <2>1. \A p \in Photos : p \in UploadsOf(u)' <=> p \in UploadsOf(u)
    BY <1>3, <1>5, <1>6 DEF UploadsOf, Live, Assets
  <2> QED BY <2>1 DEF UploadsOf
<1>7. \A p \in UploadsOf(o)' : p = x
  BY <1>3, <1>5 DEF UploadsOf, Live, Assets
<1>8. \A y \in GuestRows : y \in GuestRows'
  BY <1>3, <1>5 DEF GuestRows
<1>9. /\ \A p \in Photos : asset'[p].row # "deleted"
      /\ \A w \in Works : work'[w].share \in 0..MaxJobs /\ work'[w].owner = asset'[w].owner
  BY <1>1, <1>2, <1>3, <1>5 DEF Sound, Assets
<1>10. \A u \in Owners : UploadsOf(u) \subseteq UploadsOf(u)'
  BY <1>3, <1>6
<1> QED BY <1>3, <1>4, <1>6, <1>7, <1>8, <1>9, <1>10 DEF OwnersAfter, Owners

(* ... when it is a sign-in, which takes what it has updated and no more *)
LEMMA SignInCommits ==
  ASSUME Inv, PhotoInv, NEW j \in Jobs, Commit(j), job[j].kind = "signin"
  PROVE  OwnersAfter(j)
<1> DEFINE m == job[j].moved
<1>1. /\ job[j].pc = "commit"
      /\ asset' = [y \in Assets |-> IF y \in m THEN [asset[y] EXCEPT !.owner = Account] ELSE asset[y]]
      /\ work' = [w \in Works |-> IF w \in m THEN [work[w] EXCEPT !.owner = Account] ELSE work[w]]
  BY DEF Commit, Committed, MovedWorks
<1>2. /\ asset \in [Assets -> AssetRow] /\ work \in [Works -> WorkRow] /\ Knocks(j) /\ Sound
  BY DEF Inv, Typed, PhotoInv
<1>3. Merges(j) /\ m \subseteq GuestRows /\ (m \cap Photos # {} => UploadsOf(Account) = {})
  BY <1>1, <1>2 DEF Merges, Knocks
<1>4. \A u \in Owners : Adds(j, u) <=> u = Account /\ m \cap Photos # {}
  BY <1>1 DEF Adds
<1> HIDE DEF m
<1>5. \A y \in Assets : /\ asset'[y].row = asset[y].row
                        /\ y \in m => asset'[y].owner = Account
                        /\ y \notin m => asset'[y].owner = asset[y].owner
  BY <1>1, <1>2 DEF AssetRow
<1>6. \A w \in Works : /\ work'[w].share = work[w].share
                       /\ w \in m => work'[w].owner = Account
                       /\ w \notin m => work'[w].owner = work[w].owner
  BY <1>1, <1>2 DEF WorkRow
<1>7. \A y \in m : y \in Assets /\ asset[y].owner = Guest
  BY <1>3 DEF GuestRows
<1>8. UploadsOf(Guest)' = UploadsOf(Guest) \ m
  BY <1>5, <1>7, LibraryAssumption DEF UploadsOf, Live, Assets
<1>9. /\ UploadsOf(Account) \subseteq UploadsOf(Account)'
      /\ UploadsOf(Account)' \subseteq UploadsOf(Account) \cup (UploadsOf(Guest) \cap m)
  BY <1>5, <1>7 DEF UploadsOf, Live, Assets
<1>10. \A y \in GuestRows : y \in GuestRows' \/ y \in m
  BY <1>5 DEF GuestRows
<1>11. /\ \A p \in Photos : asset'[p].row # "deleted"
       /\ \A w \in Works : work'[w].share \in 0..MaxJobs /\ work'[w].owner = asset'[w].owner
  BY <1>2, <1>5, <1>6 DEF Sound, Assets
<1>12. UploadsOf(Guest) \cap m \subseteq m \cap Photos
  BY DEF UploadsOf
<1>13. \A p, q \in UploadsOf(Guest) : p = q
  BY <1>2 DEF Sound, Owners
<1>14. ~Adds(j, Account) => m \cap Photos = {}
  BY <1>4 DEF Owners
<1>15. ~Adds(j, Guest) /\ (Adds(j, Account) => m \cap Photos # {})
  BY <1>4, LibraryAssumption DEF Owners
<1>16. \A u \in Owners : u = Guest \/ u = Account
  BY DEF Owners
<1>17. \A u \in Owners : ~Adds(j, u) => UploadsOf(u)' \subseteq UploadsOf(u)
  BY <1>8, <1>9, <1>12, <1>14, <1>16
<1>18. \A u \in Owners : Adds(j, u) => UploadsOf(u) = {} /\ \A p, q \in UploadsOf(u)' : p = q
  BY <1>3, <1>9, <1>13, <1>15, <1>16
<1>19. ~Adds(j, Account) => UploadsOf(Guest) \subseteq UploadsOf(Guest)'
  BY <1>8, <1>12, <1>14
<1>20. \A y \in GuestRows : y \in GuestRows' \/ (Merges(j) /\ y \in job[j].moved)
  BY <1>3, <1>10 DEF m
<1> QED BY <1>9, <1>11, <1>17, <1>18, <1>19, <1>20 DEF OwnersAfter

LEMMA CommitPhotos ==
  ASSUME Inv, PhotoInv, NEW j \in Jobs, Commit(j)
  PROVE  PhotoInv'
<1>1. /\ job[j].pc = "commit" /\ UNCHANGED <<bytes, jobs>>
      /\ job' = [i \in Jobs |-> IF i = j THEN NoJob
                                ELSE IF job[i].pc = "idle" THEN job[i]
                                ELSE [job[i] EXCEPT !.overlapped = TRUE]]
  BY DEF Commit
<1>2. job \in [Jobs -> JobRow] /\ Sound /\ (\A i \in Jobs : Knocks(i)) /\ KeysApart
  BY DEF Inv, Typed, PhotoInv
<1>3. OwnersAfter(j)
  <2>1. job[j].kind \in {"upload", "work", "delete", "share", "signin"}
    BY <1>1, <1>2 DEF Knocks, JobRow
  <2> QED BY <2>1, WorkCommits, UploadCommits, SignInCommits
<1>4. job'[j] = NoJob
  BY <1>1
<1>5. ASSUME NEW i \in Jobs, i # j
      PROVE  /\ job'[i].pc = job[i].pc /\ job'[i].kind = job[i].kind /\ job'[i].who = job[i].who
             /\ job'[i].link = job[i].link /\ job'[i].moved = job[i].moved
             /\ job[i].pc # "idle" => job'[i].overlapped
  <2>1. job[i] \in JobRow
    BY <1>2
  <2>2. CASE job[i].pc = "idle"
    BY <1>1, <1>5, <2>2
  <2>3. CASE job[i].pc # "idle"
    <3>1. job'[i] = [job[i] EXCEPT !.overlapped = TRUE]
      BY <1>1, <1>5, <2>3
    <3> QED BY <2>1, <3>1 DEF JobRow
  <2> QED BY <2>2, <2>3
<1>6. Sound'
  <2>1. ASSUME NEW u \in Owners PROVE \A p, q \in UploadsOf(u)' : p = q
    BY <1>2, <1>3 DEF OwnersAfter, Sound
  <2> QED BY <1>3, <2>1 DEF OwnersAfter, Sound
<1>7. ASSUME NEW i \in Jobs, i # j
      PROVE  /\ \A u : Adds(i, u)' <=> Adds(i, u)
             /\ Merges(i)' <=> Merges(i)
  BY <1>5, <1>7 DEF Adds, Merges
<1>8. ASSUME NEW i \in Jobs PROVE Knocks(i)'
  <2>1. CASE i = j
    BY <1>4, <2>1, NoJobIs, LibraryAssumption DEF Knocks, Merges
  <2>2. CASE i # j
    <3>1. Knocks(i)
      BY <1>2
    <3>2. \A u \in Owners : Adds(i, u) => ~Adds(j, u) /\ UploadsOf(u)' \subseteq UploadsOf(u)
      BY <1>2, <1>3, <2>2 DEF KeysApart, OwnersAfter
    <3>3. ASSUME job[i].kind = "upload", job[i].pc = "commit" PROVE UploadsOf(job[i].who)' = {}
      <4>1. PICK u \in Owners : u = job[i].who
        BY <3>1, <3>3 DEF Knocks
      <4>2. UploadsOf(u) = {} /\ Adds(i, u)
        BY <3>1, <3>3, <4>1 DEF Knocks, Adds
      <4>3. UploadsOf(u)' = {}
        BY <3>2, <4>2
      <4> QED BY <1>5, <2>2, <4>1, <4>3 DEF UploadsOf
    <3>4. ASSUME Merges(i) PROVE job[i].moved \subseteq GuestRows'
      <4>1. job[i].moved \subseteq GuestRows
        BY <3>1, <3>4 DEF Knocks
      <4>2. Merges(j) => job[i].moved \cap job[j].moved = {}
        BY <1>2, <2>2, <3>4 DEF KeysApart
      <4> QED BY <1>3, <4>1, <4>2 DEF OwnersAfter
    <3>5. ASSUME Merges(i), job[i].moved \cap Photos # {} PROVE UploadsOf(Account)' = {}
      <4>1. UploadsOf(Account) = {} /\ Adds(i, Account) /\ Account \in Owners
        BY <3>1, <3>5 DEF Knocks, Adds, Merges, Owners
      <4> QED BY <3>2, <4>1
    <3>6. ASSUME job[i].kind = "signin", job[i].pc = "error"
          PROVE  UploadsOf(Guest)' # {} /\ UploadsOf(Account)' # {}
      <4>1. UploadsOf(Guest) # {} /\ UploadsOf(Account) # {} /\ Account \in Owners
        BY <3>1, <3>6 DEF Knocks, Owners
      <4> QED BY <1>3, <4>1 DEF OwnersAfter
    <3> QED BY <1>5, <1>7, <2>2, <3>1, <3>3, <3>4, <3>5, <3>6 DEF Knocks, Merges
  <2> QED BY <2>1, <2>2
<1>9. KeysApart'
  <2>1. ~Merges(j)' /\ \A u : ~Adds(j, u)'
    BY <1>4, NoJobIs DEF Merges, Adds
  <2> SUFFICES ASSUME NEW i \in Jobs, NEW k \in Jobs, i # k
               PROVE  /\ \A u \in Owners : ~(Adds(i, u) /\ Adds(k, u))'
                      /\ (Merges(i) /\ Merges(k) => job[i].moved \cap job[k].moved = {})'
    BY DEF KeysApart
  <2>2. CASE i = j \/ k = j
    BY <2>1, <2>2
  <2>3. CASE i # j /\ k # j
    <3>1. /\ \A u \in Owners : ~(Adds(i, u) /\ Adds(k, u))
          /\ Merges(i) /\ Merges(k) => job[i].moved \cap job[k].moved = {}
      BY <1>2 DEF KeysApart
    <3> QED BY <1>5, <1>7, <2>3, <3>1
  <2> QED BY <2>2, <2>3
<1>10. bytes' \subseteq Assets /\ jobs' \in 0..MaxJobs
  BY <1>1 DEF PhotoInv
<1> QED BY <1>6, <1>8, <1>9, <1>10 DEF PhotoInv

-----------------------------------------------------------------------------
LEMMA PhotoStep == Inv /\ PhotoInv /\ [Next]_vars => PhotoInv'
<1> SUFFICES ASSUME Inv, PhotoInv, [Next]_vars PROVE PhotoInv'
  OBVIOUS
<1>1. CASE LibraryNext
  <2>1. PICK j \in Jobs :
          \/ \E u \in Owners : Upload(j, u) \/ Store(j, u) \/ Delete(j, u) \/ Share(j, u)
          \/ SignIn(j) \/ PutObject(j) \/ EraseBytes(j) \/ Flush(j) \/ Commit(j) \/ Abort(j)
    BY <1>1 DEF LibraryNext
  <2>2. ASSUME NEW u \in Owners, Upload(j, u) \/ Store(j, u) \/ Delete(j, u) \/ Share(j, u)
        PROVE  PhotoInv'
    BY <2>2, AskPhotos
  <2>3. CASE SignIn(j)
    <3>1. Guest \in Owners
      BY DEF Owners
    <3> QED BY <2>3, <3>1, AskPhotos
  <2> QED BY <2>1, <2>2, <2>3, MovePhotos, FlushPhotos, CommitPhotos
<1>2. CASE UNCHANGED libraryVars
  <2>1. UNCHANGED <<asset, work, bytes, job, jobs>>
    BY <1>2 DEF libraryVars, rows
  <2>2. (\A u : UploadsOf(u)' = UploadsOf(u)) /\ GuestRows' = GuestRows
    BY <2>1 DEF UploadsOf, Live, GuestRows
  <2>3. Sound' /\ KeysApart' /\ \A j \in Jobs : Knocks(j)'
    BY <2>1, <2>2 DEF PhotoInv, Sound, KeysApart, Knocks, Adds, Merges
  <2> QED BY <2>1, <2>3 DEF PhotoInv
<1> QED BY <1>1, <1>2 DEF Next, vars

LEMMA PhotosHold == Spec => [](Inv /\ PhotoInv)
<1>1. Init => Inv /\ PhotoInv
  BY InitInv, InitPhotos
<1>2. Inv /\ PhotoInv /\ [Next]_vars => (Inv /\ PhotoInv)'
  BY InvStep, PhotoStep
<1> QED BY <1>1, <1>2, PTL DEF Spec

(* NoBrokenScreen, for any number of pictures and requests: bytes are      *)
(* there before the row that names them (save_image) and only a deletion   *)
(* takes them away (delete_generation).                                    *)
THEOREM PicturesAreThere == Spec => []NoBrokenScreen
<1>1. Inv => NoBrokenScreen
  BY DEF Inv, Whole, Erasing, NoBrokenScreen, Live
<1> QED BY <1>1, InvHolds, PTL

(* LinksLead: a link leads to its work for as long as that lives, unless   *)
(* two first shares of it overlapped, and nothing that was deleted can be  *)
(* seen again (ensure_share_id, create_share, delete_generation).          *)
THEOREM LinksStayHonest == Spec => []LinksLead
<1>1. Inv => DeletedIsGone
  BY DEF Inv, Whole, DeletedIsGone, Served, Live, Resolves, IsShared, Assets
<1>2. Inv => HandedLinksWork
  BY DEF Inv, Leads, HandedLinksWork, Resolves, IsShared
<1> QED BY <1>1, <1>2, InvHolds, PTL DEF LinksLead

(* OnePhotoOneCopy: rows keep their shape, a photograph is kept once for   *)
(* each owner however uploads and sign-ins overlap, and the key refuses    *)
(* only what another request has stored (uq_media_user_upload_hash,        *)
(* save_image, _merge_guest).                                              *)
THEOREM OneCopyEach == Spec => []OnePhotoOneCopy
<1>1. Inv /\ PhotoInv => TypeOK
  <2> SUFFICES ASSUME Inv, PhotoInv PROVE TypeOK
    OBVIOUS
  <2>1. \A w \in Works : /\ work[w] \in WorkRow /\ work[w].share \in 0..MaxJobs
                         /\ work[w].owner = asset[w].owner /\ work[w].row = asset[w].row
    BY DEF Inv, Typed, Whole, Assets, PhotoInv, Sound
  <2>2. \A j \in Jobs : job[j].thing \in Assets \cup {Nil}
    BY DEF Inv, Typed, JobRow
  <2>3. asset \in [Assets -> AssetRow] /\ bytes \subseteq Assets
    BY DEF Inv, Typed, PhotoInv
  <2> QED BY <2>1, <2>2, <2>3 DEF TypeOK, AssetRow, WorkRow, RowStates
<1>2. PhotoInv => OneCopy
  <2> SUFFICES ASSUME PhotoInv, NEW u \in Owners PROVE Cardinality(UploadsOf(u)) <= 1
    BY DEF OneCopy
  <2>1. \A p, q \in UploadsOf(u) : p = q
    BY DEF PhotoInv, Sound
  <2>2. CASE UploadsOf(u) = {}
    BY <2>2, FS_EmptySet
  <2>3. CASE UploadsOf(u) # {}
    <3>1. PICK p : UploadsOf(u) = {p}
      BY <2>1, <2>3
    <3> QED BY <3>1, FS_Singleton
  <2> QED BY <2>2, <2>3
<1>3. PhotoInv => ErrorsAreSamePhoto
  BY DEF PhotoInv, Knocks, ErrorsAreSamePhoto
<1> QED BY <1>1, <1>2, <1>3, PhotosHold, PTL DEF OnePhotoOneCopy

-----------------------------------------------------------------------------
(* The thread.  What ORDER BY created_at DESC, id DESC LIMIT n returns of  *)
(* messages that have ids of their own.                                    *)
Roles == {"question", "answer", "picture"}
ChatRow == [id : Nat, at : Nat, role : Roles]
OwnIds(S) == \A a, b \in S : a.id = b.id => a = b

Rank(S, m) == Cardinality({x \in S : Later(x, m)})

Page(S, n, q) ==
  /\ q \in Seq(S)
  /\ Len(q) = IF n <= Cardinality(S) THEN n ELSE Cardinality(S)
  /\ \A i \in 1..Len(q) : q[i] \in S /\ Rank(S, q[i]) = i - 1
  /\ \A m \in S : Rank(S, m) < n => Rank(S, m) + 1 \in 1..Len(q) /\ q[Rank(S, m) + 1] = m

(* The messages are in a total order ... *)
LEMMA LaterIsTotal ==
  ASSUME NEW S, S \subseteq ChatRow, OwnIds(S)
  PROVE  /\ \A a, b \in S : a = b \/ Later(a, b) \/ Later(b, a)
         /\ \A a \in S : ~Later(a, a)
         /\ \A a, b, c \in S : Later(a, b) /\ Later(b, c) => Later(a, c)
<1>1. \A a \in S : a.id \in Nat /\ a.at \in Nat
  BY DEF ChatRow
<1> QED BY <1>1 DEF OwnIds, Later

(* ... in which the rank of each is the number of later ones *)
LEMMA Ranks ==
  ASSUME NEW S, S \subseteq ChatRow, OwnIds(S), IsFiniteSet(S)
  PROVE  /\ Cardinality(S) \in Nat
         /\ \A m \in S : Rank(S, m) \in 0..(Cardinality(S) - 1)
         /\ \A a, b \in S : Later(a, b) <=> Rank(S, a) < Rank(S, b)
         /\ \A a, b \in S : Rank(S, a) = Rank(S, b) => a = b
         /\ \A k \in 0..(Cardinality(S) - 1) : \E m \in S : Rank(S, m) = k
<1> DEFINE N == Cardinality(S)
<1>1. N \in Nat
  BY FS_CardinalityType
<1>2. ASSUME NEW m \in S PROVE Rank(S, m) \in 0..(N - 1)
  <2> DEFINE L == {x \in S : Later(x, m)}
  <2>1. L \in SUBSET S /\ m \notin L
    BY LaterIsTotal
  <2>2. IsFiniteSet(L) /\ Cardinality(L) <= N /\ Cardinality(L) # N /\ Cardinality(L) \in Nat
    BY <2>1, FS_Subset, FS_CardinalityType
  <2> QED BY <1>1, <2>2 DEF Rank
<1>3. ASSUME NEW a \in S, NEW b \in S, Later(a, b) PROVE Rank(S, a) < Rank(S, b)
  <2> DEFINE A == {x \in S : Later(x, a)}
             B == {x \in S : Later(x, b)}
  <2>1. A \in SUBSET B /\ a \in B /\ a \notin A /\ B \in SUBSET S
    BY <1>3, LaterIsTotal
  <2>2. IsFiniteSet(B)
    BY <2>1, FS_Subset
  <2>3. Cardinality(A) <= Cardinality(B) /\ Cardinality(A) # Cardinality(B)
    BY <2>1, <2>2, FS_Subset
  <2>4. Cardinality(A) = Rank(S, a) /\ Cardinality(B) = Rank(S, b)
    BY DEF Rank
  <2> HIDE DEF A, B
  <2> QED BY <1>2, <2>3, <2>4
<1>4. ASSUME NEW a \in S, NEW b \in S, Rank(S, a) = Rank(S, b) PROVE a = b
  BY <1>2, <1>3, <1>4, LaterIsTotal
<1>5. ASSUME NEW a \in S, NEW b \in S, Rank(S, a) < Rank(S, b) PROVE Later(a, b)
  BY <1>2, <1>3, <1>5, LaterIsTotal
<1>6. ASSUME NEW k \in 0..(N - 1) PROVE \E m \in S : Rank(S, m) = k
  <2> DEFINE f == [m \in S |-> Rank(S, m)]
  <2>1. f \in Injection(S, 0..(N - 1))
    BY <1>2, <1>4 DEF Injection, IsInjective
  <2>2. IsFiniteSet(0..(N - 1)) /\ Cardinality(0..(N - 1)) = N
    BY <1>1, FS_Interval
  <2>3. f \in Surjection(S, 0..(N - 1))
    BY <2>1, <2>2, FS_Injection
  <2> QED BY <2>3 DEF Surjection
<1> QED BY <1>1, <1>2, <1>3, <1>4, <1>5, <1>6

LEMMA NewestIs ==
  ASSUME NEW S, S \subseteq ChatRow, OwnIds(S), IsFiniteSet(S), NEW n \in Nat
  PROVE  Page(S, n, Newest(S, n))
<1> DEFINE N == Cardinality(S)
           k == IF n <= N THEN n ELSE N
           q == Newest(S, n)
<1>1. N \in Nat /\ k \in Nat /\ k <= N
  BY Ranks
<1>2. Min({n, N}) = k
  BY <1>1 DEF Min
<1>3. q = [i \in 1..k |-> CHOOSE m \in S : Rank(S, m) = i - 1]
  BY <1>2 DEF Newest, Rank
<1> HIDE DEF q
<1>4. ASSUME NEW i \in 1..k PROVE q[i] \in S /\ Rank(S, q[i]) = i - 1
  <2>1. i - 1 \in 0..(N - 1)
    BY <1>1
  <2>2. \E m \in S : Rank(S, m) = i - 1
    BY <2>1, Ranks
  <2> QED BY <1>3, <2>2
<1>5. q \in Seq(S) /\ Len(q) = k
  <2> HIDE DEF k
  <2>1. q \in [1..k -> S]
    BY <1>3, <1>4
  <2> QED BY <1>1, <2>1
<1>6. ASSUME NEW m \in S, Rank(S, m) < n
      PROVE  Rank(S, m) + 1 \in 1..k /\ q[Rank(S, m) + 1] = m
  <2>1. Rank(S, m) \in 0..(N - 1)
    BY Ranks
  <2>2. Rank(S, m) + 1 \in 1..k
    BY <1>1, <1>6, <2>1
  <2>3. q[Rank(S, m) + 1] \in S /\ Rank(S, q[Rank(S, m) + 1]) = Rank(S, m)
    BY <1>4, <2>1, <2>2
  <2> QED BY <2>2, <2>3, Ranks
<1> HIDE DEF k
<1>7. Len(q) = IF n <= Cardinality(S) THEN n ELSE Cardinality(S)
  BY <1>5 DEF k
<1> QED BY <1>4, <1>5, <1>6, <1>7 DEF Page, q

(* Two messages of one moment are a question and its answer.               *)
Mates(q, a) == q.role = "question" /\ a.role = "answer" /\ q.at = a.at /\ q.id < a.id
OneTurnAtATime(S) == \A a, b \in S : a.at = b.at /\ a # b => Mates(a, b) \/ Mates(b, a)
Paired(S) ==
  /\ OwnIds(S) /\ OneTurnAtATime(S)
  /\ \A a \in S : a.role = "answer" => \E q \in S : Mates(q, a)
  /\ \A q \in S : q.role = "question" => \E a \in S : Mates(q, a)

Even(n) == \E k \in Nat : n = 2 * k

(* A question is the next older message to its answer *)
LEMMA MateIsNext ==
  ASSUME NEW S, S \subseteq ChatRow, IsFiniteSet(S), OwnIds(S), OneTurnAtATime(S),
         NEW q \in S, NEW a \in S, Mates(q, a)
  PROVE  Rank(S, q) = Rank(S, a) + 1
<1>1. /\ q.id \in Nat /\ a.id \in Nat /\ q.at \in Nat /\ a.at \in Nat
  BY DEF ChatRow
<1>2. Later(a, q)
  BY <1>1 DEF Mates, Later
<1>3. Rank(S, a) < Rank(S, q) /\ Rank(S, a) \in 0..(Cardinality(S) - 1)
      /\ Rank(S, q) \in 0..(Cardinality(S) - 1) /\ Cardinality(S) \in Nat
  BY <1>2, Ranks
<1>4. ASSUME Rank(S, a) + 1 < Rank(S, q) PROVE FALSE
  <2>1. Rank(S, a) + 1 \in 0..(Cardinality(S) - 1)
    BY <1>3, <1>4
  <2>2. PICK x \in S : Rank(S, x) = Rank(S, a) + 1
    BY <2>1, Ranks
  <2>3. Rank(S, a) < Rank(S, x) /\ Rank(S, x) < Rank(S, q)
    BY <1>3, <1>4, <2>2
  <2>4. Later(a, x) /\ Later(x, q)
    BY <2>3, Ranks
  <2>5. x # a /\ x # q
    BY <1>3, <2>3
  <2>6. x.at \in Nat /\ x.id \in Nat
    BY DEF ChatRow
  <2>7. x.at = a.at /\ x.at = q.at
    BY <1>1, <2>4, <2>6 DEF Later, Mates
  <2>8. x.role = "question"
    BY <2>5, <2>7 DEF OneTurnAtATime, Mates
  <2>9. x.role = "answer"
    BY <2>5, <2>7 DEF OneTurnAtATime, Mates
  <2> QED BY <2>8, <2>9
<1> QED BY <1>3, <1>4

(* Whole turns are an even number of messages *)
LEMMA PairsAreEven ==
  ASSUME NEW S, S \subseteq ChatRow, IsFiniteSet(S), Paired(S),
         \A m \in S : m.role # "picture"
  PROVE  Even(Cardinality(S))
<1> DEFINE A == {m \in S : m.role = "answer"}
           Q == {m \in S : m.role = "question"}
           f == [a \in A |-> CHOOSE q \in S : Mates(q, a)]
<1>1. IsFiniteSet(A) /\ IsFiniteSet(Q)
  BY FS_Subset
<1>2. \A a \in A : f[a] \in S /\ Mates(f[a], a)
  BY DEF Paired
<1> HIDE DEF f
<1>3. f \in [A -> Q]
  BY <1>2 DEF Mates, f
<1>4. \A a, b \in A : f[a] = f[b] => a = b
  BY <1>2 DEF Paired, OneTurnAtATime, Mates
<1>5. ASSUME NEW q \in Q PROVE \E a \in A : f[a] = q
  <2>1. PICK a \in S : Mates(q, a)
    BY DEF Paired
  <2>2. a \in A
    BY <2>1 DEF Mates
  <2>3. f[a] = q
    BY <1>2, <2>1, <2>2 DEF Paired, OneTurnAtATime, Mates
  <2> QED BY <2>2, <2>3
<1>6. f \in Bijection(A, Q)
  BY <1>3, <1>4, <1>5 DEF Bijection, Injection, Surjection, IsInjective
<1>7. Cardinality(A) = Cardinality(Q)
  BY <1>1, <1>6, FS_Bijection DEF ExistsBijection
<1>8. S = A \cup Q /\ A \cap Q = {}
  BY DEF ChatRow, Roles
<1>9. Cardinality(S) = Cardinality(A) + Cardinality(Q) - Cardinality({})
  BY <1>1, <1>8, FS_Union
<1>10. Cardinality({}) = 0 /\ Cardinality(A) \in Nat
  BY <1>1, FS_EmptySet, FS_CardinalityType
<1> HIDE DEF A, Q
<1>11. Cardinality(S) = 2 * Cardinality(A)
  BY <1>7, <1>9, <1>10
<1> QED BY <1>10, <1>11 DEF Even

(* In a conversation without pictures an even number of messages is later  *)
(* than an answer.                                                         *)
LEMMA AnswersRankEven ==
  ASSUME NEW S, S \subseteq ChatRow, IsFiniteSet(S), Paired(S),
         \A m \in S : m.role # "picture", NEW m \in S, m.role = "answer"
  PROVE  Even(Rank(S, m))
<1> DEFINE L == {x \in S : Later(x, m)}
<1>1. L \subseteq ChatRow /\ IsFiniteSet(L) /\ \A x \in L : x.role # "picture"
  BY FS_Subset
<1>2. \A x \in S : x.id \in Nat /\ x.at \in Nat
  BY DEF ChatRow
<1>3. OwnIds(L) /\ OneTurnAtATime(L)
  BY DEF Paired, OwnIds, OneTurnAtATime
<1>4. ASSUME NEW a \in L, a.role = "answer" PROVE \E q \in L : Mates(q, a)
  <2>1. PICK q \in S : Mates(q, a)
    BY <1>4 DEF Paired
  <2>2. a # m /\ a.at # m.at
    BY <1>2, <1>4 DEF Later, Paired, OneTurnAtATime, Mates
  <2>3. Later(q, m)
    BY <1>2, <2>1, <2>2 DEF Later, Mates
  <2> QED BY <2>1, <2>3
<1>5. ASSUME NEW q \in L, q.role = "question" PROVE \E a \in L : Mates(q, a)
  <2>1. PICK a \in S : Mates(q, a)
    BY <1>5 DEF Paired
  <2>2. q # m
    BY <1>5
  <2>3. q.at # m.at
    <3> SUFFICES ASSUME q.at = m.at PROVE FALSE
      OBVIOUS
    <3>1. Mates(q, m)
      BY <1>5, <2>2 DEF Paired, OneTurnAtATime, Mates
    <3> QED BY <1>2, <3>1 DEF Later, Mates
  <2>4. Later(a, m)
    BY <1>2, <2>1, <2>3 DEF Later, Mates
  <2> QED BY <2>1, <2>4
<1>6. Paired(L)
  BY <1>3, <1>4, <1>5 DEF Paired
<1>7. Even(Cardinality(L))
  BY <1>1, <1>6, PairsAreEven
<1> QED BY <1>7 DEF Rank

(* An answer stands behind its question, unless it is the first            *)
WholeList(told, pictured) ==
  \A i \in DOMAIN told : told[i].role = "answer" =>
    \/ i > 1 /\ told[i - 1].role = "question" /\ told[i - 1].at = told[i].at
    \/ i = 1 /\ pictured

(* What chat_reply is given of a thread of whole turns *)
LEMMA TellsMessages ==
  ASSUME ChatAssumption, thread \subseteq ChatRow, IsFiniteSet(thread), OwnIds(thread), NEW since
  PROVE  /\ Told(Stored(since)) \in Seq({m \in thread : m.at >= since})
         /\ Len(Told(Stored(since))) <= Kept
         /\ LET R == {m \in thread : m.at >= since}
                St == {m \in R : Rank(R, m) < Window /\ Spoken(m)}
            IN  /\ St \subseteq ChatRow /\ IsFiniteSet(St) /\ OwnIds(St)
                /\ \E p : /\ Page(St, Kept, p)
                          /\ Len(Told(Stored(since))) = Len(p)
                          /\ \A i \in 1..Len(p) : Told(Stored(since))[i] = p[Len(p) - i + 1]
<1> DEFINE R == {m \in thread : m.at >= since}
           St == {m \in R : Rank(R, m) < Window /\ Spoken(m)}
           q == Newest(R, Window)
           p == Newest(St, Kept)
<1>1. R \subseteq ChatRow /\ IsFiniteSet(R) /\ OwnIds(R) /\ R \subseteq thread
  BY FS_Subset DEF OwnIds
<1>2. Window \in Nat /\ Kept \in Nat
  BY DEF ChatAssumption
<1> HIDE DEF R
<1>3. Page(R, Window, q)
  BY <1>1, <1>2, NewestIs
<1>4. St \subseteq ChatRow /\ IsFiniteSet(St) /\ OwnIds(St) /\ St \subseteq R
  BY <1>1, FS_Subset DEF OwnIds
<1> HIDE DEF q
<1>5. Len(q) \in Nat /\ Len(q) <= Window /\ DOMAIN q = 1..Len(q)
  BY <1>1, <1>2, <1>3, Ranks DEF Page
<1>6. ToSet(q) = {m \in R : Rank(R, m) < Window}
  <2>1. ASSUME NEW m \in ToSet(q) PROVE m \in R /\ Rank(R, m) < Window
    <3>1. PICK i \in 1..Len(q) : m = q[i]
      BY <1>5 DEF ToSet
    <3>2. m \in R /\ Rank(R, m) = i - 1
      BY <1>3, <3>1 DEF Page
    <3> QED BY <1>2, <1>5, <3>2
  <2>2. ASSUME NEW m \in R, Rank(R, m) < Window PROVE m \in ToSet(q)
    BY <1>3, <1>5, <2>2 DEF Page, ToSet
  <2> QED BY <2>1, <2>2
<1>7. Stored(since) = St
  <2>1. Stored(since) = {m \in ToSet(q) : Spoken(m)}
    BY DEF Stored, q, R
  <2> QED BY <1>6, <2>1
<1>8. Told(Stored(since)) = Reverse(p)
  BY <1>7 DEF Told
<1> HIDE DEF St
<1>9. Page(St, Kept, p)
  BY <1>2, <1>4, NewestIs
<1> HIDE DEF p
<1>10. /\ p \in Seq(St) /\ Len(p) \in Nat /\ Len(p) <= Kept
  BY <1>2, <1>4, <1>9, Ranks DEF Page
<1> DEFINE told == Told(Stored(since))
<1>11. told = [i \in 1..Len(p) |-> p[Len(p) - i + 1]]
  BY <1>8 DEF Reverse
<1> HIDE DEF told
<1>12. Len(told) = Len(p) /\ told \in Seq(R)
  <2>1. ASSUME NEW i \in 1..Len(p) PROVE p[Len(p) - i + 1] \in R
    <3>1. Len(p) - i + 1 \in 1..Len(p)
      BY <1>10
    <3> QED BY <1>4, <1>9, <3>1 DEF Page
  <2> QED BY <1>10, <1>11, <2>1
<1> HIDE DEF told
<1>13. \A i \in 1..Len(p) : told[i] = p[Len(p) - i + 1]
  BY <1>11
<1> QED BY <1>4, <1>9, <1>10, <1>12, <1>13 DEF told, St, R

(* An even limit cuts between turns, unless a picture stands between them. *)
(* It is the last cut that counts: if the window is wider than what is     *)
(* passed on, its own first row is never told.                             *)
LEMMA TellsWholeTurns ==
  ASSUME ChatAssumption, Even(Kept), Even(Window) \/ Kept < Window,
         thread \subseteq ChatRow, IsFiniteSet(thread), Paired(thread), NEW since
  PROVE  WholeList(Told(Stored(since)), \E m \in thread : m.role = "picture")
<1> DEFINE R == {m \in thread : m.at >= since}
           St == {m \in R : Rank(R, m) < Window /\ Spoken(m)}
           told == Told(Stored(since))
           pictured == \E m \in thread : m.role = "picture"
<1>1. /\ R \subseteq ChatRow /\ IsFiniteSet(R) /\ R \subseteq thread
  BY FS_Subset
<1>2. Paired(R)
  <2>1. OwnIds(R) /\ OneTurnAtATime(R)
    BY DEF Paired, OwnIds, OneTurnAtATime
  <2>2. ASSUME NEW a \in R, a.role = "answer" PROVE \E q \in R : Mates(q, a)
    BY <2>2 DEF Paired, Mates
  <2>3. ASSUME NEW q \in R, q.role = "question" PROVE \E a \in R : Mates(q, a)
    BY <2>3 DEF Paired, Mates
  <2> QED BY <2>1, <2>2, <2>3 DEF Paired
<1>3. OwnIds(thread) /\ OwnIds(R) /\ OneTurnAtATime(R)
  BY <1>2 DEF Paired
<1>4. Window \in Nat /\ Kept \in Nat
  BY DEF ChatAssumption
<1>5. /\ told \in Seq(R) /\ St \subseteq ChatRow /\ IsFiniteSet(St) /\ OwnIds(St)
      /\ \E p : Page(St, Kept, p) /\ Len(told) = Len(p)
                /\ \A i \in 1..Len(p) : told[i] = p[Len(p) - i + 1]
  BY <1>3, TellsMessages
<1>6. PICK p : Page(St, Kept, p) /\ Len(told) = Len(p)
               /\ \A i \in 1..Len(p) : told[i] = p[Len(p) - i + 1]
  BY <1>5
<1>7. /\ \A m \in St : m \in R /\ Rank(R, m) < Window /\ Spoken(m)
      /\ \A m \in R : Rank(R, m) < Window /\ Spoken(m) => m \in St
      /\ OneTurnAtATime(St)
  BY <1>3 DEF OneTurnAtATime
<1>8. ~pictured => \A m \in R : m.role # "picture" /\ Spoken(m)
  BY <1>1 DEF Spoken
<1> HIDE DEF R, St, told, pictured
<1>9. ~pictured => \A m \in St : Rank(St, m) = Rank(R, m)
  <2> SUFFICES ASSUME ~pictured, NEW m \in St PROVE Rank(St, m) = Rank(R, m)
    OBVIOUS
  <2>1. \A x \in R : Later(x, m) => Rank(R, x) < Rank(R, m)
    BY <1>1, <1>3, <1>7, Ranks
  <2>2. Rank(R, m) < Window /\ \A x \in R : Rank(R, x) \in Int
    BY <1>1, <1>3, <1>7, Ranks
  <2>3. \A x \in R : Later(x, m) => x \in St
    BY <1>4, <1>7, <1>8, <2>1, <2>2
  <2>4. {x \in St : Later(x, m)} = {x \in R : Later(x, m)}
    BY <1>7, <2>3
  <2> QED BY <2>4 DEF Rank
<1>10. DOMAIN told = 1..Len(p) /\ Len(p) \in Nat /\ Len(p) <= Kept
  BY <1>4, <1>5, <1>6, Ranks DEF Page
<1>11. ASSUME NEW i \in 1..Len(p), told[i].role = "answer"
       PROVE  \/ i > 1 /\ told[i - 1].role = "question" /\ told[i - 1].at = told[i].at
              \/ i = 1 /\ pictured
  <2> DEFINE j == Len(p) - i + 1
             m == told[i]
  <2>1. j \in 1..Len(p) /\ m = p[j] /\ i = Len(p) - j + 1 /\ j \in Nat
    BY <1>6, <1>10
  <2> HIDE DEF j
  <2>2. m \in St /\ Rank(St, m) = j - 1
    BY <1>6, <2>1 DEF Page
  <2>3. m \in R /\ Rank(R, m) < Window /\ Rank(R, m) \in Nat
    BY <1>1, <1>3, <1>7, <2>2, Ranks
  <2>4. PICK q \in R : Mates(q, m)
    BY <1>2, <1>11, <2>3 DEF Paired
  <2>5. Rank(R, q) = Rank(R, m) + 1
    BY <1>1, <1>3, <2>3, <2>4, MateIsNext
  <2>6. ~pictured => Even(Rank(R, m)) /\ Rank(St, m) = Rank(R, m)
    BY <1>1, <1>2, <1>8, <1>9, <1>11, <2>2, <2>3, AnswersRankEven
  <2>7. CASE q \in St
    <3>1. Rank(St, q) = j
      <4>1. Rank(St, q) = Rank(St, m) + 1
        BY <1>5, <1>7, <2>2, <2>4, <2>7, MateIsNext
      <4> QED BY <2>1, <2>2, <4>1
    <3>2. CASE j < Kept
      <4>1. j + 1 \in 1..Len(p) /\ p[j + 1] = q
        BY <1>6, <2>7, <3>1, <3>2 DEF Page
      <4>2. i > 1 /\ i - 1 \in 1..Len(p) /\ Len(p) - (i - 1) + 1 = j + 1
        BY <1>10, <2>1, <4>1
      <4>3. told[i - 1] = q
        BY <1>6, <4>1, <4>2
      <4> QED BY <2>4, <4>2, <4>3 DEF Mates
    <3>3. CASE ~(j < Kept)
      <4>1. j = Kept /\ i = 1
        BY <1>4, <1>10, <2>1, <3>3
      <4>2. ASSUME ~pictured PROVE FALSE
        <5>1. Even(Kept - 1)
          BY <2>2, <2>6, <4>1, <4>2
        <5> QED BY <5>1 DEF Even
      <4> QED BY <4>1, <4>2
    <3> QED BY <3>2, <3>3
  <2>8. CASE q \notin St
    <3>1. Rank(R, m) = Window - 1
      BY <1>4, <1>7, <2>3, <2>4, <2>5, <2>8 DEF Spoken, Mates
    <3>2. pictured
      <4> SUFFICES ASSUME ~pictured PROVE FALSE
        OBVIOUS
      <4>1. Even(Window - 1) /\ Rank(St, m) = Window - 1
        BY <2>6, <3>1
      <4>2. CASE Even(Window)
        BY <4>1, <4>2 DEF Even
      <4>3. CASE Kept < Window
        BY <1>4, <1>10, <2>1, <2>2, <4>1, <4>3
      <4> QED BY <4>2, <4>3
    <3>3. ASSUME i > 1 PROVE FALSE
      <4>1. j + 1 \in 1..Len(p)
        BY <1>10, <2>1, <3>3
      <4>2. p[j + 1] \in St /\ Rank(St, p[j + 1]) = j
        BY <1>6, <2>1, <4>1 DEF Page
      <4>3. Later(m, p[j + 1])
        BY <1>5, <2>1, <2>2, <4>2, Ranks
      <4>4. p[j + 1] \in R /\ Rank(R, p[j + 1]) < Window
        BY <1>7, <4>2
      <4>5. Rank(R, m) < Rank(R, p[j + 1]) /\ Rank(R, p[j + 1]) \in Int
        BY <1>1, <1>3, <2>3, <4>3, <4>4, Ranks
      <4> QED BY <1>4, <3>1, <4>4, <4>5
    <3> QED BY <3>2, <3>3
  <2> QED BY <2>7, <2>8
<1> QED BY <1>10, <1>11 DEF WholeList, told, pictured

-----------------------------------------------------------------------------
(* What a request of the thread knows and holds.                           *)
TalkRow ==
  [pc : {"idle", "arrived", "question", "answer", "picture", "commit"},
   kind : {"none", "turn", "picture", "clear"}, since : Nat, at : Nat,
   context : Seq(ChatRow), rows : SUBSET ChatRow, past : SUBSET Nat]
ReaderRow ==
  [pc : {"closed", "open", "end"}, before : Nat, seen : SUBSET Nat, first : SUBSET Nat,
   cuts : SUBSET Nat]

ChatTyped ==
  /\ marker \in 0..clock /\ clock \in 0..MaxClock /\ lastId \in Nat
  /\ talk \in [Talkers -> TalkRow] /\ reader \in ReaderRow
  /\ IsFiniteSet(thread) /\ thread \subseteq ChatRow /\ Paired(thread)
  /\ \A m \in thread : m.id \in 1..lastId /\ m.at \in 1..clock

Ids == {m.id : m \in thread}
UnderWay(c) == talk[c].pc \in {"question", "answer", "picture", "commit"}
Clearing(c) == talk[c].kind = "clear" /\ talk[c].pc = "commit"

(* A turn has its question and then its answer too                         *)
Speaks(c) ==
  /\ talk[c].pc \in {"idle", "arrived", "question", "picture"} => talk[c].rows = {}
  /\ talk[c].pc = "answer" => \E q \in talk[c].rows : talk[c].rows = {q} /\ q.role = "question"
  /\ talk[c].pc = "commit" => IsFiniteSet(talk[c].rows) /\ Paired(talk[c].rows)
  /\ talk[c].kind = "clear" => talk[c].pc \in {"arrived", "commit"} /\ talk[c].rows = {}

(* It has a moment and ids of its own                                      *)
Writes(c) ==
  /\ UnderWay(c) => talk[c].at \in 1..clock /\ \A m \in thread : m.at # talk[c].at
  /\ \A r \in talk[c].rows : /\ r.at = talk[c].at /\ r.id \in 1..lastId
                             /\ \A m \in thread : m.id # r.id

(* It was told nothing older than the marker it read; what Clear is to     *)
(* hide is older than its moment.                                          *)
Remembers(c) ==
  /\ talk[c].past \subseteq Ids
  /\ Clearing(c) => marker < talk[c].at /\ \A m \in thread : m.id \in talk[c].past => m.at < talk[c].at
  /\ talk[c].kind = "turn" =>
       /\ \A m \in thread : m.id \in talk[c].past => m.at < talk[c].since
       /\ \A i \in DOMAIN talk[c].context :
            talk[c].context[i] \in thread /\ talk[c].context[i].at >= talk[c].since
  /\ Len(talk[c].context) <= Kept

Talks(c) == Speaks(c) /\ Writes(c) /\ Remembers(c)

Distinct(c, d) ==
  /\ UnderWay(c) /\ UnderWay(d) => talk[c].at # talk[d].at
  /\ \A r \in talk[c].rows, s \in talk[d].rows : r.id # s.id
  /\ ~(Clearing(c) /\ Clearing(d))

Forgets ==
  /\ forgotten \subseteq Ids
  /\ \A m \in thread : m.id \in forgotten => m.at < marker

(* A message that was there when the reader came is seen, still to come,   *)
(* or a question cut off from its answer.                                  *)
Scrolls ==
  /\ reader.pc = "closed" => reader = Closed
  /\ reader.first \subseteq Ids
  /\ reader.pc # "closed" =>
       \A m \in thread : m.id \in reader.first \ reader.seen =>
         \/ reader.pc = "open" /\ m.at < reader.before
         \/ m.at \in reader.cuts /\ m.role = "question"

ChatInv ==
  /\ ChatTyped
  /\ \A c \in Talkers : Talks(c)
  /\ \A c, d \in Talkers : c # d => Distinct(c, d)
  /\ Forgets /\ Scrolls

LEMMA SilentTyped ==
  /\ Silent \in TalkRow /\ Closed \in ReaderRow
  /\ Silent.pc = "idle" /\ Silent.kind = "none" /\ Silent.rows = {} /\ Silent.past = {}
  /\ Silent.context = <<>> /\ Len(<<>>) = 0 /\ DOMAIN <<>> = {}
  /\ Closed.pc = "closed" /\ Closed.first = {} /\ Closed.seen = {} /\ Closed.cuts = {}
<1>1. <<>> \in Seq(ChatRow) /\ Len(<<>>) = 0 /\ DOMAIN <<>> = {}
  OBVIOUS
<1> QED BY <1>1 DEF Silent, Closed, TalkRow, ReaderRow

LEMMA InitChatInv == ASSUME ChatAssumption, ChatInit PROVE ChatInv
<1>1. ChatTyped
  <2>1. Paired(thread) /\ IsFiniteSet(thread)
    BY FS_EmptySet DEF ChatInit, Paired, OwnIds, OneTurnAtATime
  <2> QED BY <2>1, SilentTyped DEF ChatAssumption, ChatInit, ChatTyped
<1>2. ASSUME NEW c \in Talkers PROVE Talks(c)
  <2>1. talk[c] = Silent
    BY DEF ChatInit
  <2>2. Kept \in Nat
    BY DEF ChatAssumption
  <2> QED BY <2>1, <2>2, SilentTyped DEF Talks, Speaks, Writes, Remembers, UnderWay, Clearing
<1>3. ASSUME NEW c \in Talkers, NEW d \in Talkers PROVE Distinct(c, d)
  <2>1. talk[c] = Silent /\ talk[d] = Silent
    BY DEF ChatInit
  <2> QED BY <2>1, SilentTyped DEF Distinct, UnderWay, Clearing
<1>4. Forgets /\ Scrolls
  BY SilentTyped DEF ChatInit, Forgets, Scrolls
<1> QED BY <1>1, <1>2, <1>3, <1>4 DEF ChatInv

LEMMA SayIs ==
  ASSUME ChatTyped, NEW c \in Talkers, NEW t, Say(c, t)
  PROVE  /\ talk'[c] = t /\ \A d \in Talkers : d # c => talk'[d] = talk[d]
         /\ t \in TalkRow => talk' \in [Talkers -> TalkRow]
BY DEF Say, ChatTyped

(* Whoever says nothing keeps what he knows while the thread stands still  *)
LEMMA Bystander ==
  ASSUME ChatInv, UNCHANGED <<thread, marker>>, clock' \in clock..MaxClock,
         lastId' \in Nat, lastId <= lastId', NEW d \in Talkers, talk'[d] = talk[d]
  PROVE  Talks(d)'
<1>1. Talks(d) /\ clock \in Nat /\ lastId \in Nat /\ clock' \in Nat
  BY DEF ChatInv, ChatTyped
<1>2. Speaks(d)'
  BY <1>1 DEF Talks, Speaks
<1>3. Writes(d)'
  <2>1. ASSUME UnderWay(d)' PROVE (talk[d].at \in 1..clock /\ \A m \in thread : m.at # talk[d].at)'
    BY <1>1, <2>1 DEF Talks, Writes, UnderWay
  <2>2. ASSUME NEW r \in talk'[d].rows
        PROVE  r.at = talk'[d].at /\ r.id \in 1..lastId' /\ \A m \in thread' : m.id # r.id
    BY <1>1, <2>2 DEF Talks, Writes
  <2> QED BY <2>1, <2>2 DEF Writes
<1>4. Remembers(d)'
  BY <1>1 DEF Talks, Remembers, Ids, Clearing
<1> QED BY <1>2, <1>3, <1>4 DEF Talks

(* A step of one request that commits nothing                              *)
LEMMA OneSays ==
  ASSUME ChatInv, UNCHANGED <<thread, marker, reader, forgotten>>, clock' \in clock..MaxClock,
         lastId' \in Nat, lastId <= lastId', NEW c \in Talkers, NEW t \in TalkRow, Say(c, t),
         Talks(c)', \A d \in Talkers : d # c => (Distinct(c, d))'
  PROVE  ChatInv'
<1>1. /\ talk'[c] = t /\ talk' \in [Talkers -> TalkRow]
      /\ \A d \in Talkers : d # c => talk'[d] = talk[d]
  BY SayIs DEF ChatInv
<1>2. ChatTyped'
  <2>1. /\ marker \in 0..clock /\ clock \in 0..MaxClock /\ lastId \in Nat /\ reader \in ReaderRow
        /\ IsFiniteSet(thread) /\ thread \subseteq ChatRow /\ Paired(thread)
        /\ \A m \in thread : m.id \in 1..lastId /\ m.at \in 1..clock
    BY DEF ChatInv, ChatTyped
  <2>2. marker' \in 0..clock' /\ clock' \in 0..MaxClock
    BY <2>1 DEF ChatInv, ChatTyped
  <2>3. \A m \in thread' : m.id \in 1..lastId' /\ m.at \in 1..clock'
    BY <2>1
  <2>4. Paired(thread)' /\ IsFiniteSet(thread')
    BY <2>1
  <2> QED BY <1>1, <2>1, <2>2, <2>3, <2>4 DEF ChatTyped
<1>3. ASSUME NEW d \in Talkers PROVE Talks(d)'
  BY <1>1, Bystander
<1>4. ASSUME NEW d \in Talkers, NEW e \in Talkers, d # e PROVE (Distinct(d, e))'
  <2>1. CASE d = c
    BY <1>4, <2>1
  <2>2. CASE e = c
    <3>1. (Distinct(e, d))'
      BY <1>4, <2>2
    <3> QED BY <3>1 DEF Distinct
  <2>3. CASE d # c /\ e # c
    <3>1. Distinct(d, e) /\ talk'[d] = talk[d] /\ talk'[e] = talk[e]
      BY <1>1, <1>4, <2>3 DEF ChatInv
    <3> QED BY <3>1 DEF Distinct, UnderWay, Clearing
  <2> QED BY <2>1, <2>2, <2>3
<1>5. Forgets' /\ Scrolls'
  BY DEF ChatInv, Forgets, Scrolls, Ids
<1> QED BY <1>2, <1>3, <1>4, <1>5 DEF ChatInv

(* The request begins: it reads the marker, and what it hides is older     *)
LEMMA ArriveInv ==
  ASSUME ChatAssumption, ChatInv, NEW c \in Talkers, NEW kind \in {"turn", "picture", "clear"},
         Arrive(c, kind)
  PROVE  ChatInv'
<1> DEFINE t == [Silent EXCEPT !.pc = "arrived", !.kind = kind, !.since = marker, !.past = forgotten]
<1>1. /\ UNCHANGED <<thread, marker, clock, lastId, reader, forgotten>> /\ Say(c, t)
  BY DEF Arrive, thread_
<1>2. clock' \in clock..MaxClock /\ lastId' \in Nat /\ lastId <= lastId' /\ marker \in Nat
  BY <1>1 DEF ChatInv, ChatTyped, ChatAssumption
<1>3. Ids \subseteq Nat /\ forgotten \subseteq Nat
  BY DEF ChatInv, ChatTyped, Ids, ChatRow, Forgets
<1>4. /\ t \in TalkRow /\ t.pc = "arrived" /\ t.kind = kind /\ t.since = marker
      /\ t.past = forgotten /\ t.context = <<>> /\ t.rows = {}
  BY <1>2, <1>3, SilentTyped DEF TalkRow, Silent
<1> HIDE DEF t
<1>5. talk'[c] = t
  BY <1>1, SayIs DEF ChatInv
<1>6. Talks(c)'
  <2>1. Speaks(c)' /\ Writes(c)'
    BY <1>4, <1>5 DEF Speaks, Writes, UnderWay
  <2>2. Len(<<>>) <= Kept /\ DOMAIN <<>> = {}
    BY SilentTyped DEF ChatAssumption
  <2>3. Remembers(c)'
    BY <1>1, <1>4, <1>5, <2>2 DEF Remembers, Clearing, ChatInv, Forgets, Ids
  <2> QED BY <2>1, <2>3 DEF Talks
<1>7. ASSUME NEW d \in Talkers PROVE (Distinct(c, d))'
  BY <1>4, <1>5 DEF Distinct, UnderWay, Clearing
<1> QED BY <1>1, <1>2, <1>4, <1>6, <1>7, OneSays

(* A transaction opens: it has a moment nobody else has                    *)
LEMMA Fresh ==
  ASSUME ChatAssumption, ChatInv, Tick
  PROVE  /\ clock' = clock + 1 /\ clock' \in clock..MaxClock /\ clock' \in Nat /\ clock' \in 1..clock'
         /\ \A m \in thread : m.at < clock'
         /\ \A d \in Talkers : UnderWay(d) => talk[d].at < clock'
         /\ marker < clock' /\ marker \in Nat
<1>1. clock \in Nat /\ marker \in 0..clock /\ clock < MaxClock /\ clock' = clock + 1
  BY DEF ChatInv, ChatTyped, Tick, ChatAssumption
<1>2. \A m \in thread : m.at \in 1..clock
  BY DEF ChatInv, ChatTyped
<1>3. \A d \in Talkers : UnderWay(d) => talk[d].at \in 1..clock
  BY DEF ChatInv, Talks, Writes
<1> QED BY <1>1, <1>2, <1>3 DEF ChatAssumption

LEMMA AskModelInv == ASSUME ChatAssumption, ChatInv, NEW c \in Talkers, Ask(c) PROVE ChatInv'
<1> DEFINE told == Told(Stored(talk[c].since))
           t == [talk[c] EXCEPT !.pc = "question", !.at = clock', !.context = told]
<1>1. /\ UNCHANGED <<thread, marker, lastId, reader, forgotten>> /\ Say(c, t) /\ Tick
      /\ talk[c].pc = "arrived" /\ talk[c].kind = "turn"
  BY DEF Ask
<1>2. /\ clock' = clock + 1 /\ clock' \in clock..MaxClock /\ clock' \in Nat /\ clock' \in 1..clock'
      /\ \A m \in thread : m.at < clock'
      /\ \A d \in Talkers : UnderWay(d) => talk[d].at < clock'
  BY <1>1, Fresh
<1>3. lastId' \in Nat /\ lastId <= lastId' /\ \A m \in thread : m.at \in Nat
  BY <1>1 DEF ChatInv, ChatTyped, ChatRow
<1>4. told \in Seq({m \in thread : m.at >= talk[c].since}) /\ Len(told) <= Kept
  BY TellsMessages DEF ChatInv, ChatTyped, Paired
<1> HIDE DEF told
<1>5. /\ \A i \in DOMAIN told : told[i] \in thread /\ told[i].at >= talk[c].since
      /\ told \in Seq(ChatRow)
  <2>1. thread \subseteq ChatRow
    BY DEF ChatInv, ChatTyped
  <2>2. \A i \in 1..Len(told) : told[i] \in {m \in thread : m.at >= talk[c].since}
    BY <1>4
  <2>3. DOMAIN told = 1..Len(told) /\ Len(told) \in Nat /\ told \in [1..Len(told) -> ChatRow]
    BY <1>4, <2>1, <2>2
  <2> QED BY <2>2, <2>3
<1>6. talk[c] \in TalkRow
  BY DEF ChatInv, ChatTyped
<1>7. /\ t \in TalkRow /\ t.pc = "question" /\ t.kind = "turn" /\ t.since = talk[c].since
      /\ t.at = clock' /\ t.past = talk[c].past /\ t.context = told /\ t.rows = talk[c].rows
  BY <1>1, <1>2, <1>5, <1>6 DEF TalkRow
<1> HIDE DEF t
<1>8. talk'[c] = t /\ \A d \in Talkers : d # c => talk'[d] = talk[d]
  BY <1>1, SayIs DEF ChatInv
<1>9. Speaks(c) /\ Writes(c) /\ Remembers(c)
  BY DEF ChatInv, Talks
<1>10. t.rows = {}
  BY <1>1, <1>7, <1>9 DEF Speaks
<1>11. Talks(c)'
  <2>1. Speaks(c)'
    BY <1>7, <1>8, <1>10 DEF Speaks
  <2>2. Writes(c)'
    BY <1>1, <1>2, <1>3, <1>7, <1>8, <1>10 DEF Writes
  <2>3. Remembers(c)'
    BY <1>1, <1>4, <1>5, <1>7, <1>8, <1>9 DEF Remembers, Clearing, Ids
  <2> QED BY <2>1, <2>2, <2>3 DEF Talks
<1>12. ASSUME NEW d \in Talkers, d # c PROVE (Distinct(c, d))'
  <2>1. UnderWay(d) => talk[d].at \in Nat
    BY DEF ChatInv, ChatTyped, TalkRow
  <2> QED BY <1>2, <1>7, <1>8, <1>10, <1>12, <2>1 DEF Distinct, UnderWay, Clearing
<1> QED BY <1>1, <1>2, <1>3, <1>7, <1>11, <1>12, OneSays

LEMMA DrawInv == ASSUME ChatAssumption, ChatInv, NEW c \in Talkers, Draw(c) PROVE ChatInv'
<1> DEFINE t == [talk[c] EXCEPT !.pc = "picture", !.at = clock']
<1>1. /\ UNCHANGED <<thread, marker, lastId, reader, forgotten>> /\ Say(c, t) /\ Tick
      /\ talk[c].pc = "arrived" /\ talk[c].kind = "picture"
  BY DEF Draw
<1>2. /\ clock' = clock + 1 /\ clock' \in clock..MaxClock /\ clock' \in Nat /\ clock' \in 1..clock'
      /\ \A m \in thread : m.at < clock'
      /\ \A d \in Talkers : UnderWay(d) => talk[d].at < clock'
  BY <1>1, Fresh
<1>3. lastId' \in Nat /\ lastId <= lastId' /\ \A m \in thread : m.at \in Nat
  BY <1>1 DEF ChatInv, ChatTyped, ChatRow
<1>4. talk[c] \in TalkRow
  BY DEF ChatInv, ChatTyped
<1>5. /\ t \in TalkRow /\ t.pc = "picture" /\ t.kind = "picture" /\ t.since = talk[c].since
      /\ t.at = clock' /\ t.past = talk[c].past /\ t.context = talk[c].context /\ t.rows = talk[c].rows
  BY <1>1, <1>2, <1>4 DEF TalkRow
<1> HIDE DEF t
<1>6. talk'[c] = t /\ \A d \in Talkers : d # c => talk'[d] = talk[d]
  BY <1>1, SayIs DEF ChatInv
<1>7. Speaks(c) /\ Writes(c) /\ Remembers(c)
  BY DEF ChatInv, Talks
<1>8. t.rows = {}
  BY <1>1, <1>5, <1>7 DEF Speaks
<1>9. Talks(c)'
  <2>1. Speaks(c)'
    BY <1>5, <1>6, <1>8 DEF Speaks
  <2>2. Writes(c)'
    BY <1>1, <1>2, <1>3, <1>5, <1>6, <1>8 DEF Writes
  <2>3. Remembers(c)'
    BY <1>1, <1>5, <1>6, <1>7 DEF Remembers, Clearing, Ids
  <2> QED BY <2>1, <2>2, <2>3 DEF Talks
<1>10. ASSUME NEW d \in Talkers, d # c PROVE (Distinct(c, d))'
  <2>1. UnderWay(d) => talk[d].at \in Nat
    BY DEF ChatInv, ChatTyped, TalkRow
  <2> QED BY <1>2, <1>5, <1>6, <1>8, <1>10, <2>1 DEF Distinct, UnderWay, Clearing
<1> QED BY <1>1, <1>2, <1>3, <1>5, <1>9, <1>10, OneSays

(* Clear: everything in the thread is older than its moment                *)
LEMMA ClearInv == ASSUME ChatAssumption, ChatInv, NEW c \in Talkers, Clear(c) PROVE ChatInv'
<1> DEFINE t == [talk[c] EXCEPT !.pc = "commit", !.at = clock', !.past = {m.id : m \in thread}]
<1>1. /\ UNCHANGED <<thread, marker, lastId, reader, forgotten>> /\ Say(c, t) /\ Tick
      /\ talk[c].pc = "arrived" /\ talk[c].kind = "clear"
      /\ \A d \in Talkers : ~Clearing(d)
  BY DEF Clear, Clearing
<1>2. /\ clock' = clock + 1 /\ clock' \in clock..MaxClock /\ clock' \in Nat /\ clock' \in 1..clock'
      /\ \A m \in thread : m.at < clock'
      /\ \A d \in Talkers : UnderWay(d) => talk[d].at < clock'
      /\ marker < clock'
  BY <1>1, Fresh
<1>3. lastId' \in Nat /\ lastId <= lastId' /\ \A m \in thread : m.at \in Nat /\ m.id \in Nat
  BY <1>1 DEF ChatInv, ChatTyped, ChatRow
<1>4. talk[c] \in TalkRow
  BY DEF ChatInv, ChatTyped
<1>5. /\ t \in TalkRow /\ t.pc = "commit" /\ t.kind = "clear"
      /\ t.at = clock' /\ t.past = Ids /\ t.context = talk[c].context /\ t.rows = talk[c].rows
  BY <1>1, <1>2, <1>3, <1>4 DEF TalkRow, Ids
<1> HIDE DEF t
<1>6. talk'[c] = t /\ \A d \in Talkers : d # c => talk'[d] = talk[d]
  BY <1>1, SayIs DEF ChatInv
<1>7. Speaks(c) /\ Writes(c) /\ Remembers(c)
  BY DEF ChatInv, Talks
<1>8. t.rows = {}
  BY <1>1, <1>5, <1>7 DEF Speaks
<1>9. Talks(c)'
  <2>1. Speaks(c)'
    <3>1. Paired({}) /\ IsFiniteSet({})
      BY FS_EmptySet DEF Paired, OwnIds, OneTurnAtATime
    <3> QED BY <1>5, <1>6, <1>8, <3>1 DEF Speaks
  <2>2. Writes(c)'
    BY <1>1, <1>2, <1>3, <1>5, <1>6, <1>8 DEF Writes
  <2>3. Remembers(c)'
    BY <1>1, <1>2, <1>5, <1>6, <1>7 DEF Remembers, Clearing, Ids
  <2> QED BY <2>1, <2>2, <2>3 DEF Talks
<1>10. ASSUME NEW d \in Talkers, d # c PROVE (Distinct(c, d))'
  <2>1. UnderWay(d) => talk[d].at \in Nat
    BY DEF ChatInv, ChatTyped, TalkRow
  <2>2. ~Clearing(d)'
    BY <1>1, <1>6, <1>10 DEF Clearing
  <2> QED BY <1>2, <1>5, <1>6, <1>8, <1>10, <2>1, <2>2 DEF Distinct, UnderWay
<1> QED BY <1>1, <1>2, <1>3, <1>5, <1>9, <1>10, OneSays

(* INSERT: the next id of the sequence                                     *)
LEMMA AddMessageInv == ASSUME ChatAssumption, ChatInv, NEW c \in Talkers, AddMessage(c) PROVE ChatInv'
<1> DEFINE row == [id |-> lastId + 1, at |-> talk[c].at, role |-> talk[c].pc]
           t == [talk[c] EXCEPT !.rows = @ \cup {row},
                                !.pc = IF talk[c].pc = "question" THEN "answer" ELSE "commit"]
<1>1. /\ UNCHANGED <<thread, marker, clock, reader, forgotten>> /\ Say(c, t)
      /\ talk[c].pc \in {"question", "answer", "picture"} /\ lastId' = lastId + 1
  BY DEF AddMessage
<1>2. clock' \in clock..MaxClock /\ lastId \in Nat /\ lastId' \in Nat /\ lastId < lastId' /\ talk[c] \in TalkRow
  BY <1>1 DEF ChatInv, ChatTyped, ChatAssumption
<1>3. row \in ChatRow /\ row.id = lastId' /\ row.at = talk[c].at /\ row.role = talk[c].pc
  BY <1>1, <1>2 DEF TalkRow, ChatRow, Roles
<1> HIDE DEF row
<1>4. /\ t \in TalkRow /\ t.pc = (IF talk[c].pc = "question" THEN "answer" ELSE "commit")
      /\ t.kind = talk[c].kind /\ t.since = talk[c].since
      /\ t.at = talk[c].at /\ t.past = talk[c].past /\ t.context = talk[c].context
      /\ t.rows = talk[c].rows \cup {row}
  BY <1>2, <1>3 DEF TalkRow
<1> HIDE DEF t
<1>5. talk'[c] = t /\ \A d \in Talkers : d # c => talk'[d] = talk[d]
  BY <1>1, SayIs DEF ChatInv
<1>6. Speaks(c) /\ Writes(c) /\ Remembers(c) /\ t.kind # "clear"
  BY <1>1, <1>4 DEF ChatInv, Talks, Speaks
<1>7. Talks(c)'
  <2>1. Speaks(c)'
    <3>1. CASE talk[c].pc = "question"
      BY <1>3, <1>4, <1>5, <1>6, <3>1 DEF Speaks
    <3>2. CASE talk[c].pc = "picture"
      <4>1. t.rows = {row} /\ row.role = "picture"
        BY <1>3, <1>4, <1>6, <3>2 DEF Speaks
      <4>2. Paired({row})
        BY <4>1 DEF Paired, OwnIds, OneTurnAtATime
      <4>3. IsFiniteSet({row})
        BY FS_Singleton
      <4> QED BY <1>4, <1>5, <1>6, <3>2, <4>1, <4>2, <4>3 DEF Speaks
    <3>3. CASE talk[c].pc = "answer"
      <4>1. PICK q \in talk[c].rows : talk[c].rows = {q} /\ q.role = "question"
        BY <1>6, <3>3 DEF Speaks
      <4>2. q.at = row.at /\ q.id \in 1..lastId
        BY <1>3, <1>6 DEF Writes
      <4>3. Mates(q, row) /\ q.id # row.id /\ row.role = "answer"
        BY <1>2, <1>3, <3>3, <4>1, <4>2 DEF Mates
      <4>4. t.rows = {q, row}
        BY <1>4, <4>1
      <4>5. Paired({q, row})
        BY <4>1, <4>3 DEF Paired, OwnIds, OneTurnAtATime
      <4>6. IsFiniteSet({q, row})
        <5>1. IsFiniteSet({q} \cup {row}) /\ {q, row} = {q} \cup {row}
          BY FS_Singleton, FS_AddElement
        <5> QED BY <5>1
      <4> QED BY <1>4, <1>5, <1>6, <3>3, <4>4, <4>5, <4>6 DEF Speaks
    <3> QED BY <1>1, <3>1, <3>2, <3>3
  <2>2. Writes(c)'
    <3>1. t.at \in 1..clock /\ \A m \in thread : m.at # t.at
      BY <1>1, <1>4, <1>6 DEF Writes, UnderWay
    <3>2. \A m \in thread : m.id \in 1..lastId
      BY DEF ChatInv, ChatTyped
    <3>3. ASSUME NEW r \in t.rows
          PROVE  r.at = t.at /\ r.id \in 1..lastId' /\ \A m \in thread : m.id # r.id
      <4>1. CASE r = row
        BY <1>1, <1>2, <1>3, <1>4, <3>2, <4>1
      <4>2. CASE r \in talk[c].rows
        BY <1>1, <1>2, <1>4, <1>6, <4>2 DEF Writes
      <4> QED BY <1>4, <4>1, <4>2
    <3> QED BY <1>1, <1>5, <3>1, <3>3 DEF Writes
  <2>3. Remembers(c)'
    BY <1>1, <1>4, <1>5, <1>6 DEF Remembers, Clearing, Ids
  <2> QED BY <2>1, <2>2, <2>3 DEF Talks
<1>8. ASSUME NEW d \in Talkers, d # c PROVE (Distinct(c, d))'
  <2>1. Distinct(c, d)
    BY <1>8 DEF ChatInv
  <2>2. \A s \in talk[d].rows : s.id \in 1..lastId
    BY DEF ChatInv, Talks, Writes
  <2>3. UnderWay(c) /\ talk'[d] = talk[d]
    BY <1>1, <1>5, <1>8 DEF UnderWay
  <2>4. ASSUME NEW r \in t.rows, NEW s \in talk[d].rows PROVE r.id # s.id
    <3>1. CASE r = row
      BY <1>2, <1>3, <2>2, <3>1
    <3>2. CASE r \in talk[c].rows
      BY <2>1, <3>2 DEF Distinct
    <3> QED BY <1>4, <3>1, <3>2
  <2>5. UnderWay(d)' => t.at # talk[d].at
    BY <1>4, <2>1, <2>3 DEF Distinct, UnderWay
  <2> QED BY <1>5, <1>6, <2>3, <2>4, <2>5 DEF Distinct, Clearing
<1> QED BY <1>1, <1>2, <1>4, <1>7, <1>8, OneSays

LEMMA AbortTalkInv == ASSUME ChatAssumption, ChatInv, NEW c \in Talkers, AbortTalk(c) PROVE ChatInv'
<1>1. /\ UNCHANGED <<thread, marker, clock, lastId, reader, forgotten>> /\ Say(c, Silent)
  BY DEF AbortTalk, thread_
<1>2. clock' \in clock..MaxClock /\ lastId' \in Nat /\ lastId <= lastId'
  BY <1>1 DEF ChatInv, ChatTyped, ChatAssumption
<1>3. talk'[c] = Silent /\ Kept \in Nat
  BY <1>1, SayIs DEF ChatInv, ChatAssumption
<1>4. Talks(c)'
  BY <1>3, SilentTyped DEF Talks, Speaks, Writes, Remembers, UnderWay, Clearing
<1>5. ASSUME NEW d \in Talkers PROVE (Distinct(c, d))'
  BY <1>3, SilentTyped DEF Distinct, UnderWay, Clearing
<1> QED BY <1>1, <1>2, <1>4, <1>5, SilentTyped, OneSays

(* COMMIT: the rows of one moment appear, or the marker moves              *)
LEMMA CommitTalkInv == ASSUME ChatAssumption, ChatInv, NEW c \in Talkers, CommitTalk(c) PROVE ChatInv'
<1> DEFINE R == talk[c].rows
<1>1. /\ UNCHANGED <<clock, lastId, reader>> /\ Say(c, Silent) /\ talk[c].pc = "commit"
      /\ thread' = thread \cup R /\ marker' = Marked(talk[c])
      /\ forgotten' = IF talk[c].kind = "clear" THEN forgotten \cup talk[c].past ELSE forgotten
  BY DEF CommitTalk
<1>2. /\ talk'[c] = Silent /\ talk' \in [Talkers -> TalkRow] /\ Kept \in Nat
      /\ \A d \in Talkers : d # c => talk'[d] = talk[d]
  BY <1>1, SayIs, SilentTyped DEF ChatInv, ChatAssumption
<1>3. Speaks(c) /\ Writes(c) /\ Remembers(c) /\ talk[c] \in TalkRow
  BY DEF ChatInv, Talks, ChatTyped
<1>4. /\ R \subseteq ChatRow /\ IsFiniteSet(R) /\ Paired(R) /\ talk[c].at \in 1..clock
      /\ \A m \in thread : m.at # talk[c].at
      /\ \A r \in R : r.at = talk[c].at /\ r.id \in 1..lastId /\ \A m \in thread : m.id # r.id
  BY <1>1, <1>3 DEF Speaks, Writes, TalkRow, UnderWay
<1>5. talk[c].kind = "clear" => /\ R = {} /\ marker' = talk[c].at /\ marker < talk[c].at
                                /\ \A m \in thread : m.id \in talk[c].past => m.at < talk[c].at
  BY <1>1, <1>3 DEF Speaks, Remembers, Clearing, Marked
<1>6. talk[c].kind # "clear" => marker' = marker
  BY <1>1 DEF Marked
<1> HIDE DEF R
<1>7. ChatTyped'
  <2>1. /\ marker \in 0..clock /\ clock \in 0..MaxClock /\ lastId \in Nat /\ reader \in ReaderRow
        /\ IsFiniteSet(thread) /\ thread \subseteq ChatRow /\ Paired(thread)
        /\ \A m \in thread : m.id \in 1..lastId /\ m.at \in 1..clock
    BY DEF ChatInv, ChatTyped
  <2>2. marker' \in 0..clock
    BY <1>4, <1>5, <1>6, <2>1
  <2>3. IsFiniteSet(thread \cup R)
    BY <1>4, <2>1, FS_Union
  <2>4. \A a \in thread, b \in R : a.id # b.id /\ a.at # b.at
    BY <1>4
  <2>5. Paired(thread \cup R)
    <3>1. OwnIds(thread \cup R) /\ OneTurnAtATime(thread \cup R)
      BY <1>4, <2>1, <2>4 DEF Paired, OwnIds, OneTurnAtATime
    <3>2. ASSUME NEW a \in thread \cup R, a.role = "answer"
          PROVE  \E q \in thread \cup R : Mates(q, a)
      BY <1>4, <2>1, <3>2 DEF Paired
    <3>3. ASSUME NEW q \in thread \cup R, q.role = "question"
          PROVE  \E a \in thread \cup R : Mates(q, a)
      BY <1>4, <2>1, <3>3 DEF Paired
    <3> QED BY <3>1, <3>2, <3>3 DEF Paired
  <2>6. \A m \in thread \cup R : m.id \in 1..lastId /\ m.at \in 1..clock
    BY <1>4, <2>1
  <2>7. Paired(thread)' /\ IsFiniteSet(thread')
    BY <1>1, <2>3, <2>5
  <2> QED BY <1>1, <1>2, <1>4, <2>1, <2>2, <2>6, <2>7 DEF ChatTyped
<1>8. ASSUME NEW d \in Talkers PROVE Talks(d)'
  <2>1. CASE d = c
    BY <1>2, <2>1, SilentTyped DEF Talks, Speaks, Writes, Remembers, UnderWay, Clearing
  <2>2. CASE d # c
    <3>1. Speaks(d) /\ Writes(d) /\ Remembers(d) /\ Distinct(c, d) /\ talk'[d] = talk[d]
      BY <1>2, <2>2 DEF ChatInv, Talks
    <3>2. Speaks(d)'
      BY <3>1 DEF Speaks
    <3>3. Writes(d)'
      <4>1. UnderWay(d) => talk[d].at # talk[c].at
        BY <1>1, <3>1 DEF Distinct, UnderWay
      <4>2. \A m \in thread' : UnderWay(d) => m.at # talk[d].at
        BY <1>1, <1>4, <3>1, <4>1 DEF Writes
      <4>3. \A r \in talk[d].rows : \A m \in thread' : m.id # r.id
        BY <1>1, <3>1 DEF Writes, Distinct, R
      <4> QED BY <1>1, <3>1, <4>2, <4>3 DEF Writes, UnderWay
    <3>4. Remembers(d)'
      <4>1. talk[d].past \subseteq Ids /\ \A m \in R : m.id \notin Ids
        BY <1>4, <3>1 DEF Remembers, Ids
      <4>2. Ids \subseteq Ids' /\ thread \subseteq thread'
        BY <1>1 DEF Ids
      <4>3. \A m \in thread' : m.id \in talk[d].past => m \in thread
        BY <1>1, <4>1
      <4>4. Clearing(d) => marker' = marker
        BY <1>1, <1>6, <3>1 DEF Distinct, Clearing
      <4>5. talk'[d].past \subseteq Ids'
        BY <3>1, <4>1, <4>2
      <4>6. Clearing(d)' => marker' < talk'[d].at
                             /\ \A m \in thread' : m.id \in talk'[d].past => m.at < talk'[d].at
        BY <3>1, <4>3, <4>4 DEF Remembers, Clearing
      <4>7. talk'[d].kind = "turn" =>
              /\ \A m \in thread' : m.id \in talk'[d].past => m.at < talk'[d].since
              /\ \A i \in DOMAIN talk'[d].context :
                   talk'[d].context[i] \in thread' /\ talk'[d].context[i].at >= talk'[d].since
        BY <3>1, <4>2, <4>3 DEF Remembers
      <4> QED BY <3>1, <4>5, <4>6, <4>7 DEF Remembers
    <3> QED BY <3>2, <3>3, <3>4 DEF Talks
  <2> QED BY <2>1, <2>2
<1>9. ASSUME NEW d \in Talkers, NEW e \in Talkers, d # e PROVE (Distinct(d, e))'
  <2>1. CASE d = c \/ e = c
    BY <1>2, <2>1, SilentTyped DEF Distinct, UnderWay, Clearing
  <2>2. CASE d # c /\ e # c
    <3>1. Distinct(d, e) /\ talk'[d] = talk[d] /\ talk'[e] = talk[e]
      BY <1>2, <1>9, <2>2 DEF ChatInv
    <3> QED BY <3>1 DEF Distinct, UnderWay, Clearing
  <2> QED BY <2>1, <2>2
<1>10. Ids \subseteq Ids' /\ \A m \in R : m.id \notin Ids
  BY <1>1, <1>4 DEF Ids
<1>11. Forgets'
  <2>1. forgotten \subseteq Ids /\ \A m \in thread : m.id \in forgotten => m.at < marker
    BY DEF ChatInv, Forgets
  <2>2. marker \in Nat /\ talk[c].at \in Nat /\ \A m \in thread : m.at \in Nat
    BY <1>4 DEF ChatInv, ChatTyped, ChatRow
  <2>3. CASE talk[c].kind = "clear"
    <3>1. thread' = thread /\ forgotten' = forgotten \cup talk[c].past /\ marker' = talk[c].at
      BY <1>1, <1>5, <2>3
    <3>2. talk[c].past \subseteq Ids
      BY <1>3 DEF Remembers
    <3>3. ASSUME NEW m \in thread, m.id \in forgotten \cup talk[c].past PROVE m.at < talk[c].at
      BY <1>5, <2>1, <2>2, <2>3, <3>3
    <3> QED BY <1>10, <2>1, <3>1, <3>2, <3>3 DEF Forgets
  <2>4. CASE talk[c].kind # "clear"
    BY <1>1, <1>6, <1>10, <2>1, <2>4 DEF Forgets
  <2> QED BY <2>3, <2>4
<1>12. Scrolls'
  <2>1. reader.first \subseteq Ids
    BY DEF ChatInv, Scrolls
  <2>2. \A m \in thread' : m.id \in reader.first => m \in thread
    BY <1>1, <1>10, <2>1
  <2> QED BY <1>1, <1>10, <2>1, <2>2 DEF ChatInv, Scrolls
<1> QED BY <1>7, <1>8, <1>9, <1>11, <1>12 DEF ChatInv

(* A page: what it does not show of the messages before the cursor is      *)
(* older than its last one, or the question that one is the answer to.     *)
LEMMA ReadPageInv == ASSUME ChatAssumption, ChatInv, ReadPage PROVE ChatInv'
<1> DEFINE old == IF reader.pc = "open" THEN reader ELSE Open
           B == {m \in thread : Earlier(m, old.before)}
           page == Newest(B, PageSize)
           cursor == page[Len(page)].at
           shown == {m.id : m \in ToSet(page)}
           seen == old.seen \cup shown
<1>1. /\ reader.pc # "end" /\ UNCHANGED <<thread, marker, clock, lastId, talk, forgotten>>
      /\ reader' = IF Len(page) < PageSize
                   THEN [old EXCEPT !.pc = "end", !.seen = seen]
                   ELSE [old EXCEPT !.seen = seen, !.before = cursor, !.cuts = @ \cup {cursor}]
  BY DEF ReadPage, thread_
<1>2. /\ IsFiniteSet(thread) /\ thread \subseteq ChatRow /\ Paired(thread) /\ PageSize \in Nat \ {0}
      /\ MaxClock \in Nat /\ \A m \in thread : m.at \in 1..MaxClock /\ m.id \in Nat
  BY DEF ChatInv, ChatTyped, ChatRow, ChatAssumption
<1>3. /\ old \in ReaderRow /\ old.pc = "open" /\ old.first \subseteq Ids
      /\ \A m \in thread : m.id \in old.first \ old.seen =>
           m.at < old.before \/ (m.at \in old.cuts /\ m.role = "question")
  <2>1. CASE reader.pc = "open"
    BY <2>1 DEF ChatInv, ChatTyped, Scrolls
  <2>2. CASE reader.pc # "open"
    <3>1. Open \in ReaderRow /\ Open.pc = "open" /\ Open.before = MaxClock + 1 /\ Open.first = Ids
      <4>1. Ids \in SUBSET Nat /\ MaxClock + 1 \in Nat
        BY <1>2 DEF Ids
      <4>2. Closed \in ReaderRow
        BY SilentTyped
      <4>3. Open = [Closed EXCEPT !.pc = "open", !.before = MaxClock + 1, !.first = Ids]
        BY DEF Open, Ids
      <4> HIDE DEF Ids
      <4> QED BY <4>1, <4>2, <4>3 DEF ReaderRow
    <3> QED BY <1>2, <2>2, <3>1
  <2> QED BY <2>1, <2>2
<1> HIDE DEF old
<1>4. B \subseteq thread /\ IsFiniteSet(B) /\ B \subseteq ChatRow /\ OwnIds(B) /\ OneTurnAtATime(B)
  BY <1>2, FS_Subset DEF Paired, OwnIds, OneTurnAtATime
<1>5. \A m \in thread : m \in B <=> m.at < old.before
  BY DEF Earlier
<1> HIDE DEF B
<1>6. Page(B, PageSize, page)
  BY <1>2, <1>4, NewestIs
<1> HIDE DEF page
<1>7. /\ Len(page) \in Nat /\ DOMAIN page = 1..Len(page) /\ Len(page) <= PageSize
      /\ Cardinality(B) \in Nat
      /\ Len(page) < PageSize => Len(page) = Cardinality(B)
      /\ \A i \in 1..Len(page) : page[i] \in B /\ Rank(B, page[i]) = i - 1
  BY <1>2, <1>4, <1>6, Ranks DEF Page
<1>8. /\ seen \subseteq Nat /\ old.seen \subseteq seen
  BY <1>2, <1>3, <1>4, <1>7 DEF ToSet, ReaderRow
<1>9. ASSUME NEW m \in B, Rank(B, m) < PageSize PROVE m.id \in seen
  <2>1. Rank(B, m) + 1 \in DOMAIN page /\ page[Rank(B, m) + 1] = m
    BY <1>6, <1>7, <1>9 DEF Page
  <2>2. m \in ToSet(page)
    BY <2>1 DEF ToSet
  <2> QED BY <2>2
<1> HIDE DEF seen
<1>10. CASE Len(page) < PageSize
  <2>1. /\ reader' \in ReaderRow /\ reader'.pc = "end" /\ reader'.first = old.first
        /\ reader'.seen = seen /\ reader'.cuts = old.cuts
    BY <1>1, <1>3, <1>8, <1>10 DEF ReaderRow
  <2>2. ASSUME NEW m \in thread, m.id \in old.first \ seen
        PROVE  m.at \in old.cuts /\ m.role = "question"
    <3>1. m \notin B
      <4> SUFFICES ASSUME m \in B PROVE FALSE
        OBVIOUS
      <4>1. Rank(B, m) \in 0..(Cardinality(B) - 1)
        BY <1>4, Ranks
      <4> QED BY <1>2, <1>7, <1>9, <1>10, <2>2, <4>1
    <3> QED BY <1>3, <1>5, <1>8, <2>2, <3>1
  <2>3. Scrolls'
    BY <1>1, <1>3, <2>1, <2>2 DEF Scrolls, Ids
  <2> QED BY <1>1, <2>1, <2>3 DEF ChatInv, ChatTyped, Talks, Speaks, Writes, Remembers, Distinct,
         UnderWay, Clearing, Forgets, Ids
<1>11. CASE ~(Len(page) < PageSize)
  <2> DEFINE p == page[Len(page)]
  <2>1. p \in B /\ p \in thread /\ p.at \in Nat /\ Rank(B, p) = PageSize - 1
    BY <1>2, <1>4, <1>7, <1>11
  <2>2. /\ reader' \in ReaderRow /\ reader'.pc = "open" /\ reader'.first = old.first
        /\ reader'.seen = seen /\ reader'.before = p.at /\ reader'.cuts = old.cuts \cup {p.at}
    BY <1>1, <1>3, <1>8, <1>11, <2>1 DEF ReaderRow
  <2> HIDE DEF p
  <2>3. ASSUME NEW m \in thread, m.id \in old.first \ seen
        PROVE  m.at < p.at \/ (m.at \in old.cuts \cup {p.at} /\ m.role = "question")
    <3>1. CASE m \in B
      <4>1. Rank(B, m) \in Nat /\ ~(Rank(B, m) < PageSize)
        BY <1>4, <1>9, <2>3, <3>1, Ranks
      <4>2. Later(p, m) /\ p # m
        <5>1. Rank(B, p) < Rank(B, m)
          BY <1>2, <2>1, <4>1
        <5> QED BY <1>4, <2>1, <3>1, <5>1, Ranks
      <4>3. CASE m.at = p.at
        <5>1. Mates(m, p) \/ Mates(p, m)
          BY <1>4, <2>1, <3>1, <4>2, <4>3 DEF OneTurnAtATime
        <5>2. p.id > m.id /\ p.id \in Nat /\ m.id \in Nat
          BY <1>2, <2>1, <4>2, <4>3 DEF Later
        <5>3. m.role = "question"
          BY <5>1, <5>2 DEF Mates
        <5> QED BY <4>3, <5>3
      <4>4. CASE m.at # p.at
        BY <1>2, <2>1, <4>2, <4>4 DEF Later
      <4> QED BY <4>3, <4>4
    <3>2. CASE m \notin B
      BY <1>3, <1>5, <1>8, <2>3, <3>2
    <3> QED BY <3>1, <3>2
  <2>4. Scrolls'
    BY <1>1, <1>3, <2>2, <2>3 DEF Scrolls, Ids
  <2> QED BY <1>1, <2>2, <2>4 DEF ChatInv, ChatTyped, Talks, Speaks, Writes, Remembers, Distinct,
         UnderWay, Clearing, Forgets, Ids
<1> QED BY <1>10, <1>11

LEMMA NextChatInv == ChatAssumption /\ ChatInv /\ [ChatNext]_chatVars => ChatInv'
<1> SUFFICES ASSUME ChatAssumption, ChatInv, [ChatNext]_chatVars PROVE ChatInv'
  OBVIOUS
<1>1. ASSUME NEW c \in Talkers, NEW kind \in {"turn", "picture", "clear"}, Arrive(c, kind) PROVE ChatInv'
  BY <1>1, ArriveInv
<1>2. ASSUME NEW c \in Talkers, Ask(c) PROVE ChatInv'
  BY <1>2, AskModelInv
<1>3. ASSUME NEW c \in Talkers, Draw(c) PROVE ChatInv'
  BY <1>3, DrawInv
<1>4. ASSUME NEW c \in Talkers, AddMessage(c) PROVE ChatInv'
  BY <1>4, AddMessageInv
<1>5. ASSUME NEW c \in Talkers, Clear(c) PROVE ChatInv'
  BY <1>5, ClearInv
<1>6. ASSUME NEW c \in Talkers, CommitTalk(c) PROVE ChatInv'
  BY <1>6, CommitTalkInv
<1>7. ASSUME NEW c \in Talkers, AbortTalk(c) PROVE ChatInv'
  BY <1>7, AbortTalkInv
<1>8. CASE ReadPage
  BY <1>8, ReadPageInv
<1>9. CASE UNCHANGED chatVars
  BY <1>9 DEF chatVars, thread_, ChatInv, ChatTyped, Talks, Speaks, Writes, Remembers, Distinct,
       UnderWay, Clearing, Forgets, Scrolls, Ids
<1> QED BY <1>1, <1>2, <1>3, <1>4, <1>5, <1>6, <1>7, <1>8, <1>9 DEF ChatNext

(* Nobody is ever told half a turn                                         *)
Wholes == \A c \in Talkers : WholeList(talk[c].context, \E m \in thread : m.role = "picture")

LEMMA NextWholes ==
  ASSUME ChatAssumption, Even(Kept), Even(Window) \/ Kept < Window, ChatInv, Wholes, [ChatNext]_chatVars
  PROVE  Wholes'
<1> DEFINE pictured == \E m \in thread : m.role = "picture"
<1>1. \A told : WholeList(told, pictured) => WholeList(told, TRUE)
  BY DEF WholeList
<1>2. \A c \in Talkers : \A told : WholeList(told, pictured) /\ thread \subseteq thread' => WholeList(told, pictured')
  BY <1>1
<1>3. \A b : WholeList(<<>>, b)
  BY SilentTyped DEF WholeList
<1> HIDE DEF pictured
<1>4. Wholes <=> \A c \in Talkers : WholeList(talk[c].context, pictured)
  BY DEF Wholes, pictured
<1>5. Wholes' <=> \A c \in Talkers : WholeList(talk'[c].context, pictured')
  BY DEF Wholes, pictured
<1>6. ASSUME NEW c \in Talkers, NEW t, Say(c, t), WholeList(t.context, pictured'), thread \subseteq thread'
      PROVE  Wholes'
  <2>1. talk'[c] = t /\ \A d \in Talkers : d # c => talk'[d] = talk[d]
    BY <1>6, SayIs DEF ChatInv
  <2>2. ASSUME NEW d \in Talkers PROVE WholeList(talk'[d].context, pictured')
    BY <1>2, <1>4, <1>6, <2>1
  <2> QED BY <1>5, <2>2
<1>7. ASSUME NEW c \in Talkers, NEW kind \in {"turn", "picture", "clear"}, Arrive(c, kind) PROVE Wholes'
  <2> DEFINE t == [Silent EXCEPT !.pc = "arrived", !.kind = kind, !.since = marker, !.past = forgotten]
  <2>1. Say(c, t) /\ thread' = thread
    BY <1>7 DEF Arrive, thread_
  <2>2. t.context = <<>>
    BY DEF Silent
  <2> HIDE DEF t
  <2> QED BY <1>3, <1>6, <2>1, <2>2
<1>8. ASSUME NEW c \in Talkers, Ask(c) PROVE Wholes'
  <2> DEFINE told == Told(Stored(talk[c].since))
             t == [talk[c] EXCEPT !.pc = "question", !.at = clock', !.context = told]
  <2>1. Say(c, t) /\ thread' = thread
    BY <1>8 DEF Ask
  <2>2. WholeList(told, pictured)
    BY TellsWholeTurns DEF ChatInv, ChatTyped, pictured
  <2>3. pictured' = pictured
    BY <2>1 DEF pictured
  <2> HIDE DEF told
  <2>4. talk[c] \in TalkRow
    BY DEF ChatInv, ChatTyped
  <2>5. t.context = told
    BY <2>4 DEF TalkRow
  <2> HIDE DEF t
  <2> QED BY <1>6, <2>1, <2>2, <2>3, <2>5
<1>9. ASSUME NEW c \in Talkers, Draw(c) \/ AddMessage(c) \/ Clear(c) PROVE Wholes'
  <2>1. talk[c] \in TalkRow /\ thread' = thread /\ WholeList(talk[c].context, pictured)
    BY <1>4, <1>9 DEF ChatInv, ChatTyped, Draw, AddMessage, Clear
  <2>2. \E t : Say(c, t) /\ t.context = talk[c].context
    <3>1. CASE Draw(c)
      <4> DEFINE t == [talk[c] EXCEPT !.pc = "picture", !.at = clock']
      <4>1. Say(c, t) /\ t.context = talk[c].context
        BY <2>1, <3>1 DEF Draw, TalkRow
      <4> QED BY <4>1
    <3>2. CASE AddMessage(c)
      <4> DEFINE row == [id |-> lastId + 1, at |-> talk[c].at, role |-> talk[c].pc]
                 t == [talk[c] EXCEPT !.rows = @ \cup {row},
                                      !.pc = IF talk[c].pc = "question" THEN "answer" ELSE "commit"]
      <4>1. Say(c, t)
        BY <3>2 DEF AddMessage
      <4> HIDE DEF row
      <4>2. t.context = talk[c].context
        BY <2>1 DEF TalkRow
      <4> QED BY <4>1, <4>2
    <3>3. CASE Clear(c)
      <4> DEFINE t == [talk[c] EXCEPT !.pc = "commit", !.at = clock', !.past = {m.id : m \in thread}]
      <4>1. Say(c, t) /\ t.context = talk[c].context
        BY <2>1, <3>3 DEF Clear, TalkRow
      <4> QED BY <4>1
    <3> QED BY <1>9, <3>1, <3>2, <3>3
  <2> QED BY <1>2, <1>6, <2>1, <2>2
<1>10. ASSUME NEW c \in Talkers, CommitTalk(c) \/ AbortTalk(c) PROVE Wholes'
  <2>1. Say(c, Silent) /\ thread \subseteq thread' /\ Silent.context = <<>>
    BY <1>10, SilentTyped DEF CommitTalk, AbortTalk, thread_
  <2> QED BY <1>3, <1>6, <2>1
<1>11. CASE ReadPage \/ UNCHANGED chatVars
  <2>1. talk' = talk /\ thread' = thread
    BY <1>11 DEF ReadPage, chatVars, thread_
  <2> QED BY <2>1 DEF Wholes
<1> QED BY <1>7, <1>8, <1>9, <1>10, <1>11 DEF ChatNext

LEMMA ChatHolds == ASSUME ChatInv PROVE ChatTypeOK /\ ForgetsOnClear /\ ScrolledBack
<1>1. ChatTypeOK
  <2>1. thread \subseteq Message /\ marker \in 0..clock /\ clock \in 0..MaxClock
    BY DEF ChatInv, ChatTyped, ChatRow, Roles, Message
  <2>2. \A a, b \in thread : a.id = b.id => a = b
    BY DEF ChatInv, ChatTyped, Paired, OwnIds
  <2>3. ASSUME NEW c \in Talkers PROVE talk[c].rows \subseteq Message /\ Len(talk[c].context) <= Kept
    <3>1. Talks(c) /\ talk[c] \in TalkRow
      BY DEF ChatInv, ChatTyped
    <3>2. ASSUME NEW r \in talk[c].rows PROVE r \in Message
      <4>1. UnderWay(c)
        BY <3>1, <3>2 DEF Talks, Speaks, UnderWay, TalkRow
      <4>2. r \in ChatRow /\ r.id \in 1..lastId /\ r.at \in 1..clock
        BY <3>1, <3>2, <4>1 DEF Talks, Writes, TalkRow
      <4> QED BY <4>2 DEF ChatRow, Roles, Message
    <3> QED BY <3>1, <3>2 DEF Talks, Remembers
  <2> QED BY <2>1, <2>2, <2>3 DEF ChatTypeOK
<1>2. ForgetsOnClear
  <2> SUFFICES ASSUME NEW c \in Talkers, talk[c].kind = "turn", NEW i \in DOMAIN talk[c].context,
                      talk[c].context[i].id \in talk[c].past
               PROVE  FALSE
    BY DEF ForgetsOnClear
  <2>1. Remembers(c) /\ talk[c] \in TalkRow
    BY DEF ChatInv, ChatTyped, Talks
  <2>2. talk[c].context[i] \in thread /\ talk[c].context[i].at >= talk[c].since
        /\ talk[c].context[i].at < talk[c].since
    BY <2>1 DEF Remembers
  <2>3. talk[c].context[i].at \in Nat /\ talk[c].since \in Nat
    BY <2>1, <2>2 DEF ChatInv, ChatTyped, ChatRow, TalkRow
  <2> QED BY <2>2, <2>3
<1>3. ScrolledBack
  BY DEF ChatInv, Scrolls, ScrolledBack
<1> QED BY <1>1, <1>2, <1>3

(* The steps about pictures leave the thread alone                         *)
LEMMA ThreadStep == [Next]_vars => [ChatNext]_chatVars
<1> SUFFICES ASSUME [Next]_vars PROVE [ChatNext]_chatVars
  OBVIOUS
<1>1. CASE LibraryNext
  <2>1. PICK j \in Jobs :
          \/ \E u \in Owners : Upload(j, u) \/ Store(j, u) \/ Delete(j, u) \/ Share(j, u)
          \/ SignIn(j) \/ PutObject(j) \/ EraseBytes(j) \/ Flush(j) \/ Commit(j) \/ Abort(j)
    BY <1>1 DEF LibraryNext
  <2>2. ASSUME NEW kind, NEW u, NEW t, Request(j, kind, u, t) PROVE UNCHANGED chatVars
    BY <2>2 DEF Request
  <2>3. ASSUME NEW u \in Owners, Upload(j, u) \/ Store(j, u) \/ Delete(j, u) \/ Share(j, u)
        PROVE  UNCHANGED chatVars
    BY <2>2, <2>3 DEF Upload, Store, Delete, Share
  <2>4. CASE SignIn(j)
    BY <2>2, <2>4 DEF SignIn
  <2>5. CASE PutObject(j) \/ EraseBytes(j) \/ Flush(j) \/ Commit(j) \/ Abort(j)
    BY <2>5 DEF PutObject, EraseBytes, Step, Flush, Commit, Abort
  <2> QED BY <2>1, <2>3, <2>4, <2>5
<1>2. CASE ChatNext
  BY <1>2
<1>3. CASE UNCHANGED vars
  BY <1>3 DEF vars
<1> QED BY <1>1, <1>2, <1>3 DEF Next

LEMMA ThreadHolds == Spec => []ChatInv
<1>1. Init => ChatInv
  BY InitChatInv, ChatAssumption DEF Init
<1>2. ChatInv /\ [Next]_vars => ChatInv'
  <2> SUFFICES ASSUME ChatInv, [Next]_vars PROVE ChatInv'
    OBVIOUS
  <2>1. [ChatNext]_chatVars
    BY ThreadStep
  <2> QED BY <2>1, NextChatInv, ChatAssumption
<1> QED BY <1>1, <1>2, PTL DEF Spec

(* ScrolledBack: whoever scrolls to the end has seen what was there when   *)
(* the thread was opened, but for a question a page ends before, whatever  *)
(* is written meanwhile (list_messages, GET /chat/messages).               *)
THEOREM ReadersSeeTheThread == Spec => []ScrolledBack
<1>1. ChatInv => ScrolledBack
  BY ChatHolds
<1> QED BY <1>1, ThreadHolds, PTL

(* ForgetsOnClear, for limits of any size: nothing that was there when     *)
(* Clear was pressed is told to a turn that begins after it answered       *)
(* (clear_context, context_messages).                                      *)
THEOREM ClearForgets == Spec => [](ChatTypeOK /\ ForgetsOnClear)
<1>1. ChatInv => ChatTypeOK /\ ForgetsOnClear
  BY ChatHolds
<1> QED BY <1>1, ThreadHolds, PTL

(* ModelIsTold: if what chat_reply passes on is even, as its 10 is, and    *)
(* the setting chat_context_messages is even or larger, the model is told  *)
(* whole turns, however turns overlap, but for the first answer of a       *)
(* thread with pictures.                                                   *)
THEOREM WholeTurnsAreTold ==
  ASSUME Even(Kept), Even(Window) \/ Kept < Window
  PROVE  Spec => []ModelIsTold
<1>1. Init => Wholes
  BY SilentTyped DEF Init, ChatInit, Wholes, WholeList
<1>2. ChatInv /\ Wholes /\ [Next]_vars => Wholes'
  <2> SUFFICES ASSUME ChatInv, Wholes, [Next]_vars PROVE Wholes'
    OBVIOUS
  <2>1. [ChatNext]_chatVars
    BY ThreadStep
  <2> QED BY <2>1, NextWholes, ChatAssumption
<1>3. ChatInv /\ Wholes => ModelIsTold
  BY ChatHolds DEF Wholes, WholeList, WholeTurns, ModelIsTold
<1> QED BY <1>1, <1>2, <1>3, ThreadHolds, PTL DEF Spec
=============================================================================
