--------------------------- MODULE VideoJobProofs ---------------------------
(***************************************************************************)
(* What is proved of videos: the money of a job is settled, an adapter     *)
(* returns what a provider made, a finished job's link, preview, record    *)
(* and place in the history lead somewhere, and the person's devices are   *)
(* the ones that were asked for.  The first two follow from Inv, a fact    *)
(* about each job and one about each call of an adapter; Whole adds what   *)
(* is known of the files, the history and the list of subscriptions.       *)
(***************************************************************************)
EXTENDS VideoJob, WellFoundedInduction, TLAPS

RequestStates == {"none", "charged", "refused", "saved", "listed", "queued", "committed", "rolledback"}
WorkerStates ==
  {"none", "start", "render", "upload", "bake", "thumb", "doneRead", "doneWrite", "refund",
   "failRead", "failWrite", "notify", "sending", "ended", "dead"}
Records == [status : {"absent", "queued", "done", "failed"},
            url : {"", "raw", "captioned", "remote"}, thumb : BOOLEAN]
Making == {"start", "render", "upload", "bake", "thumb", "doneRead", "doneWrite"}

Typed ==
  /\ request \in [Jobs -> RequestStates] /\ worker \in [Jobs -> WorkerStates]
  /\ record \in [Jobs -> Records] /\ link \in [Jobs -> {"", "raw", "captioned", "remote"}]
  /\ RemoteTypeOK /\ refunded \subseteq Jobs

(* How far the record and the refund of a job may be by where its task is: *)
(* nothing is written before the video is made or given up, the record of  *)
(* a running task exists, a failure is written down after its refund.      *)
Books(j) ==
  /\ request[j] \in {"none", "charged", "refused", "saved", "listed"} => worker[j] = "none"
  /\ request[j] \in {"saved", "listed", "queued", "committed"} => record[j].status # "absent"
  /\ worker[j] # "none" => record[j].status # "absent"
  /\ worker[j] \in Making \cup {"none", "refund"} =>
       record[j].status \in {"absent", "queued"} /\ j \notin refunded
  /\ worker[j] \in {"failRead", "failWrite"} =>
       record[j].status = "queued" /\ (j \notin fault => j \in refunded)
  /\ worker[j] \in {"notify", "sending"} => record[j].status = "done" /\ j \notin refunded
  /\ worker[j] = "ended" =>
       \/ record[j].status = "done" /\ j \notin refunded
       \/ record[j].status = "failed" /\ (j \notin fault => j \in refunded)
  /\ worker[j] = "dead" => j \in fault /\ (record[j].status = "done" => j \notin refunded)
  /\ j \in refunded => request[j] \in {"committed", "rolledback"}
  /\ worker[j] \in {"none", "start"} => client[j] = "idle"

(* Where an adapter stands, where the provider does: what is fetched was   *)
(* ready, the clock starts with the loop, and a video's adapter gives up   *)
(* a task that may still get ready only when the clock has run out.        *)
Adapter(c) ==
  /\ client[c] \in {"fetch", "got", "linked"} => task[c] = "ready"
  /\ client[c] \in {"idle", "create"} => task[c] = "none" /\ left[c] = 0
  /\ client[c] = "poll" => task[c] # "none"
  /\ client[c] = "failed" /\ task[c] \in {"working", "ready"} /\ c \notin KlingCalls => left[c] = 0

Inv == Typed /\ (\A j \in Jobs : Books(j)) /\ \A c \in Clients : Adapter(c)

-----------------------------------------------------------------------------
(* What is known of a job's files, link and asset by where its task is:    *)
(* the link names a file that exists, a captioned file is linked, and      *)
(* only while the caption is laid on, or after a fault, is anything of it  *)
(* at Cloudinary.                                                          *)
Kinds == {"raw", "captioned", "thumb"}
Papers(j) ==
  /\ worker[j] \in {"none", "start", "render"} => link[j] = "" /\ \A k \in Kinds : <<j, k>> \notin files
  /\ worker[j] \in {"upload", "bake"} => link[j] = "raw" /\ <<j, "captioned">> \notin files
  /\ worker[j] \in {"thumb", "doneRead", "doneWrite"} => link[j] # ""
  /\ worker[j] \in {"upload", "bake", "thumb"} => link[j] \in {"raw", "captioned"}
  /\ link[j] \in {"raw", "captioned"} => <<j, link[j]>> \in files
  /\ link[j] = "remote" => client[j] = "linked" /\ <<j, "thumb">> \notin files
  /\ <<j, "captioned">> \in files => link[j] = "captioned"
  /\ record[j].status = "done" =>
       record[j].url = link[j] /\ (record[j].thumb => <<j, "thumb">> \in files)
  /\ record[j].status = "done" => worker[j] \in {"notify", "sending", "ended", "dead"} /\ link[j] # ""
  /\ j \in assets => worker[j] = "bake" \/ j \in fault

Shelf ==
  /\ installed \in BOOLEAN /\ crashed \in BOOLEAN
  /\ caption \subseteq Jobs /\ fault \subseteq Jobs /\ assets \subseteq Jobs
  /\ files \subseteq Jobs \X Kinds
  /\ history \in Seq(Jobs)
  /\ \A i \in DOMAIN history : record[history[i]].status # "absent"
  /\ Len(history) > MaxHistory => \E j \in Jobs : request[j] \in {"listed", "rolledback"}

(* A list of subscriptions as it is and as an operation read it *)
Proper(list) ==
  /\ list \in Seq(Endpoints) /\ Len(list) <= MaxSubs
  /\ \A i, k \in DOMAIN list : list[i] = list[k] => i = k

Operation(x) ==
  /\ push[x].pc \in {"idle", "save", "delete", "send", "call", "drop"}
  /\ Proper(push[x].raw) /\ push[x].stale \in Seq(Endpoints)
  /\ push[x].pc = "save" => push[x].endpoint \in Endpoints
  /\ push[x].pc = "drop" => push[x].stale # <<>>

Devices ==
  /\ stored \in BOOLEAN /\ Proper(subs)
  /\ alive \subseteq Endpoints /\ owed \subseteq Endpoints /\ raced \subseteq Endpoints
  /\ ListIsWhatWasAsked
  /\ DOMAIN push = Operators /\ \A x \in Operators : Operation(x)

-----------------------------------------------------------------------------
(* What Kept computes.  The library's well-foundedness of <, without pairs *)
LEMMA LeastElement ==
  ASSUME NEW S \in SUBSET Nat, S # {}
  PROVE  \E x \in S : \A y \in S : ~(y < x)
<1> DEFINE R == {ss \in Nat \X Nat : ss[1] < ss[2]}
<1>1. R = OpToRel(<, Nat)
  BY DEF OpToRel
<1>2. IsWellFoundedOn(R, Nat)
  BY <1>1, NatLessThanWellFounded, Zenon
<1>3. \A x, y \in S : <<y, x>> \in R <=> y < x
  OBVIOUS
<1> HIDE DEF R
<1>4. PICK x \in S : \A y \in S : ~(<<y, x>> \in R)
  BY <1>2, WFMin
<1> QED BY <1>3, <1>4, Zenon

Keeps(f, s, S, n) ==
  f = [i \in 0..n |-> IF i = 0 THEN <<>>
                      ELSE IF s[i] \in S THEN Append(f[i - 1], s[i]) ELSE f[i - 1]]

(* The function in Kept's definition exists ... *)
LEMMA KeepsExists ==
  ASSUME NEW s, NEW S, NEW m \in Nat
  PROVE  \E f : Keeps(f, s, S, m)
<1> DEFINE Bad == {n \in 0..m : ~\E f : Keeps(f, s, S, n)}
<1>1. SUFFICES ASSUME Bad # {} PROVE FALSE
  OBVIOUS
<1>2. PICK x \in Bad : \A y \in Bad : ~(y < x)
  <2>1. Bad \in SUBSET Nat
    OBVIOUS
  <2> HIDE DEF Bad
  <2> QED BY <1>1, <2>1, LeastElement
<1>3. x \in 0..m /\ ~\E f : Keeps(f, s, S, x)
  OBVIOUS
<1>4. x # 0
  <2> SUFFICES ASSUME x = 0 PROVE FALSE
    OBVIOUS
  <2> DEFINE z == [i \in 0..0 |-> <<>>]
  <2>1. Keeps(z, s, S, 0)
    BY DEF Keeps
  <2> QED BY <1>3, <2>1
<1>5. x - 1 \in 0..m /\ x - 1 < x
  BY <1>3, <1>4
<1>6. PICK f : Keeps(f, s, S, x - 1)
  <2>1. x - 1 \notin Bad
    <3> HIDE DEF Bad
    <3> QED BY <1>2, <1>5
  <2> QED BY <1>5, <2>1
<1> DEFINE last == IF s[x] \in S THEN Append(f[x - 1], s[x]) ELSE f[x - 1]
           g == [i \in 0..x |-> IF i = x THEN last ELSE f[i]]
<1>7. Keeps(g, s, S, x)
  <2>1. \A i \in 0..x : g[i] = IF i = 0 THEN <<>>
                               ELSE IF s[i] \in S THEN Append(g[i - 1], s[i]) ELSE g[i - 1]
    <3> SUFFICES ASSUME NEW i \in 0..x
                 PROVE  g[i] = IF i = 0 THEN <<>>
                               ELSE IF s[i] \in S THEN Append(g[i - 1], s[i]) ELSE g[i - 1]
      OBVIOUS
    <3>1. CASE i = x
      <4>1. g[x] = last /\ g[x - 1] = f[x - 1]
        BY <1>3, <1>4, <1>5
      <4> QED BY <1>4, <3>1, <4>1
    <3>2. CASE i # x
      <4>1. g[i] = f[i] /\ i \in 0..(x - 1)
        BY <1>3, <3>2
      <4>2. i # 0 => g[i - 1] = f[i - 1]
        BY <1>3, <4>1
      <4> HIDE DEF g
      <4> QED BY <1>6, <4>1, <4>2 DEF Keeps
    <3> QED BY <3>1, <3>2
  <2> QED BY <2>1 DEF Keeps
<1> QED BY <1>3, <1>7

(* ... and what it has kept of the first n are those of them that are in   *)
(* S, in their order: at says where each was.                              *)
Selection(at, t, s, S, n) ==
  /\ at \in [1..Len(t) -> 1..n]
  /\ \A i \in 1..Len(t) : at[i] >= i /\ t[i] = s[at[i]] /\ s[at[i]] \in S
  /\ \A i, k \in 1..Len(t) : i < k => at[i] < at[k]
  /\ \A k \in 1..n : s[k] \in S => \E i \in 1..Len(t) : at[i] = k

LEMMA SelectionGrows ==
  ASSUME NEW T, NEW s \in Seq(T), NEW S, NEW n \in 1..Len(s), NEW t \in Seq(T),
         NEW at, Selection(at, t, s, S, n - 1), s[n] \in S
  PROVE  \E now : Selection(now, Append(t, s[n]), s, S, n)
<1> DEFINE u == Append(t, s[n])
           now == [i \in 1..Len(u) |-> IF i = Len(u) THEN n ELSE at[i]]
<1>1. /\ n \in Nat /\ s[n] \in T /\ Len(t) \in Nat /\ Len(u) = Len(t) + 1 /\ u[Len(u)] = s[n]
      /\ \A i \in 1..Len(t) : u[i] = t[i]
  OBVIOUS
<1>2. Len(t) <= n - 1
  <2>1. CASE Len(t) = 0
    BY <1>1, <2>1
  <2>2. CASE Len(t) # 0
    <3>1. Len(t) \in 1..Len(t)
      BY <1>1, <2>2
    <3>2. at[Len(t)] \in 1..(n - 1) /\ at[Len(t)] >= Len(t)
      BY <3>1 DEF Selection
    <3> QED BY <1>1, <3>2
  <2> QED BY <2>1, <2>2
<1> HIDE DEF u
<1>3. \A i \in 1..Len(u) : i # Len(u) => i \in 1..Len(t) /\ at[i] \in 1..(n - 1)
  BY <1>1 DEF Selection
<1>4. now[Len(u)] = n /\ \A i \in 1..Len(t) : now[i] = at[i]
  BY <1>1
<1>5. now \in [1..Len(u) -> 1..n]
  BY <1>1, <1>3
<1> HIDE DEF now
<1>6. ASSUME NEW i \in 1..Len(u) PROVE now[i] >= i /\ u[i] = s[now[i]] /\ s[now[i]] \in S
  <2>1. CASE i = Len(u)
    BY <1>1, <1>2, <1>4, <2>1
  <2>2. CASE i # Len(u)
    BY <1>1, <1>3, <1>4, <2>2 DEF Selection
  <2> QED BY <2>1, <2>2
<1>7. ASSUME NEW i \in 1..Len(u), NEW k \in 1..Len(u), i < k PROVE now[i] < now[k]
  <2>1. i \in 1..Len(t) /\ now[i] = at[i] /\ at[i] \in 1..(n - 1)
    BY <1>1, <1>3, <1>4, <1>7
  <2>2. CASE k = Len(u)
    BY <1>1, <1>4, <2>1, <2>2
  <2>3. CASE k # Len(u)
    BY <1>3, <1>4, <1>7, <2>1, <2>3 DEF Selection
  <2> QED BY <2>2, <2>3
<1>8. ASSUME NEW k \in 1..n, s[k] \in S PROVE \E i \in 1..Len(u) : now[i] = k
  <2>1. CASE k = n
    BY <1>1, <1>4, <2>1
  <2>2. CASE k # n
    <3>1. k \in 1..(n - 1)
      BY <1>1, <2>2
    <3>2. PICK i \in 1..Len(t) : at[i] = k
      BY <1>8, <3>1 DEF Selection
    <3> QED BY <1>1, <1>4, <3>2
  <2> QED BY <2>1, <2>2
<1>9. Selection(now, u, s, S, n)
  BY <1>5, <1>6, <1>7, <1>8 DEF Selection
<1> QED BY <1>9 DEF u

LEMMA KeptIs ==
  ASSUME NEW T, NEW s \in Seq(T), NEW S
  PROVE  /\ Kept(s, S) \in Seq(T)
         /\ \E at : Selection(at, Kept(s, S), s, S, Len(s))
<1> DEFINE m == Len(s)
           K == CHOOSE f : Keeps(f, s, S, m)
<1>1. m \in Nat /\ Kept(s, S) = K[m]
  BY DEF Kept, Keeps
<1> HIDE DEF m
<1>2. Keeps(K, s, S, m)
  <2>1. \E f : Keeps(f, s, S, m)
    BY <1>1, KeepsExists
  <2> HIDE DEF Keeps
  <2> QED BY <2>1, Zenon
<1> HIDE DEF K
<1>3. /\ K[0] = <<>>
      /\ \A i \in 1..m : K[i] = IF s[i] \in S THEN Append(K[i - 1], s[i]) ELSE K[i - 1]
  <2> DEFINE Step(i) == IF i = 0 THEN <<>>
                        ELSE IF s[i] \in S THEN Append(K[i - 1], s[i]) ELSE K[i - 1]
  <2>1. K = [i \in 0..m |-> Step(i)]
    BY <1>2 DEF Keeps
  <2>2. Step(0) = <<>> /\ \A i \in 1..m : Step(i) = IF s[i] \in S THEN Append(K[i - 1], s[i]) ELSE K[i - 1]
    OBVIOUS
  <2>3. 0 \in 0..m /\ \A i \in 1..m : i \in 0..m
    BY <1>1
  <2> HIDE DEF Step
  <2>4. \A i \in 0..m : K[i] = Step(i)
    BY <2>1
  <2> QED BY <2>2, <2>3, <2>4
<1> DEFINE Good(n) == K[n] \in Seq(T) /\ \E at : Selection(at, K[n], s, S, n)
           Bad == {n \in 0..m : ~Good(n)}
<1>4. Bad = {}
  <2> SUFFICES ASSUME Bad # {} PROVE FALSE
    OBVIOUS
  <2>1. PICK x \in Bad : \A y \in Bad : ~(y < x)
    <3>1. Bad \in SUBSET Nat
      BY <1>1
    <3> HIDE DEF Bad
    <3> QED BY <3>1, LeastElement
  <2>2. x \in 0..m /\ ~Good(x)
    OBVIOUS
  <2>3. Good(0)
    <3> DEFINE none == [i \in {} |-> 0]
    <3>1. Selection(none, <<>>, s, S, 0)
      BY DEF Selection
    <3> QED BY <1>3, <3>1
  <2>4. x # 0
    BY <2>2, <2>3
  <2>5. x \in 1..m /\ x - 1 \in 0..m /\ x - 1 < x
    BY <1>1, <2>2, <2>4
  <2>6. Good(x - 1)
    <3>1. x - 1 \notin Bad
      <4> HIDE DEF Bad
      <4> QED BY <2>1, <2>5
    <3> QED BY <2>5, <3>1
  <2>7. PICK at : Selection(at, K[x - 1], s, S, x - 1)
    BY <2>6
  <2>8. K[x - 1] \in Seq(T) /\ x \in 1..Len(s) /\ s[x] \in T
    BY <2>5, <2>6 DEF m
  <2>9. CASE s[x] \in S
    <3>1. K[x] = Append(K[x - 1], s[x])
      BY <1>3, <2>5, <2>9
    <3>2. \E now : Selection(now, Append(K[x - 1], s[x]), s, S, x)
      BY <2>7, <2>8, <2>9, SelectionGrows
    <3>3. Append(K[x - 1], s[x]) \in Seq(T)
      BY <2>8
    <3> QED BY <2>2, <3>1, <3>2, <3>3
  <2>10. CASE s[x] \notin S
    <3>1. K[x] = K[x - 1]
      BY <1>3, <2>5, <2>10
    <3>2. Selection(at, K[x - 1], s, S, x)
      BY <1>1, <2>5, <2>7, <2>8, <2>10 DEF Selection
    <3> QED BY <2>2, <2>8, <3>1, <3>2
  <2> QED BY <2>9, <2>10
<1>5. Good(m)
  BY <1>1, <1>4
<1> QED BY <1>1, <1>5 DEF m

(* What the list of subscriptions needs of it *)
LEMMA KeptList ==
  ASSUME NEW T, NEW s \in Seq(T), NEW S
  PROVE  /\ Kept(s, S) \in Seq(T) /\ Len(Kept(s, S)) <= Len(s)
         /\ ToSet(Kept(s, S)) = ToSet(s) \cap S
         /\ (\A i, k \in DOMAIN s : s[i] = s[k] => i = k) =>
              \A i, k \in DOMAIN Kept(s, S) : Kept(s, S)[i] = Kept(s, S)[k] => i = k
<1> DEFINE t == Kept(s, S)
<1>1. t \in Seq(T) /\ \E at : Selection(at, t, s, S, Len(s))
  BY KeptIs
<1> HIDE DEF t
<1>2. PICK at : Selection(at, t, s, S, Len(s))
  BY <1>1
<1>3. Len(t) \in Nat /\ DOMAIN t = 1..Len(t) /\ Len(s) \in Nat /\ DOMAIN s = 1..Len(s)
  BY <1>1
<1>4. Len(t) <= Len(s)
  <2>1. CASE Len(t) = 0
    BY <1>3, <2>1
  <2>2. CASE Len(t) # 0
    <3>1. Len(t) \in 1..Len(t)
      BY <1>3, <2>2
    <3>2. at[Len(t)] \in 1..Len(s) /\ at[Len(t)] >= Len(t)
      BY <1>2, <3>1 DEF Selection
    <3> QED BY <1>3, <3>2
  <2> QED BY <2>1, <2>2
<1>5. ToSet(t) = ToSet(s) \cap S
  <2>1. ASSUME NEW e \in ToSet(t) PROVE e \in ToSet(s) /\ e \in S
    <3>1. PICK i \in 1..Len(t) : e = t[i]
      BY <1>3 DEF ToSet
    <3>2. at[i] \in 1..Len(s) /\ e = s[at[i]] /\ e \in S
      BY <1>2, <3>1 DEF Selection
    <3> QED BY <1>3, <3>2 DEF ToSet
  <2>2. ASSUME NEW e \in ToSet(s), e \in S PROVE e \in ToSet(t)
    <3>1. PICK k \in 1..Len(s) : e = s[k]
      BY <1>3 DEF ToSet
    <3>2. PICK i \in 1..Len(t) : at[i] = k
      BY <1>2, <2>2, <3>1 DEF Selection
    <3>3. t[i] = e
      BY <1>2, <3>1, <3>2 DEF Selection
    <3> QED BY <1>3, <3>3 DEF ToSet
  <2> QED BY <2>1, <2>2
<1>6. ASSUME \A i, k \in DOMAIN s : s[i] = s[k] => i = k,
             NEW i \in DOMAIN t, NEW k \in DOMAIN t, t[i] = t[k]
      PROVE  i = k
  <2>1. /\ at[i] \in 1..Len(s) /\ at[k] \in 1..Len(s)
        /\ t[i] = s[at[i]] /\ t[k] = s[at[k]]
        /\ i \in 1..Len(t) /\ k \in 1..Len(t)
    BY <1>2, <1>3 DEF Selection
  <2>2. at[i] = at[k]
    BY <1>3, <1>6, <2>1
  <2>3. ~(i < k) /\ ~(k < i)
    BY <1>2, <2>1, <2>2 DEF Selection
  <2> QED BY <2>1, <2>3
<1> QED BY <1>1, <1>4, <1>5, <1>6 DEF t

-----------------------------------------------------------------------------
LEMMA InitInv == Init => Inv
<1> SUFFICES ASSUME Init PROVE Inv
  OBVIOUS
<1>1. Typed
  <2>1. RemoteTypeOK
    <3>1. RemoteInit
      BY DEF Init
    <3>2. 0 \in 0..Polls
      BY RemoteTaskAssumption
    <3> QED BY <3>1, <3>2 DEF RemoteInit, RemoteTypeOK, TaskStates, ClientStates
  <2>2. Absent \in Records
    BY DEF Absent, Records
  <2> QED BY <2>1, <2>2 DEF Init, Typed, RequestStates, WorkerStates
<1>2. ASSUME NEW j \in Jobs PROVE Books(j)
  <2>1. /\ request[j] = "none" /\ worker[j] = "none" /\ client[j] = "idle"
        /\ record[j] = Absent /\ j \notin refunded
    BY VideoJobAssumption DEF Init, RemoteInit
  <2>2. record[j].status = "absent"
    <3>1. Absent.status = "absent"
      BY DEF Absent
    <3> QED BY <2>1, <3>1
  <2> QED BY <2>1, <2>2 DEF Books, Making
<1>3. ASSUME NEW c \in Clients PROVE Adapter(c)
  BY DEF Init, RemoteInit, Adapter
<1> QED BY <1>1, <1>2, <1>3 DEF Inv

(* The steps of a request *)
LEMMA RequestInv == ASSUME Inv, NEW j \in Jobs, Charge(j) \/ RequestStep(j) PROVE Inv'
<1> USE DEF Inv
<1>0. UNCHANGED remoteVars
  BY DEF Charge, RequestStep, SaveRecord, ListRecord, Schedule, Commit, RollBack, Outside
<1>1. Typed'
  <2> USE DEF Typed
  <2>1. RemoteTypeOK'
    BY <1>0 DEF RemoteTypeOK, remoteVars
  <2>2. Queued \in Records
    BY DEF Queued, Records
  <2>3. request' \in [Jobs -> RequestStates]
    BY DEF Charge, RequestStep, SaveRecord, ListRecord, Schedule, Commit, RollBack, Answer, RequestStates
  <2>4. worker' \in [Jobs -> WorkerStates]
    BY DEF Charge, RequestStep, SaveRecord, ListRecord, Schedule, Commit, RollBack, To, WorkerStates
  <2>5. record' \in [Jobs -> Records] /\ link' = link /\ refunded' = refunded
    BY <2>2 DEF Charge, RequestStep, SaveRecord, ListRecord, Schedule, Commit, RollBack
  <2> QED BY <2>1, <2>3, <2>4, <2>5
<1>2. ASSUME NEW i \in Jobs PROVE Books(i)'
  <2> USE DEF Typed
  <2>0. Books(i) /\ client'[i] = client[i]
    BY <1>0 DEF remoteVars
  <2>1. CASE Charge(j)
    BY <2>0, <2>1 DEF Books, Charge, Answer, Making, RequestStates, WorkerStates
  <2>2. CASE SaveRecord(j)
    BY <2>0, <2>2 DEF Books, SaveRecord, Answer, Making, RequestStates, WorkerStates, Queued
  <2>3. CASE ListRecord(j)
    BY <2>0, <2>3 DEF Books, ListRecord, Answer, Making, RequestStates, WorkerStates
  <2>4. CASE Schedule(j)
    BY <2>0, <2>4 DEF Books, Schedule, Answer, To, Making, RequestStates, WorkerStates
  <2>5. CASE Commit(j)
    BY <2>0, <2>5 DEF Books, Commit, Answer, Making, RequestStates, WorkerStates
  <2>6. CASE RollBack(j)
    BY <2>0, <2>6 DEF Books, RollBack, Open, Answer, Making, RequestStates, WorkerStates
  <2> QED BY <2>1, <2>2, <2>3, <2>4, <2>5, <2>6 DEF RequestStep
<1>3. ASSUME NEW c \in Clients PROVE Adapter(c)'
  BY <1>0 DEF Adapter, remoteVars
<1> QED BY <1>1, <1>2, <1>3

(* An adapter advances: the calls of Kling as well as a job's *)
LEMMA AdvanceInv ==
  ASSUME RemoteTypeOK, NEW c \in Clients, Adapter(c), Advance(c) \/ Call(c) \/ Work(c)
  PROVE  /\ RemoteTypeOK' /\ Adapter(c)'
         /\ \A d \in Clients \ {c} : /\ client'[d] = client[d] /\ task'[d] = task[d]
                                     /\ left'[d] = left[d]
<1> USE RemoteTaskAssumption DEF RemoteTypeOK, TaskStates, ClientStates, Move
<1>1. CASE Call(c)
  BY <1>1 DEF Call, Adapter
<1>2. CASE Create(c)
  BY <1>2 DEF Create, Adapter
<1>3. CASE CreateFails(c)
  BY <1>3 DEF CreateFails, Adapter
<1>4. CASE Work(c)
  BY <1>4 DEF Work, Adapter
<1>5. CASE Poll(c)
  BY <1>5 DEF Poll, Elapse, Adapter
<1>6. CASE PollMissed(c)
  BY <1>6 DEF PollMissed, Elapse, Adapter
<1>7. CASE Deadline(c) \/ Fetch(c) \/ FetchFails(c)
  BY <1>7 DEF Deadline, Fetch, FetchFails, Adapter
<1> QED BY <1>1, <1>2, <1>3, <1>4, <1>5, <1>6, <1>7 DEF Advance

(* One call moves and the tables stay as they are *)
LEMMA CallInv ==
  ASSUME Inv, NEW c \in Clients, Advance(c) \/ Call(c) \/ Work(c), UNCHANGED jobVars,
         \A j \in Jobs : worker[j] \in {"none", "start"} => client'[j] = client[j]
  PROVE  Inv'
<1>1. RemoteTypeOK' /\ \A d \in Clients : Adapter(d)'
  <2>1. RemoteTypeOK /\ Adapter(c)
    BY DEF Inv, Typed
  <2>2. /\ RemoteTypeOK' /\ Adapter(c)'
        /\ \A d \in Clients \ {c} : /\ client'[d] = client[d] /\ task'[d] = task[d]
                                    /\ left'[d] = left[d]
    BY <2>1, AdvanceInv
  <2>3. ASSUME NEW d \in Clients \ {c} PROVE Adapter(d)'
    BY <2>2, <2>3 DEF Inv, Adapter
  <2> QED BY <2>2, <2>3
<1>2. Typed'
  BY <1>1 DEF Inv, Typed, jobVars
<1>3. ASSUME NEW j \in Jobs PROVE Books(j)'
  BY DEF Inv, Books, jobVars
<1> QED BY <1>1, <1>2, <1>3 DEF Inv

(* The task of a job takes up its work.  Nobody has called the provider    *)
(* for it before.                                                          *)
LEMMA BeginInv == ASSUME Inv, NEW j \in Jobs, Begin(j) PROVE Inv'
<1> USE VideoJobAssumption DEF Inv
<1>1. Typed'
  BY DEF Begin, Typed, RemoteTypeOK, ClientStates, WorkerStates, To, Worker
<1>2. ASSUME NEW i \in Jobs PROVE Books(i)'
  BY DEF Begin, Books, Making, Typed, RemoteTypeOK, WorkerStates, To, Worker
<1>3. ASSUME NEW c \in Clients PROVE Adapter(c)'
  BY DEF Begin, Books, Adapter, Typed, RemoteTypeOK, ClientStates, Worker
<1> QED BY <1>1, <1>2, <1>3

(* What a step of a task does to its own job is all there is to look at    *)
LEMMA OwnJobOnly ==
  ASSUME Inv, NEW j \in Jobs, UNCHANGED <<remoteVars, request>>,
         worker' \in [Jobs -> WorkerStates], record' \in [Jobs -> Records],
         link' \in [Jobs -> {"", "raw", "captioned", "remote"}], refunded' \subseteq Jobs,
         \A i \in Jobs \ {j} : /\ worker'[i] = worker[i] /\ record'[i] = record[i]
                               /\ i \in refunded' <=> i \in refunded
                               /\ i \in fault' <=> i \in fault,
         Books(j)'
  PROVE  Inv'
<1>1. Typed'
  BY DEF Inv, Typed, RemoteTypeOK, remoteVars
<1>2. ASSUME NEW i \in Jobs \ {j} PROVE Books(i)'
  <2>1. Books(i) /\ UNCHANGED <<client, request>>
    BY DEF Inv, remoteVars
  <2>2. /\ worker'[i] = worker[i] /\ record'[i] = record[i]
        /\ i \in refunded' <=> i \in refunded
        /\ i \in fault' <=> i \in fault
    OBVIOUS
  <2> QED BY <2>1, <2>2 DEF Books
<1>3. ASSUME NEW c \in Clients PROVE Adapter(c)'
  BY DEF Inv, Adapter, remoteVars
<1> QED BY <1>1, <1>2, <1>3 DEF Inv

(* The steps of a task that move neither its adapter nor its request *)
Local(j) ==
  Rendered(j) \/ NotRendered(j) \/ Upload(j) \/ Bake(j) \/ BakeFails(j) \/ Thumbnail(j)
    \/ ReadRecord(j) \/ SaveDone(j) \/ SaveFailed(j) \/ Refund(j) \/ RefundFails(j)
    \/ RedisFails(j) \/ Notify(j) \/ Sending(j) \/ Sent(j)

LEMMA LocalInv == ASSUME Inv, NEW j \in Jobs, Local(j) PROVE Inv'
<1>1. Typed /\ Books(j)
  BY DEF Inv
<1>2. UNCHANGED <<remoteVars, request>>
  BY DEF Local, Rendered, NotRendered, Upload, Bake, BakeFails, Thumbnail, ReadRecord, SaveDone,
     SaveFailed, Refund, RefundFails, RedisFails, Notify, Sending, Sent, Outside, Worker, jobVars
<1>3. /\ worker' \in [Jobs -> WorkerStates]
      /\ \A i \in Jobs \ {j} : worker'[i] = worker[i]
  BY <1>1 DEF Typed, WorkerStates, To, Local, Rendered, NotRendered, Upload, Bake, BakeFails,
     Thumbnail, ReadRecord, SaveDone, SaveFailed, Refund, RefundFails, RedisFails, Notify, Sending,
     Sent, jobVars
<1>4. link' \in [Jobs -> {"", "raw", "captioned", "remote"}] /\ refunded' \subseteq Jobs
  BY <1>1 DEF Typed, Local, Rendered, NotRendered, Upload, Bake, BakeFails,
     Thumbnail, ReadRecord, SaveDone, SaveFailed, Refund, RefundFails, RedisFails, Notify, Sending,
     Sent, jobVars
<1>5. /\ record' \in [Jobs -> Records]
      /\ \A i \in Jobs \ {j} : record'[i] = record[i]
  <2>1. CASE SaveDone(j)
    <3>1. [status |-> "done", url |-> link[j], thumb |-> <<j, "thumb">> \in files] \in Records
      <4>1. link[j] \in {"", "raw", "captioned", "remote"}
        BY <1>1 DEF Typed
      <4>2. (<<j, "thumb">> \in files) \in BOOLEAN
        OBVIOUS
      <4> QED BY <4>1, <4>2, Zenon DEF Records
    <3> QED BY <1>1, <2>1, <3>1 DEF Typed, SaveDone
  <2>2. CASE SaveFailed(j)
    <3>1. [record[j] EXCEPT !.status = "failed"] \in Records
      BY <1>1 DEF Typed, Records
    <3> QED BY <1>1, <2>2, <3>1 DEF Typed, SaveFailed
  <2>3. CASE ~SaveDone(j) /\ ~SaveFailed(j)
    BY <1>1, <2>3 DEF Typed, Local, Rendered, NotRendered, Upload, Bake, BakeFails,
       Thumbnail, ReadRecord, Refund, RefundFails, RedisFails, Notify, Sending, Sent, jobVars
  <2> QED BY <2>1, <2>2, <2>3
<1>6. \A i \in Jobs \ {j} : (i \in refunded' <=> i \in refunded) /\ (i \in fault' <=> i \in fault)
  BY DEF Local, Rendered, NotRendered, Upload, Bake, BakeFails, Thumbnail, ReadRecord, SaveDone,
     SaveFailed, Refund, RefundFails, RedisFails, Notify, Sending, Sent, jobVars
<1>7. Books(j)'
  <2>0. /\ worker[j] \in WorkerStates /\ worker[j] # "none" /\ request'[j] = request[j]
        /\ client'[j] = client[j] /\ worker[j] # "start"
    BY <1>1, <1>2 DEF Typed, remoteVars, Local, Rendered, NotRendered, Upload, Bake, BakeFails,
       Thumbnail, ReadRecord, SaveDone, SaveFailed, Refund, RefundFails, RedisFails, Notify,
       Sending, Sent
  <2>1. CASE Rendered(j) \/ NotRendered(j)
    <3>1. /\ worker[j] = "render" /\ worker'[j] \in {"doneRead", "upload", "thumb", "refund"}
          /\ UNCHANGED <<record, refunded, fault>>
      BY <1>1, <2>1 DEF Typed, Rendered, NotRendered, To
    <3> QED BY <1>1, <2>0, <3>1 DEF Books, Making
  <2>2. CASE Upload(j) \/ Bake(j) \/ BakeFails(j) \/ Thumbnail(j)
    <3>1. /\ worker[j] \in {"upload", "bake", "thumb"} /\ worker'[j] \in {"bake", "thumb", "doneRead"}
          /\ UNCHANGED <<record, refunded>>
      BY <1>1, <2>2 DEF Typed, Upload, Bake, BakeFails, Thumbnail, To
    <3> QED BY <1>1, <2>0, <3>1 DEF Books, Making
  <2>3. CASE ReadRecord(j)
    <3>1. Absent.status = "absent"
      BY DEF Absent
    <3>2. record[j] # Absent
      BY <1>1, <2>0, <3>1 DEF Books
    <3>3. /\ \/ worker[j] = "doneRead" /\ worker'[j] = "doneWrite"
             \/ worker[j] = "failRead" /\ worker'[j] = "failWrite"
          /\ UNCHANGED <<record, refunded, fault>>
      BY <1>1, <2>3, <3>2 DEF Typed, ReadRecord, To
    <3> QED BY <1>1, <2>0, <3>3 DEF Books, Making
  <2>4. CASE SaveDone(j)
    <3>1. /\ worker[j] = "doneWrite" /\ worker'[j] = "notify" /\ record'[j].status = "done"
          /\ UNCHANGED <<refunded, fault>>
      BY <1>1, <2>4 DEF Typed, SaveDone, To
    <3> QED BY <1>1, <2>0, <3>1 DEF Books, Making
  <2>5. CASE SaveFailed(j)
    <3>1. /\ worker[j] = "failWrite" /\ worker'[j] = "ended" /\ record'[j].status = "failed"
          /\ UNCHANGED <<refunded, fault>>
      BY <1>1, <2>5 DEF Typed, Records, SaveFailed, To
    <3> QED BY <1>1, <2>0, <3>1 DEF Books, Making
  <2>6. CASE Refund(j)
    <3>1. /\ worker[j] = "refund" /\ worker'[j] = "failRead" /\ j \in refunded'
          /\ UNCHANGED <<record, fault>>
      BY <1>1, <2>6 DEF Typed, Refund, To
    <3>2. request[j] \in {"committed", "rolledback"}
      BY <1>1, <2>0, <2>6 DEF Typed, Books, Refund, Open, RequestStates
    <3>3. record[j].status = "queued"
      BY <1>1, <3>1 DEF Books, Making
    <3> QED BY <1>1, <2>0, <3>1, <3>2, <3>3 DEF Books, Making
  <2>7. CASE RefundFails(j) \/ RedisFails(j)
    <3>1. /\ \/ worker[j] = "refund" /\ worker'[j] = "failRead"
             \/ /\ worker[j] \in {"doneRead", "doneWrite", "failRead", "failWrite"}
                /\ worker'[j] = "dead"
          /\ j \in fault' /\ UNCHANGED <<record, refunded>>
      BY <1>1, <2>7 DEF Typed, RefundFails, RedisFails, To
    <3> QED BY <1>1, <2>0, <3>1 DEF Books, Making
  <2>8. CASE Notify(j) \/ Sending(j) \/ Sent(j)
    <3>1. /\ worker[j] \in {"notify", "sending"} /\ worker'[j] \in {"sending", "ended"}
          /\ UNCHANGED <<record, refunded, fault>>
      BY <1>1, <2>8 DEF Typed, Notify, Sending, Sent, To, jobVars
    <3> QED BY <1>1, <2>0, <3>1 DEF Books, Making
  <2> QED BY <2>1, <2>2, <2>3, <2>4, <2>5, <2>6, <2>7, <2>8 DEF Local
<1> QED BY <1>2, <1>3, <1>4, <1>5, <1>6, <1>7, OwnJobOnly

(* The process dies: every task that was under way has met a fault *)
LEMMA CrashInv == ASSUME Inv, Crash PROVE Inv'
<1> USE DEF Inv
<1>1. Typed'
  BY DEF Typed, RemoteTypeOK, Crash, remoteVars, RequestStates, WorkerStates
<1>2. ASSUME NEW j \in Jobs PROVE Books(j)'
  <2>1. Books(j) /\ UNCHANGED <<record, refunded, client>>
    BY DEF Crash, remoteVars
  <2>2. /\ worker'[j] = IF j \in Alive THEN "dead" ELSE worker[j]
        /\ request'[j] = IF j \in Open THEN "rolledback" ELSE request[j]
        /\ j \in fault' <=> j \in fault \/ j \in Alive
    BY DEF Crash
  <2>3. /\ j \in Alive <=> worker[j] \notin {"none", "ended", "dead"}
        /\ j \in Open <=> request[j] \in {"charged", "saved", "listed", "queued"}
    BY DEF Alive, Open
  <2>4. CASE j \in Alive
    <3>1. /\ worker[j] # "none" /\ worker'[j] = "dead" /\ j \in fault'
          /\ worker[j] # "ended" /\ worker[j] # "dead"
      BY <2>2, <2>3, <2>4
    <3>2. /\ record[j].status = "done" => j \notin refunded
          /\ record[j].status # "absent"
          /\ j \in refunded => request[j] \in {"committed", "rolledback"}
          /\ request[j] \notin {"none", "charged", "refused", "saved", "listed"}
      BY <2>1, <3>1 DEF Books, Making, Typed, WorkerStates
    <3> QED BY <2>1, <2>2, <2>3, <3>1, <3>2 DEF Books, Making
  <2>5. CASE j \notin Alive
    BY <2>1, <2>2, <2>3, <2>5 DEF Books, Making
  <2> QED BY <2>4, <2>5
<1>3. ASSUME NEW c \in Clients PROVE Adapter(c)'
  BY DEF Adapter, Crash, remoteVars
<1> QED BY <1>1, <1>2, <1>3

LEMMA NextInv == Inv /\ [Next]_vars => Inv'
<1> SUFFICES ASSUME Inv, [Next]_vars PROVE Inv'
  OBVIOUS
<1> USE VideoJobAssumption
<1>1. ASSUME NEW j \in Jobs, Charge(j) \/ RequestStep(j) PROVE Inv'
  BY <1>1, RequestInv
<1>2. ASSUME NEW j \in Jobs, TaskStep(j) PROVE Inv'
  <2>1. CASE Begin(j)
    BY <2>1, BeginInv
  <2>2. CASE Render(j)
    <3>1. j \in Clients /\ Advance(j) /\ UNCHANGED jobVars /\ worker[j] = "render"
      BY <2>2 DEF Render
    <3>2. ASSUME NEW i \in Jobs, worker[i] \in {"none", "start"} PROVE client'[i] = client[i]
      <4>1. i \in Clients \ {j} /\ RemoteTypeOK /\ Adapter(j)
        BY <3>1, <3>2 DEF Inv, Typed
      <4> QED BY <3>1, <4>1, AdvanceInv
    <3> QED BY <3>1, <3>2, CallInv
  <2>3. CASE Local(j)
    BY <2>3, LocalInv
  <2> QED BY <1>2, <2>1, <2>2, <2>3 DEF TaskStep, Local
<1>3. ASSUME NEW k \in KlingCalls, Kling(k) PROVE Inv'
  <2>1. k \in Clients /\ (Call(k) \/ Advance(k)) /\ UNCHANGED jobVars
    BY <1>3 DEF Kling
  <2>2. ASSUME NEW i \in Jobs PROVE client'[i] = client[i]
    <3>1. i \in Clients \ {k} /\ RemoteTypeOK /\ Adapter(k)
      BY <2>1 DEF Inv, Typed
    <3> QED BY <2>1, <3>1, AdvanceInv
  <2> QED BY <2>1, <2>2, CallInv
<1>4. ASSUME NEW c \in Clients, Work(c), UNCHANGED jobVars PROVE Inv'
  BY <1>4, CallInv DEF Work
<1>5. ASSUME UNCHANGED <<remoteVars, jobVars>> PROVE Inv'
  BY <1>5 DEF Inv, Typed, RemoteTypeOK, Books, Adapter, remoteVars, jobVars
<1>6. CASE Crash
  BY <1>6, CrashInv
<1>7. CASE Outdoors
  BY <1>4, <1>5, <1>7 DEF Outdoors
<1>8. CASE UNCHANGED vars
  BY <1>5, <1>8 DEF vars
<1> QED BY <1>1, <1>2, <1>3, <1>5, <1>6, <1>7, <1>8 DEF Next

-----------------------------------------------------------------------------
(* Subscriptions *)
LEMMA WithoutList ==
  ASSUME NEW list, Proper(list), NEW e
  PROVE  Proper(Without(list, e)) /\ ToSet(Without(list, e)) = ToSet(list) \ {e}
<1> DEFINE W == Without(list, e)
<1>1. list \in Seq(Endpoints) /\ Len(list) <= MaxSubs /\ \A i, k \in DOMAIN list : list[i] = list[k] => i = k
  BY DEF Proper
<1>2. /\ W \in Seq(Endpoints) /\ Len(W) <= Len(list)
      /\ ToSet(W) = ToSet(list) \cap (Endpoints \ {e})
      /\ \A i, k \in DOMAIN W : W[i] = W[k] => i = k
  BY <1>1, KeptList DEF Without
<1>3. ToSet(list) \subseteq Endpoints
  BY <1>1 DEF ToSet
<1> HIDE DEF W
<1>4. Proper(W)
  BY <1>1, <1>2, PushAssumption DEF Proper
<1>5. ToSet(W) = ToSet(list) \ {e}
  BY <1>2, <1>3
<1> QED BY <1>4, <1>5 DEF W

LEMMA WithList ==
  ASSUME NEW list, Proper(list), NEW e \in Endpoints
  PROVE  /\ Proper(With(list, e)) /\ e \in ToSet(With(list, e))
         /\ ToSet(With(list, e)) \subseteq ToSet(list) \cup {e}
<1> DEFINE W == Without(list, e)
           all == Append(W, e)
           lo == IF Len(all) > MaxSubs THEN Len(all) - MaxSubs + 1 ELSE 1
<1>3. Proper(W) /\ ToSet(W) = ToSet(list) \ {e}
  BY WithoutList
<1> HIDE DEF W
<1>2. MaxSubs \in Nat \ {0}
  BY PushAssumption
<1>1. /\ W \in Seq(Endpoints) /\ Len(W) <= MaxSubs /\ Len(W) \in Nat /\ DOMAIN W = 1..Len(W)
      /\ \A i, k \in DOMAIN W : W[i] = W[k] => i = k
  BY <1>3 DEF Proper
<1>4. ToSet(W) = ToSet(list) \ {e}
  BY <1>3
<1>5. /\ all \in Seq(Endpoints) /\ Len(all) = Len(W) + 1 /\ all[Len(all)] = e
      /\ \A i \in 1..Len(W) : all[i] = W[i] /\ W[i] \in ToSet(W)
  BY <1>1 DEF ToSet
<1> HIDE DEF all
<1>6. lo \in 1..Len(all) /\ Len(all) - lo + 1 <= MaxSubs /\ Len(all) \in Nat
  BY <1>1, <1>2, <1>5
<1> HIDE DEF lo
<1> DEFINE new == SubSeq(all, lo, Len(all))
<1>7. /\ new \in Seq(Endpoints) /\ Len(new) = Len(all) - lo + 1
      /\ \A i \in 1..Len(new) : new[i] = all[lo + i - 1] /\ lo + i - 1 \in 1..Len(all)
  BY <1>5, <1>6
<1> HIDE DEF new
<1>8. \A i, k \in 1..Len(all) : all[i] = all[k] => i = k
  <2> SUFFICES ASSUME NEW i \in 1..Len(all), NEW k \in 1..Len(all), all[i] = all[k], i < k PROVE FALSE
    BY <1>6
  <2>1. i \in 1..Len(W) /\ all[i] = W[i] /\ W[i] # e
    <3>1. i \in 1..Len(W)
      BY <1>1, <1>5, <1>6
    <3> QED BY <1>4, <1>5, <3>1
  <2>2. CASE k = Len(all)
    BY <1>5, <2>1, <2>2
  <2>3. CASE k # Len(all)
    <3>1. k \in 1..Len(W)
      BY <1>1, <1>5, <1>6, <2>3
    <3>2. all[k] = W[k] /\ k \in DOMAIN W /\ i \in DOMAIN W
      BY <1>1, <1>5, <2>1, <3>1
    <3>3. W[i] = W[k]
      BY <2>1, <3>2
    <3>4. i = k
      BY <1>1, <3>2, <3>3
    <3> QED BY <3>1, <3>4
  <2> QED BY <2>2, <2>3
<1>9. Proper(new)
  <2>1. Len(new) <= MaxSubs
    BY <1>6, <1>7
  <2>2. ASSUME NEW i \in DOMAIN new, NEW k \in DOMAIN new, new[i] = new[k] PROVE i = k
    <3>1. i \in 1..Len(new) /\ k \in 1..Len(new)
      BY <1>7
    <3>2. lo + i - 1 = lo + k - 1
      BY <1>7, <1>8, <2>2, <3>1
    <3> QED BY <1>6, <3>1, <3>2
  <2> QED BY <1>7, <2>1, <2>2 DEF Proper
<1>10. e \in ToSet(new)
  <2>1. Len(new) \in 1..Len(new) /\ lo + Len(new) - 1 = Len(all)
    BY <1>6, <1>7
  <2>2. new[Len(new)] = e
    BY <1>5, <1>7, <2>1
  <2> QED BY <1>7, <2>1, <2>2 DEF ToSet
<1>11. ToSet(new) \subseteq ToSet(list) \cup {e}
  <2> SUFFICES ASSUME NEW x \in ToSet(new) PROVE x \in ToSet(list) \cup {e}
    OBVIOUS
  <2>1. PICK i \in 1..Len(new) : x = new[i]
    BY <1>7 DEF ToSet
  <2>2. PICK k \in 1..Len(all) : x = all[k]
    BY <1>7, <2>1
  <2>3. CASE k = Len(all)
    BY <1>5, <2>2, <2>3
  <2>4. CASE k # Len(all)
    <3>1. k \in 1..Len(W)
      BY <1>1, <1>5, <1>6, <2>4
    <3> QED BY <1>4, <1>5, <2>2, <3>1
  <2> QED BY <2>3, <2>4
<1>12. With(list, e) = new
  BY DEF With, new, all, lo, W
<1> QED BY <1>9, <1>10, <1>11, <1>12

(* One operation reads the list or ends, and the list stays *)
LEMMA OneOperation ==
  ASSUME Devices, NEW x \in Operators, NEW t, Becomes(x, t), UNCHANGED Data, Operation(x)'
  PROVE  Devices'
<1>1. /\ DOMAIN push' = Operators /\ \A y \in Operators \ {x} : push'[y] = push[y]
  BY DEF Devices, Becomes
<1>2. ASSUME NEW y \in Operators PROVE Operation(y)'
  BY <1>1 DEF Devices, Operation
<1> QED BY <1>1, <1>2 DEF Devices, ListIsWhatWasAsked, Data

LEMMA EmptyList == \E empty : /\ empty = <<>> /\ Proper(empty) /\ empty \in Seq(Endpoints)
                              /\ ToSet(empty) = {} /\ Idle.raw = empty /\ Idle.stale = empty
<1> DEFINE empty == <<>>
<1>1. Proper(empty) /\ empty \in Seq(Endpoints) /\ ToSet(empty) = {} /\ Idle.raw = empty /\ Idle.stale = empty
  BY PushAssumption DEF Proper, ToSet, Idle
<1> QED BY <1>1

(* An operation that has only endpoints left to delete *)
LEMMA AfterIs ==
  ASSUME NEW stale \in Seq(Endpoints)
  PROVE  /\ After(stale).pc \in {"idle", "drop"} /\ After(stale).raw = <<>>
         /\ After(stale).stale = stale /\ (After(stale).pc = "drop" => stale # <<>>)
BY DEF After, Idle

(* What is overwritten is marked: the list of everything else stays right *)
LEMMA PushInv ==
  ASSUME Devices, NEW x \in Operators,
         \/ \E e \in Endpoints : Subscribe(x, e) \/ Unsubscribe(x, e)
         \/ ReadList(x) \/ Answered(x) \/ PushStep(x)
  PROVE  Devices'
<1>0. /\ Operation(x) /\ DOMAIN push = Operators /\ Proper(subs)
      /\ \A t : Becomes(x, t) => push'[x] = t
  BY DEF Devices, Becomes
<1>e. PICK empty : /\ empty = <<>> /\ Proper(empty) /\ empty \in Seq(Endpoints)
                   /\ ToSet(empty) = {} /\ Idle.raw = empty /\ Idle.stale = empty
  BY EmptyList
<1>i. Idle.pc = "idle"
  BY DEF Idle
<1>r. ASSUME NEW pc \in {"save", "delete", "send"}, NEW e, NEW stale \in Seq(Endpoints),
             pc = "save" => e \in Endpoints, Read(x, pc, e, stale), UNCHANGED Data
      PROVE  Devices'
  <2> DEFINE t == [pc |-> pc, endpoint |-> e, raw |-> subs, stale |-> stale]
  <2>1. Becomes(x, t)
    BY <1>r DEF Read
  <2>2. Operation(x)'
    BY <1>0, <1>r, <2>1 DEF Operation
  <2> QED BY <1>r, <2>1, <2>2, OneOperation
<1>a. ASSUME NEW stale \in Seq(Endpoints), Becomes(x, After(stale)), UNCHANGED Data PROVE Devices'
  <2>1. Operation(x)'
    BY <1>0, <1>e, <1>a, AfterIs DEF Operation
  <2> QED BY <1>a, <2>1, OneOperation
<1>d. ASSUME NEW e, NEW stale \in Seq(Endpoints), ReadToDelete(x, e, stale) PROVE Devices'
  BY <1>a, <1>d, <1>r DEF ReadToDelete
<1>f. ASSUME Becomes(x, Idle), UNCHANGED Data PROVE Devices'
  <2>1. Operation(x)'
    BY <1>0, <1>e, <1>f, <1>i DEF Operation
  <2> QED BY <1>f, <2>1, OneOperation
<1>1. ASSUME NEW e \in Endpoints, Subscribe(x, e) \/ Unsubscribe(x, e) PROVE Devices'
  <2>1. CASE Subscribe(x, e)
    BY <1>e, <1>r, <2>1 DEF Subscribe
  <2>2. CASE Unsubscribe(x, e)
    BY <1>e, <1>d, <2>2 DEF Unsubscribe
  <2> QED BY <1>1, <2>1, <2>2
<1>2. CASE ReadList(x)
  BY <1>2, <1>e, <1>r DEF ReadList
<1>3. CASE Send(x) \/ Answered(x)
  <2>1. CASE Send(x) /\ push[x].raw = <<>>
    BY <1>f, <2>1 DEF Send
  <2>2. CASE Send(x) /\ push[x].raw # <<>>
    <3> DEFINE t == [push[x] EXCEPT !.pc = "call"]
    <3>1. Becomes(x, t) /\ UNCHANGED Data /\ push[x].pc = "send"
      BY <2>2 DEF Send
    <3>2. t.raw = push[x].raw /\ t.stale = push[x].stale /\ t.pc \in {"call", "send"}
      OBVIOUS
    <3> HIDE DEF t
    <3>3. Operation(x)'
      BY <1>0, <3>1, <3>2 DEF Operation
    <3> QED BY <3>1, <3>3, OneOperation
  <2>3. CASE Answered(x)
    <3>1. PICK gone \in SUBSET (Endpoints \ alive) : Becomes(x, After(Kept(push[x].raw, gone)))
      BY <2>3 DEF Answered
    <3>2. Kept(push[x].raw, gone) \in Seq(Endpoints)
      BY <1>0, KeptList DEF Operation, Proper
    <3> QED BY <1>a, <2>3, <3>1, <3>2 DEF Answered
  <2> QED BY <1>3, <2>1, <2>2, <2>3
<1>4. CASE DropStale(x) \/ PushFails(x)
  <2>1. CASE DropStale(x)
    <3>1. Tail(push[x].stale) \in Seq(Endpoints)
      BY <1>0, <2>1 DEF DropStale, Operation
    <3> QED BY <1>d, <2>1, <3>1 DEF DropStale
  <2>2. CASE PushFails(x)
    BY <1>f, <2>2 DEF PushFails
  <2> QED BY <1>4, <2>1, <2>2
<1>5. ASSUME NEW list, NEW t, Overwrite(x, list), Becomes(x, t), alive' = alive,
             t.pc \in {"idle", "drop"}, t.raw = empty, t.stale \in Seq(Endpoints),
             t.pc = "drop" => t.stale # <<>>,
             Proper(list), owed' \subseteq Endpoints,
             \A e \in Endpoints : e \notin raced' => (e \in ToSet(list) <=> e \in owed')
      PROVE  Devices'
  <2>1. stored' = TRUE /\ subs' = list
        /\ raced' = (raced \cup (ToSet(push[x].raw) \ ToSet(subs)) \cup (ToSet(subs) \ ToSet(push[x].raw)))
                      \ {push[x].endpoint}
    BY <1>5 DEF Overwrite
  <2>2. raced' \subseteq Endpoints
    <3>1. ToSet(push[x].raw) \subseteq Endpoints /\ ToSet(subs) \subseteq Endpoints
      BY <1>0 DEF Operation, Proper, ToSet
    <3> QED BY <2>1, <3>1 DEF Devices
  <2>3. ASSUME NEW y \in Operators PROVE Operation(y)'
    <3>1. CASE y = x
      BY <1>0, <1>e, <1>5, <3>1 DEF Operation
    <3>2. CASE y # x
      BY <1>5, <3>2 DEF Devices, Operation, Becomes
    <3> QED BY <3>1, <3>2
  <2>4. DOMAIN push' = Operators
    BY <1>0, <1>5 DEF Becomes
  <2> QED BY <1>5, <2>1, <2>2, <2>3, <2>4 DEF Devices, ListIsWhatWasAsked
<1>6. CASE Save(x)
  <2> DEFINE list == With(push[x].raw, push[x].endpoint)
  <2>1. /\ Overwrite(x, list) /\ push[x].pc = "save"
        /\ owed' = (owed \ (ToSet(push[x].raw) \ ToSet(list))) \cup {push[x].endpoint}
        /\ Becomes(x, Idle) /\ alive' = alive
    BY <1>6 DEF Save
  <2>2. push[x].endpoint \in Endpoints /\ Proper(push[x].raw)
    BY <1>0, <2>1 DEF Operation
  <2>3. /\ Proper(list) /\ push[x].endpoint \in ToSet(list)
        /\ ToSet(list) \subseteq ToSet(push[x].raw) \cup {push[x].endpoint}
    BY <2>2, WithList
  <2> HIDE DEF list
  <2>4. ASSUME NEW e \in Endpoints, e \notin raced' PROVE e \in ToSet(list) <=> e \in owed'
    <3>1. CASE e = push[x].endpoint
      BY <2>1, <2>3, <3>1
    <3>2. CASE e # push[x].endpoint
      <4>1. e \notin raced /\ (e \in ToSet(push[x].raw) <=> e \in ToSet(subs))
        BY <2>1, <2>4, <3>2 DEF Overwrite
      <4>2. e \in ToSet(subs) <=> e \in owed
        BY <4>1 DEF Devices, ListIsWhatWasAsked
      <4> QED BY <2>1, <2>3, <3>2, <4>1, <4>2
    <3> QED BY <3>1, <3>2
  <2>5. owed' \subseteq Endpoints
    BY <2>1, <2>2 DEF Devices
  <2> QED BY <1>5, <1>e, <1>i, <2>1, <2>3, <2>4, <2>5
<1>7. CASE Delete(x)
  <2> DEFINE list == Without(push[x].raw, push[x].endpoint)
             t == After(push[x].stale)
  <2>1. /\ Overwrite(x, list) /\ owed' = owed \ {push[x].endpoint}
        /\ Becomes(x, t) /\ alive' = alive
    BY <1>7 DEF Delete
  <2>2. Proper(push[x].raw) /\ push[x].stale \in Seq(Endpoints)
    BY <1>0 DEF Operation
  <2>3. Proper(list) /\ ToSet(list) = ToSet(push[x].raw) \ {push[x].endpoint}
    BY <2>2, WithoutList
  <2> HIDE DEF list
  <2>4. ASSUME NEW e \in Endpoints, e \notin raced' PROVE e \in ToSet(list) <=> e \in owed'
    <3>1. CASE e = push[x].endpoint
      BY <2>1, <2>3, <3>1
    <3>2. CASE e # push[x].endpoint
      <4>1. e \notin raced /\ (e \in ToSet(push[x].raw) <=> e \in ToSet(subs))
        BY <2>1, <2>4, <3>2 DEF Overwrite
      <4>2. e \in ToSet(subs) <=> e \in owed
        BY <4>1 DEF Devices, ListIsWhatWasAsked
      <4> QED BY <2>1, <2>3, <3>2, <4>1, <4>2
    <3> QED BY <3>1, <3>2
  <2>5. t.pc \in {"idle", "drop"} /\ t.raw = empty /\ t.stale = push[x].stale /\ (t.pc = "drop" => t.stale # <<>>)
    BY <1>e, <2>2, AfterIs
  <2>6. owed' \subseteq Endpoints
    BY <2>1 DEF Devices
  <2> HIDE DEF t
  <2> QED BY <1>5, <2>1, <2>2, <2>3, <2>4, <2>5, <2>6
<1> QED BY <1>1, <1>2, <1>3, <1>4, <1>6, <1>7 DEF PushStep

LEMMA PushInitInv == PushInit => Devices
<1> SUFFICES ASSUME PushInit PROVE Devices
  OBVIOUS
<1>1. PICK empty : /\ empty = <<>> /\ Proper(empty) /\ empty \in Seq(Endpoints)
                   /\ ToSet(empty) = {} /\ Idle.raw = empty /\ Idle.stale = empty
  BY EmptyList
<1>2. ASSUME NEW x \in Operators PROVE Operation(x)
  <2>1. push[x] = Idle /\ Idle.pc = "idle"
    BY DEF PushInit, Idle
  <2> QED BY <1>1, <2>1 DEF Operation
<1>3. /\ stored = FALSE /\ subs = empty /\ alive = Endpoints /\ owed = {} /\ raced = {}
      /\ DOMAIN push = Operators
  BY <1>1 DEF PushInit
<1> QED BY <1>1, <1>2, <1>3 DEF Devices, ListIsWhatWasAsked

LEMMA PushNextInv == Devices /\ [PushNext]_pushVars => Devices'
<1> SUFFICES ASSUME Devices, [PushNext]_pushVars PROVE Devices'
  OBVIOUS
<1>1. Browsers \subseteq Operators /\ Senders \subseteq Operators
  BY DEF Operators
<1>2. ASSUME NEW e \in Endpoints, Forget(e) PROVE Devices'
  BY <1>2 DEF Forget, Devices, ListIsWhatWasAsked, Operation
<1>3. CASE Die
  <2>1. PICK empty : /\ empty = <<>> /\ Proper(empty) /\ empty \in Seq(Endpoints)
                     /\ ToSet(empty) = {} /\ Idle.raw = empty /\ Idle.stale = empty
    BY EmptyList
  <2>2. ASSUME NEW x \in Operators PROVE Operation(x)'
    <3>1. push'[x] = Idle /\ Idle.pc = "idle"
      BY <1>3 DEF Die, Idle
    <3> QED BY <2>1, <3>1 DEF Operation
  <2>3. DOMAIN push' = Operators /\ UNCHANGED Data
    BY <1>3 DEF Die
  <2> QED BY <2>2, <2>3 DEF Devices, ListIsWhatWasAsked, Data
<1>4. CASE UNCHANGED pushVars
  BY <1>4 DEF Devices, ListIsWhatWasAsked, Operation, pushVars
<1> QED BY <1>1, <1>2, <1>3, <1>4, PushInv DEF PushNext

(* For any number of browsers, notifications and devices and any limit of  *)
(* the list: no device is on it twice, it never outgrows the limit, and    *)
(* only an operation that overwrites what another one changed since it     *)
(* read the list makes it differ from what was asked (push_service).       *)
THEOREM ListIsKept == PushSpec => []DevicesAsAsked
<1>1. Devices => DevicesAsAsked
  BY DEF Devices, Proper, DevicesAsAsked, OneEntryPerDevice
<1> QED BY PushInitInv, PushNextInv, <1>1, PTL DEF PushSpec

-----------------------------------------------------------------------------
(* Everything that is known *)
Whole == Inv /\ (\A j \in Jobs : Papers(j)) /\ Shelf /\ Devices

LEMMA NoList ==
  /\ \A S : <<>> \in Seq(S)
  /\ Len(<<>>) = 0 /\ DOMAIN <<>> = {} /\ ToSet(<<>>) = {}
<1>1. \A S : <<>> \in Seq(S)
  OBVIOUS
<1>2. Len(<<>>) = 0 /\ DOMAIN <<>> = {}
  OBVIOUS
<1> QED BY <1>1, <1>2 DEF ToSet

LEMMA InitWhole == Init => Whole
<1> SUFFICES ASSUME Init PROVE Whole
  OBVIOUS
<1>1. ASSUME NEW j \in Jobs PROVE Papers(j)
  <2>1. /\ worker[j] = "none" /\ link[j] = "" /\ record[j] = Absent /\ files = {} /\ assets = {}
    BY DEF Init
  <2>2. record[j].status = "absent"
    <3>1. Absent.status = "absent"
      BY DEF Absent
    <3> QED BY <2>1, <3>1
  <2> QED BY <2>1, <2>2 DEF Papers
<1>2. Shelf
  <2>1. /\ installed \in BOOLEAN /\ crashed = FALSE /\ history = <<>>
        /\ caption = {} /\ fault = {} /\ assets = {} /\ files = {}
    BY DEF Init
  <2>2. history \in Seq(Jobs) /\ DOMAIN history = {} /\ ~(Len(history) > MaxHistory)
    BY <2>1, NoList, VideoJobAssumption
  <2> QED BY <2>1, <2>2 DEF Shelf
<1>3. Devices
  BY PushInitInv DEF Init
<1> QED BY InitInv, <1>1, <1>2, <1>3 DEF Whole

(* A job nothing happens to keeps its papers *)
LEMMA SamePapers ==
  ASSUME NEW i \in Jobs, Papers(i), worker'[i] = worker[i], link'[i] = link[i],
         record'[i] = record[i], client[i] = "linked" => client'[i] = "linked",
         \A k \in Kinds : <<i, k>> \in files' <=> <<i, k>> \in files,
         i \in assets' <=> i \in assets, i \in fault => i \in fault'
  PROVE  Papers(i)'
<1>1. /\ (<<i, "raw">> \in files' <=> <<i, "raw">> \in files)
      /\ (<<i, "captioned">> \in files' <=> <<i, "captioned">> \in files)
      /\ (<<i, "thumb">> \in files' <=> <<i, "thumb">> \in files)
  BY DEF Kinds
<1>2. link[i] \in {"raw", "captioned"} => (<<i, link'[i]>> \in files' <=> <<i, link[i]>> \in files)
  BY DEF Kinds
<1> QED BY <1>1, <1>2 DEF Papers, Kinds

(* A task's step leaves the shelf in order: it takes no record away *)
LEMMA SameShelf ==
  ASSUME Shelf, UNCHANGED <<installed, crashed, history>>,
         caption' \subseteq Jobs, fault' \subseteq Jobs, assets' \subseteq Jobs,
         files' \subseteq Jobs \X Kinds,
         \A i \in Jobs : record[i].status # "absent" => record'[i].status # "absent",
         \A i \in Jobs : request[i] \in {"listed", "rolledback"} =>
                           request'[i] \in {"listed", "rolledback"}
  PROVE  Shelf'
<1>1. \A i \in DOMAIN history : history[i] \in Jobs
  BY DEF Shelf
<1> QED BY <1>1 DEF Shelf

(* The steps of a request *)
LEMMA RequestPapers ==
  ASSUME Whole, NEW j \in Jobs, Charge(j) \/ RequestStep(j)
  PROVE  (\A i \in Jobs : Papers(i)') /\ Shelf'
<1>0. Typed /\ Books(j) /\ Shelf /\ \A i \in Jobs : Papers(i)
  BY DEF Whole, Inv
<1>1. /\ UNCHANGED <<installed, caption, refunded, files, assets, link, fault, crashed, client>>
      /\ \A i \in Jobs \ {j} : /\ request'[i] = request[i] /\ worker'[i] = worker[i]
                               /\ record'[i] = record[i]
      /\ request \in [Jobs -> RequestStates] /\ worker \in [Jobs -> WorkerStates]
      /\ record \in [Jobs -> Records]
  BY <1>0 DEF Typed, Charge, RequestStep, SaveRecord, ListRecord, Schedule, Commit, RollBack, Answer, To,
     Outside, remoteVars
<1>2. Queued.status = "queued"
  BY DEF Queued
<1>3. ASSUME NEW i \in Jobs PROVE Papers(i)'
  <2>1. CASE i # j
    BY <1>0, <1>1, <2>1, SamePapers
  <2>2. CASE i = j /\ SaveRecord(j)
    <3>1. record'[j].status = "queued" /\ worker'[j] = worker[j]
      BY <1>1, <1>2, <2>2 DEF SaveRecord
    <3> QED BY <1>0, <1>1, <2>2, <3>1 DEF Papers
  <2>3. CASE i = j /\ Schedule(j)
    <3>1. record'[j] = record[j] /\ worker'[j] = "start" /\ worker[j] = "none"
      BY <1>0, <1>1, <2>3 DEF Schedule, To, Books
    <3> QED BY <1>0, <1>1, <2>3, <3>1 DEF Papers
  <2>4. CASE i = j /\ ~SaveRecord(j) /\ ~Schedule(j)
    <3>1. record'[j] = record[j] /\ worker'[j] = worker[j]
      BY <2>4 DEF Charge, RequestStep, ListRecord, Commit, RollBack
    <3> QED BY <1>0, <1>1, <2>4, <3>1, SamePapers
  <2> QED BY <2>1, <2>2, <2>3, <2>4
<1>4. Shelf'
  <2>1. ASSUME ~ListRecord(j), ~Schedule(j) PROVE Shelf'
    <3>1. history' = history
      BY <2>1 DEF Charge, RequestStep, SaveRecord, Commit, RollBack
    <3>2. ASSUME NEW i \in Jobs, record[i].status # "absent" PROVE record'[i].status # "absent"
      BY <1>1, <1>2, <2>1, <3>2 DEF Charge, RequestStep, SaveRecord, Commit, RollBack
    <3>3. ASSUME NEW i \in Jobs, request[i] \in {"listed", "rolledback"}
          PROVE  request'[i] \in {"listed", "rolledback"}
      BY <1>1, <2>1, <3>3 DEF Charge, RequestStep, SaveRecord, Commit, RollBack, Answer
    <3>4. caption' \subseteq Jobs /\ fault' \subseteq Jobs /\ assets' \subseteq Jobs /\ files' \subseteq Jobs \X Kinds
      BY <1>0, <1>1 DEF Shelf
    <3> QED BY <1>0, <1>1, <3>1, <3>2, <3>3, <3>4, SameShelf
  <2>2. ASSUME ListRecord(j) PROVE Shelf'
    <3>1. history' = <<j>> \o history /\ request'[j] = "listed" /\ record' = record /\ record[j].status # "absent"
      BY <1>0, <1>1, <2>2 DEF ListRecord, Answer, Books
    <3>2. history \in Seq(Jobs)
      BY <1>0 DEF Shelf
    <3>3. /\ history' \in Seq(Jobs) /\ Len(history') = Len(history) + 1 /\ history'[1] = j
          /\ \A i \in 1..Len(history) : history'[i + 1] = history[i]
      BY <3>1, <3>2
    <3>4. ASSUME NEW i \in DOMAIN history' PROVE record[history'[i]].status # "absent"
      <4>1. CASE i = 1
        BY <3>1, <3>3, <4>1
      <4>2. CASE i # 1
        <5>1. i - 1 \in 1..Len(history) /\ (i - 1) + 1 = i
          BY <3>2, <3>3, <4>2
        <5>2. i - 1 \in DOMAIN history /\ history'[i] = history[i - 1]
          BY <3>2, <3>3, <5>1
        <5> QED BY <1>0, <5>2 DEF Shelf
      <4> QED BY <4>1, <4>2
    <3> QED BY <1>0, <1>1, <3>1, <3>3, <3>4 DEF Shelf
  <2>3. ASSUME Schedule(j) PROVE Shelf'
    <3> DEFINE n == IF Len(history) > MaxHistory THEN MaxHistory ELSE Len(history)
    <3>1. history' = SubSeq(history, 1, n) /\ record' = record
      BY <2>3 DEF Schedule
    <3>2. history \in Seq(Jobs) /\ Len(history) \in Nat
      BY <1>0 DEF Shelf
    <3>3. n \in 0..Len(history) /\ n <= MaxHistory
      BY <3>2, VideoJobAssumption
    <3> HIDE DEF n
    <3>4. /\ history' \in Seq(Jobs) /\ Len(history') = n /\ DOMAIN history' = 1..n
          /\ \A i \in 1..n : history'[i] = history[i] /\ i \in DOMAIN history
      BY <3>1, <3>2, <3>3
    <3>5. ~(Len(history') > MaxHistory)
      BY <3>3, <3>4, VideoJobAssumption
    <3> QED BY <1>0, <1>1, <3>1, <3>4, <3>5 DEF Shelf
  <2> QED BY <2>1, <2>2, <2>3
<1> QED BY <1>3, <1>4

(* A call of an adapter moves: nothing of a job depends on it while it is  *)
(* made, and a job whose video is made has no call any more.               *)
LEMMA CallPapers ==
  ASSUME Whole, NEW c \in Clients, Advance(c) \/ Call(c) \/ Work(c), UNCHANGED jobVars,
         client[c] = "linked" => client'[c] = "linked"
  PROVE  (\A i \in Jobs : Papers(i)') /\ Shelf'
<1>1. Shelf /\ (\A i \in Jobs : Papers(i)) /\ RemoteTypeOK /\ Adapter(c)
  BY DEF Whole, Inv, Typed
<1>2. \A d \in Clients \ {c} : client'[d] = client[d]
  BY <1>1, AdvanceInv
<1>3. ASSUME NEW i \in Jobs PROVE Papers(i)'
  <2>1. client[i] = "linked" => client'[i] = "linked"
    BY <1>2, VideoJobAssumption
  <2> QED BY <1>1, <2>1, SamePapers DEF jobVars
<1>4. Shelf'
  BY <1>1 DEF Shelf, jobVars
<1> QED BY <1>3, <1>4

LEMMA AdvanceKeepsLink ==
  ASSUME NEW c, Advance(c) \/ Call(c) \/ Work(c) PROVE client[c] = "linked" => client'[c] = "linked"
<1> SUFFICES ASSUME client[c] = "linked" PROVE client'[c] = "linked"
  OBVIOUS
<1> QED BY DEF Advance, Call, Work, Create, CreateFails, Poll, PollMissed, Deadline, Fetch, FetchFails

(* The task of a job takes up its work *)
LEMMA BeginPapers ==
  ASSUME Whole, NEW j \in Jobs, Begin(j)
  PROVE  (\A i \in Jobs : Papers(i)') /\ Shelf'
<1>0. Typed /\ Books(j) /\ Shelf /\ \A i \in Jobs : Papers(i)
  BY DEF Whole, Inv
<1>1. /\ UNCHANGED <<installed, request, history, crashed, record, files, assets, link>>
      /\ worker[j] = "start" /\ worker'[j] \in {"render", "dead"}
      /\ \A i \in Jobs \ {j} : worker'[i] = worker[i] /\ client'[i] = client[i]
      /\ client[j] = "idle" /\ fault \subseteq fault' /\ fault' \subseteq fault \cup {j}
      /\ caption' \subseteq caption \cup {j}
  BY <1>0, VideoJobAssumption DEF Typed, RemoteTypeOK, Begin, Books, Worker, To
<1>2. ASSUME NEW i \in Jobs PROVE Papers(i)'
  <2>1. CASE i # j
    BY <1>0, <1>1, <2>1, SamePapers
  <2>2. CASE i = j
    BY <1>0, <1>1, <2>2 DEF Papers
  <2> QED BY <2>1, <2>2
<1>3. Shelf'
  BY <1>0, <1>1, SameShelf DEF Shelf
<1> QED BY <1>2, <1>3

(* What a step of a task touches of the files, links, assets and records *)
(* is its own                                                              *)
LEMMA LocalPapers ==
  ASSUME Whole, NEW j \in Jobs, Local(j)
  PROVE  (\A i \in Jobs : Papers(i)') /\ Shelf'
<1>0. Typed /\ Books(j) /\ Shelf /\ Papers(j) /\ \A i \in Jobs : Papers(i)
  BY DEF Whole, Inv
<1>1. UNCHANGED <<client, installed, request, history, crashed, caption>>
  BY DEF Local, Rendered, NotRendered, Upload, Bake, BakeFails, Thumbnail, ReadRecord, SaveDone,
     SaveFailed, Refund, RefundFails, RedisFails, Notify, Sending, Sent, Outside, Worker, jobVars, remoteVars
<1>2. \A i \in Jobs \ {j} : worker'[i] = worker[i] /\ link'[i] = link[i] /\ record'[i] = record[i]
  BY <1>0 DEF Typed, To, Local, Rendered, NotRendered, Upload, Bake, BakeFails,
     Thumbnail, ReadRecord, SaveDone, SaveFailed, Refund, RefundFails, RedisFails, Notify, Sending,
     Sent, jobVars
<1>3. /\ fault \subseteq fault' /\ fault' \subseteq fault \cup {j}
      /\ \A i \in Jobs \ {j} : i \in assets' <=> i \in assets
      /\ assets' \subseteq assets \cup {j}
  BY DEF Local, Rendered, NotRendered, Upload, Bake, BakeFails, Thumbnail, ReadRecord, SaveDone,
     SaveFailed, Refund, RefundFails, RedisFails, Notify, Sending, Sent, jobVars
<1>4. \E new \in SUBSET Kinds : files' = files \cup ({j} \X new)
  <2> DEFINE Grow(new) == files' = files \cup ({j} \X new)
  <2>1. {<<j, "raw">>} = {j} \X {"raw"} /\ {<<j, "captioned">>} = {j} \X {"captioned"}
        /\ {<<j, "thumb">>} = {j} \X {"thumb"} /\ {} = {j} \X {}
    OBVIOUS
  <2>2. \/ files' = files \/ files' = files \cup {<<j, "raw">>} \/ files' = files \cup {<<j, "captioned">>}
        \/ files' = files \cup {<<j, "thumb">>}
    BY DEF Local, Rendered, NotRendered, Upload, Bake, BakeFails, Thumbnail, ReadRecord, SaveDone,
       SaveFailed, Refund, RefundFails, RedisFails, Notify, Sending, Sent, jobVars
  <2>3. Grow({}) \/ Grow({"raw"}) \/ Grow({"captioned"}) \/ Grow({"thumb"})
    BY <2>1, <2>2
  <2> QED BY <2>3 DEF Kinds
<1>5. files' \subseteq Jobs \X Kinds /\ \A i \in Jobs \ {j}, k \in Kinds : <<i, k>> \in files' <=> <<i, k>> \in files
  BY <1>0, <1>4 DEF Shelf
<1>6. ASSUME NEW i \in Jobs, record[i].status # "absent" PROVE record'[i].status # "absent"
  <2>1. CASE i # j
    BY <1>2, <1>6, <2>1
  <2>2. CASE i = j /\ (SaveDone(j) \/ SaveFailed(j))
    <3>1. record \in [Jobs -> Records]
      BY <1>0 DEF Typed
    <3>2. ASSUME SaveDone(j) PROVE record'[j].status = "done"
      BY <3>1, <3>2 DEF SaveDone
    <3>3. ASSUME SaveFailed(j) PROVE record'[j].status = "failed"
      BY <3>1, <3>3 DEF SaveFailed, Records
    <3> QED BY <2>2, <3>2, <3>3
  <2>3. CASE i = j /\ ~SaveDone(j) /\ ~SaveFailed(j)
    <3>1. record' = record
      BY <2>3 DEF Local, Rendered, NotRendered, Upload, Bake, BakeFails,
         Thumbnail, ReadRecord, Refund, RefundFails, RedisFails, Notify, Sending, Sent, jobVars
    <3> QED BY <1>6, <3>1
  <2> QED BY <2>1, <2>2, <2>3
<1>7. Shelf'
  <2>1. caption' \subseteq Jobs /\ fault' \subseteq Jobs /\ assets' \subseteq Jobs
    BY <1>0, <1>1, <1>3 DEF Shelf
  <2> QED BY <1>0, <1>1, <1>5, <1>6, <2>1, SameShelf
<1>8. Papers(j)'
  <2>0. /\ worker[j] \in WorkerStates /\ link[j] \in {"", "raw", "captioned", "remote"}
        /\ worker \in [Jobs -> WorkerStates] /\ link \in [Jobs -> {"", "raw", "captioned", "remote"}]
        /\ record \in [Jobs -> Records]
    BY <1>0 DEF Typed
  <2>1. CASE Rendered(j)
    <3>1. /\ worker[j] = "render" /\ client[j] \in {"got", "linked"} /\ UNCHANGED <<record, assets, fault>>
          /\ files' = IF client[j] = "got" THEN files \cup {<<j, "raw">>} ELSE files
          /\ link'[j] = IF client[j] = "got" THEN "raw" ELSE "remote"
          /\ worker'[j] \in (IF client[j] # "got" THEN {"doneRead"} ELSE {"upload", "thumb"})
      BY <2>0, <2>1 DEF Rendered, To
    <3>2. record[j].status # "done"
      BY <1>0, <3>1 DEF Papers
    <3> QED BY <1>0, <1>1, <3>1, <3>2 DEF Papers, Kinds
  <2>2. CASE NotRendered(j)
    <3>1. worker[j] = "render" /\ worker'[j] = "refund" /\ UNCHANGED <<record, assets, fault, files, link>>
      BY <2>0, <2>2 DEF NotRendered, To
    <3> QED BY <1>0, <1>1, <3>1 DEF Papers, Kinds
  <2>3. CASE Upload(j)
    <3>1. /\ worker[j] = "upload" /\ UNCHANGED <<record, files, link>>
          /\ \/ worker'[j] = "bake" /\ fault' = fault
             \/ worker'[j] = "thumb" /\ (j \in assets' => j \in assets \/ j \in fault')
      BY <2>0, <2>3 DEF Upload, To
    <3> QED BY <1>0, <1>1, <1>3, <3>1 DEF Papers, Kinds
  <2>4. CASE Bake(j)
    <3>1. PICK kind \in {"captioned", "raw"} :
            /\ worker[j] = "bake" /\ worker'[j] = "thumb" /\ UNCHANGED <<record, fault>>
            /\ files' = files \cup {<<j, kind>>} /\ link'[j] = kind /\ j \notin assets'
      BY <2>0, <2>4 DEF Bake, To
    <3> QED BY <1>0, <1>1, <3>1 DEF Papers, Kinds
  <2>5. CASE BakeFails(j)
    <3>1. /\ worker[j] = "bake" /\ worker'[j] = "thumb" /\ UNCHANGED record /\ j \in fault'
          /\ \/ files' = files /\ link'[j] = link[j]
             \/ files' = files \cup {<<j, "captioned">>} /\ link'[j] = "captioned"
      BY <2>0, <2>5 DEF BakeFails, To
    <3> QED BY <1>0, <1>1, <3>1 DEF Papers, Kinds
  <2>6. CASE Thumbnail(j)
    <3>1. /\ worker[j] = "thumb" /\ worker'[j] = "doneRead" /\ UNCHANGED <<record, fault, assets, link>>
          /\ files' = files \/ files' = files \cup {<<j, "thumb">>}
      BY <2>0, <2>6 DEF Thumbnail, To
    <3>2. link[j] \in {"raw", "captioned"}
      BY <1>0, <3>1 DEF Papers
    <3> QED BY <1>0, <1>1, <3>1, <3>2 DEF Papers, Kinds
  <2>7. CASE ReadRecord(j)
    <3>1. /\ worker[j] \in {"doneRead", "failRead"} /\ UNCHANGED <<record, fault, assets, link, files>>
          /\ worker'[j] = IF worker[j] = "doneRead" THEN IF record[j] = Absent THEN "notify" ELSE "doneWrite"
                          ELSE IF record[j] = Absent THEN "ended" ELSE "failWrite"
      BY <2>0, <2>7 DEF ReadRecord, To
    <3> QED BY <1>0, <1>1, <3>1 DEF Papers, Kinds
  <2>8. CASE SaveDone(j)
    <3>1. /\ worker[j] = "doneWrite" /\ worker'[j] = "notify" /\ UNCHANGED <<fault, assets, link, files>>
          /\ record'[j].url = link[j] /\ (record'[j].thumb => <<j, "thumb">> \in files)
      BY <2>0, <2>8 DEF SaveDone, To
    <3> QED BY <1>0, <1>1, <3>1 DEF Papers, Kinds
  <2>9. CASE SaveFailed(j)
    <3>1. /\ worker[j] = "failWrite" /\ worker'[j] = "ended" /\ UNCHANGED <<fault, assets, link, files>>
          /\ record'[j].status = "failed"
      BY <2>0, <2>9 DEF SaveFailed, To, Records
    <3> QED BY <1>0, <1>1, <3>1 DEF Papers, Kinds
  <2>10. CASE Refund(j) \/ RefundFails(j) \/ RedisFails(j)
    <3>1. /\ worker[j] \in {"refund", "doneRead", "doneWrite", "failRead", "failWrite"}
          /\ worker'[j] \in {"failRead", "dead"} /\ UNCHANGED <<record, assets, link, files>>
      BY <2>0, <2>10 DEF Refund, RefundFails, RedisFails, To
    <3> QED BY <1>0, <1>1, <1>3, <3>1 DEF Papers, Kinds
  <2>11. CASE Notify(j) \/ Sending(j) \/ Sent(j)
    <3>1. /\ worker[j] \in {"notify", "sending"} /\ worker'[j] \in {"sending", "ended"}
          /\ UNCHANGED <<record, assets, link, files, fault>>
      BY <2>0, <2>11 DEF Notify, Sending, Sent, To, jobVars
    <3> QED BY <1>0, <1>1, <3>1 DEF Papers, Kinds
  <2> QED BY <2>1, <2>2, <2>3, <2>4, <2>5, <2>6, <2>7, <2>8, <2>9, <2>10, <2>11 DEF Local
<1>9. ASSUME NEW i \in Jobs PROVE Papers(i)'
  <2>1. CASE i = j
    BY <1>8, <2>1
  <2>2. CASE i # j
    BY <1>0, <1>1, <1>2, <1>3, <1>5, <2>2, SamePapers
  <2> QED BY <2>1, <2>2
<1> QED BY <1>7, <1>9

(* The process dies: what was under way has met a fault *)
LEMMA CrashPapers == ASSUME Whole, Crash PROVE (\A i \in Jobs : Papers(i)') /\ Shelf'
<1>0. Typed /\ Shelf /\ \A i \in Jobs : Papers(i)
  BY DEF Whole, Inv
<1>1. /\ UNCHANGED <<client, installed, history, record, files, assets, link, caption>>
      /\ crashed' = TRUE
  BY DEF Crash, remoteVars
<1>2. fault \subseteq fault' /\ fault' \subseteq Jobs
  BY <1>0 DEF Crash, Alive, Shelf
<1>3. ASSUME NEW i \in Jobs PROVE Papers(i)'
  <2>1. CASE worker'[i] = worker[i]
    BY <1>0, <1>1, <1>2, <2>1, SamePapers
  <2>2. CASE worker'[i] # worker[i]
    <3>1. worker'[i] = "dead" /\ i \in fault' /\ (record[i].status = "done" => link[i] # "")
      BY <1>0, <2>2 DEF Crash, Papers
    <3> QED BY <1>0, <1>1, <3>1 DEF Papers
  <2> QED BY <2>1, <2>2
<1>4. Shelf'
  <2>1. ASSUME NEW i \in Jobs, request[i] \in {"listed", "rolledback"}
        PROVE  request'[i] \in {"listed", "rolledback"}
    BY <2>1 DEF Crash
  <2> QED BY <1>0, <1>1, <1>2, <2>1 DEF Shelf
<1> QED BY <1>3, <1>4

(* What the jobs, their requests and the browsers do to the devices are    *)
(* steps of Push                                                           *)
LEMMA NextPush == [Next]_vars => [PushNext]_pushVars
<1> SUFFICES ASSUME [Next]_vars PROVE [PushNext]_pushVars
  OBVIOUS
<1>0. Senders = Jobs /\ Browsers \subseteq Operators /\ Senders \subseteq Operators
  BY VideoJobAssumption DEF Operators
<1>1. ASSUME NEW j \in Jobs, Charge(j) \/ RequestStep(j) PROVE UNCHANGED pushVars
  BY <1>1 DEF Charge, RequestStep, SaveRecord, ListRecord, Schedule, Commit, RollBack, Outside
<1>2. ASSUME NEW j \in Jobs, TaskStep(j) PROVE [PushNext]_pushVars
  <2>1. CASE Notify(j)
    BY <1>0, <2>1 DEF Notify, PushNext
  <2>2. CASE Sending(j)
    BY <1>0, <2>2 DEF Sending, PushNext
  <2>3. CASE ~Notify(j) /\ ~Sending(j)
    BY <1>2, <2>3 DEF TaskStep, Begin, Render, Rendered, NotRendered, Upload, Bake, BakeFails,
       Thumbnail, ReadRecord, SaveDone, SaveFailed, Refund, RefundFails, RedisFails, Sent, Outside
  <2> QED BY <2>1, <2>2, <2>3
<1>3. ASSUME NEW k \in KlingCalls, Kling(k) PROVE UNCHANGED pushVars
  BY <1>3 DEF Kling
<1>4. CASE Outdoors
  BY <1>0, <1>4 DEF Outdoors, PushNext
<1>5. CASE Crash
  BY <1>5 DEF Crash, PushNext
<1>6. ASSUME NEW x \in Browsers, NEW e \in Endpoints, Subscribe(x, e) \/ Unsubscribe(x, e)
      PROVE  PushNext
  BY <1>6 DEF PushNext
<1>7. ASSUME NEW x \in Browsers, PushStep(x) PROVE PushNext
  BY <1>0, <1>7 DEF PushNext
<1>8. CASE UNCHANGED vars
  BY <1>8 DEF vars
<1> QED BY <1>1, <1>2, <1>3, <1>4, <1>5, <1>6, <1>7, <1>8 DEF Next

LEMMA NextWhole == Whole /\ [Next]_vars => Whole'
<1> SUFFICES ASSUME Whole, [Next]_vars PROVE Whole'
  OBVIOUS
<1> USE VideoJobAssumption
<1>0. Inv' /\ Devices'
  BY NextInv, NextPush, PushNextInv DEF Whole
<1>1. ASSUME (\A i \in Jobs : Papers(i)') /\ Shelf' PROVE Whole'
  BY <1>0, <1>1 DEF Whole
<1>2. ASSUME UNCHANGED <<remoteVars, jobVars>> PROVE Whole'
  <2>1. \A i \in Jobs : Papers(i)'
    BY <1>2 DEF Whole, Papers, remoteVars, jobVars
  <2>2. Shelf'
    BY <1>2 DEF Whole, Shelf, jobVars
  <2> QED BY <1>1, <2>1, <2>2
<1>3. ASSUME NEW j \in Jobs, Charge(j) \/ RequestStep(j) PROVE Whole'
  BY <1>1, <1>3, RequestPapers
<1>4. ASSUME NEW j \in Jobs, TaskStep(j) PROVE Whole'
  <2>1. CASE Begin(j)
    BY <1>1, <2>1, BeginPapers
  <2>2. CASE Render(j)
    <3>1. j \in Clients /\ Advance(j) /\ UNCHANGED jobVars
      BY <2>2 DEF Render
    <3> QED BY <1>1, <3>1, CallPapers, AdvanceKeepsLink
  <2>3. CASE Local(j)
    BY <1>1, <2>3, LocalPapers
  <2> QED BY <1>4, <2>1, <2>2, <2>3 DEF TaskStep, Local
<1>5. ASSUME NEW k \in KlingCalls, Kling(k) PROVE Whole'
  <2>1. k \in Clients /\ (Call(k) \/ Advance(k)) /\ UNCHANGED jobVars
    BY <1>5 DEF Kling
  <2> QED BY <1>1, <2>1, CallPapers, AdvanceKeepsLink
<1>6. CASE Outdoors
  <2>1. ASSUME NEW c \in Clients, Work(c), UNCHANGED <<pushVars, jobVars>> PROVE Whole'
    BY <1>1, <2>1, CallPapers, AdvanceKeepsLink
  <2> QED BY <1>2, <1>6, <2>1 DEF Outdoors
<1>7. CASE Crash
  BY <1>1, <1>7, CrashPapers
<1>8. CASE UNCHANGED vars
  BY <1>2, <1>8 DEF vars
<1> QED BY <1>2, <1>3, <1>4, <1>5, <1>6, <1>7, <1>8 DEF Next

-----------------------------------------------------------------------------
(* For any number of jobs, whatever fails and whenever the process dies:   *)
(* a paid video is delivered or given back, never both and never before    *)
(* its charge has been committed or rolled back, unless it met a fault     *)
(* nothing answers (run_video_job).                                        *)
THEOREM VideosAreSettled == Spec => []MoneySettled
<1>1. Inv => MoneySettled
  <2>1. ASSUME Inv, NEW j \in Jobs
        PROVE  /\ request[j] = "committed" /\ worker[j] \in {"notify", "sending", "ended", "dead"}
                    /\ j \notin fault => (record[j].status = "done") # (j \in refunded)
               /\ record[j].status = "done" => j \notin refunded
               /\ record[j].status = "failed" /\ j \notin fault => j \in refunded
               /\ j \in refunded => request[j] \in {"committed", "rolledback"}
    <3>1. Books(j) /\ worker[j] \in WorkerStates
      BY <2>1 DEF Inv, Typed
    <3> QED BY <3>1 DEF Books, Making, WorkerStates
  <2>2. Inv => refunded \subseteq Jobs
    BY DEF Inv, Typed
  <2> QED BY <2>1, <2>2 DEF MoneySettled, PaidIsSettled, RefundFollowsCharge
<1> QED BY InitInv, NextInv, <1>1, PTL DEF Spec

(* An adapter returns a result only for a task that made one, and a video  *)
(* that is ready is given up only because the polling loop ran out of time *)
(* or the answer to createTask was lost (_poll_task, kling.py).            *)
THEOREM VideosAreFetched == Spec => []ReadyIsFetched
<1>1. Inv => ReadyIsFetched
  BY DEF Inv, Adapter, ReadyIsFetched
<1> QED BY InitInv, NextInv, <1>1, PTL DEF Spec

(* For any number of jobs and devices, whatever fails and whenever the     *)
(* process dies: the link and the preview of a finished video name files   *)
(* that exist, the history names records that can be read and is trimmed   *)
(* by whoever outgrew it, and nothing of a job that is over stays at       *)
(* Cloudinary unless an answer was lost (run_video_job, apply_text_overlay,*)
(* save_generation).                                                       *)
THEOREM VideosDangleNothing == Spec => []NothingDangles
<1>1. Whole => NothingDangles
  <2> SUFFICES ASSUME Whole PROVE NothingDangles
    OBVIOUS
  <2>1. TypeOK
    <3>1. PushTypeOK
      BY DEF Whole, Devices, Operation, Proper, PushTypeOK
    <3> QED BY <3>1 DEF Whole, Inv, Typed, Shelf, TypeOK, RequestStates, WorkerStates, Records, Kinds
  <2>2. ASSUME NEW j \in Jobs
        PROVE  /\ record[j].status = "done" =>
                    /\ record[j].url \in {"raw", "captioned"} => <<j, record[j].url>> \in files
                    /\ record[j].thumb => <<j, "thumb">> \in files /\ record[j].url # "remote"
                    /\ record[j].url = "remote" => client[j] = "linked"
                    /\ <<j, "captioned">> \in files => record[j].url = "captioned"
               /\ j \in assets /\ worker[j] \in {"ended", "dead"} => j \in fault
    <3>1. Papers(j)
      BY DEF Whole
    <3> QED BY <3>1 DEF Papers
  <2>3. HistoryReadable
    <3>1. Absent.status = "absent"
      BY DEF Absent
    <3> QED BY <3>1 DEF Whole, Shelf, HistoryReadable
  <2>4. assets \subseteq Jobs
    BY DEF Whole, Shelf
  <2> QED BY <2>1, <2>2, <2>3, <2>4 DEF NothingDangles, LinkIsServed, NothingLeftOutside
<1> QED BY InitWhole, NextWhole, <1>1, PTL DEF Spec

(* The jobs, their requests and the browsers use the list of subscriptions *)
(* as Push says it is used: the devices of a person who has videos made    *)
(* are kept as ListIsKept says, whatever the jobs run into.                *)
THEOREM DevicesAreKept == Spec => PushSpec /\ []DevicesAsAsked
<1>1. Init => PushInit
  BY DEF Init
<1> QED BY <1>1, NextPush, ListIsKept, PTL DEF Spec, PushSpec
=============================================================================
