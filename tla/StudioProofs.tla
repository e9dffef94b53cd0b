---------------------------- MODULE StudioProofs ----------------------------
(***************************************************************************)
(* What is proved of the words that go to a provider and of the shelf, for *)
(* requests of any length: the person stays in the picture, nothing        *)
(* foreign leaves, what was answered is drawn or filmed, every list of the *)
(* shelf keeps its order, and nobody waits twice.  A request ends in one   *)
(* result, so the invariant says which operator computed it; the rest is   *)
(* about what these compute.                                               *)
(***************************************************************************)
EXTENDS Studio, FiniteSetTheorems, WellFoundedInduction, TLAPS

(* The library's well-foundedness of <, without pairs, and induction up to *)
(* a number: for sets, since an operator cannot be given to a theorem      *)
LEMMA LeastElement ==
  ASSUME NEW S \in SUBSET Nat, S # {}
  PROVE  \E x \in S : \A y \in S : ~(y < x)
<1> DEFINE R == {ss \in Nat \X Nat : ss[1] < ss[2]}
<1>1. R = OpToRel(<, Nat)
  BY DEF OpToRel
<1>2. IsWellFoundedOn(R, Nat)
  BY <1>1, NatLessThanWellFounded, Zenon
<1>3. \A x, y \in S : <<y, x>> \in R <=> y < x
  OBVIOUS
<1> HIDE DEF R
<1>4. PICK x \in S : \A y \in S : ~(<<y, x>> \in R)
  BY <1>2, WFMin
<1> QED BY <1>3, <1>4, Zenon

LEMMA UpTo ==
  ASSUME NEW m \in Nat, NEW P, 0 \in P, \A n \in 0..(m - 1) : n \in P => n + 1 \in P
  PROVE  \A n \in 0..m : n \in P
<1> DEFINE Bad == {n \in 0..m : n \notin P}
<1>1. SUFFICES ASSUME Bad # {} PROVE FALSE
  OBVIOUS
<1>2. PICK x \in Bad : \A y \in Bad : ~(y < x)
  <2>1. Bad \in SUBSET Nat
    OBVIOUS
  <2> HIDE DEF Bad
  <2> QED BY <1>1, <2>1, LeastElement
<1>3. x \in 1..m /\ x \notin P
  OBVIOUS
<1>4. x - 1 \in 0..(m - 1) /\ x - 1 < x /\ (x - 1) + 1 = x
  BY <1>3
<1>5. x - 1 \in P
  <2>1. x - 1 \notin Bad
    <3> HIDE DEF Bad
    <3> QED BY <1>2, <1>4
  <2> QED BY <1>4, <2>1
<1> QED BY <1>3, <1>4, <1>5

(* What is computed step by step, each value from the one before, exists.  *)
Steps(f, m, D, b, g) ==
  f \in [0..m -> D] /\ f[0] = b /\ \A i \in 1..m : f[i] = g[<<f[i - 1], i>>]

LEMMA Recursion ==
  ASSUME NEW m \in Nat, NEW D, NEW b \in D, NEW g, g \in [D \X (1..m) -> D]
  PROVE  \E f : Steps(f, m, D, b, g)
<1> DEFINE Good(n) == \E f \in [0..n -> D] : f[0] = b /\ \A i \in 1..n : f[i] = g[<<f[i - 1], i>>]
           P == {n \in 0..m : Good(n)}
<1>1. 0 \in P
  <2> DEFINE f == [i \in 0..0 |-> b]
  <2>1. f \in [0..0 -> D] /\ f[0] = b /\ 1..0 = {}
    OBVIOUS
  <2> HIDE DEF f
  <2>2. Good(0)
    BY <2>1
  <2> QED BY <2>2
<1>2. ASSUME NEW n \in 0..(m - 1), n \in P PROVE n + 1 \in P
  <2>1. PICK f \in [0..n -> D] : f[0] = b /\ \A i \in 1..n : f[i] = g[<<f[i - 1], i>>]
    BY <1>2
  <2> DEFINE k == n + 1
             h == [i \in 0..k |-> IF i = k THEN g[<<f[n], k>>] ELSE f[i]]
  <2>2. n \in Nat /\ k \in 1..m /\ k \in Nat /\ n \in 0..n /\ k - 1 = n /\ k # 0 /\ n # k
    OBVIOUS
  <2>3. f[n] \in D /\ g[<<f[n], k>>] \in D
    BY <2>1, <2>2
  <2>4. \A i \in 0..k : i # k => i \in 0..n
    BY <2>2
  <2>5. h \in [0..k -> D]
    BY <2>1, <2>3, <2>4
  <2>6. h[k] = g[<<f[n], k>>] /\ \A i \in 0..n : h[i] = f[i]
    BY <2>2
  <2> HIDE DEF h, k
  <2>7. h[0] = b
    BY <2>1, <2>2, <2>6
  <2>8. ASSUME NEW i \in 1..k PROVE h[i] = g[<<h[i - 1], i>>]
    <3>1. CASE i = k
      BY <2>2, <2>6, <3>1
    <3>2. CASE i # k
      <4>1. i \in 1..n /\ i - 1 \in 0..n /\ i \in 0..n
        BY <2>2, <2>4, <3>2
      <4> QED BY <2>1, <2>6, <4>1
    <3> QED BY <3>1, <3>2
  <2>9. Good(k)
    BY <2>5, <2>7, <2>8
  <2> QED BY <2>2, <2>9 DEF k
<1>3. \A n \in 0..m : n \in P
  <2> HIDE DEF P
  <2> QED BY <1>1, <1>2, UpTo
<1>4. m \in P
  <2> HIDE DEF P
  <2>1. m \in 0..m
    OBVIOUS
  <2> QED BY <1>3, <2>1
<1>5. Good(m)
  BY <1>4
<1>6. PICK f \in [0..m -> D] : f[0] = b /\ \A i \in 1..m : f[i] = g[<<f[i - 1], i>>]
  BY <1>5
<1> QED BY <1>6 DEF Steps

-----------------------------------------------------------------------------
(* Kept: of the first n entries it has those that are in S, in their       *)
(* order; at says where each was.                                          *)
Selection(at, t, s, S, n) ==
  /\ at \in [1..Len(t) -> 1..n]
  /\ \A i \in 1..Len(t) : at[i] >= i /\ t[i] = s[at[i]] /\ s[at[i]] \in S
  /\ \A i, k \in 1..Len(t) : i < k => at[i] < at[k]
  /\ \A k \in 1..n : s[k] \in S => \E i \in 1..Len(t) : at[i] = k

LEMMA SelectionGrows ==
  ASSUME NEW T, NEW s \in Seq(T), NEW S, NEW n \in 1..Len(s), NEW t \in Seq(T),
         NEW at, Selection(at, t, s, S, n - 1), s[n] \in S
  PROVE  \E now : Selection(now, Append(t, s[n]), s, S, n)
<1> DEFINE u == Append(t, s[n])
           now == [i \in 1..Len(u) |-> IF i = Len(u) THEN n ELSE at[i]]
<1>1. /\ n \in Nat /\ s[n] \in T /\ Len(t) \in Nat /\ Len(u) = Len(t) + 1 /\ u[Len(u)] = s[n]
      /\ \A i \in 1..Len(t) : u[i] = t[i]
  OBVIOUS
<1>2. Len(t) <= n - 1
  <2>1. CASE Len(t) = 0
    BY <1>1, <2>1
  <2>2. CASE Len(t) # 0
    <3>1. Len(t) \in 1..Len(t)
      BY <1>1, <2>2
    <3>2. at[Len(t)] \in 1..(n - 1) /\ at[Len(t)] >= Len(t)
      BY <3>1 DEF Selection
    <3> QED BY <1>1, <3>2
  <2> QED BY <2>1, <2>2
<1> HIDE DEF u
<1>3. \A i \in 1..Len(u) : i # Len(u) => i \in 1..Len(t) /\ at[i] \in 1..(n - 1)
  BY <1>1 DEF Selection
<1>4. now[Len(u)] = n /\ \A i \in 1..Len(t) : now[i] = at[i]
  BY <1>1
<1>5. now \in [1..Len(u) -> 1..n]
  BY <1>1, <1>3
<1> HIDE DEF now
<1>6. ASSUME NEW i \in 1..Len(u) PROVE now[i] >= i /\ u[i] = s[now[i]] /\ s[now[i]] \in S
  <2>1. CASE i = Len(u)
    BY <1>1, <1>2, <1>4, <2>1
  <2>2. CASE i # Len(u)
    BY <1>1, <1>3, <1>4, <2>2 DEF Selection
  <2> QED BY <2>1, <2>2
<1>7. ASSUME NEW i \in 1..Len(u), NEW k \in 1..Len(u), i < k PROVE now[i] < now[k]
  <2>1. i \in 1..Len(t) /\ now[i] = at[i] /\ at[i] \in 1..(n - 1)
    BY <1>1, <1>3, <1>4, <1>7
  <2>2. CASE k = Len(u)
    BY <1>1, <1>4, <2>1, <2>2
  <2>3. CASE k # Len(u)
    BY <1>3, <1>4, <1>7, <2>1, <2>3 DEF Selection
  <2> QED BY <2>2, <2>3
<1>8. ASSUME NEW k \in 1..n, s[k] \in S PROVE \E i \in 1..Len(u) : now[i] = k
  <2>1. CASE k = n
    BY <1>1, <1>4, <2>1
  <2>2. CASE k # n
    <3>1. k \in 1..(n - 1)
      BY <1>1, <2>2
    <3>2. PICK i \in 1..Len(t) : at[i] = k
      BY <1>8, <3>1 DEF Selection
    <3> QED BY <1>1, <1>4, <3>2
  <2> QED BY <2>1, <2>2
<1>9. Selection(now, u, s, S, n)
  BY <1>5, <1>6, <1>7, <1>8 DEF Selection
<1> QED BY <1>9 DEF u

LEMMA KeptIs ==
  ASSUME NEW T, NEW s \in Seq(T), NEW S
  PROVE  /\ Kept(s, S) \in Seq(T)
         /\ \E at : Selection(at, Kept(s, S), s, S, Len(s))
<1> DEFINE m == Len(s)
           Step(t, i) == IF s[i] \in S THEN Append(t, s[i]) ELSE t
           Is(f) == f = [i \in 0..m |-> IF i = 0 THEN <<>> ELSE Step(f[i - 1], i)]
           K == CHOOSE f : Is(f)
<1>1. m \in Nat /\ Kept(s, S) = K[m]
  BY DEF Kept
<1>2. \A i \in 1..m : s[i] \in T
  OBVIOUS
<1>3. \A t \in Seq(T), i \in 1..m : Step(t, i) \in Seq(T)
  BY <1>2
<1> DEFINE g == [x \in Seq(T) \X (1..m) |-> Step(x[1], x[2])]
<1> HIDE DEF Step, m
<1>4. g \in [Seq(T) \X (1..m) -> Seq(T)] /\ \A t \in Seq(T), i \in 1..m : g[<<t, i>>] = Step(t, i)
  BY <1>3
<1> HIDE DEF g
<1>5. PICK f : Steps(f, m, Seq(T), <<>>, g)
  <2>1. <<>> \in Seq(T)
    OBVIOUS
  <2> QED BY <1>1, <1>4, <2>1, Recursion
<1>6. Is(f)
  <2>1. ASSUME NEW i \in 0..m PROVE f[i] = IF i = 0 THEN <<>> ELSE Step(f[i - 1], i)
    <3>1. CASE i = 0
      BY <1>5, <3>1 DEF Steps
    <3>2. CASE i # 0
      <4>1. i \in 1..m /\ i - 1 \in 0..m
        BY <1>1, <3>2
      <4>2. f[i - 1] \in Seq(T) /\ f[i] = g[<<f[i - 1], i>>]
        BY <1>5, <4>1 DEF Steps
      <4> QED BY <1>4, <3>2, <4>1, <4>2
    <3> QED BY <3>1, <3>2
  <2> QED BY <1>5, <2>1 DEF Steps
<1>7. Is(K)
  <2> HIDE DEF Is
  <2> QED BY <1>6, Zenon
<1>8. K[0] = <<>> /\ \A i \in 1..m : K[i] = Step(K[i - 1], i)
  <2> DEFINE Rhs(i) == IF i = 0 THEN <<>> ELSE Step(K[i - 1], i)
  <2> HIDE DEF K
  <2>1. K = [i \in 0..m |-> Rhs(i)]
    BY <1>7
  <2>2. 0 \in 0..m /\ \A i \in 1..m : i \in 0..m /\ i # 0
    BY <1>1
  <2>3. Rhs(0) = <<>> /\ \A i \in 1..m : Rhs(i) = Step(K[i - 1], i)
    BY <2>2
  <2> HIDE DEF Rhs
  <2>4. \A i \in 0..m : K[i] = Rhs(i)
    BY <2>1
  <2> QED BY <2>2, <2>3, <2>4
<1> HIDE DEF K, Is
<1> DEFINE P == {n \in 0..m : K[n] \in Seq(T) /\ \E at : Selection(at, K[n], s, S, n)}
<1>9. 0 \in P
  <2> DEFINE none == [i \in {} |-> 0]
  <2>1. Selection(none, <<>>, s, S, 0)
    BY DEF Selection
  <2> HIDE DEF none
  <2>2. K[0] \in Seq(T) /\ Selection(none, K[0], s, S, 0)
    BY <1>8, <2>1
  <2> QED BY <1>1, <2>2
<1>10. ASSUME NEW n \in 0..(m - 1), n \in P PROVE n + 1 \in P
  <2> DEFINE x == n + 1
  <2>1. x \in 1..m /\ x - 1 = n /\ x \in 0..m /\ x \in 1..Len(s) /\ s[x] \in T
    BY <1>1, <1>2 DEF m
  <2>2. PICK at : Selection(at, K[n], s, S, n)
    BY <1>10
  <2>3. K[n] \in Seq(T) /\ K[x] = Step(K[n], x)
    BY <1>8, <1>10, <2>1
  <2> HIDE DEF x
  <2>4. CASE s[x] \in S
    <3>1. K[x] = Append(K[n], s[x])
      BY <2>3, <2>4 DEF Step
    <3>2. \E now : Selection(now, Append(K[n], s[x]), s, S, x)
      BY <2>1, <2>2, <2>3, <2>4, SelectionGrows
    <3>3. Append(K[n], s[x]) \in Seq(T)
      BY <2>1, <2>3
    <3>4. x \in P
      BY <2>1, <3>1, <3>2, <3>3
    <3> QED BY <3>4 DEF x
  <2>5. CASE s[x] \notin S
    <3>1. K[x] = K[n]
      BY <2>3, <2>5 DEF Step
    <3>2. Selection(at, K[n], s, S, x)
      BY <1>1, <2>1, <2>2, <2>3, <2>5 DEF Selection
    <3>3. x \in P
      BY <2>1, <2>3, <3>1, <3>2
    <3> QED BY <3>3 DEF x
  <2> QED BY <2>4, <2>5
<1>11. m \in P
  <2> HIDE DEF P
  <2>1. m \in 0..m
    BY <1>1
  <2> QED BY <1>1, <1>9, <1>10, <2>1, UpTo
<1> QED BY <1>1, <1>11 DEF m

(* What comes of it: which entries, how many, and each of them once if     *)
(* that was so before                                                      *)
LEMMA KeptSet ==
  ASSUME NEW T, NEW s \in Seq(T), NEW S
  PROVE  Kept(s, S) \in Seq(T) /\ ToSet(Kept(s, S)) = ToSet(s) \cap S
<1> DEFINE t == Kept(s, S)
<1>1. t \in Seq(T) /\ \E at : Selection(at, t, s, S, Len(s))
  BY KeptIs
<1> HIDE DEF t
<1>2. PICK at : Selection(at, t, s, S, Len(s))
  BY <1>1
<1>3. Len(t) \in Nat /\ DOMAIN t = 1..Len(t) /\ Len(s) \in Nat /\ DOMAIN s = 1..Len(s)
  BY <1>1
<1>4. ASSUME NEW e \in ToSet(t) PROVE e \in ToSet(s) /\ e \in S
  <2>1. PICK i \in 1..Len(t) : e = t[i]
    BY <1>3 DEF ToSet
  <2>2. at[i] \in 1..Len(s) /\ e = s[at[i]] /\ e \in S
    BY <1>2, <2>1 DEF Selection
  <2> QED BY <1>3, <2>2 DEF ToSet
<1>5. ASSUME NEW e \in ToSet(s), e \in S PROVE e \in ToSet(t)
  <2>1. PICK k \in 1..Len(s) : e = s[k]
    BY <1>3 DEF ToSet
  <2>2. PICK i \in 1..Len(t) : at[i] = k
    BY <1>2, <1>5, <2>1 DEF Selection
  <2>3. t[i] = e
    BY <1>2, <2>1, <2>2 DEF Selection
  <2> QED BY <1>3, <2>3 DEF ToSet
<1>6. ToSet(t) = ToSet(s) \cap S
  BY <1>4, <1>5
<1> QED BY <1>1, <1>6 DEF t

LEMMA Joined ==
  ASSUME NEW T, NEW s \in Seq(T), NEW t \in Seq(T)
  PROVE  /\ s \o t \in Seq(T) /\ Len(s \o t) = Len(s) + Len(t)
         /\ \A i \in 1..Len(s) : (s \o t)[i] = s[i]
         /\ \A i \in 1..Len(t) : (s \o t)[Len(s) + i] = t[i]
         /\ ToSet(s \o t) = ToSet(s) \cup ToSet(t)
<1> DEFINE u == s \o t
<1>1. /\ u \in Seq(T) /\ Len(u) = Len(s) + Len(t) /\ Len(s) \in Nat /\ Len(t) \in Nat
      /\ DOMAIN s = 1..Len(s) /\ DOMAIN t = 1..Len(t) /\ DOMAIN u = 1..Len(u)
      /\ \A i \in 1..Len(s) : u[i] = s[i]
      /\ \A i \in 1..Len(t) : u[Len(s) + i] = t[i]
  OBVIOUS
<1> HIDE DEF u
<1>2. ASSUME NEW e \in ToSet(u) PROVE e \in ToSet(s) \cup ToSet(t)
  <2>1. PICK i \in 1..Len(u) : e = u[i]
    BY <1>1 DEF ToSet
  <2>2. CASE i <= Len(s)
    <3>1. i \in 1..Len(s)
      BY <1>1, <2>2
    <3> QED BY <1>1, <2>1, <3>1 DEF ToSet
  <2>3. CASE i > Len(s)
    <3>1. i - Len(s) \in 1..Len(t) /\ Len(s) + (i - Len(s)) = i
      BY <1>1, <2>3
    <3>2. e = t[i - Len(s)]
      BY <1>1, <2>1, <3>1
    <3> QED BY <1>1, <3>1, <3>2 DEF ToSet
  <2> QED BY <1>1, <2>2, <2>3
<1>3. ASSUME NEW e \in ToSet(s) PROVE e \in ToSet(u)
  <2>1. PICK i \in 1..Len(s) : e = s[i]
    BY <1>1 DEF ToSet
  <2>2. i \in 1..Len(u) /\ u[i] = e
    BY <1>1, <2>1
  <2> QED BY <1>1, <2>2 DEF ToSet
<1>4. ASSUME NEW e \in ToSet(t) PROVE e \in ToSet(u)
  <2>1. PICK i \in 1..Len(t) : e = t[i]
    BY <1>1 DEF ToSet
  <2>2. Len(s) + i \in 1..Len(u) /\ u[Len(s) + i] = e
    BY <1>1, <2>1
  <2> QED BY <1>1, <2>2 DEF ToSet
<1>5. ToSet(u) = ToSet(s) \cup ToSet(t)
  BY <1>2, <1>3, <1>4
<1> QED BY <1>1, <1>5 DEF u

LEMMA Written1 ==
  ASSUME NEW T, NEW a \in T, NEW b \in T
  PROVE  /\ <<>> \in Seq(T) /\ ToSet(<<>>) = {}
         /\ <<a>> \in Seq(T) /\ Len(<<a>>) = 1 /\ <<a>>[1] = a /\ ToSet(<<a>>) = {a}
         /\ <<a, b>> \in Seq(T) /\ ToSet(<<a, b>>) = {a, b}
  BY DEF ToSet

(* FlattenSeq has the entries of all of its lists.                         *)
LEMMA Flattened ==
  ASSUME NEW T, NEW ss \in Seq(Seq(T))
  PROVE  FlattenSeq(ss) \in Seq(T) /\ ToSet(FlattenSeq(ss)) = UNION {ToSet(ss[i]) : i \in 1..Len(ss)}
<1> DEFINE m == Len(ss)
           All(n) == UNION {ToSet(ss[i]) : i \in 1..n}
<1>1. m \in Nat /\ \A i \in 1..m : ss[i] \in Seq(T)
  OBVIOUS
<1>2. CASE m = 0
  <2>1. FlattenSeq(ss) = ss /\ ss = <<>>
    BY <1>2 DEF FlattenSeq
  <2>2. ToSet(ss) = {} /\ ss \in Seq(T) /\ All(m) = {}
    BY <1>2, <2>1 DEF ToSet
  <2> QED BY <2>1, <2>2
<1>3. CASE m # 0
  <2> DEFINE Step(t, i) == t \o ss[i]
             g == [x \in Seq(T) \X (1..m) |-> Step(x[1], x[2])]
             Is(f) == f = [i \in 1..m |-> IF i = 1 THEN ss[i] ELSE f[i - 1] \o ss[i]]
             F == CHOOSE f : Is(f)
  <2> HIDE DEF m
  <2>1. m \in 1..m
    BY <1>1, <1>3
  <2>2. \A t \in Seq(T), i \in 1..m : Step(t, i) \in Seq(T)
    BY <1>1
  <2>3. g \in [Seq(T) \X (1..m) -> Seq(T)] /\ \A t \in Seq(T), i \in 1..m : g[<<t, i>>] = Step(t, i)
    <3> HIDE DEF Step
    <3> QED BY <2>2
  <2> HIDE DEF g
  <2>4. PICK h : Steps(h, m, Seq(T), <<>>, g)
    <3>1. <<>> \in Seq(T)
      OBVIOUS
    <3> QED BY <1>1, <2>3, <3>1, Recursion
  <2> DEFINE f == [i \in 1..m |-> h[i]]
  <2>5. ASSUME NEW i \in 1..m PROVE f[i] = IF i = 1 THEN ss[i] ELSE f[i - 1] \o ss[i]
    <3>1. i - 1 \in 0..m /\ i \in 0..m /\ f[i] = h[i]
      BY <1>1
    <3>2. h[i - 1] \in Seq(T) /\ h[i] = h[i - 1] \o ss[i]
      BY <2>3, <2>4, <3>1 DEF Steps
    <3>3. CASE i = 1
      <4>1. h[0] = <<>> /\ ss[1] \in Seq(T)
        BY <1>1, <2>4, <3>3 DEF Steps
      <4>2. <<>> \o ss[1] = ss[1] /\ i - 1 = 0
        BY <3>3, <4>1
      <4> HIDE DEF f
      <4>3. f[i] = h[0] \o ss[1]
        BY <3>1, <3>2, <3>3, <4>2
      <4> QED BY <3>3, <4>1, <4>2, <4>3
    <3>4. CASE i # 1
      <4>1. i - 1 \in 1..m
        BY <1>1, <3>4
      <4>2. f[i - 1] = h[i - 1]
        BY <4>1
      <4> HIDE DEF f
      <4> QED BY <3>1, <3>2, <3>4, <4>2
    <3> QED BY <3>3, <3>4
  <2>6. Is(f)
    <3>1. DOMAIN f = 1..m /\ f = [i \in 1..m |-> f[i]]
      OBVIOUS
    <3> HIDE DEF f
    <3> QED BY <2>5, <3>1
  <2>7. Is(F)
    <3> HIDE DEF Is, f
    <3> QED BY <2>6, Zenon
  <2>8. FlattenSeq(ss) = F[m]
    BY <1>3 DEF FlattenSeq, m
  <2> HIDE DEF F
  <2>9. \A i \in 1..m : F[i] = IF i = 1 THEN ss[i] ELSE F[i - 1] \o ss[i]
    <3> DEFINE Rhs(i) == IF i = 1 THEN ss[i] ELSE F[i - 1] \o ss[i]
    <3>1. F = [i \in 1..m |-> Rhs(i)]
      BY <2>7
    <3>2. \A i \in 1..m : Rhs(i) = IF i = 1 THEN ss[i] ELSE F[i - 1] \o ss[i]
      OBVIOUS
    <3> HIDE DEF Rhs
    <3>3. \A i \in 1..m : F[i] = Rhs(i)
      BY <3>1
    <3> QED BY <3>2, <3>3
  <2> HIDE DEF Is
  <2> DEFINE P == {0} \cup {n \in 1..m : F[n] \in Seq(T) /\ ToSet(F[n]) = All(n)}
  <2>10. ASSUME NEW n \in 0..(m - 1), n \in P PROVE n + 1 \in P
    <3> DEFINE x == n + 1
    <3>1. n \in Nat /\ x \in 1..m /\ x - 1 = n /\ ss[x] \in Seq(T)
      BY <1>1
    <3>2. All(x) = All(n) \cup ToSet(ss[x])
      <4>1. 1..x = (1..n) \cup {x}
        BY <3>1
      <4> QED BY <4>1
    <3> HIDE DEF x
    <3>3. CASE n = 0
      <4>1. x = 1 /\ F[x] = ss[x]
        BY <2>9, <3>1, <3>3
      <4>2. All(n) = {}
        BY <3>3
      <4>3. x \in P
        BY <3>1, <3>2, <4>1, <4>2
      <4> QED BY <4>3 DEF x
    <3>4. CASE n # 0
      <4>1. F[x] = F[n] \o ss[x]
        <5>1. x # 1
          BY <3>1, <3>4
        <5>2. F[x] = F[x - 1] \o ss[x]
          BY <2>9, <3>1, <5>1
        <5> QED BY <3>1, <5>2
      <4>2. F[n] \in Seq(T) /\ ToSet(F[n]) = All(n)
        BY <2>10, <3>4
      <4> HIDE DEF All
      <4>3. F[x] \in Seq(T) /\ ToSet(F[x]) = All(x)
        BY <3>1, <3>2, <4>1, <4>2, Joined
      <4>4. x \in P
        BY <3>1, <4>3
      <4> QED BY <4>4 DEF x
    <3> QED BY <3>3, <3>4
  <2>11. m \in P
    <3>1. 0 \in P /\ m \in 0..m
      BY <1>1
    <3> HIDE DEF P
    <3> QED BY <1>1, <2>10, <3>1, UpTo
  <2> QED BY <1>3, <2>8, <2>11 DEF m
<1> QED BY <1>2, <1>3
-----------------------------------------------------------------------------
(* NeutralizeIp.  Which names stand at a place, which of them is taken,    *)
(* and what the scan has written when it gets there                        *)
Full(text, i) ==
  i \in 1..(Len(text) - 1) /\ text[i] = "spongebob" /\ text[i + 1] = "squarepants"

(* No prover here knows of a single word that it is a STRING; that a text  *)
(* consists of words is all that matters.                                  *)
Word == STRING \cup {"spongebob", "squarepants", "batman", "superhero", "sea-sponge", "character",
                     "cat", "mountain", "pixar", "default", "mood"}
Prose == Seq(Word)
LEMMA Wider ==
  ASSUME NEW S, NEW T, S \subseteq T
  PROVE  Seq(S) \subseteq Seq(T)
<1> SUFFICES ASSUME NEW t \in Seq(S) PROVE t \in Seq(T)
  OBVIOUS
<1>1. Len(t) \in Nat /\ t \in [1..Len(t) -> S]
  OBVIOUS
<1>2. t \in [1..Len(t) -> T]
  BY <1>1
<1> QED BY <1>1, <1>2

LEMMA TextIsProse == Text \subseteq Prose
<1>1. STRING \subseteq Word
  BY DEF Word
<1> HIDE DEF Word
<1> QED BY <1>1, Wider, Zenon DEF Text, Prose

LEMMA PrefixIs ==
  ASSUME NEW s \in Prose, NEW t \in Prose
  PROVE  IsPrefix(s, t) <=> Len(s) <= Len(t) /\ \A j \in 1..Len(s) : s[j] = t[j]
<1> DEFINE a == SubSeq(s, 1, Len(s))
           b == SubSeq(t, 1, Len(s))
<1>1. SUFFICES ASSUME Len(s) <= Len(t)
               PROVE  a = b <=> \A j \in 1..Len(s) : s[j] = t[j]
  BY DEF IsPrefix
<1>2. /\ Len(s) \in Nat /\ Len(t) \in Nat
      /\ a \in Prose /\ Len(a) = Len(s) /\ \A j \in 1..Len(s) : a[j] = s[j]
      /\ b \in Prose /\ Len(b) = Len(s) /\ \A j \in 1..Len(s) : b[j] = t[j]
  BY <1>1 DEF Prose
<1> HIDE DEF a, b
<1>3. a \in [1..Len(s) -> Word] /\ b \in [1..Len(s) -> Word]
  BY <1>2 DEF Prose
<1> QED BY <1>2, <1>3

LEMMA NamesThere ==
  ASSUME NEW text \in Prose, NEW i \in 1..Len(text)
  PROVE  /\ <<"batman">> \in NamesAt(text, i) <=> text[i] = "batman"
         /\ <<"spongebob">> \in NamesAt(text, i) <=> text[i] = "spongebob"
         /\ <<"spongebob", "squarepants">> \in NamesAt(text, i) <=> Full(text, i)
<1> DEFINE rest == SubSeq(text, i, Len(text))
<1>1. /\ Len(text) \in Nat /\ Len(rest) = Len(text) - i + 1 /\ rest[1] = text[i] /\ rest \in Prose
      /\ i < Len(text) => rest[2] = text[i + 1]
  BY DEF Prose
<1> HIDE DEF rest
<1>2. ASSUME NEW w \in Word PROVE IsPrefix(<<w>>, rest) <=> text[i] = w
  <2>1. <<w>> \in Prose /\ Len(<<w>>) = 1 /\ 1 <= Len(rest) /\ <<w>>[1] = w /\ 1..1 = {1}
    BY <1>1 DEF Prose
  <2>2. IsPrefix(<<w>>, rest) <=> Len(<<w>>) <= Len(rest) /\ \A j \in 1..Len(<<w>>) : <<w>>[j] = rest[j]
    BY <1>1, <2>1, PrefixIs
  <2> QED BY <1>1, <2>1, <2>2
<1>3. IsPrefix(<<"spongebob", "squarepants">>, rest) <=> Full(text, i)
  <2> DEFINE n == <<"spongebob", "squarepants">>
  <2>1. n \in Prose /\ Len(n) = 2 /\ n[1] = "spongebob" /\ n[2] = "squarepants" /\ 1..2 = {1, 2}
    <3>1. "spongebob" \in Word /\ "squarepants" \in Word
      BY DEF Word
    <3> QED BY <3>1 DEF Prose
  <2> HIDE DEF n
  <2>2. IsPrefix(n, rest) <=> 2 <= Len(rest) /\ rest[1] = "spongebob" /\ rest[2] = "squarepants"
    <3>1. IsPrefix(n, rest) <=> Len(n) <= Len(rest) /\ \A j \in 1..Len(n) : n[j] = rest[j]
      BY <1>1, <2>1, PrefixIs
    <3>2. (\A j \in 1..Len(n) : n[j] = rest[j]) <=> n[1] = rest[1] /\ n[2] = rest[2]
      BY <2>1
    <3> QED BY <2>1, <3>1, <3>2
  <2>3. 2 <= Len(rest) <=> i < Len(text)
    BY <1>1
  <2>4. Full(text, i) <=> i < Len(text) /\ text[i] = "spongebob" /\ text[i + 1] = "squarepants"
    BY <1>1 DEF Full
  <2> QED BY <1>1, <2>2, <2>3, <2>4 DEF n
<1>4. \A n \in Names : n \in NamesAt(text, i) <=> IsPrefix(n, rest)
  BY DEF NamesAt, rest
<1>5. <<"batman">> \in Names /\ <<"spongebob">> \in Names /\ <<"spongebob", "squarepants">> \in Names
  BY DEF Names
<1>6. <<"batman">> \in NamesAt(text, i) <=> text[i] = "batman"
  <2>1. "batman" \in Word
    BY DEF Word
  <2> QED BY <1>2, <1>4, <1>5, <2>1
<1>7. <<"spongebob">> \in NamesAt(text, i) <=> text[i] = "spongebob"
  <2>1. "spongebob" \in Word
    BY DEF Word
  <2> QED BY <1>2, <1>4, <1>5, <2>1
<1> QED BY <1>3, <1>4, <1>5, <1>6, <1>7

LEMMA NameTaken ==
  ASSUME NEW text \in Prose, NEW i \in 1..Len(text), NamesAt(text, i) # {}
  PROVE  \/ text[i] = "batman" /\ Longest(NamesAt(text, i)) = <<"batman">>
         \/ /\ text[i] = "spongebob"
            /\ Longest(NamesAt(text, i)) =
                 IF Full(text, i) THEN <<"spongebob", "squarepants">> ELSE <<"spongebob">>
<1> DEFINE b == <<"batman">>
           o == <<"spongebob">>
           t == <<"spongebob", "squarepants">>
           S == NamesAt(text, i)
<1>1. /\ S \subseteq {b, o, t} /\ Len(b) = 1 /\ Len(o) = 1 /\ Len(t) = 2
      /\ b # o /\ b # t /\ o # t
  BY DEF NamesAt, Names
<1>2. (b \in S <=> text[i] = "batman") /\ (o \in S <=> text[i] = "spongebob") /\ (t \in S <=> Full(text, i))
  BY NamesThere
<1>3. Full(text, i) => text[i] = "spongebob"
  BY DEF Full
<1>4. \A n \in S : (\A m \in S : Len(n) >= Len(m)) /\ (\A k \in S : (\A m \in S : Len(k) >= Len(m)) => k = n)
        => Longest(S) = n
  BY Zenon DEF Longest
<1> HIDE DEF b, o, t, S
<1>5. CASE text[i] = "batman"
  <2>1. S = {b}
    BY <1>1, <1>2, <1>3, <1>5
  <2>2. Longest(S) = b
    BY <1>1, <1>4, <2>1
  <2> QED BY <1>5, <2>2 DEF b, S
<1>6. CASE text[i] = "spongebob" /\ Full(text, i)
  <2>1. S = {o, t}
    BY <1>1, <1>2, <1>6
  <2>2. Len(t) >= Len(t) /\ Len(t) >= Len(o) /\ ~(Len(o) >= Len(t)) /\ t \in S
    BY <1>1, <2>1
  <2>3. \A m \in S : Len(t) >= Len(m)
    BY <2>1, <2>2
  <2>4. ASSUME NEW k \in S, \A m \in S : Len(k) >= Len(m) PROVE k = t
    BY <2>1, <2>2, <2>4
  <2>5. Longest(S) = t
    BY <1>4, <2>2, <2>3, <2>4
  <2> QED BY <1>6, <2>5 DEF t, S
<1>7. CASE text[i] = "spongebob" /\ ~Full(text, i)
  <2>1. S = {o}
    BY <1>1, <1>2, <1>7
  <2>2. Longest(S) = o
    BY <1>1, <1>4, <2>1
  <2> QED BY <1>7, <2>2 DEF o, S
<1>8. S # {}
  BY DEF S
<1> QED BY <1>1, <1>2, <1>3, <1>5, <1>6, <1>7, <1>8

(* k is no part of a name that stands in text                              *)
Uncovered(text, k) == \A i \in 1..k : \A n \in NamesAt(text, i) : k >= i + Len(n)
Paraphrases == {"superhero", "sea-sponge", "character"}
Scanned(text, s, i) ==
  /\ s \in [out : Prose, next : Nat]
  /\ s.next = IF Full(text, i) THEN i + 2 ELSE i + 1
  /\ \A w \in ToSet(s.out) :
       w \in Paraphrases \/ \E k \in 1..i : w = text[k] /\ Uncovered(text, k)
  /\ \A k \in 1..i : text[k] \notin NameWords => text[k] \in ToSet(s.out)
  /\ \A k \in 1..i : text[k] = "spongebob" => "character" \in ToSet(s.out)

LEMMA ScanStarts == ASSUME NEW text \in Prose PROVE Scanned(text, [out |-> <<>>, next |-> 1], 0)
<1>1. <<>> \in Prose /\ ToSet(<<>>) = {} /\ 1..0 = {}
  BY DEF Prose, ToSet
<1>2. ~Full(text, 0)
  BY DEF Full
<1> QED BY <1>1, <1>2 DEF Scanned

(* A place where no name begins and none is passed over stands for itself. *)
LEMMA Alone ==
  ASSUME NEW text \in Prose, NEW i \in 1..Len(text), ~Full(text, i - 1), NamesAt(text, i) = {}
  PROVE  Uncovered(text, i) /\ text[i] # "spongebob" /\ ~Full(text, i)
<1>1. text[i] # "spongebob" /\ text[i] # "batman"
  BY NamesThere
<1>2. ~Full(text, i)
  BY <1>1 DEF Full
<1>3. ASSUME NEW j \in 1..i, NEW n \in NamesAt(text, j) PROVE i >= j + Len(n)
  <2>1. j \in 1..Len(text) /\ j # i /\ j <= i - 1 /\ Len(text) \in Nat
    BY <1>3 DEF Prose
  <2>2. n \in Names /\ (n = <<"spongebob", "squarepants">> => Full(text, j))
    BY <2>1, NamesThere DEF NamesAt
  <2>3. CASE n = <<"spongebob", "squarepants">>
    <3>1. Len(n) = 2 /\ j # i - 1
      BY <2>2, <2>3
    <3> QED BY <2>1, <3>1
  <2>4. CASE n # <<"spongebob", "squarepants">>
    <3>1. Len(n) = 1
      BY <2>2, <2>4 DEF Names
    <3> QED BY <2>1, <3>1
  <2> QED BY <2>3, <2>4
<1>4. Uncovered(text, i)
  BY <1>3 DEF Uncovered
<1> QED BY <1>1, <1>2, <1>4

LEMMA ScanGoesOn ==
  ASSUME NEW text \in Prose, NEW i \in 1..Len(text), NEW s, Scanned(text, s, i - 1)
  PROVE  Scanned(text, Scan(text, s, i), i)
<1>1. /\ Len(text) \in Nat /\ i \in Nat /\ i - 1 \in Nat /\ text[i] \in Word /\ (i - 1) + 1 = i
      /\ 1..i = (1..(i - 1)) \cup {i}
  BY DEF Prose
<1>2. /\ s.out \in Prose /\ s.next \in Nat /\ s = [out |-> s.out, next |-> s.next]
      /\ s.next = IF Full(text, i - 1) THEN i + 1 ELSE i
  BY <1>1 DEF Scanned
<1>3. /\ \A w \in ToSet(s.out) :
           w \in Paraphrases \/ \E k \in 1..(i - 1) : w = text[k] /\ Uncovered(text, k)
      /\ \A k \in 1..(i - 1) : text[k] \notin NameWords => text[k] \in ToSet(s.out)
      /\ \A k \in 1..(i - 1) : text[k] = "spongebob" => "character" \in ToSet(s.out)
  BY DEF Scanned
<1>4. NameWords = {"spongebob", "squarepants", "batman"}
  <2>1. /\ ToSet(<<"spongebob">>) = {"spongebob"} /\ ToSet(<<"batman">>) = {"batman"}
        /\ ToSet(<<"spongebob", "squarepants">>) = {"spongebob", "squarepants"}
    BY DEF ToSet
  <2> QED BY <2>1 DEF NameWords, Names
(* Whatever is put behind what was written, if it stands for the place i *)
<1>5. ASSUME NEW new \in Prose, NEW next \in Nat,
             next = IF Full(text, i) THEN i + 2 ELSE i + 1,
             \A w \in ToSet(new) : w \in Paraphrases \/ (w = text[i] /\ Uncovered(text, i)),
             text[i] \notin NameWords => text[i] \in ToSet(new),
             text[i] = "spongebob" => "character" \in ToSet(new)
      PROVE  Scanned(text, [out |-> s.out \o new, next |-> next], i)
  <2> DEFINE u == [out |-> s.out \o new, next |-> next]
  <2>1. s.out \o new \in Prose /\ ToSet(s.out \o new) = ToSet(s.out) \cup ToSet(new)
    BY <1>2, Joined DEF Prose
  <2>2. u \in [out : Prose, next : Nat] /\ u.next = next /\ ToSet(u.out) = ToSet(s.out) \cup ToSet(new)
    BY <2>1
  <2> HIDE DEF u
  <2>3. \A w \in ToSet(u.out) : w \in Paraphrases \/ \E k \in 1..i : w = text[k] /\ Uncovered(text, k)
    BY <1>1, <1>3, <1>5, <2>2
  <2>4. \A k \in 1..i : text[k] \notin NameWords => text[k] \in ToSet(u.out)
    BY <1>1, <1>3, <1>5, <2>2
  <2>5. \A k \in 1..i : text[k] = "spongebob" => "character" \in ToSet(u.out)
    BY <1>1, <1>3, <1>5, <2>2
  <2>6. Scanned(text, u, i)
    BY <1>5, <2>2, <2>3, <2>4, <2>5 DEF Scanned
  <2> QED BY <2>6 DEF u
<1>6. CASE Full(text, i - 1)
  <2>1. text[i] = "squarepants" /\ i < s.next /\ ~Full(text, i)
    BY <1>1, <1>2, <1>6 DEF Full
  <2>2. Scan(text, s, i) = s
    BY <2>1 DEF Scan
  <2>3. \A w \in ToSet(s.out) : w \in Paraphrases \/ \E k \in 1..i : w = text[k] /\ Uncovered(text, k)
    BY <1>1, <1>3
  <2> QED BY <1>1, <1>2, <1>3, <1>4, <1>6, <2>1, <2>2, <2>3 DEF Scanned
<1>7. CASE ~Full(text, i - 1) /\ NamesAt(text, i) = {}
  <2>1. Uncovered(text, i) /\ text[i] # "spongebob" /\ ~Full(text, i)
    BY <1>7, Alone
  <2> DEFINE new == <<text[i]>>
  <2>2. new \in Prose /\ ToSet(new) = {text[i]}
    BY <1>1 DEF Prose, ToSet
  <2>3. s.out \o new = Append(s.out, text[i])
    BY <1>1, <1>2 DEF Prose
  <2>4. Scan(text, s, i) = [out |-> s.out \o new, next |-> i + 1]
    <3>1. ~(i < s.next)
      BY <1>1, <1>2, <1>7
    <3>2. Scan(text, s, i) = [out |-> Append(s.out, text[i]), next |-> i + 1]
      BY <1>7, <3>1, Zenon DEF Scan
    <3> QED BY <2>3, <3>2, Zenon
  <2> HIDE DEF new
  <2>5. Scanned(text, [out |-> s.out \o new, next |-> i + 1], i)
    BY <1>1, <1>5, <2>1, <2>2
  <2> QED BY <2>4, <2>5
<1>8. CASE ~Full(text, i - 1) /\ NamesAt(text, i) # {}
  <2> DEFINE name == Longest(NamesAt(text, i))
             new == Paraphrase(name)
  <2>1. \/ text[i] = "batman" /\ name = <<"batman">>
        \/ /\ text[i] = "spongebob"
           /\ name = IF Full(text, i) THEN <<"spongebob", "squarepants">> ELSE <<"spongebob">>
    BY <1>8, NameTaken
  <2>2. Scan(text, s, i) = [out |-> s.out \o new, next |-> i + Len(name)]
    BY <1>1, <1>2, <1>8 DEF Scan
  <2> HIDE DEF name
  <2>3. Len(name) \in Nat /\ i + Len(name) = IF Full(text, i) THEN i + 2 ELSE i + 1
    <3>1. /\ Len(<<"batman">>) = 1 /\ Len(<<"spongebob">>) = 1
          /\ Len(<<"spongebob", "squarepants">>) = 2
      OBVIOUS
    <3>2. text[i] = "batman" => ~Full(text, i)
      BY DEF Full
    <3>3. Len(name) = IF Full(text, i) THEN 2 ELSE 1
      BY <2>1, <3>1, <3>2
    <3> QED BY <1>1, <3>3
  <2>4. /\ new \in Prose
        /\ \A w \in ToSet(new) : w \in Paraphrases
        /\ text[i] = "spongebob" => "character" \in ToSet(new)
    <3>1. CASE text[i] = "batman" /\ name = <<"batman">>
      <4>1. new = <<"superhero">>
        BY <3>1 DEF Paraphrase
      <4>2. "superhero" \in Word
        BY DEF Word
      <4>3. <<"superhero">> \in Prose /\ ToSet(<<"superhero">>) = {"superhero"}
        BY <4>2 DEF Prose, ToSet
      <4> QED BY <3>1, <4>1, <4>3 DEF Paraphrases
    <3>2. CASE text[i] = "spongebob" /\ name # <<"batman">>
      <4> DEFINE both == <<"sea-sponge", "character">>
      <4>1. new = both
        BY <3>2 DEF Paraphrase
      <4>2. "sea-sponge" \in Word /\ "character" \in Word
        BY DEF Word
      <4>3. both \in Prose /\ ToSet(both) = {"sea-sponge", "character"}
        BY <4>2 DEF Prose, ToSet
      <4> QED BY <4>1, <4>3 DEF Paraphrases
    <3>3. <<"spongebob">> # <<"batman">> /\ <<"spongebob", "squarepants">> # <<"batman">>
      OBVIOUS
    <3> QED BY <2>1, <3>1, <3>2, <3>3
  <2>5. text[i] \in NameWords
    BY <1>4, <2>1
  <2> HIDE DEF new
  <2>6. Scanned(text, [out |-> s.out \o new, next |-> i + Len(name)], i)
    <3> DEFINE next == i + Len(name)
    <3>1. next \in Nat /\ next = IF Full(text, i) THEN i + 2 ELSE i + 1
      BY <1>1, <2>3
    <3> HIDE DEF next
    <3>2. /\ \A w \in ToSet(new) : w \in Paraphrases \/ (w = text[i] /\ Uncovered(text, i))
          /\ text[i] \notin NameWords => text[i] \in ToSet(new)
      BY <2>4, <2>5, Zenon
    <3>3. Scanned(text, [out |-> s.out \o new, next |-> next], i)
      <4> HIDE DEF NameWords, Paraphrases, Uncovered, Scanned, ToSet
      <4> QED BY <1>5, <2>4, <3>1, <3>2, Zenon
    <3> QED BY <3>3 DEF next
  <2> QED BY <2>2, <2>6
<1> QED BY <1>6, <1>7, <1>8

(* What the model is told of a wish: of the names only what stands for     *)
(* them, and everything that is no name                                    *)
LEMMA Neutral ==
  ASSUME NEW text \in Prose
  PROVE  /\ NeutralizeIp(text) \in Prose
         /\ \A w \in ToSet(NeutralizeIp(text)) :
              w \in Paraphrases \/ \E k \in DOMAIN text : w = text[k] /\ Uncovered(text, k)
         /\ ToSet(text) \ NameWords \subseteq ToSet(NeutralizeIp(text))
         /\ "spongebob" \in ToSet(text) => "character" \in ToSet(NeutralizeIp(text))
<1> DEFINE m == Len(text)
           D == [out : Prose, next : Nat]
           b == [out |-> <<>>, next |-> 1]
           Is(f) == f = [i \in 0..m |-> IF i = 0 THEN b ELSE Scan(text, f[i - 1], i)]
           K == CHOOSE f : Is(f)
           P == {n \in 0..m : Scanned(text, K[n], n)}
<1>1. m \in Nat /\ NeutralizeIp(text) = K[m].out /\ DOMAIN text = 1..m
  BY DEF NeutralizeIp, Prose
<1> HIDE DEF m
<1>2. b \in D
  BY DEF Prose
(* A scan from any place yields texts, so that the steps can be taken      *)
<1>3. \A s \in D, i \in 1..m : Scan(text, s, i) \in D
  <2> SUFFICES ASSUME NEW s \in D, NEW i \in 1..m PROVE Scan(text, s, i) \in D
    OBVIOUS
  <2>1. s.out \in Prose /\ s.next \in Nat /\ i \in Nat /\ text[i] \in Word
    BY <1>1 DEF Prose
  <2>2. CASE i < s.next
    BY <2>2, Zenon DEF Scan
  <2>3. CASE ~(i < s.next) /\ NamesAt(text, i) = {}
    <3>1. Append(s.out, text[i]) \in Prose
      BY <2>1 DEF Prose
    <3>2. Scan(text, s, i) = [out |-> Append(s.out, text[i]), next |-> i + 1]
      BY <2>3, Zenon DEF Scan
    <3> QED BY <2>1, <3>1, <3>2
  <2>4. CASE ~(i < s.next) /\ NamesAt(text, i) # {}
    <3> DEFINE name == Longest(NamesAt(text, i))
    <3>1. name \in {<<"batman">>, <<"spongebob">>, <<"spongebob", "squarepants">>}
      BY <1>1, <2>4, NameTaken DEF m
    <3>2. Scan(text, s, i) = [out |-> s.out \o Paraphrase(name), next |-> i + Len(name)]
      BY <2>4, Zenon DEF Scan
    <3> HIDE DEF name
    <3>3. Len(name) \in Nat
      BY <3>1
    <3>4. Paraphrase(name) \in Prose
      <4>1. "superhero" \in Word /\ "sea-sponge" \in Word /\ "character" \in Word
        BY DEF Word
      <4> QED BY <4>1 DEF Paraphrase, Prose
    <3>5. s.out \o Paraphrase(name) \in Prose
      BY <2>1, <3>4 DEF Prose
    <3> QED BY <2>1, <3>2, <3>3, <3>5
  <2> QED BY <2>2, <2>3, <2>4
<1> DEFINE g == [x \in D \X (1..m) |-> Scan(text, x[1], x[2])]
<1>4. g \in [D \X (1..m) -> D] /\ \A s \in D, i \in 1..m : g[<<s, i>>] = Scan(text, s, i)
  <2> HIDE DEF D
  <2> QED BY <1>3
<1> HIDE DEF g, D, b
<1>5. PICK f : Steps(f, m, D, b, g)
  BY <1>1, <1>2, <1>4, Recursion
<1>6. Is(f)
  <2>1. ASSUME NEW i \in 0..m PROVE f[i] = IF i = 0 THEN b ELSE Scan(text, f[i - 1], i)
    <3>1. CASE i = 0
      BY <1>5, <3>1 DEF Steps
    <3>2. CASE i # 0
      <4>1. i \in 1..m /\ i - 1 \in 0..m
        BY <1>1, <3>2
      <4>2. f[i - 1] \in D /\ f[i] = g[<<f[i - 1], i>>]
        BY <1>5, <4>1 DEF Steps
      <4> QED BY <1>4, <3>2, <4>1, <4>2
    <3> QED BY <3>1, <3>2
  <2> QED BY <1>5, <2>1 DEF Steps
<1>7. Is(K)
  <2> HIDE DEF Is
  <2> QED BY <1>6, Zenon
<1>8. K[0] = b /\ \A i \in 1..m : K[i] = Scan(text, K[i - 1], i)
  <2> DEFINE Rhs(i) == IF i = 0 THEN b ELSE Scan(text, K[i - 1], i)
  <2> HIDE DEF K
  <2>1. K = [i \in 0..m |-> Rhs(i)]
    BY <1>7
  <2>2. 0 \in 0..m /\ \A i \in 1..m : i \in 0..m /\ i # 0
    BY <1>1
  <2>3. Rhs(0) = b /\ \A i \in 1..m : Rhs(i) = Scan(text, K[i - 1], i)
    BY <2>2
  <2> HIDE DEF Rhs
  <2>4. \A i \in 0..m : K[i] = Rhs(i)
    BY <2>1
  <2> QED BY <2>2, <2>3, <2>4
<1> HIDE DEF K, Is
<1>9. 0 \in P
  BY <1>1, <1>8, ScanStarts DEF b
<1>10. ASSUME NEW n \in 0..(m - 1), n \in P PROVE n + 1 \in P
  <2> DEFINE x == n + 1
  <2>1. x \in 1..Len(text) /\ x - 1 = n /\ x \in 0..m /\ x \in 1..m
    BY <1>1 DEF m
  <2>2. K[x] = Scan(text, K[n], x) /\ Scanned(text, K[n], n)
    BY <1>8, <1>10, <2>1
  <2> HIDE DEF x
  <2>3. Scanned(text, K[x], x)
    BY <2>1, <2>2, ScanGoesOn
  <2>4. x \in P
    BY <2>1, <2>3
  <2> QED BY <2>4 DEF x
<1>11. m \in P
  <2> HIDE DEF P
  <2>1. m \in 0..m
    BY <1>1
  <2> QED BY <1>1, <1>9, <1>10, <2>1, UpTo
<1>12. Scanned(text, K[m], m)
  BY <1>11
<1> DEFINE out == K[m].out
<1>13. /\ out \in Prose
       /\ \A w \in ToSet(out) : w \in Paraphrases \/ \E k \in 1..m : w = text[k] /\ Uncovered(text, k)
       /\ \A k \in 1..m : text[k] \notin NameWords => text[k] \in ToSet(out)
       /\ \A k \in 1..m : text[k] = "spongebob" => "character" \in ToSet(out)
  BY <1>12 DEF Scanned
<1>14. ToSet(text) = {text[k] : k \in 1..m}
  BY <1>1 DEF ToSet
<1> HIDE DEF out
<1>15. ToSet(text) \ NameWords \subseteq ToSet(out) /\ ("spongebob" \in ToSet(text) => "character" \in ToSet(out))
  BY <1>13, <1>14
<1> QED BY <1>1, <1>13, <1>15 DEF out
-----------------------------------------------------------------------------
(* The invariant: how far a request has come, and which operator computed  *)
(* what it ended in                                                        *)
ByHand == result = Mechanical(ask) /\ ~Untranslatable(ask)
ByModel == \E reply \in Replies(ask) \ {<<>>} : result = FromReply(ask, reply)
Progress ==
  /\ pc = "asked" => calls = 0 /\ timeouts = 0
  /\ pc = "calling" => ask.kind \in {"image", "video"} /\ calls < MaxCalls /\ timeouts = 0
  /\ pc = "fallback" => ask.kind \in {"image", "video"} /\ (~ask.enabled \/ calls > 0)
  /\ pc \in {"calling", "fallback"} => Worded
Outcome ==
  /\ Written("image") => ByHand \/ ByModel
  /\ Written("style") => result = StylePrompt(ask.style, ask.editing)
  /\ Written("video") /\ ~Worded => result = BoardOf(ask.tile, ask.photo, ask.answers)
  /\ Written("home") => result = HomeStyles(ask.shelf, ask.liked, ask.limit)
  /\ Written("catalogue") => result = WholeCatalogue(ask.shelf, ask.liked, PageLimit)
  /\ Written("shots") => result = DailyShots(ask.shelf, ask.day, ask.limit, ask.override)
  /\ Written("bootstrap") =>
       result = ListStyles(ask.shelf, OnHome(ask.shelf), ask.limit)
                  \o DailyShots(ask.shelf, ask.day, ask.limit, ask.override)
  /\ pc = "refused" => (~ask.enabled \/ calls > 0) /\ Untranslatable(ask)
Inv == TypeOK /\ OnePatience /\ ask \in Requests /\ Progress /\ Outcome

LEMMA NoBlankNegative ==
  ASSUME NEW key, NEW tail
  PROVE  /\ NegativeFor(key) \in {"drawn", "general"}
         /\ SplitNegative(tail) \in {"given", "general"}
  BY DEF NegativeFor, SplitNegative

LEMMA InitInv == Init => Inv
  BY StudioAssumption DEF Init, Inv, TypeOK, OnePatience, Progress, Outcome, Written, Ends

(* An action that writes need only say what, and that nobody is called or  *)
(* waited for after it; one that does not write leaves no outcome.         *)
LEMMA Writes ==
  ASSUME Inv, NEW words, NEW bad, Write(words, bad), pc \in {"asked", "calling", "fallback"},
         calls' \in {calls, calls + 1}, calls' \in 0..MaxCalls,
         bad \in {"none", "general", "drawn", "given"},
         ask.kind \in {"image", "style"} => bad # "none",
         ask.kind # "video" \/ ~Worded => Outcome'
  PROVE  Inv'
<1>1. /\ pc' = "written" /\ ask' = ask /\ timeouts' = timeouts /\ negative' = bad
      /\ calls \in 0..MaxCalls /\ timeouts \in 0..calls /\ ask.kind \in Kinds
  BY DEF Write, Inv, TypeOK
<1>2. timeouts' \in 0..calls'
  BY <1>1, StudioAssumption
<1>3. TypeOK'
  BY <1>1, <1>2 DEF TypeOK, Ends, Written
<1>4. OnePatience'
  BY <1>1 DEF Inv, OnePatience
<1>5. Outcome'
  BY <1>1 DEF Outcome, Written, Worded
<1> QED BY <1>1, <1>3, <1>4, <1>5 DEF Inv, Progress

LEMMA Moves ==
  ASSUME Inv, NEW state \in {"calling", "fallback", "raised"}, Become(state),
         calls' \in 0..MaxCalls, timeouts' \in 0..calls', timeouts' <= 1,
         state = "calling" => ask.kind \in {"image", "video"} /\ calls' < MaxCalls /\ timeouts' = 0,
         state = "fallback" => ask.kind \in {"image", "video"} /\ (~ask.enabled \/ calls' > 0),
         state \in {"calling", "fallback"} => Worded
  PROVE  Inv'
<1>1. pc' = state /\ ask' = ask /\ negative' = negative /\ result' = result
  BY DEF Become
<1>2. /\ TypeOK'
      /\ OnePatience'
      /\ Progress'
      /\ Outcome'
  BY <1>1 DEF Inv, TypeOK, OnePatience, Progress, Outcome, Written, Ends, Worded
<1> QED BY <1>1, <1>2 DEF Inv

LEMMA NextInv == Inv /\ [Next]_vars => Inv'
<1> SUFFICES ASSUME Inv, [Next]_vars PROVE Inv'
  OBVIOUS
<1>1. /\ MaxCalls \in Nat \ {0} /\ calls \in 0..MaxCalls /\ timeouts \in 0..calls /\ timeouts <= 1
      /\ ask \in Requests /\ ask.kind \in Kinds /\ calls \in Nat /\ timeouts \in Nat
  BY StudioAssumption DEF Inv, TypeOK, OnePatience
<1>2. CASE Home
  <2>1. Write(HomeStyles(ask.shelf, ask.liked, ask.limit), "none") /\ calls' = calls
        /\ pc = "asked" /\ ask.kind = "home"
    BY <1>2 DEF Home
  <2>2. Outcome'
    BY <2>1 DEF Write, Outcome, Written
  <2> QED BY <1>1, <2>1, <2>2, Writes
<1>3. CASE Browse
  <2>1. Write(WholeCatalogue(ask.shelf, ask.liked, PageLimit), "none") /\ calls' = calls
        /\ pc = "asked" /\ ask.kind = "catalogue"
    BY <1>3 DEF Browse
  <2>2. Outcome'
    BY <2>1 DEF Write, Outcome, Written
  <2> QED BY <1>1, <2>1, <2>2, Writes
<1>4. CASE Shots
  <2>1. Write(DailyShots(ask.shelf, ask.day, ask.limit, ask.override), "none") /\ calls' = calls
        /\ pc = "asked" /\ ask.kind = "shots"
    BY <1>4 DEF Shots
  <2>2. Outcome'
    BY <2>1 DEF Write, Outcome, Written
  <2> QED BY <1>1, <2>1, <2>2, Writes
<1>5. CASE Bootstrap
  <2> DEFINE both == ListStyles(ask.shelf, OnHome(ask.shelf), ask.limit)
                       \o DailyShots(ask.shelf, ask.day, ask.limit, ask.override)
  <2>1. Write(both, "none") /\ calls' = calls /\ pc = "asked" /\ ask.kind = "bootstrap"
    BY <1>5 DEF Bootstrap
  <2>2. Outcome'
    BY <2>1 DEF Write, Outcome, Written
  <2> HIDE DEF both
  <2> QED BY <1>1, <2>1, <2>2, Writes
<1>6. CASE WriteStyle
  <2> DEFINE bad == NegativeFor(StyleAnchor(ask.style, ask.editing))
  <2>1. Write(StylePrompt(ask.style, ask.editing), bad) /\ calls' = calls
        /\ pc = "asked" /\ ask.kind = "style"
    BY <1>6 DEF WriteStyle
  <2>2. Outcome'
    BY <2>1 DEF Write, Outcome, Written
  <2>3. bad \in {"drawn", "general"}
    BY NoBlankNegative
  <2> HIDE DEF bad
  <2> QED BY <1>1, <2>1, <2>2, <2>3, Writes
<1>7. CASE WriteBoard
  <2> DEFINE board == BoardOf(ask.tile, ask.photo, ask.answers)
  <2>1. Write(board, "none") /\ calls' = calls /\ pc = "asked" /\ ask.kind = "video"
    BY <1>7 DEF WriteBoard
  <2>2. Outcome'
    BY <2>1 DEF Write, Outcome, Written
  <2> HIDE DEF board
  <2> QED BY <1>1, <2>1, <2>2, Writes
<1>8. CASE Consult
  <2> DEFINE state == IF ask.enabled THEN "calling" ELSE "fallback"
  <2>1. Become(state) /\ calls' = calls /\ timeouts' = timeouts /\ ask.kind \in {"image", "video"}
        /\ calls = 0 /\ timeouts = 0 /\ Worded
    BY <1>8 DEF Consult, Worded, Inv, Progress
  <2>2. state \in {"calling", "fallback"} /\ (state = "fallback" => ~ask.enabled)
    OBVIOUS
  <2> HIDE DEF state
  <2> QED BY <1>1, <2>1, <2>2, Moves
<1>9. CASE Refused
  <2> DEFINE state == IF ask.kind = "image" /\ calls' < MaxCalls THEN "calling" ELSE "fallback"
  <2>1. Become(state) /\ calls' = calls + 1 /\ timeouts' = timeouts /\ ask.kind \in {"image", "video"}
        /\ calls < MaxCalls /\ timeouts = 0 /\ Worded
    BY <1>9 DEF Refused, Inv, Progress
  <2>2. state \in {"calling", "fallback"} /\ (state = "calling" => calls' < MaxCalls)
    OBVIOUS
  <2> HIDE DEF state
  <2> QED BY <1>1, <2>1, <2>2, Moves
<1>10. CASE TimesOut
  <2>1. Become("fallback") /\ calls' = calls + 1 /\ timeouts' = timeouts + 1
        /\ ask.kind \in {"image", "video"} /\ calls < MaxCalls /\ timeouts = 0 /\ Worded
    BY <1>10 DEF TimesOut, Inv, Progress
  <2> QED BY <1>1, <2>1, Moves
<1>11. CASE Rejected
  <2>1. Become("fallback") /\ calls' = calls + 1 /\ timeouts' = timeouts
        /\ ask.kind \in {"image", "video"} /\ calls < MaxCalls /\ timeouts = 0 /\ Worded
    BY <1>11 DEF Rejected, Inv, Progress
  <2> QED BY <1>1, <2>1, Moves
<1>12. CASE Reply
  <2>1. calls' = calls + 1 /\ ask.kind = "image" /\ calls < MaxCalls /\ timeouts = 0 /\ pc = "calling"
        /\ Worded
    BY <1>12 DEF Reply, Inv, Progress
  <2>2. PICK reply \in Replies(ask), tail \in {"given", "blank", "missing"} :
          IF reply = <<>> THEN Become("fallback") /\ UNCHANGED timeouts
          ELSE Write(FromReply(ask, reply),
                     IF ask.tile.template = "none" THEN "general" ELSE SplitNegative(tail))
    BY <1>12, Zenon DEF Reply
  <2>3. CASE reply = <<>>
    BY <1>1, <2>1, <2>2, <2>3, Moves
  <2>4. CASE reply # <<>>
    <3> DEFINE bad == IF ask.tile.template = "none" THEN "general" ELSE SplitNegative(tail)
    <3>1. Write(FromReply(ask, reply), bad)
      BY <2>2, <2>4
    <3>2. bad \in {"given", "general"}
      BY NoBlankNegative
    <3> HIDE DEF bad
    <3>3. ByModel'
      BY <2>4, <3>1 DEF Write, ByModel
    <3>4. Outcome'
      BY <2>1, <3>1, <3>3 DEF Write, Outcome, Written
    <3> QED BY <1>1, <2>1, <3>1, <3>2, <3>4, Writes
  <2> QED BY <2>3, <2>4
<1>13. CASE ReplyBoard
  <2>1. calls' = calls + 1 /\ ask.kind = "video" /\ calls < MaxCalls /\ timeouts = 0 /\ pc = "calling"
        /\ Worded
    BY <1>13 DEF ReplyBoard, Inv, Progress
  <2>2. CASE Become("raised") /\ UNCHANGED timeouts
    BY <1>1, <2>1, <2>2, Moves
  <2>3. CASE \E present \in SUBSET Fields :
               Write(JsonBoard(Translated(NeutralizeIp(Combined)), present), "none")
    <3>1. PICK words : Write(words, "none")
      BY <2>3
    <3> QED BY <1>1, <2>1, <3>1, Writes
  <2> QED BY <1>13, <2>2, <2>3, Zenon DEF ReplyBoard
<1>14. CASE FallBack
  <2>1. calls' = calls /\ pc = "fallback" /\ ask.kind \in {"image", "video"} /\ (~ask.enabled \/ calls > 0)
        /\ Worded
    BY <1>14 DEF FallBack, Inv, Progress
  <2>2. CASE ask.kind = "video"
    <3>1. PICK words : Write(words, "none")
      BY <1>14, <2>2 DEF FallBack
    <3> QED BY <1>1, <2>1, <2>2, <3>1, Writes
  <2>3. CASE ask.kind # "video" /\ ~Untranslatable(ask)
    <3>1. Write(Mechanical(ask), "general") /\ ask.kind = "image"
      BY <1>14, <2>1, <2>3 DEF FallBack
    <3>2. ByHand'
      BY <2>3, <3>1 DEF Write, ByHand
    <3>3. Outcome'
      BY <3>1, <3>2 DEF Write, Outcome, Written
    <3> QED BY <1>1, <2>1, <3>1, <3>3, Writes
  <2>4. CASE ask.kind # "video" /\ Untranslatable(ask)
    <3>1. pc' = "refused" /\ ask' = ask /\ result' = result /\ negative' = negative
          /\ timeouts' = timeouts /\ ask.kind = "image"
      BY <1>14, <2>1, <2>4 DEF FallBack, Become
    <3>2. Outcome'
      BY <2>1, <2>4, <3>1 DEF Outcome, Written
    <3> QED BY <2>1, <3>1, <3>2 DEF Inv, TypeOK, OnePatience, Progress, Ends, Written
  <2> QED BY <2>2, <2>3, <2>4
<1>15. CASE UNCHANGED vars
  <2>1. ask' = ask /\ pc' = pc /\ calls' = calls /\ timeouts' = timeouts /\ result' = result
        /\ negative' = negative
    BY <1>15 DEF vars
  <2>2. Outcome' /\ TypeOK'
    BY <2>1 DEF Inv, TypeOK, Outcome, Written, ByHand, ByModel, Worded
  <2> QED BY <2>1, <2>2 DEF Inv, OnePatience, Progress, Worded
<1> QED
  BY <1>2, <1>3, <1>4, <1>5, <1>6, <1>7, <1>8, <1>9, <1>10, <1>11, <1>12, <1>13, <1>14, <1>15 DEF Next

LEMMA AlwaysInv == Spec => []Inv
  BY InitInv, NextInv, PTL DEF Spec

(* gpt._call: at most MaxCalls requests are sent, at most one of which ran *)
(* into the timeout, and nothing is sent after it; every request is in one *)
(* of its states.  That it also ends is left to TLC.                       *)
THEOREM PatienceHolds == Spec => [](TypeOK /\ OnePatience)
<1>1. Inv => TypeOK /\ OnePatience
  BY DEF Inv
<1> QED BY <1>1, AlwaysInv, PTL

-----------------------------------------------------------------------------
(* The prompt of a wish: which blocks it has and which comes first         *)
LEMMA Stripped ==
  ASSUME NEW text \in Prose
  PROVE  StripBrands(text) \in Prose /\ ToSet(StripBrands(text)) = ToSet(text) \cap (STRING \ Brands)
  BY KeptSet DEF StripBrands, Prose

LEMMA Assembled ==
  ASSUME NEW scene \in Prose, NEW key, NEW isText, NEW editing, NEW subject
  PROVE  LET a == Assemble(scene, key, isText, editing, subject)
         IN  /\ editing => a[1][1] = "identity"
             /\ WordsOf(a) = ToSet(scene) \cap (STRING \ Brands)
             /\ \A i \in DOMAIN a :
                  /\ a[i][1] \in {"identity", "anchor", "scene", "layout", "technical"}
                  /\ a[i][1] = "anchor" => a[i][2][1] = IF key \in Presets THEN key ELSE DefaultStyle
<1> DEFINE preset == IF key \in Presets THEN key ELSE DefaultStyle
           identity == <<"identity", <<IdentityClause(subject, IsDrawn(key))>> >>
           anchor == <<"anchor", <<preset>> >>
           drawn == <<"scene", StripBrands(scene)>>
           layout == <<"layout", <<"text">> >>
           technical == <<"technical", <<preset>> >>
           Blocks == {identity, anchor, drawn, layout, technical}
           p1 == IF editing THEN <<identity>> ELSE <<>>
           p2 == <<anchor, drawn>>
           p3 == IF isText THEN <<layout>> ELSE <<>>
           p4 == <<technical>>
           a == Assemble(scene, key, isText, editing, subject)
<1>1. a = p1 \o p2 \o p3 \o p4
  BY DEF Assemble
<1>2. /\ identity[1] = "identity"
      /\ anchor[1] = "anchor" /\ anchor[2] = <<preset>> /\ <<preset>>[1] = preset
      /\ drawn[1] = "scene" /\ drawn[2] = StripBrands(scene)
      /\ layout[1] = "layout" /\ technical[1] = "technical"
  OBVIOUS
<1> HIDE DEF preset, identity, anchor, drawn, layout, technical, a
<1>3. /\ p1 \in Seq(Blocks) /\ ToSet(p1) = IF editing THEN {identity} ELSE {}
      /\ p2 \in Seq(Blocks) /\ ToSet(p2) = {anchor, drawn}
      /\ p3 \in Seq(Blocks) /\ ToSet(p3) = IF isText THEN {layout} ELSE {}
      /\ p4 \in Seq(Blocks) /\ ToSet(p4) = {technical}
      /\ editing => Len(p1) = 1 /\ p1[1] = identity
  <2>1. {identity, anchor, drawn, layout, technical} = Blocks
    OBVIOUS
  <2> HIDE DEF Blocks
  <2>2. identity \in Blocks /\ anchor \in Blocks /\ drawn \in Blocks /\ layout \in Blocks /\ technical \in Blocks
    BY <2>1
  <2>3. /\ <<>> \in Seq(Blocks) /\ ToSet(<<>>) = {}
        /\ <<identity>> \in Seq(Blocks) /\ Len(<<identity>>) = 1 /\ <<identity>>[1] = identity
        /\ ToSet(<<identity>>) = {identity}
    BY <2>2, Written1
  <2>4. p2 \in Seq(Blocks) /\ ToSet(p2) = {anchor, drawn}
    BY <2>2, Written1
  <2>5. <<layout>> \in Seq(Blocks) /\ ToSet(<<layout>>) = {layout}
    BY <2>2, Written1
  <2>6. p4 \in Seq(Blocks) /\ ToSet(p4) = {technical}
    BY <2>2, Written1
  <2> QED BY <2>3, <2>4, <2>5, <2>6
<1> HIDE DEF p1, p2, p3, p4, Blocks
<1>4. p1 \o p2 \in Seq(Blocks) /\ ToSet(p1 \o p2) = ToSet(p1) \cup ToSet(p2)
      /\ (editing => (p1 \o p2)[1] = identity /\ Len(p1 \o p2) >= 1)
  <2>1. Len(p2) \in Nat /\ (editing => 1 \in 1..Len(p1))
    BY <1>3
  <2> QED BY <1>3, <2>1, Joined
<1>5. p1 \o p2 \o p3 \in Seq(Blocks) /\ ToSet(p1 \o p2 \o p3) = ToSet(p1) \cup ToSet(p2) \cup ToSet(p3)
      /\ (editing => (p1 \o p2 \o p3)[1] = identity /\ Len(p1 \o p2 \o p3) >= 1)
  <2> DEFINE q == p1 \o p2
  <2> HIDE DEF q
  <2>1. q \in Seq(Blocks) /\ ToSet(q) = ToSet(p1) \cup ToSet(p2) /\ (editing => q[1] = identity /\ Len(q) >= 1)
    BY <1>4 DEF q
  <2>2. Len(q) \in Nat /\ Len(p3) \in Nat /\ (editing => 1 \in 1..Len(q))
    BY <1>3, <2>1
  <2>3. q \o p3 \in Seq(Blocks) /\ ToSet(q \o p3) = ToSet(q) \cup ToSet(p3)
        /\ (editing => (q \o p3)[1] = identity /\ Len(q \o p3) >= 1)
    BY <1>3, <2>1, <2>2, Joined
  <2> QED BY <2>1, <2>3 DEF q
<1>6. /\ a \in Seq(Blocks)
      /\ ToSet(a) = ToSet(p1) \cup {anchor, drawn} \cup ToSet(p3) \cup {technical}
      /\ editing => a[1] = identity
  <2> DEFINE q == p1 \o p2 \o p3
  <2> HIDE DEF q
  <2>1. q \in Seq(Blocks) /\ ToSet(q) = ToSet(p1) \cup ToSet(p2) \cup ToSet(p3)
        /\ (editing => q[1] = identity /\ Len(q) >= 1)
    BY <1>5 DEF q
  <2>2. Len(q) \in Nat /\ (editing => 1 \in 1..Len(q))
    BY <2>1
  <2>3. /\ q \o p4 \in Seq(Blocks) /\ ToSet(q \o p4) = ToSet(q) \cup ToSet(p4)
        /\ \A i \in 1..Len(q) : (q \o p4)[i] = q[i]
    <3>1. q \in Seq(Blocks) /\ p4 \in Seq(Blocks)
      BY <1>3, <2>1
    <3> QED BY <3>1, Joined
  <2>4. a = q \o p4
    BY <1>1 DEF q
  <2> QED BY <1>3, <2>1, <2>3, <2>4
<1>7. ToSet(a) \subseteq {identity, anchor, drawn, layout, technical} /\ drawn \in ToSet(a)
  BY <1>3, <1>6
<1>8. \A i \in DOMAIN a : a[i] \in ToSet(a)
  BY DEF ToSet
<1>9. {x \in ToSet(a) : x[1] \in {"scene", "slot"}} = {drawn}
  BY <1>2, <1>7
<1>10. WordsOf(a) = ToSet(StripBrands(scene))
  <2> HIDE DEF ToSet
  <2>1. {b[2] : b \in {drawn}} = {StripBrands(scene)}
    BY <1>2
  <2>2. {ToSet(b[2]) : b \in {drawn}} = {ToSet(StripBrands(scene))}
    BY <1>2
  <2> QED BY <1>9, <2>2 DEF WordsOf
<1>11. WordsOf(a) = ToSet(scene) \cap (STRING \ Brands)
  BY <1>10, Stripped
<1>12. \A i \in DOMAIN a :
         /\ a[i][1] \in {"identity", "anchor", "scene", "layout", "technical"}
         /\ a[i][1] = "anchor" => a[i][2][1] = preset
  BY <1>2, <1>7, <1>8
<1>13. editing => a[1][1] = "identity"
  BY <1>2, <1>6
<1> QED BY <1>11, <1>12, <1>13 DEF a, preset

(* The words of a request that reach a builder                             *)
AllAnswers(r, qs) == UNION {ToSet(r.answers[q]) : q \in qs}

LEMMA Asked ==
  ASSUME NEW r, PictureAsked(r)
  PROVE  /\ Answered(r) \in Seq(STRING)
         /\ ToSet(Answered(r)) = {q \in ToSet(r.tile.questions) : r.answers[q] # <<>>}
         /\ \A q \in ToSet(Answered(r)) : q \in DOMAIN r.answers /\ r.answers[q] \in Seq(STRING)
         /\ r.free \in Seq(STRING) /\ r.tile.title \in Seq(STRING) /\ r.tile.questions \in Seq(STRING)
<1>1. r.tile.questions \in Seq(STRING) /\ r.tile.title \in Seq(STRING)
  BY DEF PictureAsked, Tile, Text
<1>2. r.free \in Seq(STRING)
  BY DEF PictureAsked, Text
<1>3. ToSet(r.tile.questions) \subseteq DOMAIN r.answers /\ \A q \in DOMAIN r.answers : r.answers[q] \in Seq(STRING)
  BY DEF PictureAsked, Text
<1> DEFINE said == {q \in ToSet(r.tile.questions) : r.answers[q] # <<>>}
<1>4. said \subseteq ToSet(r.tile.questions)
  OBVIOUS
<1>5. Answered(r) = Kept(r.tile.questions, said)
  BY DEF Answered
<1> HIDE DEF said
<1>6. Answered(r) \in Seq(STRING) /\ ToSet(Answered(r)) = said
  <2>1. /\ Kept(r.tile.questions, said) \in Seq(STRING)
        /\ ToSet(Kept(r.tile.questions, said)) = ToSet(r.tile.questions) \cap said
    BY <1>1, KeptSet
  <2> QED BY <1>4, <1>5, <2>1
<1> QED BY <1>1, <1>2, <1>3, <1>4, <1>6 DEF said

LEMMA AnsweredWords ==
  ASSUME NEW r, PictureAsked(r), NEW qs \in Seq(STRING), ToSet(qs) \subseteq DOMAIN r.answers
  PROVE  AnswersTo(r, qs) \in Seq(STRING) /\ ToSet(AnswersTo(r, qs)) = AllAnswers(r, ToSet(qs))
<1> DEFINE ss == [i \in DOMAIN qs |-> r.answers[qs[i]]]
<1>1. Len(qs) \in Nat /\ DOMAIN qs = 1..Len(qs) /\ \A i \in 1..Len(qs) : qs[i] \in ToSet(qs)
  BY DEF ToSet
<1>2. \A q \in DOMAIN r.answers : r.answers[q] \in Seq(STRING)
  BY DEF PictureAsked, Text
<1>3. \A i \in 1..Len(qs) : r.answers[qs[i]] \in Seq(STRING)
  BY <1>1, <1>2
<1>4. ss \in Seq(Seq(STRING)) /\ Len(ss) = Len(qs) /\ \A i \in 1..Len(qs) : ss[i] = r.answers[qs[i]]
  BY <1>1, <1>3
<1> HIDE DEF ss
<1>5. FlattenSeq(ss) \in Seq(STRING) /\ ToSet(FlattenSeq(ss)) = UNION {ToSet(ss[i]) : i \in 1..Len(ss)}
  BY <1>4, Flattened
<1>6. UNION {ToSet(ss[i]) : i \in 1..Len(ss)} = AllAnswers(r, ToSet(qs))
  <2>1. {ToSet(ss[i]) : i \in 1..Len(ss)} = {ToSet(r.answers[q]) : q \in ToSet(qs)}
    <3>1. ToSet(qs) = {qs[i] : i \in 1..Len(qs)}
      BY <1>1 DEF ToSet
    <3> HIDE DEF ToSet
    <3>2. \A i \in 1..Len(ss) : ToSet(ss[i]) = ToSet(r.answers[qs[i]])
      BY <1>4
    <3> QED BY <1>4, <3>1, <3>2
  <2> QED BY <2>1 DEF AllAnswers
<1>7. AnswersTo(r, qs) = FlattenSeq(ss)
  BY DEF AnswersTo, ss
<1> QED BY <1>5, <1>6, <1>7

LEMMA Left ==
  ASSUME NEW qs \in Seq(STRING), NEW ids
  PROVE  Without(qs, ids) \in Seq(STRING) /\ ToSet(Without(qs, ids)) = ToSet(qs) \ ids
<1>1. ToSet(qs) \subseteq STRING
  BY DEF ToSet
<1>2. Without(qs, ids) \in Seq(STRING) /\ ToSet(Without(qs, ids)) = ToSet(qs) \cap (STRING \ ids)
  BY KeptSet DEF Without
<1> QED BY <1>1, <1>2

Translation(w) == IF w = "koshka" THEN "cat" ELSE IF w = "gory" THEN "mountain" ELSE w
LEMMA TranslatedWords ==
  ASSUME NEW text \in Prose
  PROVE  /\ Translated(text) \in Prose
         /\ ToSet(Translated(text)) = {Translation(w) : w \in ToSet(text)}
<1> DEFINE t == Translated(text)
<1>1. Len(text) \in Nat /\ DOMAIN text = 1..Len(text) /\ \A i \in 1..Len(text) : text[i] \in Word
  BY DEF Prose
<1>2. "cat" \in Word /\ "mountain" \in Word
  BY DEF Word
<1>3. \A w \in Word : Translation(w) \in Word
  BY <1>2 DEF Translation
<1>4. t = [i \in 1..Len(text) |-> Translation(text[i])]
  BY <1>1 DEF Translated, Translation
<1> HIDE DEF t
<1>5. t \in Seq(Word)
  BY <1>1, <1>3, <1>4
<1>6. ToSet(t) = {Translation(w) : w \in ToSet(text)}
  <2>1. ToSet(t) = {Translation(text[i]) : i \in 1..Len(text)}
    BY <1>4 DEF ToSet
  <2>2. ToSet(text) = {text[i] : i \in 1..Len(text)}
    BY <1>1 DEF ToSet
  <2> QED BY <2>1, <2>2
<1> QED BY <1>5, <1>6 DEF t, Prose

LEMMA ToldWords ==
  ASSUME NEW r, PictureAsked(r)
  PROVE  LET asking == AllAnswers(r, ToSet(Answered(r)) \ {"text"}) \cup ToSet(NeutralizeIp(r.free))
         IN  /\ Told(r) \in Prose
             /\ asking \subseteq ToSet(Told(r))
             /\ ToSet(Told(r)) \subseteq asking \cup {"default", "mood"}
<1> DEFINE qs == Without(Answered(r), {"text"})
           asking == AllAnswers(r, ToSet(Answered(r)) \ {"text"}) \cup ToSet(NeutralizeIp(r.free))
<1>1. qs \in Seq(STRING) /\ ToSet(qs) = ToSet(Answered(r)) \ {"text"}
  BY Asked, Left
<1>2. ToSet(qs) \subseteq DOMAIN r.answers
  BY <1>1, Asked
<1> HIDE DEF qs
<1>3. AnswersTo(r, qs) \in Seq(STRING) /\ ToSet(AnswersTo(r, qs)) = AllAnswers(r, ToSet(qs))
  BY <1>1, <1>2, AnsweredWords
<1>4. AnswersTo(r, qs) \in Prose /\ r.free \in Prose
  BY <1>3, Asked, TextIsProse DEF Text
<1>5. NeutralizeIp(r.free) \in Prose
  BY <1>4, Neutral
<1>6. Asking(r) = AnswersTo(r, qs) \o NeutralizeIp(r.free)
  BY DEF Asking, qs
<1>7. Asking(r) \in Prose /\ ToSet(Asking(r)) = asking
  BY <1>1, <1>3, <1>4, <1>5, <1>6, Joined DEF Prose
<1> HIDE DEF asking
<1>8. CASE Asking(r) # <<>>
  BY <1>7, <1>8 DEF Told, asking
<1>9. CASE Asking(r) = <<>>
  <2>1. Unsaid(r) \in Word /\ Unsaid(r) \in {"default", "mood"}
    BY DEF Unsaid, Word
  <2>2. <<Unsaid(r)>> \in Prose /\ ToSet(<<Unsaid(r)>>) = {Unsaid(r)}
    BY <2>1, Written1 DEF Prose
  <2>3. asking = {}
    BY <1>7, <1>9 DEF ToSet
  <2> QED BY <1>9, <2>1, <2>2, <2>3 DEF Told, asking
<1> QED BY <1>8, <1>9

(* A reply has every word it was told, translated, and at most a brand.    *)
LEMMA ReplyWords ==
  ASSUME NEW r, PictureAsked(r), NEW reply \in Replies(r) \ {<<>>}
  PROVE  /\ reply \in Prose
         /\ {Translation(w) : w \in ToSet(Told(r))} \subseteq ToSet(reply)
         /\ ToSet(reply) \subseteq {Translation(w) : w \in ToSet(Told(r))} \cup {"pixar"}
<1> DEFINE t == Translated(Told(r))
<1>1. t \in Prose /\ ToSet(t) = {Translation(w) : w \in ToSet(Told(r))}
  BY ToldWords, TranslatedWords
<1>2. reply = t \/ reply = Append(t, "pixar")
  BY DEF Replies
<1> HIDE DEF t
<1>3. CASE reply = t
  BY <1>1, <1>3
<1>4. CASE reply = Append(t, "pixar")
  <2>1. "pixar" \in Word
    BY DEF Word
  <2> DEFINE last == <<"pixar">>
  <2>2. last \in Seq(Word) /\ ToSet(last) = {"pixar"}
    BY <2>1, Written1
  <2>3. t \in Seq(Word) /\ reply = t \o last
    BY <1>1, <1>4, <2>1 DEF Prose
  <2> HIDE DEF last
  <2>4. t \o last \in Seq(Word) /\ ToSet(t \o last) = ToSet(t) \cup ToSet(last)
    BY <2>2, <2>3, Joined
  <2> QED BY <1>1, <2>2, <2>3, <2>4 DEF Prose
<1> QED BY <1>2, <1>3, <1>4

LEMMA FromReplyIs ==
  ASSUME NEW r, NEW reply \in Prose
  PROVE  LET b == FromReply(r, reply)
         IN  IF r.tile.template = "none"
             THEN /\ b = Assemble(reply, AnchorFor(r), FALSE, r.editing, "person")
                  /\ WordsOf(b) = ToSet(reply) \cap (STRING \ Brands)
             ELSE /\ 1 \in DOMAIN b /\ b[1][1] = "template"
                  /\ WordsOf(b) = ToSet(reply)
<1>1. CASE r.tile.template = "none"
  <2>1. FromReply(r, reply) = Assemble(reply, AnchorFor(r), FALSE, r.editing, "person")
    BY <1>1 DEF FromReply
  <2>2. WordsOf(Assemble(reply, AnchorFor(r), FALSE, r.editing, "person")) = ToSet(reply) \cap (STRING \ Brands)
    <3> DEFINE no == FALSE
               key == AnchorFor(r)
               person == "person"
    <3> HIDE DEF no, key, person
    <3>1. WordsOf(Assemble(reply, key, no, r.editing, person)) = ToSet(reply) \cap (STRING \ Brands)
      BY Assembled
    <3> QED BY <3>1 DEF no, key, person
  <2> HIDE DEF WordsOf, Assemble, AnchorFor, Brands
  <2> QED BY <1>1, <2>1, <2>2
<1>2. CASE r.tile.template # "none"
  <2> DEFINE head == <<"template", <<r.tile.id>> >>
             scene == <<"scene", reply>>
             b == <<head, scene>>
             Blocks == {head, scene}
  <2>1. FromReply(r, reply) = b
    BY <1>2 DEF FromReply
  <2>2. head[1] = "template" /\ scene[1] = "scene" /\ scene[2] = reply
    OBVIOUS
  <2>3. 1 \in DOMAIN b /\ b[1] = head
    OBVIOUS
  <2> HIDE DEF head, scene
  <2>4. ToSet(b) = {head, scene}
    <3>1. head \in Blocks /\ scene \in Blocks
      OBVIOUS
    <3> HIDE DEF Blocks
    <3> QED BY <3>1, Written1
  <2> HIDE DEF b
  <2>5. {x \in ToSet(b) : x[1] \in {"scene", "slot"}} = {scene}
    BY <2>2, <2>4
  <2>6. WordsOf(b) = ToSet(reply)
    BY <2>2, <2>5 DEF WordsOf
  <2> QED BY <1>2, <2>1, <2>2, <2>3, <2>6
<1> QED BY <1>1, <1>2

(* The mechanical builder.  No more is answered than is asked.             *)
LEMMA SaidFits ==
  ASSUME NEW r, PictureAsked(r)
  PROVE  Len(Answered(r)) \in Nat /\ Len(r.tile.questions) \in Nat /\ Len(Answered(r)) <= Len(r.tile.questions)
<1> DEFINE said == Answered(r)
           asked == r.tile.questions
           S == {q \in ToSet(asked) : r.answers[q] # <<>>}
<1>1. said \in Seq(STRING) /\ asked \in Seq(STRING) /\ said = Kept(asked, S)
  BY Asked DEF Answered
<1> HIDE DEF S
<1>2. \E at : Selection(at, Kept(asked, S), asked, S, Len(asked))
  BY <1>1, KeptIs
<1> HIDE DEF said, asked
<1>3. PICK at : Selection(at, said, asked, S, Len(asked))
  BY <1>1, <1>2
<1>4. Len(said) \in Nat /\ Len(asked) \in Nat
  BY <1>1
<1>5. CASE Len(said) = 0
  BY <1>4, <1>5 DEF said, asked
<1>6. CASE Len(said) # 0
  <2>1. Len(said) \in 1..Len(said)
    BY <1>4, <1>6
  <2>2. at[Len(said)] \in 1..Len(asked) /\ at[Len(said)] >= Len(said)
    BY <1>3, <2>1 DEF Selection
  <2>3. Len(said) <= Len(asked)
    BY <1>4, <2>2
  <2> QED BY <1>4, <2>3 DEF said, asked
<1> QED BY <1>5, <1>6

LEMMA FilledIs ==
  ASSUME NEW r, PictureAsked(r), r.tile.template = "picture"
  PROVE  /\ Mechanical(r)[1][1] = "template" /\ 1 \in DOMAIN Mechanical(r)
         /\ \A i \in 1..Len(r.tile.questions) :
              Mechanical(r)[i + 1] = <<"slot", IF i <= Len(Answered(r)) THEN r.answers[Answered(r)[i]]
                                               ELSE <<"default">> >>
         /\ AllAnswers(r, ToSet(Answered(r))) \subseteq WordsOf(Mechanical(r))
         /\ WordsOf(Mechanical(r)) \subseteq AllAnswers(r, ToSet(Answered(r))) \cup {"default"}
<1> DEFINE said == Answered(r)
           n == Len(r.tile.questions)
           fill == Fill(r)
           head == << <<"template", <<r.tile.id>> >> >>
           slots == [i \in DOMAIN fill |-> <<"slot", fill[i]>>]
           b == Mechanical(r)
           Filled(i) == <<"slot", fill[i]>>
           Blocks == {head[1]} \cup {Filled(i) : i \in 1..n}
<1>1. said \in Seq(STRING) /\ Len(said) \in Nat /\ n \in Nat /\ Len(said) <= n /\ DOMAIN r.tile.questions = 1..n
      /\ DOMAIN said = 1..Len(said)
  BY Asked, SaidFits
<1>2. fill = [i \in 1..n |-> IF i <= Len(said) THEN r.answers[said[i]] ELSE <<"default">>]
  BY <1>1 DEF Fill
<1>3. b = head \o slots
  BY DEF Mechanical
<1> HIDE DEF fill, n, b
<1>4. DOMAIN fill = 1..n /\ \A i \in 1..n : fill[i] = IF i <= Len(said) THEN r.answers[said[i]] ELSE <<"default">>
  BY <1>2
<1>5. head[1][1] = "template" /\ Len(head) = 1 /\ \A i \in 1..n : Filled(i)[1] = "slot" /\ Filled(i)[2] = fill[i]
  OBVIOUS
<1>6. slots \in Seq(Blocks) /\ Len(slots) = n /\ ToSet(slots) = {Filled(i) : i \in 1..n}
      /\ \A i \in 1..n : slots[i] = Filled(i)
  <2>1. slots = [i \in 1..n |-> Filled(i)]
    BY <1>4
  <2> HIDE DEF Filled, slots, head
  <2>2. slots \in [1..n -> Blocks] /\ \A i \in 1..n : slots[i] = Filled(i)
    BY <2>1
  <2> HIDE DEF Blocks
  <2>3. slots \in Seq(Blocks) /\ Len(slots) = n /\ DOMAIN slots = 1..n
    BY <1>1, <2>2
  <2>4. ToSet(slots) = {Filled(i) : i \in 1..n}
    BY <2>2, <2>3 DEF ToSet
  <2> QED BY <2>2, <2>3, <2>4
<1>7. head \in Seq(Blocks) /\ ToSet(head) = {head[1]}
  <2>1. head[1] \in Blocks /\ head = <<head[1]>>
    OBVIOUS
  <2> HIDE DEF head, Blocks
  <2>2. <<head[1]>> \in Seq(Blocks) /\ ToSet(<<head[1]>>) = {head[1]}
    BY <2>1, Written1
  <2> QED BY <2>1, <2>2
<1> HIDE DEF head, slots, Blocks, Filled, said
<1>8. /\ b \in Seq(Blocks) /\ ToSet(b) = ToSet(head) \cup ToSet(slots) /\ Len(b) = Len(head) + Len(slots)
      /\ \A i \in 1..Len(head) : b[i] = head[i]
      /\ \A i \in 1..Len(slots) : b[Len(head) + i] = slots[i]
  <2>1. head \in Seq(Blocks) /\ slots \in Seq(Blocks)
    BY <1>6, <1>7
  <2>2. /\ head \o slots \in Seq(Blocks) /\ ToSet(head \o slots) = ToSet(head) \cup ToSet(slots)
        /\ Len(head \o slots) = Len(head) + Len(slots)
    BY <2>1, Joined
  <2>3. /\ \A i \in 1..Len(head) : (head \o slots)[i] = head[i]
        /\ \A i \in 1..Len(slots) : (head \o slots)[Len(head) + i] = slots[i]
    BY <2>1, Joined
  <2> QED BY <1>3, <2>2, <2>3
<1>9. b[1][1] = "template" /\ 1 \in DOMAIN b
  BY <1>1, <1>5, <1>8
<1>10. \A i \in 1..n : b[i + 1] = <<"slot", IF i <= Len(said) THEN r.answers[said[i]] ELSE <<"default">> >>
  <2> SUFFICES ASSUME NEW i \in 1..n
               PROVE  b[i + 1] = <<"slot", IF i <= Len(said) THEN r.answers[said[i]] ELSE <<"default">> >>
    OBVIOUS
  <2>1. b[1 + i] = Filled(i) /\ 1 + i = i + 1
    BY <1>1, <1>5, <1>6, <1>8
  <2>2. Filled(i) = <<"slot", IF i <= Len(said) THEN r.answers[said[i]] ELSE <<"default">> >>
    BY <1>4 DEF Filled
  <2> QED BY <2>1, <2>2
<1>11. {x \in ToSet(b) : x[1] \in {"scene", "slot"}} = {Filled(i) : i \in 1..n}
  BY <1>5, <1>6, <1>7, <1>8
<1>12. WordsOf(b) = UNION {ToSet(fill[i]) : i \in 1..n}
  <2>1. {ToSet(x[2]) : x \in {Filled(i) : i \in 1..n}} = {ToSet(fill[i]) : i \in 1..n}
    <3> HIDE DEF ToSet
    <3> QED BY <1>5
  <2> QED BY <1>11, <2>1 DEF WordsOf
<1>13. ASSUME NEW w \in AllAnswers(r, ToSet(said)) PROVE w \in WordsOf(b)
  <2>1. PICK q \in ToSet(said) : w \in ToSet(r.answers[q])
    BY DEF AllAnswers
  <2>2. PICK i \in 1..Len(said) : q = said[i]
    BY <1>1 DEF ToSet, said
  <2>3. i \in 1..n /\ fill[i] = r.answers[q]
    BY <1>1, <1>4, <2>2 DEF said
  <2> QED BY <1>12, <2>1, <2>3
<1>14. ASSUME NEW w \in WordsOf(b) PROVE w \in AllAnswers(r, ToSet(said)) \cup {"default"}
  <2>1. PICK i \in 1..n : w \in ToSet(fill[i])
    BY <1>12
  <2>2. CASE i <= Len(said)
    <3>1. fill[i] = r.answers[said[i]] /\ said[i] \in ToSet(said)
      BY <1>1, <1>4, <2>2 DEF ToSet, said
    <3> QED BY <2>1, <3>1 DEF AllAnswers
  <2>3. CASE ~(i <= Len(said))
    <3>1. fill[i] = <<"default">>
      BY <1>4, <2>3
    <3>2. ToSet(<<"default">>) = {"default"}
      BY DEF ToSet
    <3> QED BY <2>1, <3>1, <3>2
  <2> QED BY <2>2, <2>3
<1> QED BY <1>9, <1>10, <1>13, <1>14 DEF b, n, said

LEMMA ScenePartsAre ==
  ASSUME NEW r, PictureAsked(r)
  PROVE  /\ SceneParts(r) \in Prose
         /\ ToSet(SceneParts(r)) = ToSet(r.tile.title) \cup ToSet(r.free) \cup {"mood"}
                                     \cup AllAnswers(r, ToSet(Answered(r)) \ {"text", "style"})
<1> DEFINE qs == Drawable(r)
           a == AnswersTo(r, qs)
           t == r.tile.title
           f == r.free
           m == <<"mood">>
<1>1. qs \in Seq(STRING) /\ ToSet(qs) = ToSet(Answered(r)) \ {"text", "style"}
  BY Asked, Left DEF Drawable
<1>2. ToSet(qs) \subseteq DOMAIN r.answers
  BY <1>1, Asked
<1> HIDE DEF qs
<1>3. a \in Seq(STRING) /\ ToSet(a) = AllAnswers(r, ToSet(qs))
  BY <1>1, <1>2, AnsweredWords
<1>4. a \in Seq(Word) /\ t \in Seq(Word) /\ f \in Seq(Word)
  BY <1>3, Asked, TextIsProse DEF Text, Prose
<1>5. "mood" \in Word
  BY DEF Word
<1>6. m \in Seq(Word) /\ ToSet(m) = {"mood"}
  BY <1>5, Written1
<1>7. SceneParts(r) = t \o a \o f \o m
  BY DEF SceneParts, qs
<1> HIDE DEF a, t, f, m
<1>8. t \o a \in Seq(Word) /\ ToSet(t \o a) = ToSet(t) \cup ToSet(a)
  BY <1>4, Joined
<1> DEFINE u == t \o a
<1> HIDE DEF u
<1>9. u \in Seq(Word)
  BY <1>8 DEF u
<1>10. u \o f \in Seq(Word) /\ ToSet(u \o f) = ToSet(u) \cup ToSet(f)
  BY <1>4, <1>9, Joined
<1> DEFINE v == u \o f
<1> HIDE DEF v
<1>11. v \in Seq(Word)
  BY <1>10 DEF v
<1>12. v \o m \in Seq(Word) /\ ToSet(v \o m) = ToSet(v) \cup ToSet(m)
  BY <1>6, <1>11, Joined
<1>13. SceneParts(r) = v \o m
  BY <1>7 DEF u, v
<1>14. ToSet(v \o m) = ToSet(t) \cup ToSet(a) \cup ToSet(f) \cup {"mood"}
  BY <1>6, <1>8, <1>10, <1>12 DEF u, v
<1> QED BY <1>1, <1>3, <1>12, <1>13, <1>14 DEF Prose, t, f

LEMMA MechanicalIs ==
  ASSUME NEW r, PictureAsked(r), r.tile.template # "picture"
  PROVE  LET key == IF r.editing /\ StyleOf(r) = <<>> THEN "realistic" ELSE MapStyle(StyleOf(r))
         IN  /\ Mechanical(r) = Assemble(SceneParts(r), key, r.tile.template = "card", r.editing, "person")
             /\ WordsOf(Mechanical(r)) = ToSet(SceneParts(r)) \cap (STRING \ Brands)
<1> DEFINE key == IF r.editing /\ StyleOf(r) = <<>> THEN "realistic" ELSE MapStyle(StyleOf(r))
           card == r.tile.template = "card"
           person == "person"
<1>1. Mechanical(r) = Assemble(SceneParts(r), key, card, r.editing, person)
  BY DEF Mechanical
<1>2. SceneParts(r) \in Prose
  BY ScenePartsAre
<1> HIDE DEF key, card, person
<1>3. WordsOf(Assemble(SceneParts(r), key, card, r.editing, person)) = ToSet(SceneParts(r)) \cap (STRING \ Brands)
  BY <1>2, Assembled
<1>4. Mechanical(r) = Assemble(SceneParts(r), key, card, r.editing, person)
      /\ WordsOf(Mechanical(r)) = ToSet(SceneParts(r)) \cap (STRING \ Brands)
  BY <1>1, <1>3
<1> QED BY <1>4 DEF key, card, person

-----------------------------------------------------------------------------
(* The three claims about the words of a prompt                            *)
LEMMA FreeWish ==
  ASSUME NEW r, PictureAsked(r), StyleOf(r) = <<>>
  PROVE  /\ r.editing => AnchorFor(r) = "realistic"
         /\ ToSet(r.free) \cap (LivingWords \cup {"spongebob"}) # {} => AnchorFor(r) \in {"realistic", "3d_cartoon"}
<1> DEFINE words == NeutralizeIp(r.free)
<1>1. r.free \in Prose
  BY Asked, TextIsProse DEF Text
<1>2. ToSet(r.free) \ NameWords \subseteq ToSet(words) /\ ("spongebob" \in ToSet(r.free) => "character" \in ToSet(words))
  BY <1>1, Neutral
<1>3. NameWords = {"spongebob", "squarepants", "batman"}
  <2>1. /\ ToSet(<<"spongebob">>) = {"spongebob"} /\ ToSet(<<"batman">>) = {"batman"}
        /\ ToSet(<<"spongebob", "squarepants">>) = {"spongebob", "squarepants"}
    BY DEF ToSet
  <2> QED BY <2>1 DEF NameWords, Names
<1> HIDE DEF words
<1>4. AnchorFor(r) = IF r.editing THEN "realistic" ELSE IF HasLiving(words) THEN "3d_cartoon"
                     ELSE IF IsEpic(words) THEN "scene_epic" ELSE "scene_cozy"
  BY DEF AnchorFor, words
<1>5. ASSUME ToSet(r.free) \cap (LivingWords \cup {"spongebob"}) # {} PROVE HasLiving(words)
  <2>1. ToSet(words) \cap LivingWords # {}
    BY <1>2, <1>3, <1>5 DEF LivingWords
  <2> QED BY <2>1 DEF HasLiving, ToSet
<1> QED BY <1>4, <1>5

LEMMA RequestIs ==
  ASSUME Inv
  PROVE  /\ ask.kind = "image" => PictureAsked(ask)
         /\ ask.kind = "style" => ask.style.text \in Text /\ ask.editing \in BOOLEAN
         /\ ask.kind = "video" => VideoAsked(ask)
         /\ ask.kind \in Shelves => ShelfAsked(ask)
  BY StudioAssumption DEF Inv

LEMMA InvPersonKept == Inv => PersonKept
<1> SUFFICES ASSUME Inv PROVE PersonKept
  OBVIOUS
<1>1. CASE Written("style")
  <2> DEFINE key == StyleAnchor(ask.style, ask.editing)
             no == FALSE
             subject == ask.style.subject
             text == ask.style.text
  <2>1. result = Assemble(text, key, no, ask.editing, subject) /\ ask.kind = "style"
    BY <1>1 DEF Inv, Outcome, StylePrompt, Written
  <2>2. text \in Prose
    BY <2>1, RequestIs, TextIsProse
  <2> HIDE DEF key, no, subject, text
  <2>3. /\ ask.editing => result[1][1] = "identity"
        /\ WordsOf(result) = ToSet(text) \cap (STRING \ Brands)
    BY <2>1, <2>2, Assembled
  <2> QED BY <2>1, <2>3 DEF PersonKept, FaceFirst, NobodyVanishes, Written
<1>2. CASE Written("image") /\ ByModel
  <2>1. PictureAsked(ask) /\ ask.kind = "image"
    BY <1>2, RequestIs DEF Written
  <2>2. PICK reply \in Replies(ask) \ {<<>>} : result = FromReply(ask, reply)
    BY <1>2 DEF ByModel
  <2>3. reply \in Prose
    BY <2>1, ReplyWords
  <2>4. CASE ask.tile.template # "none"
    <3>1. 1 \in DOMAIN result /\ result[1][1] = "template"
      BY <2>2, <2>3, <2>4, FromReplyIs
    <3> QED BY <2>1, <2>4, <3>1 DEF PersonKept, FaceFirst, NobodyVanishes, Templated
  <2>5. CASE ask.tile.template = "none"
    <3> DEFINE key == AnchorFor(ask)
               no == FALSE
               person == "person"
    <3>1. result = Assemble(reply, key, no, ask.editing, person)
      BY <2>2, <2>3, <2>5, FromReplyIs
    <3> HIDE DEF key, no, person
    <3>2. /\ ask.editing => result[1][1] = "identity"
          /\ \A i \in DOMAIN result : result[i][1] = "anchor" =>
               result[i][2][1] = IF key \in Presets THEN key ELSE DefaultStyle
      BY <2>3, <3>1, Assembled
    <3>3. ASSUME StyleOf(ask) = <<>>,
                 ask.editing \/ ToSet(ask.free) \cap (LivingWords \cup {"spongebob"}) # {},
                 NEW i \in DOMAIN result, result[i][1] = "anchor"
          PROVE  result[i][2][1] \notin Scenes
      <4>1. key \in {"realistic", "3d_cartoon"}
        BY <2>1, <3>3, FreeWish DEF key
      <4>2. result[i][2][1] = key
        BY <3>2, <3>3, <4>1 DEF Presets
      <4> QED BY <4>1, <4>2 DEF Scenes
    <3> QED BY <3>2, <3>3 DEF PersonKept, FaceFirst, NobodyVanishes
  <2> QED BY <2>4, <2>5
<1>3. CASE Written("image") /\ ByHand
  <2>1. PictureAsked(ask) /\ ask.kind = "image" /\ result = Mechanical(ask)
    BY <1>3, RequestIs DEF Written, ByHand
  <2>2. CASE ask.tile.template = "picture"
    <3>1. 1 \in DOMAIN result /\ result[1][1] = "template"
      BY <2>1, <2>2, FilledIs
    <3> QED BY <2>1, <2>2, <3>1 DEF PersonKept, FaceFirst, NobodyVanishes, Templated
  <2>3. CASE ask.tile.template # "picture"
    <3> DEFINE key == IF ask.editing /\ StyleOf(ask) = <<>> THEN "realistic" ELSE MapStyle(StyleOf(ask))
               card == ask.tile.template = "card"
               person == "person"
    <3>1. result = Assemble(SceneParts(ask), key, card, ask.editing, person)
      BY <2>1, <2>3, MechanicalIs
    <3>2. SceneParts(ask) \in Prose
      BY <2>1, ScenePartsAre
    <3> HIDE DEF key, card, person
    <3>3. /\ ask.editing => result[1][1] = "identity"
          /\ \A i \in DOMAIN result : result[i][1] = "anchor" =>
               result[i][2][1] = IF key \in Presets THEN key ELSE DefaultStyle
      BY <3>1, <3>2, Assembled
    <3>4. ASSUME StyleOf(ask) = <<>>, NEW i \in DOMAIN result, result[i][1] = "anchor"
          PROVE  result[i][2][1] \notin Scenes
      <4>1. key \in {"realistic", "3d_cartoon"}
        BY <3>4 DEF key, MapStyle, DefaultStyle
      <4>2. result[i][2][1] = key
        BY <3>3, <3>4, <4>1 DEF Presets
      <4> QED BY <4>1, <4>2 DEF Scenes
    <3> QED BY <3>3, <3>4 DEF PersonKept, FaceFirst, NobodyVanishes
  <2> QED BY <2>2, <2>3
<1>4. Written("image") => ByHand \/ ByModel
  BY DEF Inv, Outcome
<1>5. CASE ~Written("image") /\ ~Written("style")
  BY <1>5 DEF PersonKept, FaceFirst, NobodyVanishes
<1> QED BY <1>1, <1>2, <1>3, <1>4, <1>5

(* prompt_style.py:215-221 and 60-75, for wishes and answers of any        *)
(* length: with a photograph the demand to keep the person comes before    *)
(* the style, and a wish for somebody is never drawn as a scenery of the   *)
(* builder's choice.                                                       *)
THEOREM PersonStays == Spec => []PersonKept
  BY InvPersonKept, AlwaysInv, PTL

(* Where a word of the model's prompt comes from                           *)
LEMMA ModelWords ==
  ASSUME NEW r, PictureAsked(r), NEW reply \in Replies(r) \ {<<>>}, NEW w \in WordsOf(FromReply(r, reply))
  PROVE  \/ w = "pixar" /\ r.tile.template # "none"
         \/ w \in {"default", "mood"}
         \/ \E q \in ToSet(Answered(r)) \ {"text"} : \E v \in ToSet(r.answers[q]) : w = Translation(v)
         \/ \E v \in ToSet(NeutralizeIp(r.free)) : w = Translation(v)
<1>1. reply \in Prose /\ ToSet(reply) \subseteq {Translation(v) : v \in ToSet(Told(r))} \cup {"pixar"}
  BY ReplyWords
<1>2. /\ w \in ToSet(reply)
      /\ r.tile.template = "none" => w \notin Brands
  <2>1. CASE r.tile.template = "none"
    <3>1. WordsOf(FromReply(r, reply)) = ToSet(reply) \cap (STRING \ Brands)
      BY <1>1, <2>1, FromReplyIs
    <3> QED BY <3>1
  <2>2. CASE r.tile.template # "none"
    <3>1. WordsOf(FromReply(r, reply)) = ToSet(reply)
      BY <1>1, <2>2, FromReplyIs
    <3> QED BY <2>2, <3>1
  <2> QED BY <2>1, <2>2
<1>3. CASE w = "pixar"
  BY <1>2, <1>3 DEF Brands
<1>4. CASE w # "pixar"
  <2>1. PICK v \in ToSet(Told(r)) : w = Translation(v)
    BY <1>1, <1>2, <1>4
  <2>2. \/ v \in AllAnswers(r, ToSet(Answered(r)) \ {"text"}) \cup ToSet(NeutralizeIp(r.free))
        \/ v \in {"default", "mood"}
    BY <2>1, ToldWords
  <2>3. CASE v \in AllAnswers(r, ToSet(Answered(r)) \ {"text"})
    <3>1. PICK q \in ToSet(Answered(r)) \ {"text"} : v \in ToSet(r.answers[q])
      BY <2>3 DEF AllAnswers
    <3> QED BY <2>1, <3>1
  <2>4. CASE v \in {"default", "mood"}
    BY <2>1, <2>4 DEF Translation
  <2> QED BY <2>1, <2>2, <2>3, <2>4
<1> QED BY <1>3, <1>4

LEMMA HandWords ==
  ASSUME NEW r, PictureAsked(r), NEW w \in WordsOf(Mechanical(r))
  PROVE  \/ w \in {"default", "mood"}
         \/ \E q \in ToSet(Answered(r)) :
              w \in ToSet(r.answers[q]) /\ (r.tile.template # "picture" => q \notin {"text", "style"})
         \/ r.tile.template # "picture" /\ w \in ToSet(r.tile.title) \cup ToSet(r.free)
<1>1. CASE r.tile.template = "picture"
  <2>1. w \in AllAnswers(r, ToSet(Answered(r))) \cup {"default"}
    BY <1>1, FilledIs
  <2> QED BY <1>1, <2>1 DEF AllAnswers
<1>2. CASE r.tile.template # "picture"
  <2>1. w \in ToSet(SceneParts(r))
    BY <1>2, MechanicalIs
  <2>2. w \in ToSet(r.tile.title) \cup ToSet(r.free) \cup {"mood"}
                \cup AllAnswers(r, ToSet(Answered(r)) \ {"text", "style"})
    BY <2>1, ScenePartsAre
  <2>3. CASE w \in AllAnswers(r, ToSet(Answered(r)) \ {"text", "style"})
    BY <2>3 DEF AllAnswers
  <2> QED BY <1>2, <2>2, <2>3
<1> QED BY <1>1, <1>2

LEMMA Latin ==
  ASSUME NEW r, PictureAsked(r), ~Untranslatable(r)
  PROVE  /\ ToSet(r.free) \cap NonLatin = {} /\ ToSet(r.tile.title) \cap NonLatin = {}
         /\ \A q \in ToSet(Answered(r)) : ToSet(r.answers[q]) \cap NonLatin = {}
<1>1. \A q \in ToSet(Answered(r)) : q \in DOMAIN r.answers
  BY Asked
<1>2. \A text : ~HasNonLatin(text) => ToSet(text) \cap NonLatin = {}
  BY DEF HasNonLatin, ToSet
<1>3. ~HasNonLatin(r.tile.title) /\ ~HasNonLatin(r.free)
      /\ \A q \in DOMAIN r.answers : ~HasNonLatin(r.answers[q])
  BY DEF PictureAsked, Untranslatable
<1> QED BY <1>1, <1>2, <1>3

LEMMA InvNothingForeign == Inv => NothingForeign
<1> SUFFICES ASSUME Inv PROVE NothingForeign
  OBVIOUS
<1>1. NameWords = {"spongebob", "squarepants", "batman"}
  <2>1. /\ ToSet(<<"spongebob">>) = {"spongebob"} /\ ToSet(<<"batman">>) = {"batman"}
        /\ ToSet(<<"spongebob", "squarepants">>) = {"spongebob", "squarepants"}
    BY DEF ToSet
  <2> QED BY <2>1 DEF NameWords, Names
<1>2. /\ Written("image") => PictureAsked(ask) /\ ask.kind = "image" /\ (ByHand \/ ByModel)
      /\ pc = "refused" => (~ask.enabled \/ calls > 0) /\ Untranslatable(ask)
  BY RequestIs DEF Inv, Outcome, Written
<1>3. NamesStayHome
  <2> DEFINE Answers == UNION {ToSet(ask.answers[q]) : q \in ToSet(Answered(ask))}
             Loose == {ask.free[j] : j \in {k \in DOMAIN ask.free :
                         \A i \in 1..k : \A n \in NamesAt(ask.free, i) : k >= i + Len(n)}}
  <2>1. SUFFICES ASSUME Written("image"), ~(result = Mechanical(ask)), NEW w \in Words, w \in NameWords
                 PROVE  w \in Loose \cup Answers
    BY DEF NamesStayHome
  <2>2. PICK reply \in Replies(ask) \ {<<>>} : result = FromReply(ask, reply)
    BY <1>2, <2>1 DEF ByHand, ByModel
  <2>3. w \in WordsOf(FromReply(ask, reply)) /\ PictureAsked(ask)
    BY <1>2, <2>1, <2>2 DEF Words
  <2>4. \A v : w = Translation(v) => w = v
    BY <1>1, <2>1 DEF Translation
  <2>5. \/ \E q \in ToSet(Answered(ask)) \ {"text"} : w \in ToSet(ask.answers[q])
        \/ w \in ToSet(NeutralizeIp(ask.free))
    <3>1. \/ w = "pixar" /\ ask.tile.template # "none"
          \/ w \in {"default", "mood"}
          \/ \E q \in ToSet(Answered(ask)) \ {"text"} : \E v \in ToSet(ask.answers[q]) : w = Translation(v)
          \/ \E v \in ToSet(NeutralizeIp(ask.free)) : w = Translation(v)
      BY <2>3, ModelWords
    <3>2. w # "pixar" /\ w \notin {"default", "mood"}
      BY <1>1, <2>1
    <3> HIDE DEF ToSet, Translation
    <3> QED BY <2>4, <3>1, <3>2
  <2>6. CASE \E q \in ToSet(Answered(ask)) \ {"text"} : w \in ToSet(ask.answers[q])
    BY <2>6
  <2>7. CASE w \in ToSet(NeutralizeIp(ask.free))
    <3>1. ask.free \in Prose
      BY <2>3, Asked, TextIsProse DEF Text
    <3>2. w \in Paraphrases \/ \E k \in DOMAIN ask.free : w = ask.free[k] /\ Uncovered(ask.free, k)
      BY <2>7, <3>1, Neutral
    <3>3. w \notin Paraphrases
      BY <1>1, <2>1 DEF Paraphrases
    <3> QED BY <3>2, <3>3 DEF Uncovered
  <2> QED BY <2>5, <2>6, <2>7
<1>4. BrandsStripped
  <2>1. ASSUME Written("style"), NEW w \in Words, w \in Brands PROVE FALSE
    <3> DEFINE key == StyleAnchor(ask.style, ask.editing)
               no == FALSE
               subject == ask.style.subject
               text == ask.style.text
    <3>1. result = Assemble(text, key, no, ask.editing, subject) /\ ask.kind = "style"
      BY <2>1 DEF Inv, Outcome, StylePrompt, Written
    <3>2. text \in Prose
      BY <3>1, RequestIs, TextIsProse
    <3> HIDE DEF key, no, subject, text
    <3>3. WordsOf(result) = ToSet(text) \cap (STRING \ Brands)
      BY <3>1, <3>2, Assembled
    <3> QED BY <2>1, <3>3 DEF Words
  <2>2. ASSUME Written("image"), NEW w \in Words, w \in Brands PROVE Templated
    <3>1. PictureAsked(ask)
      BY <1>2, <2>2
    <3>2. CASE ByModel
      <4>1. PICK reply \in Replies(ask) \ {<<>>} : result = FromReply(ask, reply)
        BY <3>2 DEF ByModel
      <4>2. reply \in Prose
        BY <3>1, ReplyWords
      <4>3. CASE ask.tile.template = "none"
        <5>1. WordsOf(result) = ToSet(reply) \cap (STRING \ Brands)
          BY <4>1, <4>2, <4>3, FromReplyIs
        <5> QED BY <2>2, <5>1 DEF Words
      <4>4. CASE ask.tile.template # "none"
        <5>1. 1 \in DOMAIN result /\ result[1][1] = "template"
          BY <4>1, <4>2, <4>4, FromReplyIs
        <5> QED BY <4>4, <5>1 DEF Templated
      <4> QED BY <4>3, <4>4
    <3>3. CASE ByHand
      <4>1. CASE ask.tile.template = "picture"
        <5>1. 1 \in DOMAIN result /\ result[1][1] = "template"
          BY <3>1, <3>3, <4>1, FilledIs DEF ByHand
        <5> QED BY <4>1, <5>1 DEF Templated
      <4>2. CASE ask.tile.template # "picture"
        <5>1. WordsOf(result) = ToSet(SceneParts(ask)) \cap (STRING \ Brands)
          BY <3>1, <3>3, <4>2, MechanicalIs DEF ByHand
        <5> QED BY <2>2, <5>1 DEF Words
      <4> QED BY <4>1, <4>2
    <3> QED BY <1>2, <2>2, <3>2, <3>3
  <2> QED BY <1>2, <2>1, <2>2 DEF BrandsStripped
<1>5. ASSUME Written("image"), NEW w \in Words, w \in NonLatin PROVE FALSE
  <2>1. PictureAsked(ask)
    BY <1>2, <1>5
  <2>2. CASE ByModel
    <3>1. PICK reply \in Replies(ask) \ {<<>>} : result = FromReply(ask, reply)
      BY <2>2 DEF ByModel
    <3>2. \/ w \in {"pixar", "default", "mood"}
          \/ \E v : w = Translation(v)
      BY <1>5, <2>1, <3>1, ModelWords DEF Words
    <3> QED BY <1>5, <3>2 DEF Translation, NonLatin
  <2>3. CASE ByHand
    <3>1. result = Mechanical(ask) /\ ~Untranslatable(ask)
      BY <2>3 DEF ByHand
    <3>2. w \in WordsOf(Mechanical(ask))
      BY <1>5, <3>1 DEF Words
    <3>3. \/ w \in {"default", "mood"}
          \/ \E q \in ToSet(Answered(ask)) : w \in ToSet(ask.answers[q])
          \/ w \in ToSet(ask.tile.title) \cup ToSet(ask.free)
      BY <2>1, <3>2, HandWords
    <3>4. /\ ToSet(ask.free) \cap NonLatin = {} /\ ToSet(ask.tile.title) \cap NonLatin = {}
          /\ \A q \in ToSet(Answered(ask)) : ToSet(ask.answers[q]) \cap NonLatin = {}
      BY <2>1, <3>1, Latin
    <3>5. w \notin {"default", "mood"}
      BY <1>5 DEF NonLatin
    <3> QED BY <1>5, <3>3, <3>4, <3>5
  <2> QED BY <1>2, <1>5, <2>2, <2>3
<1>6. NeverUntranslated
  BY <1>2, <1>5 DEF NeverUntranslated
<1> QED BY <1>3, <1>4, <1>6 DEF NothingForeign

(* prompt_style.py:503-507 and content_gen.py:141-143, for wishes and      *)
(* answers of any length: no part of a name in a wish is left while the    *)
(* language model answers, no studio is named outside a tile's template,   *)
(* and no word that nobody translated is drawn.                            *)
THEOREM ForeignWordsStay == Spec => []NothingForeign
  BY InvNothingForeign, AlwaysInv, PTL

(* If the first n of a list were kept, they are the first n that were.     *)
LEMMA FirstKept ==
  ASSUME NEW T, NEW s \in Seq(T), NEW S, NEW n \in 1..Len(s), \A j \in 1..n : s[j] \in S
  PROVE  n <= Len(Kept(s, S)) /\ Kept(s, S)[n] = s[n]
<1> DEFINE t == Kept(s, S)
<1>1. t \in Seq(T) /\ \E at : Selection(at, t, s, S, Len(s))
  BY KeptIs
<1> HIDE DEF t
<1>2. PICK at : Selection(at, t, s, S, Len(s))
  BY <1>1
<1>3. Len(s) \in Nat /\ Len(t) \in Nat /\ n \in Nat
  BY <1>1
<1> DEFINE P == {k \in 0..n : \A j \in 1..k : j \in 1..Len(t) /\ at[j] = j}
<1>4. 0 \in P
  BY <1>3
<1>5. ASSUME NEW k \in 0..(n - 1), k \in P PROVE k + 1 \in P
  <2> DEFINE x == k + 1
  <2>1. x \in 1..n /\ x \in 1..Len(s) /\ x \in 0..n /\ \A j \in 1..x : j = x \/ j \in 1..k
    BY <1>3
  <2>2. PICK i \in 1..Len(t) : at[i] = x
    BY <1>2, <2>1 DEF Selection
  <2>3. x >= i
    BY <1>2, <2>2 DEF Selection
  <2>4. i \notin 1..k
    <3>1. ASSUME i \in 1..k PROVE FALSE
      <4>1. at[i] = i /\ i # x
        BY <1>5, <3>1
      <4> HIDE DEF x
      <4> QED BY <2>2, <4>1
    <3> QED BY <3>1
  <2>5. i = x
    BY <1>3, <2>3, <2>4
  <2> HIDE DEF x
  <2>6. x \in P
    BY <1>5, <2>1, <2>2, <2>5
  <2> QED BY <2>6 DEF x
<1>6. n \in P
  <2> HIDE DEF P
  <2>1. n \in 0..n
    BY <1>3
  <2> QED BY <1>3, <1>4, <1>5, <2>1, UpTo
<1>7. n \in 1..Len(t) /\ at[n] = n
  BY <1>3, <1>6
<1>8. t[n] = s[n] /\ n <= Len(t)
  BY <1>2, <1>7 DEF Selection
<1> QED BY <1>8 DEF t

LEMMA InvAnswersInPlace == Inv => AnswersInPlace
<1> SUFFICES ASSUME Inv, Written("image"), ask.tile.template = "picture", result = Mechanical(ask),
                    NEW i \in DOMAIN ask.tile.questions,
                    \A j \in 1..i : ask.answers[ask.tile.questions[j]] # <<>>
             PROVE  result[i + 1] = <<"slot", ask.answers[ask.tile.questions[i]]>>
  BY DEF AnswersInPlace
<1> DEFINE asked == ask.tile.questions
           S == {q \in ToSet(asked) : ask.answers[q] # <<>>}
<1>1. PictureAsked(ask)
  BY RequestIs DEF Written
<1>2. asked \in Seq(STRING) /\ Answered(ask) = Kept(asked, S)
  BY <1>1, Asked DEF Answered
<1>3. i \in 1..Len(asked) /\ Len(asked) \in Nat
  BY <1>2
<1>4. \A j \in 1..i : asked[j] \in S
  <2> SUFFICES ASSUME NEW j \in 1..i PROVE asked[j] \in S
    OBVIOUS
  <2>1. j \in DOMAIN asked
    BY <1>2, <1>3
  <2> QED BY <2>1 DEF ToSet
<1> HIDE DEF S
<1>5. i <= Len(Answered(ask)) /\ Answered(ask)[i] = asked[i]
  BY <1>2, <1>3, <1>4, FirstKept
<1>6. result[i + 1] = <<"slot", IF i <= Len(Answered(ask)) THEN ask.answers[Answered(ask)[i]]
                               ELSE <<"default">> >>
  BY <1>1, <1>3, FilledIs
<1> QED BY <1>5, <1>6

LEMMA InvNothingLost == Inv => NothingLost
<1> SUFFICES ASSUME Inv, Written("image") PROVE NothingLost
  BY DEF NothingLost
<1>1. PictureAsked(ask) /\ (ByHand \/ ByModel)
  BY RequestIs DEF Inv, Outcome, Written
<1>2. ask.free \in Prose /\ \A q \in ToSet(Answered(ask)) : ask.answers[q] \in Prose
  BY <1>1, Asked, TextIsProse DEF Text
<1>3. \A q \in ToSet(Answered(ask)) :
        ToSet(StripBrands(Translated(ask.answers[q])))
          = {Translation(w) : w \in ToSet(ask.answers[q])} \cap (STRING \ Brands)
  <2> SUFFICES ASSUME NEW q \in ToSet(Answered(ask))
               PROVE  ToSet(StripBrands(Translated(ask.answers[q])))
                        = {Translation(w) : w \in ToSet(ask.answers[q])} \cap (STRING \ Brands)
    OBVIOUS
  <2>1. Translated(ask.answers[q]) \in Prose
        /\ ToSet(Translated(ask.answers[q])) = {Translation(w) : w \in ToSet(ask.answers[q])}
    BY <1>2, TranslatedWords
  <2> QED BY <2>1, Stripped
<1>4. ToSet(StripBrands(ask.free)) = ToSet(ask.free) \cap (STRING \ Brands)
  BY <1>2, Stripped
<1>5. CASE ByModel
  <2>1. PICK reply \in Replies(ask) \ {<<>>} : result = FromReply(ask, reply)
    BY <1>5 DEF ByModel
  <2>2. reply \in Prose /\ {Translation(w) : w \in ToSet(Told(ask))} \subseteq ToSet(reply)
    BY <1>1, ReplyWords
  <2>3. ToSet(reply) \cap (STRING \ Brands) \subseteq Words
    <3>1. CASE ask.tile.template = "none"
      <4>1. WordsOf(result) = ToSet(reply) \cap (STRING \ Brands)
        BY <2>1, <2>2, <3>1, FromReplyIs
      <4> QED BY <4>1 DEF Words
    <3>2. CASE ask.tile.template # "none"
      <4>1. WordsOf(result) = ToSet(reply)
        BY <2>1, <2>2, <3>2, FromReplyIs
      <4> QED BY <4>1 DEF Words
    <3> QED BY <3>1, <3>2
  <2>4. AllAnswers(ask, ToSet(Answered(ask)) \ {"text"}) \cup ToSet(NeutralizeIp(ask.free)) \subseteq ToSet(Told(ask))
    BY <1>1, ToldWords
  <2>5. ASSUME NEW q \in ToSet(Answered(ask)) \ {"text"}
        PROVE  ToSet(StripBrands(Translated(ask.answers[q]))) \subseteq Words
    <3>1. ToSet(ask.answers[q]) \subseteq ToSet(Told(ask))
      BY <2>4 DEF AllAnswers
    <3>2. {Translation(w) : w \in ToSet(ask.answers[q])} \subseteq ToSet(reply)
      BY <2>2, <3>1
    <3> QED BY <1>3, <2>3, <3>2
  <2>6. ASSUME NEW w \in ToSet(ask.free), w \in STRING \ Brands, w \notin NameWords, w \notin NonLatin
        PROVE  w \in Words
    <3>1. w \in ToSet(NeutralizeIp(ask.free))
      BY <1>2, <2>6, Neutral
    <3>2. w \in ToSet(Told(ask))
      BY <2>4, <3>1
    <3>3. Translation(w) = w
      BY <2>6 DEF Translation, NonLatin
    <3>4. w \in ToSet(reply)
      BY <2>2, <3>2, <3>3
    <3> QED BY <2>3, <2>6, <3>4
  <2> QED BY <1>4, <2>5, <2>6 DEF NothingLost
<1>6. CASE ByHand
  <2>1. result = Mechanical(ask) /\ ~Untranslatable(ask)
    BY <1>6 DEF ByHand
  <2>2. ASSUME NEW q \in ToSet(Answered(ask)), NEW w \in ToSet(StripBrands(Translated(ask.answers[q])))
        PROVE  w \in ToSet(ask.answers[q]) \cap (STRING \ Brands)
    <3>1. ToSet(ask.answers[q]) \cap NonLatin = {}
      BY <1>1, <2>1, Latin
    <3>2. PICK v \in ToSet(ask.answers[q]) : w = Translation(v)
      BY <1>3, <2>2
    <3>3. w = v
      BY <3>1, <3>2 DEF Translation, NonLatin
    <3> QED BY <1>3, <2>2, <3>2, <3>3
  <2>3. CASE ask.tile.template = "picture"
    <3>1. AllAnswers(ask, ToSet(Answered(ask))) \subseteq Words
      BY <1>1, <2>1, <2>3, FilledIs DEF Words
    <3>2. \A q \in ToSet(Answered(ask)) : ToSet(ask.answers[q]) \subseteq Words
      BY <3>1 DEF AllAnswers
    <3>3. \A q \in ToSet(Answered(ask)) : ToSet(StripBrands(Translated(ask.answers[q]))) \subseteq Words
      BY <2>2, <3>2
    <3> QED BY <2>1, <2>3, <3>3 DEF NothingLost
  <2>4. CASE ask.tile.template # "picture"
    <3>1. Words = ToSet(SceneParts(ask)) \cap (STRING \ Brands)
      BY <1>1, <2>1, <2>4, MechanicalIs DEF Words
    <3>2. ToSet(SceneParts(ask)) = ToSet(ask.tile.title) \cup ToSet(ask.free) \cup {"mood"}
                                     \cup AllAnswers(ask, ToSet(Answered(ask)) \ {"text", "style"})
      BY <1>1, ScenePartsAre
    <3>3. \A q \in ToSet(Answered(ask)) \ {"text", "style"} : ToSet(ask.answers[q]) \subseteq ToSet(SceneParts(ask))
      BY <3>2 DEF AllAnswers
    <3>4. \A q \in ToSet(Answered(ask)) \ {"text", "style"} :
            ToSet(StripBrands(Translated(ask.answers[q]))) \subseteq Words
      BY <2>2, <3>1, <3>3
    <3>5. ToSet(StripBrands(ask.free)) \subseteq Words
      BY <1>4, <3>1, <3>2
    <3> QED BY <3>4, <3>5 DEF NothingLost
  <2> QED BY <2>3, <2>4
<1> QED BY <1>1, <1>5, <1>6

LEMMA InvGreetingNotDrawn == Inv => GreetingNotDrawn
<1> SUFFICES ASSUME Inv, Written("image"), "text" \in DOMAIN ask.answers,
                    NEW w \in Words, w \in ToSet(ask.answers["text"])
             PROVE  FALSE
  BY DEF GreetingNotDrawn
<1> DEFINE Added == {"default", "mood", "pixar", "cat", "mountain", "superhero", "sea-sponge", "character"}
<1>1. PictureAsked(ask) /\ (ByHand \/ ByModel) /\ ask \in Requests /\ ask.kind = "image"
  BY RequestIs DEF Inv, Outcome, Written
<1>2. w \notin NonLatin
  BY InvNothingForeign DEF NothingForeign, NeverUntranslated
<1>3. /\ w \notin ToSet(ask.tile.title) /\ w \notin ToSet(ask.free) /\ w \notin Added
      /\ \A q \in DOMAIN ask.answers \ {"text"} : w \notin ToSet(ask.answers[q])
  <2>1. GreetingApart(ask)
    BY <1>1, GreetingAssumption
  <2> QED BY <1>2, <2>1 DEF GreetingApart
<1>4. \A q \in ToSet(Answered(ask)) : q \in DOMAIN ask.answers
  BY <1>1, Asked
<1>5. \A v : w = Translation(v) => w = v
  BY <1>3 DEF Translation
<1>6. CASE ByModel
  <2>1. PICK reply \in Replies(ask) \ {<<>>} : result = FromReply(ask, reply)
    BY <1>6 DEF ByModel
  <2>2. w \in WordsOf(FromReply(ask, reply))
    BY <2>1 DEF Words
  <2>3. \/ w = "pixar" /\ ask.tile.template # "none"
        \/ w \in {"default", "mood"}
        \/ \E q \in ToSet(Answered(ask)) \ {"text"} : \E v \in ToSet(ask.answers[q]) : w = Translation(v)
        \/ \E v \in ToSet(NeutralizeIp(ask.free)) : w = Translation(v)
    BY <1>1, <2>2, ModelWords
  <2>4. w \in ToSet(NeutralizeIp(ask.free))
    BY <1>3, <1>4, <1>5, <2>3
  <2>5. ask.free \in Prose
    BY <1>1, Asked, TextIsProse DEF Text
  <2>6. w \in Paraphrases \/ \E k \in DOMAIN ask.free : w = ask.free[k]
    BY <2>4, <2>5, Neutral
  <2> QED BY <1>3, <2>6 DEF Paraphrases, ToSet
<1>7. CASE ByHand
  <2>1. w \in WordsOf(Mechanical(ask))
    BY <1>7 DEF ByHand, Words
  <2>2. \/ w \in {"default", "mood"}
        \/ \E q \in ToSet(Answered(ask)) :
             w \in ToSet(ask.answers[q]) /\ (ask.tile.template # "picture" => q \notin {"text", "style"})
        \/ ask.tile.template # "picture" /\ w \in ToSet(ask.tile.title) \cup ToSet(ask.free)
    BY <1>1, <2>1, HandWords
  <2>3. ask.tile.template = "picture" => "text" \notin ToSet(Answered(ask))
    BY <1>1, Asked DEF PictureAsked
  <2> QED BY <1>3, <1>4, <2>2, <2>3
<1> QED BY <1>1, <1>6, <1>7

(* tiles_data.py:21-22 and card_prompts.py:6-8, for tiles with any number  *)
(* of questions: what was answered is drawn, each answer in the place its  *)
(* question asks about, and only the greeting is left to the caption.      *)
THEOREM AnswersAreDrawn == Spec => []AnswersArrive
<1>1. Inv => AnswersArrive
  BY InvNothingLost, InvAnswersInPlace, InvGreetingNotDrawn DEF AnswersArrive
<1> QED BY <1>1, AlwaysInv, PTL

-----------------------------------------------------------------------------
(* The shelf: what stands first, and what comes of lifting the liked ones  *)
LEMMA LeastOfTwo ==
  ASSUME NEW a \in Int, NEW b \in Int
  PROVE  Min({a, b}) = IF a <= b THEN a ELSE b
  BY DEF Min

LEMMA UpToSize ==
  ASSUME NEW n \in Nat
  PROVE  IsFiniteSet(1..n) /\ Cardinality(1..n) = n
<1>1. IsFiniteSet(1..n) /\ Cardinality(1..n) = IF 1 > n THEN 0 ELSE n - 1 + 1
  BY FS_Interval
<1> QED BY <1>1

LEMMA FirstIs ==
  ASSUME NEW T, NEW rows \in Seq(T), NEW n \in Nat
  PROVE  /\ First(rows, n) \in Seq(T)
         /\ Len(First(rows, n)) = IF n <= Len(rows) THEN n ELSE Len(rows)
         /\ \A i \in 1..Len(First(rows, n)) : First(rows, n)[i] = rows[i]
         /\ ToSet(First(rows, n)) \subseteq ToSet(rows)
<1> DEFINE k == IF n <= Len(rows) THEN n ELSE Len(rows)
           f == First(rows, n)
<1>1. Len(rows) \in Nat /\ k \in Nat /\ k <= Len(rows) /\ DOMAIN rows = 1..Len(rows)
  OBVIOUS
<1>2. Min({n, Len(rows)}) = k
  BY <1>1, LeastOfTwo
<1> HIDE DEF k
<1>3. f = SubSeq(rows, 1, k)
  BY <1>2 DEF First
<1>4. f \in Seq(T) /\ Len(f) = k /\ \A i \in 1..k : f[i] = rows[i]
  BY <1>1, <1>3
<1> HIDE DEF f
<1>5. ToSet(f) \subseteq ToSet(rows)
  <2>1. DOMAIN f = 1..k /\ \A i \in 1..k : i \in 1..Len(rows)
    BY <1>1, <1>4
  <2> QED BY <1>1, <1>4, <2>1 DEF ToSet
<1> QED BY <1>4, <1>5 DEF k, f

LEMMA KeptLength ==
  ASSUME NEW T, NEW s \in Seq(T), NEW S
  PROVE  /\ IsFiniteSet({k \in 1..Len(s) : s[k] \in S})
         /\ Cardinality({k \in 1..Len(s) : s[k] \in S}) = Len(Kept(s, S))
<1> DEFINE t == Kept(s, S)
           K == {k \in 1..Len(s) : s[k] \in S}
<1>1. t \in Seq(T) /\ \E at : Selection(at, t, s, S, Len(s))
  BY KeptIs
<1> HIDE DEF t
<1>2. PICK at : Selection(at, t, s, S, Len(s))
  BY <1>1
<1>3. Len(t) \in Nat /\ Len(s) \in Nat
  BY <1>1
<1>4. at \in [1..Len(t) -> K]
  BY <1>2 DEF Selection
<1>5. \A i, k \in 1..Len(t) : at[i] = at[k] => i = k
  <2> SUFFICES ASSUME NEW i \in 1..Len(t), NEW k \in 1..Len(t), i # k PROVE at[i] # at[k]
    OBVIOUS
  <2>1. at[i] \in 1..Len(s) /\ at[k] \in 1..Len(s) /\ (i < k \/ k < i)
    <3>1. at \in [1..Len(t) -> 1..Len(s)]
      BY <1>2 DEF Selection
    <3> QED BY <1>3, <3>1
  <2>2. at[i] < at[k] \/ at[k] < at[i]
    BY <1>2, <2>1 DEF Selection
  <2> QED BY <2>1, <2>2
<1>6. \A k \in K : \E i \in 1..Len(t) : at[i] = k
  BY <1>2 DEF Selection
<1> HIDE DEF K
<1>7. at \in Bijection(1..Len(t), K)
  BY <1>4, <1>5, <1>6 DEF Bijection, Injection, Surjection, IsInjective
<1>8. IsFiniteSet(1..Len(t)) /\ Cardinality(1..Len(t)) = Len(t)
  BY <1>3, UpToSize
<1>9. ExistsBijection(1..Len(t), K)
  BY <1>7 DEF ExistsBijection
<1>10. IsFiniteSet(K) /\ Cardinality(K) = Len(t)
  BY <1>8, <1>9, FS_Bijection
<1> QED BY <1>10 DEF K, t

LEMMA Parts ==
  ASSUME NEW T, NEW s \in Seq(T), NEW S
  PROVE  Len(Kept(s, S)) + Len(Kept(s, ToSet(s) \ S)) = Len(s)
<1> DEFINE A == {k \in 1..Len(s) : s[k] \in S}
           R == ToSet(s) \ S
           B == {k \in 1..Len(s) : s[k] \in R}
<1>1. Len(s) \in Nat /\ \A k \in 1..Len(s) : s[k] \in ToSet(s)
  BY DEF ToSet
<1>2. A \cup B = 1..Len(s) /\ A \cap B = {}
  BY <1>1
<1>3. IsFiniteSet(A) /\ Cardinality(A) = Len(Kept(s, S))
  BY KeptLength
<1> HIDE DEF R
<1>4. IsFiniteSet(B) /\ Cardinality(B) = Len(Kept(s, R))
  BY KeptLength
<1> HIDE DEF A, B
<1>5. Cardinality(A \cup B) = Cardinality(A) + Cardinality(B) - Cardinality(A \cap B)
  BY <1>3, <1>4, FS_Union
<1>6. Cardinality(A \cap B) = 0
  BY <1>2, FS_EmptySet
<1>7. Cardinality(A \cup B) = Len(s)
  BY <1>1, <1>2, UpToSize, Zenon
<1>8. Len(Kept(s, S)) \in Nat /\ Len(Kept(s, R)) \in Nat
  BY KeptSet
<1>9. Len(Kept(s, S)) + Len(Kept(s, R)) = Len(s)
  BY <1>1, <1>3, <1>4, <1>5, <1>6, <1>7, <1>8
<1> QED BY <1>9 DEF R

(* r is s with the n liked ones before the others, each in its old order.  *)
Ranked(at, n, r, s, liked) ==
  /\ n \in Nat /\ Len(r) = Len(s) /\ at \in [1..Len(s) -> 1..Len(s)]
  /\ \A i \in 1..Len(s) : r[i] = s[at[i]] /\ (r[i].category \in liked <=> i <= n)
  /\ \A i, k \in 1..Len(s) : i < k /\ (i <= n <=> k <= n) => at[i] < at[k]
  /\ \A k \in 1..Len(s) : \E i \in 1..Len(s) : at[i] = k

LEMMA RankedIs ==
  ASSUME NEW T, NEW s \in Seq(T), NEW liked
  PROVE  /\ RankFor(s, liked) \in Seq(T) /\ ToSet(RankFor(s, liked)) = ToSet(s)
         /\ \E at, n : Ranked(at, n, RankFor(s, liked), s, liked)
<1> DEFINE S == {x \in ToSet(s) : x.category \in liked}
           R == ToSet(s) \ S
           a == Kept(s, S)
           b == Kept(s, R)
           r == RankFor(s, liked)
           m == Len(s)
           n == Len(a)
<1>1. r = a \o b
  BY DEF RankFor
<1>2. a \in Seq(T) /\ b \in Seq(T) /\ ToSet(a) = ToSet(s) \cap S /\ ToSet(b) = ToSet(s) \cap R
  <2> HIDE DEF S, R
  <2> QED BY KeptSet
<1>3. (\E at : Selection(at, a, s, S, m)) /\ \E at : Selection(at, b, s, R, m)
  <2> HIDE DEF S, R
  <2> QED BY KeptIs
<1>4. n + Len(b) = m
  <2> HIDE DEF S
  <2> QED BY Parts
<1>5. /\ \A x \in S : x.category \in liked
      /\ \A x \in R : x.category \notin liked
      /\ \A k \in 1..m : s[k] \in S \/ s[k] \in R
  BY DEF ToSet
<1>6. ToSet(s) = (ToSet(s) \cap S) \cup (ToSet(s) \cap R)
  OBVIOUS
<1> HIDE DEF r, S, R, a, b
<1>7. /\ r \in Seq(T) /\ Len(r) = Len(a) + Len(b) /\ ToSet(r) = ToSet(a) \cup ToSet(b)
      /\ \A i \in 1..Len(a) : r[i] = a[i]
      /\ \A i \in 1..Len(b) : r[Len(a) + i] = b[i]
  BY <1>1, <1>2, Joined
<1>8. m \in Nat /\ n \in Nat /\ Len(b) \in Nat /\ Len(r) = m
  BY <1>2, <1>4, <1>7
<1>9. PICK ata : Selection(ata, a, s, S, m)
  BY <1>3
<1>10. PICK atb : Selection(atb, b, s, R, m)
  BY <1>3
<1> DEFINE at == [i \in 1..m |-> IF i <= n THEN ata[i] ELSE atb[i - n]]
<1> HIDE DEF m, n
<1>11. /\ \A i \in 1..m : i <= n => i \in 1..n /\ at[i] = ata[i] /\ ata[i] \in 1..m
       /\ \A i \in 1..m : ~(i <= n) => i - n \in 1..Len(b) /\ at[i] = atb[i - n] /\ atb[i - n] \in 1..m
  <2>1. ata \in [1..n -> 1..m] /\ atb \in [1..Len(b) -> 1..m]
    BY <1>9, <1>10 DEF Selection, n
  <2>2. \A i \in 1..m : at[i] = IF i <= n THEN ata[i] ELSE atb[i - n]
    OBVIOUS
  <2>3. \A i \in 1..m : (i <= n => i \in 1..n) /\ (~(i <= n) => i - n \in 1..Len(b))
    <3>1. n + Len(b) = m /\ m \in Nat /\ n \in Nat /\ Len(b) \in Nat
      BY <1>4, <1>8 DEF n, m
    <3> QED BY <3>1
  <2> HIDE DEF at
  <2> QED BY <2>1, <2>2, <2>3
<1>12. at \in [1..m -> 1..m]
  BY <1>11
<1> HIDE DEF at
<1>13. ASSUME NEW i \in 1..m PROVE r[i] = s[at[i]] /\ (r[i].category \in liked <=> i <= n)
  <2>1. CASE i <= n
    <3>1. i \in 1..Len(a) /\ at[i] = ata[i]
      BY <1>11, <2>1 DEF n
    <3>2. r[i] = a[i] /\ a[i] = s[ata[i]] /\ s[ata[i]] \in S
      BY <1>7, <1>9, <3>1 DEF Selection
    <3> QED BY <1>5, <2>1, <3>1, <3>2
  <2>2. CASE ~(i <= n)
    <3>1. i - n \in 1..Len(b) /\ at[i] = atb[i - n] /\ n + (i - n) = i
      BY <1>8, <1>11, <2>2
    <3>2. r[i] = b[i - n]
      BY <1>7, <3>1 DEF n
    <3>3. b[i - n] = s[atb[i - n]] /\ s[atb[i - n]] \in R
      BY <1>10, <3>1 DEF Selection
    <3> QED BY <1>5, <2>2, <3>1, <3>2, <3>3
  <2> QED BY <2>1, <2>2
<1>14. ASSUME NEW i \in 1..m, NEW k \in 1..m, i < k, i <= n <=> k <= n PROVE at[i] < at[k]
  <2>1. CASE i <= n
    <3>1. i \in 1..Len(a) /\ k \in 1..Len(a) /\ at[i] = ata[i] /\ at[k] = ata[k]
      BY <1>11, <1>14, <2>1 DEF n
    <3> QED BY <1>9, <1>14, <3>1 DEF Selection
  <2>2. CASE ~(i <= n)
    <3>1. i - n \in 1..Len(b) /\ k - n \in 1..Len(b) /\ at[i] = atb[i - n] /\ at[k] = atb[k - n] /\ i - n < k - n
      BY <1>8, <1>11, <1>14, <2>2
    <3> QED BY <1>10, <3>1 DEF Selection
  <2> QED BY <2>1, <2>2
<1>15. ASSUME NEW k \in 1..m PROVE \E i \in 1..m : at[i] = k
  <2>1. CASE s[k] \in S
    <3>1. PICK i \in 1..Len(a) : ata[i] = k
      BY <1>9, <2>1 DEF Selection
    <3>2. i \in 1..m /\ i <= n
      BY <1>4, <1>8 DEF n, m
    <3> QED BY <1>11, <3>1, <3>2
  <2>2. CASE s[k] \in R
    <3>1. PICK i \in 1..Len(b) : atb[i] = k
      BY <1>10, <2>2 DEF Selection
    <3>2. n + i \in 1..m /\ ~(n + i <= n) /\ (n + i) - n = i
      BY <1>4, <1>8 DEF n, m
    <3> QED BY <1>11, <3>1, <3>2
  <2> QED BY <1>5, <2>1, <2>2 DEF m
<1>16. Ranked(at, n, r, s, liked)
  BY <1>8, <1>12, <1>13, <1>14, <1>15 DEF Ranked, m
<1> QED BY <1>2, <1>6, <1>7, <1>16 DEF r

OwnIds(rows) == \A i, j \in DOMAIN rows : rows[i].id = rows[j].id => i = j

LEMMA IdsKept ==
  ASSUME NEW T, NEW shelf \in Seq(T), OwnIds(shelf), NEW S
  PROVE  Kept(shelf, S) \in Seq(T) /\ OwnIds(Kept(shelf, S))
<1> DEFINE t == Kept(shelf, S)
<1>1. t \in Seq(T) /\ \E at : Selection(at, t, shelf, S, Len(shelf))
  BY KeptIs
<1> HIDE DEF t
<1>2. PICK at : Selection(at, t, shelf, S, Len(shelf))
  BY <1>1
<1>3. Len(t) \in Nat /\ DOMAIN t = 1..Len(t) /\ Len(shelf) \in Nat /\ DOMAIN shelf = 1..Len(shelf)
  BY <1>1
<1>4. ASSUME NEW i \in 1..Len(t), NEW j \in 1..Len(t), t[i].id = t[j].id, i # j PROVE FALSE
  <2>1. at \in [1..Len(t) -> 1..Len(shelf)]
    BY <1>2 DEF Selection
  <2>2. at[i] \in 1..Len(shelf) /\ at[j] \in 1..Len(shelf) /\ (i < j \/ j < i)
    BY <1>3, <1>4, <2>1
  <2>3. t[i] = shelf[at[i]] /\ t[j] = shelf[at[j]]
    BY <1>2 DEF Selection
  <2>4. at[i] = at[j]
    BY <1>3, <1>4, <2>2, <2>3 DEF OwnIds
  <2>5. at[i] < at[j] \/ at[j] < at[i]
    BY <1>2, <2>2 DEF Selection
  <2> QED BY <2>2, <2>4, <2>5
<1>5. OwnIds(t)
  BY <1>3, <1>4 DEF OwnIds
<1> QED BY <1>1, <1>5 DEF t

LEMMA InvLikedOnTop == Inv => LikedOnTop
<1> SUFFICES ASSUME Inv, Written("home") PROVE LikedOnTop
  BY DEF LikedOnTop
<1> DEFINE shown == Live(ask.shelf) \cap OnHome(ask.shelf)
           rows == Kept(ask.shelf, shown)
           c == ask.limit
           l == First(rows, 3 * c)
           r == RankFor(l, ask.liked)
           len == Len(rows)
           m == Len(l)
           Place(id) == CHOOSE i \in DOMAIN rows : rows[i].id = id
           Liked(s) == s.category \in ask.liked
<1>1. ask.shelf \in Seq(Style) /\ OwnIds(ask.shelf) /\ c \in Nat \ {0}
  <2>1. ShelfAsked(ask) /\ ask.kind = "home"
    BY RequestIs DEF Written, Shelves
  <2> QED BY <2>1 DEF ShelfAsked, OwnIds
<1>2. result = First(r, c)
  BY DEF Inv, Outcome, HomeStyles, ListStyles
<1> HIDE DEF shown
<1>3. rows \in Seq(Style) /\ OwnIds(rows)
  BY <1>1, IdsKept
<1> HIDE DEF rows, c
<1>4. len \in Nat /\ c \in Nat /\ c > 0 /\ 3 * c \in Nat /\ 3 * c >= c /\ DOMAIN rows = 1..len
  BY <1>1, <1>3
<1>5. l \in Seq(Style) /\ m = (IF 3 * c <= len THEN 3 * c ELSE len) /\ \A i \in 1..m : l[i] = rows[i]
  BY <1>3, <1>4, FirstIs
<1> HIDE DEF l
<1>6. r \in Seq(Style) /\ \E at, n : Ranked(at, n, r, l, ask.liked)
  BY <1>5, RankedIs
<1> HIDE DEF r
<1>7. PICK at, n : Ranked(at, n, r, l, ask.liked)
  BY <1>6
<1>8. m \in Nat /\ m <= len /\ Len(r) = m /\ n \in Nat
  BY <1>4, <1>5, <1>7 DEF Ranked
<1>9. /\ result \in Seq(Style) /\ Len(result) = (IF c <= m THEN c ELSE m)
      /\ \A i \in 1..Len(result) : result[i] = r[i]
  BY <1>2, <1>4, <1>6, <1>8, FirstIs
<1>10. Len(result) \in Nat /\ Len(result) <= m /\ DOMAIN result = 1..Len(result)
  BY <1>4, <1>8, <1>9
<1> HIDE DEF m, len
<1>11. \A i \in 1..len : Place(rows[i].id) = i
  BY <1>3, <1>4 DEF OwnIds
<1> HIDE DEF Place
<1>12. \A i \in 1..m : at[i] \in 1..m /\ at[i] \in 1..len
  <2>1. at \in [1..m -> 1..m]
    BY <1>7 DEF Ranked, m
  <2> QED BY <1>4, <1>8, <2>1
<1>13. \A i \in 1..Len(result) : /\ i \in 1..m /\ result[i] = rows[at[i]] /\ Place(result[i].id) = at[i]
                                 /\ Liked(result[i]) <=> i <= n
  <2> SUFFICES ASSUME NEW i \in 1..Len(result)
               PROVE  /\ i \in 1..m /\ result[i] = rows[at[i]] /\ Place(result[i].id) = at[i]
                      /\ Liked(result[i]) <=> i <= n
    OBVIOUS
  <2>1. i \in 1..m
    BY <1>8, <1>10
  <2>2. result[i] = l[at[i]] /\ (Liked(result[i]) <=> i <= n)
    BY <1>7, <1>9, <2>1 DEF Ranked, m
  <2> QED BY <1>5, <1>11, <1>12, <2>1, <2>2
<1>14. Len(result) = Min({c, len})
  <2>1. Min({c, len}) = IF c <= len THEN c ELSE len
    BY <1>4, LeastOfTwo
  <2> QED BY <1>4, <1>5, <1>8, <1>9, <2>1 DEF m, len
<1>15. ASSUME NEW i \in DOMAIN result, NEW j \in DOMAIN result, i < j
       PROVE  /\ Liked(result[i]) = Liked(result[j]) => Place(result[i].id) < Place(result[j].id)
              /\ Liked(result[j]) => Liked(result[i])
  <2>1. i \in 1..Len(result) /\ j \in 1..Len(result) /\ i \in Nat /\ j \in Nat
    BY <1>10
  <2>2. i \in 1..m /\ j \in 1..m /\ Place(result[i].id) = at[i] /\ Place(result[j].id) = at[j]
        /\ (Liked(result[i]) <=> i <= n) /\ (Liked(result[j]) <=> j <= n)
    BY <1>13, <2>1
  <2>3. (i <= n <=> j <= n) => at[i] < at[j]
    BY <1>7, <1>15, <2>2 DEF Ranked, m
  <2> HIDE DEF Liked
  <2>4. Liked(result[i]) = Liked(result[j]) => (i <= n <=> j <= n)
    BY <2>2
  <2> QED BY <1>8, <1>15, <2>1, <2>2, <2>3, <2>4
<1>16. ASSUME NEW i \in DOMAIN rows, Liked(rows[i]), rows[i].id \notin Ids(result), i <= 3 * c,
              NEW k \in DOMAIN result
       PROVE  Liked(result[k])
  <2>1. i \in 1..m
    BY <1>4, <1>5, <1>16 DEF m, len
  <2>2. PICK j \in 1..m : at[j] = i
    BY <1>7, <2>1 DEF Ranked, m
  <2>3. r[j] = l[i] /\ l[i] = rows[i]
    BY <1>5, <1>7, <2>1, <2>2 DEF Ranked, m
  <2>4. j <= n
    BY <1>7, <1>16, <2>2, <2>3 DEF Ranked, m
  <2>5. j \notin 1..Len(result)
    BY <1>9, <1>10, <1>16, <2>3 DEF Ids
  <2>6. k \in 1..Len(result) /\ k <= n
    BY <1>8, <1>10, <2>2, <2>4, <2>5
  <2> QED BY <1>13, <2>6
<1> QED BY <1>14, <1>15, <1>16 DEF LikedOnTop, c, len, rows, shown, Place

(* The pool: the shots in the order of their ids                           *)
Before(S, x) == Cardinality({y \in S : y.id < x.id})

LEMMA IdRanks ==
  ASSUME NEW S, S \subseteq Style, IsFiniteSet(S), \A x, y \in S : x.id = y.id => x = y
  PROVE  /\ Cardinality(S) \in Nat
         /\ \A x \in S : Before(S, x) \in 0..(Cardinality(S) - 1)
         /\ \A x, y \in S : Before(S, x) = Before(S, y) => x = y
         /\ \A k \in 0..(Cardinality(S) - 1) : \E x \in S : Before(S, x) = k
<1> DEFINE N == Cardinality(S)
<1>1. N \in Nat /\ \A x \in S : x.id \in Int
  BY FS_CardinalityType DEF Style
<1>2. ASSUME NEW x \in S PROVE Before(S, x) \in 0..(N - 1)
  <2> DEFINE B == {y \in S : y.id < x.id}
  <2>1. B \in SUBSET S /\ x \notin B
    BY <1>1
  <2>2. IsFiniteSet(B) /\ Cardinality(B) <= N /\ Cardinality(B) # N /\ Cardinality(B) \in Nat
    BY <2>1, FS_Subset, FS_CardinalityType
  <2> QED BY <1>1, <2>2 DEF Before
<1>3. ASSUME NEW x \in S, NEW y \in S, x.id < y.id PROVE Before(S, x) < Before(S, y)
  <2> DEFINE A == {z \in S : z.id < x.id}
             B == {z \in S : z.id < y.id}
  <2>1. A \in SUBSET B /\ x \in B /\ x \notin A /\ B \in SUBSET S
    BY <1>1, <1>3
  <2>2. IsFiniteSet(B)
    BY <2>1, FS_Subset
  <2>3. Cardinality(A) <= Cardinality(B) /\ Cardinality(A) # Cardinality(B)
    BY <2>1, <2>2, FS_Subset
  <2>4. Cardinality(A) = Before(S, x) /\ Cardinality(B) = Before(S, y)
    BY DEF Before
  <2> HIDE DEF A, B
  <2> QED BY <1>2, <2>3, <2>4
<1>4. ASSUME NEW x \in S, NEW y \in S, Before(S, x) = Before(S, y) PROVE x = y
  <2>1. x.id \in Int /\ y.id \in Int /\ Before(S, x) \in Int /\ Before(S, y) \in Int
    BY <1>1, <1>2
  <2>2. ~(x.id < y.id) /\ ~(y.id < x.id)
    BY <1>3, <1>4, <2>1
  <2> QED BY <2>1, <2>2
<1>5. ASSUME NEW k \in 0..(N - 1) PROVE \E x \in S : Before(S, x) = k
  <2> DEFINE f == [x \in S |-> Before(S, x)]
  <2>1. f \in Injection(S, 0..(N - 1))
    BY <1>2, <1>4 DEF Injection, IsInjective
  <2>2. IsFiniteSet(0..(N - 1)) /\ Cardinality(0..(N - 1)) = N
    BY <1>1, FS_Interval
  <2>3. f \in Surjection(S, 0..(N - 1))
    BY <2>1, <2>2, FS_Injection
  <2> QED BY <2>3 DEF Surjection
<1> QED BY <1>1, <1>2, <1>4, <1>5

LEMMA EntriesAreFinite ==
  ASSUME NEW T, NEW s \in Seq(T)
  PROVE  IsFiniteSet(ToSet(s)) /\ ToSet(s) \subseteq T
<1>1. Len(s) \in Nat /\ DOMAIN s = 1..Len(s) /\ \A i \in 1..Len(s) : s[i] \in T
  OBVIOUS
<1>2. IsFiniteSet(1..Len(s))
  BY <1>1, UpToSize
<1> DEFINE f == [i \in 1..Len(s) |-> s[i]]
<1>3. f \in Surjection(1..Len(s), ToSet(s))
  BY <1>1 DEF Surjection, ToSet
<1>4. IsFiniteSet(ToSet(s))
  BY <1>2, <1>3, FS_Surjection
<1> QED BY <1>1, <1>4 DEF ToSet

LEMMA PoolIs ==
  ASSUME NEW shelf \in Seq(Style), OwnIds(shelf)
  PROVE  /\ Pool(shelf) \in Seq(Style) /\ OwnIds(Pool(shelf))
         /\ ToSet(Pool(shelf)) \subseteq Live(shelf)
<1> DEFINE shots == {s \in Live(shelf) : s.shot}
           p == Pool(shelf)
           N == Cardinality(shots)
<1>1. shots \subseteq ToSet(shelf) /\ shots \subseteq Live(shelf)
  BY DEF Live
<1>2. IsFiniteSet(shots) /\ shots \subseteq Style
  BY <1>1, EntriesAreFinite, FS_Subset
<1>3. \A x, y \in shots : x.id = y.id => x = y
  <2> SUFFICES ASSUME NEW x \in shots, NEW y \in shots, x.id = y.id PROVE x = y
    OBVIOUS
  <2>1. PICK i \in DOMAIN shelf : x = shelf[i]
    BY <1>1 DEF ToSet
  <2>2. PICK j \in DOMAIN shelf : y = shelf[j]
    BY <1>1 DEF ToSet
  <2> QED BY <2>1, <2>2 DEF OwnIds
<1>4. p = [n \in 1..N |-> CHOOSE s \in shots : Before(shots, s) = n - 1]
  BY DEF Pool, Before
<1> HIDE DEF shots, p
<1>5. /\ N \in Nat /\ \A k \in 0..(N - 1) : \E x \in shots : Before(shots, x) = k
  BY <1>2, <1>3, IdRanks
<1>6. ASSUME NEW n \in 1..N PROVE p[n] \in shots /\ Before(shots, p[n]) = n - 1
  <2>1. n - 1 \in 0..(N - 1)
    BY <1>5
  <2>2. \E x \in shots : Before(shots, x) = n - 1
    BY <1>5, <2>1
  <2> QED BY <1>4, <2>2
<1> HIDE DEF N
<1>7. p \in [1..N -> shots]
  BY <1>4, <1>6
<1>8. p \in Seq(Style) /\ Len(p) = N /\ DOMAIN p = 1..N
  BY <1>2, <1>5, <1>7
<1>9. OwnIds(p)
  <2> SUFFICES ASSUME NEW i \in 1..N, NEW j \in 1..N, p[i].id = p[j].id PROVE i = j
    BY <1>8 DEF OwnIds
  <2>1. p[i] = p[j]
    BY <1>3, <1>6
  <2>2. i - 1 = j - 1
    BY <1>6, <2>1
  <2> QED BY <1>5, <2>2
<1>10. ToSet(p) \subseteq Live(shelf)
  BY <1>1, <1>6, <1>8 DEF ToSet
<1> QED BY <1>8, <1>9, <1>10 DEF p

(* The window of a day slides over the pool written twice.                 *)
LEMMA Window ==
  ASSUME NEW p \in Seq(Style), NEW o \in 0..(Len(p) - 1), NEW w \in 0..Len(p)
  PROVE  LET v == SubSeq(p \o p, o + 1, o + w)
         IN  /\ v \in Seq(Style) /\ Len(v) = w
             /\ \A i \in 1..w : v[i] = p[IF o + i <= Len(p) THEN o + i ELSE o + i - Len(p)]
<1> DEFINE pp == p \o p
           L == Len(p)
           v == SubSeq(pp, o + 1, o + w)
<1>1. L \in Nat /\ o \in Nat /\ w \in Nat /\ o + w <= L + L /\ o + 1 <= o + w + 1
  OBVIOUS
<1>2. /\ pp \in Seq(Style) /\ Len(pp) = L + L
      /\ \A i \in 1..L : pp[i] = p[i]
      /\ \A i \in 1..L : pp[L + i] = p[i]
  BY Joined
<1> HIDE DEF pp, L
<1>3. v \in Seq(Style) /\ Len(v) = w /\ \A i \in 1..w : v[i] = pp[o + i]
  BY <1>1, <1>2
<1>4. ASSUME NEW i \in 1..w PROVE pp[o + i] = p[IF o + i <= L THEN o + i ELSE o + i - L]
  <2>1. CASE o + i <= L
    BY <1>1, <1>2, <2>1
  <2>2. CASE ~(o + i <= L)
    <3>1. o + i - L \in 1..L /\ L + (o + i - L) = o + i
      BY <1>1, <2>2
    <3> QED BY <1>2, <2>2, <3>1
  <2> QED BY <2>1, <2>2
<1> QED BY <1>3, <1>4 DEF pp, L

LEMMA Remainder ==
  ASSUME NEW a \in Nat, NEW n \in Nat \ {0}
  PROVE  a % n \in 0..(n - 1) /\ a \div n \in Nat /\ a = ((a \div n) * n) + (a % n)
  OBVIOUS

LEMMA OneTurn ==
  ASSUME NEW k \in Int, NEW n \in Nat \ {0}, k * n > -n, k * n < n + n
  PROVE  k \in {0, 1}
<1>1. k < 0 => k * n <= -n
  OBVIOUS
<1>2. k > 1 => k * n >= n + n
  OBVIOUS
<1> QED BY <1>1, <1>2

(* Whichever place i of a pool of n, on one of n days in a row the window  *)
(* of c comes over it.                                                     *)
ComesOver(n, c, day, s, i) ==
  LET o == (day * c) % n
  IN  s \in Nat /\ s < c /\ s < n /\ (o + s + 1 = i \/ o + s + 1 = i + n)

LEMMA Turn ==
  ASSUME NEW n \in Nat \ {0}, NEW c \in Nat \ {0}, NEW day \in Nat, NEW i \in 1..n
  PROVE  \E d \in 0..(n - 1) : \E s : ComesOver(n, c, day + d, s, i)
<1> DEFINE a == day * c
           o == a % n
           q == a \div n
           e == IF i - 1 >= o THEN 0 ELSE 1
           t == i - 1 - o + (e * n)
           d == t \div c
           s == t % c
           b == a + (d * c)
           ob == b % n
           qb == b \div n
           k == q + e - qb
<1>1. n \in Nat /\ n > 0 /\ c \in Nat /\ c > 0 /\ a \in Nat
  OBVIOUS
<1> HIDE DEF a
<1>2. o \in 0..(n - 1) /\ q \in Nat /\ a = (q * n) + o
  BY <1>1, Remainder
<1> HIDE DEF o, q
<1>3. e \in {0, 1} /\ t \in 0..(n - 1) /\ o + t = i - 1 + (e * n)
  BY <1>1, <1>2
<1> HIDE DEF e, t
<1>4. s \in 0..(c - 1) /\ d \in Nat /\ t = (d * c) + s
  <2>1. t \in Nat /\ c \in Nat \ {0}
    BY <1>1, <1>3
  <2> QED BY <2>1, Remainder
<1> HIDE DEF d, s
<1>5. d * c \in Nat /\ d * c >= d /\ s <= t /\ s < n /\ d <= t
  <2>1. d * c >= d
    BY <1>1, <1>4
  <2> QED BY <1>1, <1>3, <1>4, <2>1
<1>6. (day + d) * c = b
  BY <1>1, <1>4 DEF a
<1>7. b \in Nat
  BY <1>1, <1>5
<1> HIDE DEF b
<1>8. ob \in 0..(n - 1) /\ qb \in Nat /\ b = (qb * n) + ob
  BY <1>1, <1>7, Remainder
<1> HIDE DEF ob, qb
<1>9. b + s = (q * n) + (e * n) + (i - 1)
  <2>1. b + s = a + t
    BY <1>1, <1>3, <1>4, <1>5 DEF b
  <2>2. q * n \in Int /\ e * n \in Int
    BY <1>1, <1>2, <1>3
  <2> QED BY <1>1, <1>2, <1>3, <2>1, <2>2
<1>10. k * n = ((q * n) + (e * n)) - (qb * n) /\ k \in Int
  BY <1>1, <1>2, <1>3, <1>8
<1> HIDE DEF k
<1>11. ob + s = (k * n) + (i - 1)
  <2>1. q * n \in Int /\ e * n \in Int /\ qb * n \in Int /\ s \in Int /\ ob \in Int
    BY <1>1, <1>2, <1>3, <1>4, <1>8
  <2> QED BY <1>8, <1>9, <1>10, <2>1
<1>12. k \in {0, 1}
  <2>1. k * n \in Int /\ k * n > -n /\ k * n < n + n
    BY <1>1, <1>4, <1>5, <1>8, <1>10, <1>11
  <2> QED BY <1>10, <2>1, OneTurn
<1>13. ob + s + 1 = i \/ ob + s + 1 = i + n
  BY <1>1, <1>4, <1>8, <1>11, <1>12
<1>14. d \in 0..(n - 1) /\ s \in Nat /\ s < c
  BY <1>1, <1>3, <1>4, <1>5
<1>15. ((day + d) * c) % n = ob
  BY <1>6 DEF ob
<1>16. ComesOver(n, c, day + d, s, i)
  BY <1>5, <1>13, <1>14, <1>15 DEF ComesOver
<1> QED BY <1>14, <1>16

LEMMA RotationIs ==
  ASSUME NEW shelf \in Seq(Style), OwnIds(shelf), NEW day \in Nat, NEW c \in Nat \ {0}
  PROVE  LET p == Pool(shelf)
             n == Len(p)
             o == (day * c) % n
             w == IF c <= n THEN c ELSE n
             v == Rotation(shelf, day, c)
         IN  /\ v \in Seq(Style) /\ Len(v) = w /\ n \in Nat
             /\ n # 0 => o \in 0..(n - 1)
             /\ \A i \in 1..w : v[i] = p[IF o + i <= n THEN o + i ELSE o + i - n]
<1> DEFINE p == Pool(shelf)
           n == Len(p)
           o == (day * c) % n
           w == IF c <= n THEN c ELSE n
           v == Rotation(shelf, day, c)
<1>1. p \in Seq(Style) /\ n \in Nat /\ w \in 0..n
  BY PoolIs
<1>2. v = IF p = <<>> THEN <<>> ELSE SubSeq(p \o p, o + 1, o + Min({c, n}))
  BY DEF Rotation
<1>3. Min({c, n}) = w
  BY <1>1, LeastOfTwo
<1> HIDE DEF p, v, w
<1>4. CASE n = 0
  <2>1. p = <<>> /\ v = <<>> /\ w = 0
    BY <1>1, <1>2, <1>4
  <2> QED BY <1>4, <2>1 DEF p, v, w
<1>5. CASE n # 0
  <2>1. p # <<>>
    BY <1>5
  <2>2. day * c \in Nat
    OBVIOUS
  <2>3. o \in 0..(n - 1)
    BY <1>1, <1>5, <2>2, Remainder
  <2>4. v = SubSeq(p \o p, o + 1, o + w)
    BY <1>2, <1>3, <2>1
  <2> HIDE DEF o
  <2>5. v \in Seq(Style) /\ Len(v) = w /\ \A i \in 1..w : v[i] = p[IF o + i <= n THEN o + i ELSE o + i - n]
    BY <1>1, <2>3, <2>4, Window
  <2> QED BY <1>1, <2>3, <2>5 DEF o, p, v, w
<1> QED BY <1>4, <1>5

LEMMA InvEverybodyHasADay == Inv => EverybodyHasADay
<1> SUFFICES ASSUME Inv, Written("shots"), ask.override = {} PROVE EverybodyHasADay
  BY DEF EverybodyHasADay
<1> DEFINE shelf == ask.shelf
           c == ask.limit
           p == Pool(shelf)
           n == Len(p)
           w == IF c <= n THEN c ELSE n
<1>1. shelf \in Seq(Style) /\ OwnIds(shelf) /\ c \in Nat \ {0} /\ ask.day \in Nat
  <2>1. ShelfAsked(ask) /\ ask.kind = "shots"
    BY RequestIs DEF Written, Shelves
  <2> QED BY <2>1 DEF ShelfAsked, OwnIds
<1>2. result = Rotation(shelf, ask.day, c)
  BY DEF Inv, Outcome, DailyShots
<1>3. p \in Seq(Style) /\ OwnIds(p) /\ n \in Nat /\ DOMAIN p = 1..n /\ w \in 0..n /\ w \in Nat /\ w <= n
  BY <1>1, PoolIs
<1>4. Cardinality(Ids(result)) = w
  <2> DEFINE day == ask.day
             o == (day * c) % n
             f == [i \in 1..w |-> result[i].id]
             Place(i) == IF o + i <= n THEN o + i ELSE o + i - n
  <2>1. /\ result \in Seq(Style) /\ Len(result) = w /\ DOMAIN result = 1..w
        /\ n # 0 => o \in 0..(n - 1)
        /\ \A i \in 1..w : result[i] = p[Place(i)]
    <3>1. result = Rotation(shelf, day, c) /\ day \in Nat
      BY <1>1, <1>2
    <3> HIDE DEF shelf, day, c
    <3>2. /\ result \in Seq(Style) /\ Len(result) = w
          /\ n # 0 => o \in 0..(n - 1)
          /\ \A i \in 1..w : result[i] = p[Place(i)]
      BY <1>1, <3>1, RotationIs
    <3> HIDE DEF w, o, p, n, Place
    <3> QED BY <3>2
  <2> HIDE DEF w, o, p, n
  <2>2. \A i, j \in 1..w : /\ Place(i) \in 1..n
                           /\ Place(i) = Place(j) => i = j
    <3> SUFFICES ASSUME NEW i \in 1..w, NEW j \in 1..w
                 PROVE  Place(i) \in 1..n /\ (Place(i) = Place(j) => i = j)
      OBVIOUS
    <3>1. n \in Nat \ {0} /\ w \in Nat /\ w <= n
      BY <1>3
    <3>2. o \in 0..(n - 1)
      BY <2>1, <3>1
    <3> QED BY <3>1, <3>2
  <2> HIDE DEF Place
  <2>3. \A i, j \in 1..w : f[i] = f[j] => i = j
    <3> SUFFICES ASSUME NEW i \in 1..w, NEW j \in 1..w, f[i] = f[j] PROVE i = j
      OBVIOUS
    <3>1. p[Place(i)].id = p[Place(j)].id
      BY <2>1
    <3>2. Place(i) = Place(j)
      BY <1>3, <2>2, <3>1 DEF OwnIds
    <3> QED BY <2>2, <3>2
  <2>4. f \in [1..w -> Ids(result)] /\ \A x \in Ids(result) : \E i \in 1..w : f[i] = x
    BY <2>1 DEF Ids
  <2>5. f \in Bijection(1..w, Ids(result))
    <3> HIDE DEF f
    <3> QED BY <2>3, <2>4 DEF Bijection, Injection, Surjection, IsInjective
  <2>6. ExistsBijection(1..w, Ids(result))
    BY <2>5 DEF ExistsBijection
  <2> QED BY <1>3, <2>6, UpToSize, FS_Bijection
<1>5. Min({c, n}) = w
  BY <1>1, <1>3, LeastOfTwo
<1>6. ASSUME NEW i \in DOMAIN p
      PROVE  \E d \in 0..(n - 1) : p[i].id \in Ids(Rotation(shelf, ask.day + d, c))
  <2>1. n \in Nat \ {0} /\ i \in 1..n
    BY <1>3
  <2> HIDE DEF p, n, w, c, shelf
  <2> DEFINE today == ask.day
  <2>2. today \in Nat /\ c \in Nat \ {0}
    BY <1>1
  <2> HIDE DEF today
  <2>3. PICK d \in 0..(n - 1) : \E s : ComesOver(n, c, today + d, s, i)
    BY <2>2, <2>1, Turn
  <2>4. PICK s : ComesOver(n, c, today + d, s, i)
    BY <2>3
  <2> DEFINE day == today + d
             o == (day * c) % n
             v == Rotation(shelf, day, c)
             x == s + 1
  <2>5. day \in Nat
    BY <2>2, <2>1
  <2> HIDE DEF day
  <2>6. /\ v \in Seq(Style) /\ Len(v) = (IF c <= n THEN c ELSE n)
        /\ o \in 0..(n - 1)
        /\ \A j \in 1..(IF c <= n THEN c ELSE n) : v[j] = p[IF o + j <= n THEN o + j ELSE o + j - n]
    BY <1>1, <2>1, <2>5, RotationIs DEF p, n
  <2>7. s \in Nat /\ s < c /\ s < n /\ (o + s + 1 = i \/ o + s + 1 = i + n)
    BY <2>4 DEF day, ComesOver
  <2> HIDE DEF o, v
  <2>8. /\ x \in 1..(IF c <= n THEN c ELSE n)
        /\ i = IF o + x <= n THEN o + x ELSE o + x - n
    <3>1. i \in 1..n /\ n \in Nat /\ c \in Nat /\ o \in 0..(n - 1) /\ s \in Nat
      BY <2>1, <2>2, <2>6, <2>7
    <3>2. x \in 1..c /\ x \in 1..n
      BY <2>7, <3>1
    <3>3. o + x = i \/ o + x = i + n
      BY <2>7, <3>1
    <3> HIDE DEF x
    <3>4. i = IF o + x <= n THEN o + x ELSE o + x - n
      BY <3>1, <3>2, <3>3
    <3> QED BY <3>2, <3>4
  <2> HIDE DEF x
  <2>9. v[x] = p[i] /\ x \in DOMAIN v
    BY <2>6, <2>8
  <2>10. p[i].id \in Ids(v)
    BY <2>9 DEF Ids
  <2> QED BY <2>10 DEF v, day, today
<1> QED BY <1>4, <1>5, <1>6 DEF EverybodyHasADay

LEMMA ListedAreLive ==
  ASSUME NEW shelf \in Seq(Style), NEW wanted, NEW n \in Nat
  PROVE  ListStyles(shelf, wanted, n) \in Seq(Style) /\ ToSet(ListStyles(shelf, wanted, n)) \subseteq Live(shelf)
<1> DEFINE shown == Live(shelf) \cap wanted
           rows == Kept(shelf, shown)
<1>1. shown \subseteq Live(shelf)
  OBVIOUS
<1> HIDE DEF shown
<1>2. rows \in Seq(Style) /\ ToSet(rows) = ToSet(shelf) \cap shown
  BY KeptSet
<1> HIDE DEF rows
<1>3. First(rows, n) \in Seq(Style) /\ ToSet(First(rows, n)) \subseteq ToSet(rows)
  BY <1>2, FirstIs
<1>4. ListStyles(shelf, wanted, n) = First(rows, n)
  BY DEF ListStyles, rows, shown
<1> QED BY <1>1, <1>2, <1>3, <1>4

LEMMA DailyAreLive ==
  ASSUME NEW shelf \in Seq(Style), OwnIds(shelf), NEW day \in Nat, NEW c \in Nat \ {0}, NEW override
  PROVE  /\ DailyShots(shelf, day, c, override) \in Seq(Style)
         /\ \A s \in ToSet(DailyShots(shelf, day, c, override)) : s \in Live(shelf) \/ s.id \in override
<1>1. CASE override = {}
  <2> DEFINE p == Pool(shelf)
             n == Len(p)
             o == (day * c) % n
             w == IF c <= n THEN c ELSE n
             v == Rotation(shelf, day, c)
  <2>1. DailyShots(shelf, day, c, override) = v
    BY <1>1 DEF DailyShots
  <2>2. p \in Seq(Style) /\ ToSet(p) \subseteq Live(shelf) /\ n \in Nat /\ DOMAIN p = 1..n
    BY PoolIs
  <2>3. /\ v \in Seq(Style) /\ Len(v) = w /\ DOMAIN v = 1..w
        /\ n # 0 => o \in 0..(n - 1)
        /\ \A i \in 1..w : v[i] = p[IF o + i <= n THEN o + i ELSE o + i - n]
    BY RotationIs
  <2> HIDE DEF v, p, o
  <2>4. ASSUME NEW i \in 1..w PROVE v[i] \in Live(shelf)
    <3>1. (IF o + i <= n THEN o + i ELSE o + i - n) \in 1..n
      BY <2>2, <2>3
    <3>2. \A j \in 1..n : p[j] \in Live(shelf)
      BY <2>2 DEF ToSet
    <3> QED BY <2>3, <3>1, <3>2
  <2>5. \A s \in ToSet(v) : s \in Live(shelf)
    BY <2>3, <2>4 DEF ToSet
  <2> QED BY <2>1, <2>3, <2>5
<1>2. CASE override # {}
  <2> DEFINE chosen == {s \in ToSet(shelf) : s.id \in override}
  <2>1. DailyShots(shelf, day, c, override) = Kept(shelf, chosen)
    BY <1>2 DEF DailyShots
  <2>2. \A s \in chosen : s.id \in override
    OBVIOUS
  <2> HIDE DEF chosen
  <2>3. Kept(shelf, chosen) \in Seq(Style) /\ ToSet(Kept(shelf, chosen)) = ToSet(shelf) \cap chosen
    BY KeptSet
  <2> QED BY <2>1, <2>2, <2>3
<1> QED BY <1>1, <1>2

LEMMA CatalogueIsLive ==
  ASSUME NEW shelf \in Seq(Style), NEW liked, NEW n \in Nat
  PROVE  /\ WholeCatalogue(shelf, liked, n) \in Seq(Style)
         /\ ToSet(WholeCatalogue(shelf, liked, n)) \subseteq Live(shelf)
<1> DEFINE rest == STRING \ liked
           first == Kept(Categories, liked)
           last == Kept(Categories, rest)
           order == first \o last
           Of(i) == ListStyles(shelf, InCategory(shelf, order[i]), n)
           ss == [i \in DOMAIN order |-> Of(i)]
<1>1. Categories \in Seq(STRING)
  BY StudioAssumption
<1> HIDE DEF rest
<1>2. first \in Seq(STRING) /\ last \in Seq(STRING)
  BY <1>1, KeptSet
<1> HIDE DEF first, last
<1>3. order \in Seq(STRING)
  BY <1>2, Joined
<1> HIDE DEF order
<1>4. Len(order) \in Nat /\ DOMAIN order = 1..Len(order)
  BY <1>3
<1>5. \A i \in 1..Len(order) : Of(i) \in Seq(Style) /\ ToSet(Of(i)) \subseteq Live(shelf)
  BY ListedAreLive
<1> HIDE DEF Of
<1>6. ss \in Seq(Seq(Style)) /\ Len(ss) = Len(order) /\ \A i \in 1..Len(order) : ss[i] = Of(i)
  BY <1>4, <1>5
<1> HIDE DEF ss
<1>7. FlattenSeq(ss) \in Seq(Style) /\ ToSet(FlattenSeq(ss)) = UNION {ToSet(ss[i]) : i \in 1..Len(ss)}
  BY <1>6, Flattened
<1>8. UNION {ToSet(ss[i]) : i \in 1..Len(ss)} \subseteq Live(shelf)
  BY <1>5, <1>6
<1>9. WholeCatalogue(shelf, liked, n) = FlattenSeq(ss)
  BY DEF WholeCatalogue, ss, Of, order, first, last, rest
<1> QED BY <1>7, <1>8, <1>9

LEMMA LiveOpens ==
  ASSUME NEW shelf \in Seq(Style), NEW s \in Live(shelf)
  PROVE  Opens(shelf, s.id)
<1>1. PICK i \in DOMAIN shelf : s = shelf[i]
  BY DEF Live, ToSet
<1> QED BY <1>1 DEF Live, Opens

LEMMA InvShownCanBeOpened == Inv => ShownCanBeOpened
<1> SUFFICES ASSUME Inv, \E kind \in Shelves : Written(kind), NEW id \in Ids(result)
             PROVE  Opens(ask.shelf, id) \/ (ask.kind \in {"shots", "bootstrap"} /\ id \in ask.override)
  BY DEF ShownCanBeOpened
<1> DEFINE shelf == ask.shelf
<1>1. pc = "written" /\ ask.kind \in Shelves /\ ShelfAsked(ask)
  BY RequestIs DEF Written
<1>2. shelf \in Seq(Style) /\ OwnIds(shelf)
  BY <1>1 DEF ShelfAsked, OwnIds
<1>3. PageLimit \in Nat
  BY StudioAssumption
<1>4. PICK i \in DOMAIN result : id = result[i].id
  BY DEF Ids
<1> DEFINE s == result[i]
<1>5. s \in ToSet(result)
  BY <1>4 DEF ToSet
<1> HIDE DEF s
<1>6. CASE ask.kind = "home"
  <2> DEFINE l == ListStyles(shelf, OnHome(shelf), 3 * ask.limit)
             r == RankFor(l, ask.liked)
  <2>1. result = First(r, ask.limit) /\ ask.limit \in Nat /\ 3 * ask.limit \in Nat
    BY <1>1, <1>6 DEF Inv, Outcome, Written, HomeStyles, ShelfAsked
  <2>2. l \in Seq(Style) /\ ToSet(l) \subseteq Live(shelf)
    BY <1>2, <2>1, ListedAreLive
  <2> HIDE DEF l
  <2>3. r \in Seq(Style) /\ ToSet(r) = ToSet(l)
    BY <2>2, RankedIs
  <2> HIDE DEF r
  <2>4. ToSet(result) \subseteq ToSet(r)
    BY <2>1, <2>3, FirstIs
  <2>5. s \in Live(shelf)
    BY <1>5, <2>2, <2>3, <2>4
  <2> QED BY <1>2, <1>4, <2>5, LiveOpens DEF s
<1>7. CASE ask.kind = "catalogue"
  <2>1. result = WholeCatalogue(shelf, ask.liked, PageLimit)
    BY <1>1, <1>7 DEF Inv, Outcome, Written
  <2>2. s \in Live(shelf)
    BY <1>2, <1>3, <1>5, <2>1, CatalogueIsLive
  <2> QED BY <1>2, <1>4, <2>2, LiveOpens DEF s
<1>8. CASE ask.kind = "shots"
  <2>1. result = DailyShots(shelf, ask.day, ask.limit, ask.override) /\ ask.day \in Nat /\ ask.limit \in Nat \ {0}
    BY <1>1, <1>8 DEF Inv, Outcome, Written, ShelfAsked
  <2>2. s \in Live(shelf) \/ s.id \in ask.override
    BY <1>2, <1>5, <2>1, DailyAreLive
  <2> QED BY <1>2, <1>4, <1>8, <2>2, LiveOpens DEF s
<1>9. CASE ask.kind = "bootstrap"
  <2> DEFINE l == ListStyles(shelf, OnHome(shelf), ask.limit)
             d == DailyShots(shelf, ask.day, ask.limit, ask.override)
  <2>1. result = l \o d /\ ask.day \in Nat /\ ask.limit \in Nat \ {0}
    BY <1>1, <1>9 DEF Inv, Outcome, Written, ShelfAsked
  <2>2. l \in Seq(Style) /\ ToSet(l) \subseteq Live(shelf)
    BY <1>2, <2>1, ListedAreLive
  <2>3. d \in Seq(Style) /\ \A x \in ToSet(d) : x \in Live(shelf) \/ x.id \in ask.override
    BY <1>2, <2>1, DailyAreLive
  <2> HIDE DEF l, d
  <2>4. ToSet(result) = ToSet(l) \cup ToSet(d)
    BY <2>1, <2>2, <2>3, Joined
  <2>5. s \in Live(shelf) \/ s.id \in ask.override
    BY <1>5, <2>2, <2>3, <2>4
  <2> QED BY <1>2, <1>4, <1>9, <2>5, LiveOpens DEF s
<1> QED BY <1>1, <1>6, <1>7, <1>8, <1>9 DEF Shelves

(* repositories/styles.py, for shelves of any length: what a person marked *)
(* stands before what they did not, each part in our order; every style of *)
(* the pool has its day within one turn; what is shown can be opened.      *)
THEOREM ShelfKeepsOrder == Spec => []ShelfInOrder
<1>1. Inv => ShelfInOrder
  BY InvLikedOnTop, InvEverybodyHasADay, InvShownCanBeOpened DEF ShelfInOrder
<1> QED BY <1>1, AlwaysInv, PTL
-----------------------------------------------------------------------------
(* What the builder of a video reads.  A slot takes the word of the first  *)
(* of its questions that is answered; where one of them only can be, it is *)
(* that one's.                                                             *)
LEMMA Listed ==
  /\ \A s : ToSet(<<>>) = {} /\ <<>> \in Seq({s})
  /\ \A s : ToSet(<<s>>) = {s} /\ <<s>> \in Seq({s})
  /\ \A s, t : ToSet(<<s, t>>) = {s, t} /\ <<s, t>> \in Seq({s, t})
  BY DEF ToSet

(* The words of a list with one entry, or none *)
LEMMA Entries ==
  ASSUME NEW T, NEW s \in Seq(T)
  PROVE  /\ ToSet(s) = {} => s = <<>>
         /\ \A q : ToSet(s) = {q} => s # <<>> /\ s[1] = q
<1>1. Len(s) \in Nat /\ DOMAIN s = 1..Len(s) /\ \A i \in 1..Len(s) : s[i] \in ToSet(s)
  BY DEF ToSet
<1>2. CASE Len(s) = 0
  <2>1. s = <<>>
    BY <1>2
  <2>2. ToSet(s) = {}
    BY <2>1, Listed
  <2> QED BY <2>1, <2>2
<1>3. CASE Len(s) # 0
  <2>1. 1 \in 1..Len(s)
    BY <1>1, <1>3
  <2>2. s[1] \in ToSet(s) /\ s # <<>>
    BY <1>1, <1>3, <2>1
  <2> QED BY <2>2
<1> QED BY <1>2, <1>3

Given(answers, q, default) == IF q \in DOMAIN answers THEN answers[q].word ELSE default
(* The word read for a list of questions only one of which can be answered *)
LEMMA Read ==
  ASSUME NEW T, NEW ids \in Seq(T), NEW answers, NEW default, NEW q \in ToSet(ids),
         ToSet(ids) \cap DOMAIN answers \subseteq {q}
  PROVE  Bare(FirstAnswer(answers, ids, default)) = Given(answers, q, default)
<1> DEFINE given == Kept(ids, DOMAIN answers)
<1>1. given \in Seq(T) /\ ToSet(given) = ToSet(ids) \cap DOMAIN answers
  BY KeptSet
<1>2. FirstAnswer(answers, ids, default) = IF given = <<>> THEN Plain(default) ELSE answers[given[1]]
  BY DEF FirstAnswer
<1> HIDE DEF given
<1>3. CASE q \in DOMAIN answers
  <2>1. ToSet(given) = {q}
    BY <1>1, <1>3
  <2>2. given # <<>> /\ given[1] = q
    BY <1>1, <2>1, Entries
  <2> QED BY <1>2, <1>3, <2>2 DEF Bare, Given
<1>4. CASE q \notin DOMAIN answers
  <2>1. ToSet(given) = {}
    BY <1>1, <1>4
  <2>2. given = <<>>
    BY <1>1, <2>1, Entries
  <2> QED BY <1>2, <1>4, <2>2 DEF Bare, Given, Plain
<1> QED BY <1>3, <1>4

LEMMA ReadOne ==
  ASSUME NEW a, NEW answers, NEW default
  PROVE  Bare(FirstAnswer(answers, <<a>>, default)) = Given(answers, a, default)
<1>1. <<a>> \in Seq({a}) /\ ToSet(<<a>>) = {a}
  BY Listed
<1> QED BY <1>1, Read

(* What is laid over a video: a text, which has a default, and a name *)
LEMMA Laid ==
  ASSUME NEW tile, NEW answers
  PROVE  ToSet(OverlayOf(tile, answers)) =
           (IF Scripts[tile].overlay = "none" THEN {} ELSE {Given(answers, "text", Scripts[tile].overlay)})
             \cup (IF tile = "video_greeting" /\ "who" \in DOMAIN answers THEN {answers["who"].word} ELSE {})
<1> DEFINE default == Scripts[tile].overlay
           text == Bare(FirstAnswer(answers, <<"text">>, default))
           words == IF default = "none" THEN <<>> ELSE <<text>>
           ids == IF tile = "video_greeting" THEN <<"who">> ELSE <<>>
           whom == Kept(ids, DOMAIN answers)
           name == answers["who"].word
           names == [i \in DOMAIN whom |-> Bare(answers[whom[i]])]
<1>1. OverlayOf(tile, answers) = words \o names
  BY DEF OverlayOf
<1>2. text = Given(answers, "text", default)
  BY ReadOne
<1>3. ids \in Seq({"who"}) /\ ToSet(ids) = IF tile = "video_greeting" THEN {"who"} ELSE {}
  <2>1. CASE tile = "video_greeting"
    <3>1. ids = <<"who">>
      BY <2>1
    <3> HIDE DEF ids
    <3> QED BY <2>1, <3>1, Listed
  <2>2. CASE tile # "video_greeting"
    <3>1. ids = <<>>
      BY <2>2
    <3> HIDE DEF ids
    <3> QED BY <2>2, <3>1, Listed
  <2> QED BY <2>1, <2>2
<1> HIDE DEF ids
<1>4. whom \in Seq({"who"}) /\ ToSet(whom) = ToSet(ids) \cap DOMAIN answers
  BY <1>3, KeptSet
<1> HIDE DEF whom, text
<1>5. words \in Seq({text, name}) /\ ToSet(words) = IF default = "none" THEN {} ELSE {text}
  <2>1. CASE default = "none"
    <3>1. words = <<>>
      BY <2>1
    <3> HIDE DEF words
    <3> QED BY <2>1, <3>1, Listed
  <2>2. CASE default # "none"
    <3>1. words = <<text>>
      BY <2>2
    <3> HIDE DEF words
    <3>2. words \in Seq({text}) /\ ToSet(words) = {text}
      BY <3>1, Listed
    <3> QED BY <2>2, <3>2
  <2> QED BY <2>1, <2>2
<1>6. Len(whom) \in Nat /\ DOMAIN whom = 1..Len(whom) /\ \A i \in 1..Len(whom) : whom[i] = "who"
  BY <1>4
<1>7. DOMAIN names = 1..Len(whom) /\ \A i \in 1..Len(whom) : names[i] = name
  BY <1>6 DEF Bare
<1>8. names \in Seq({text, name})
  BY <1>6 DEF Bare
<1> HIDE DEF words, names
<1>9. ToSet(names) = IF tile = "video_greeting" /\ "who" \in DOMAIN answers THEN {name} ELSE {}
  <2>1. CASE ToSet(whom) = {}
    <3>1. whom = <<>>
      BY <1>4, <2>1, Entries
    <3>2. Len(whom) = 0
      BY <3>1
    <3>3. ToSet(names) = {}
      BY <1>7, <3>2 DEF ToSet
    <3> QED BY <1>3, <1>4, <2>1, <3>3
  <2>2. CASE ToSet(whom) = {"who"}
    <3>1. whom # <<>>
      BY <1>4, <2>2, Entries
    <3>2. 1 \in 1..Len(whom)
      BY <1>4, <1>6, <3>1
    <3>3. ToSet(names) = {name}
      BY <1>7, <3>2 DEF ToSet
    <3> QED BY <1>3, <1>4, <2>2, <3>3
  <2> QED BY <1>3, <1>4, <2>1, <2>2
<1>10. ToSet(words \o names) = ToSet(words) \cup ToSet(names)
  BY <1>5, <1>8, Joined
<1> HIDE DEF default, name
<1> QED BY <1>1, <1>2, <1>5, <1>9, <1>10 DEF default, name

-----------------------------------------------------------------------------
Offered(tile, answers) ==
  /\ DOMAIN answers \subseteq DOMAIN Questions[tile] \cup {"audio", "who"}
  /\ \A q \in (DOMAIN answers \cap DOMAIN Questions[tile]) \ Typed :
       answers[q].word \in Questions[tile][q]
  /\ \A q \in DOMAIN answers \cap Typed : \A x \in DOMAIN Questions[tile] \ {q} :
       answers[q].word \notin Questions[tile][x]
Drawn(board) == {board.scene[s] : s \in DOMAIN board.scene} \cup ToSet(board.overlay)
Hears(tile, answers, words) ==
  \A q \in DOMAIN answers \cap DOMAIN Questions[tile] :
    answers[q].word \in words <=> q \notin Unread[tile] /\ answers[q].word \notin Unknown[tile]

LEMMA DrawnIs ==
  ASSUME NEW tile, NEW answers
  PROVE  LET slots == Scripts[tile].slots
         IN  Drawn(TileBoard(tile, answers)) =
               {Describe(slots[s], s, answers) : s \in DOMAIN slots} \cup ToSet(OverlayOf(tile, answers))
<1> DEFINE slots == Scripts[tile].slots
           board == TileBoard(tile, answers)
           scene == [s \in DOMAIN slots |-> Describe(slots[s], s, answers)]
<1>1. board.scene = scene /\ board.overlay = OverlayOf(tile, answers)
  BY DEF TileBoard
<1>2. {scene[s] : s \in DOMAIN scene} = {Describe(slots[s], s, answers) : s \in DOMAIN slots}
  OBVIOUS
<1> HIDE DEF slots, board, scene
<1> QED BY <1>1, <1>2 DEF Drawn, slots, board

(* The word of a slot: of the only question it has, or of one of two, the  *)
(* other of which this tile does not ask                                   *)
Taken(slot, name, word) == IF word \in slot.knows \/ name \in Echoed THEN word ELSE "anything"
Listens(slot, ids, default) ==
  slot.ids \in Seq(ids) /\ ToSet(slot.ids) = ids /\ slot.default = default
LEMMA SlotTells ==
  ASSUME NEW slot, NEW name, NEW answers, NEW ids, NEW default, NEW q, Listens(slot, ids, default),
         q \in ids, ids \cap DOMAIN answers \subseteq {q}
  PROVE  Describe(slot, name, answers) = Taken(slot, name, Given(answers, q, default))
<1>1. Bare(FirstAnswer(answers, slot.ids, default)) = Given(answers, q, default)
  BY Read DEF Listens
<1> QED BY <1>1 DEF Describe, Taken, Listens

(* Nature says everything that is asked of it *)
LEMMA NatureHears ==
  ASSUME NEW answers, Offered("living_nature", answers)
  PROVE  Hears("living_nature", answers, Drawn(TileBoard("living_nature", answers)))
<1> DEFINE place == Describe(NatureSlots.place, "place", answers)
           time == Describe(NatureSlots.time, "time", answers)
           special == Describe(NatureSlots.special, "special", answers)
           mood == Describe(NatureSlots.mood, "mood", answers)
           words == Drawn(TileBoard("living_nature", answers))
           asked == Questions["living_nature"]
<1>1. /\ DOMAIN asked = {"place", "time", "special", "mood"}
      /\ asked["place"] = {"forest", "sea", "mountains", "field"}
      /\ asked["time"] = {"summer morning", "autumn sunset", "winter night", "spring day"}
      /\ asked["special"] = {"wind", "fog", "snow", "blossoming"}
      /\ asked["mood"] = {"calm", "magical", "vivid"}
  BY DEF Questions
<1>2. Unread["living_nature"] = {} /\ Unknown["living_nature"] = {}
  BY DEF Unread, Unknown
<1>3. \A q \in DOMAIN answers \cap DOMAIN asked : answers[q].word \in asked[q]
  BY <1>1 DEF Offered, Typed
<1>4. "time_season" \notin DOMAIN answers
  BY <1>1 DEF Offered
<1>5. /\ place = Taken(NatureSlots.place, "place", Given(answers, "place", "forest"))
      /\ time = Taken(NatureSlots.time, "time", Given(answers, "time", "summer morning"))
      /\ special = Taken(NatureSlots.special, "special", Given(answers, "special", "wind"))
      /\ mood = Taken(NatureSlots.mood, "mood", Given(answers, "mood", "calm"))
  <2>1. Listens(NatureSlots.place, {"place"}, "forest")
    BY Listed DEF NatureSlots, Slot, Listens
  <2>2. Listens(NatureSlots.time, {"time", "time_season"}, "summer morning")
    BY Listed DEF NatureSlots, Slot, Listens
  <2>3. Listens(NatureSlots.special, {"special"}, "wind")
    BY Listed DEF NatureSlots, Slot, Listens
  <2>4. Listens(NatureSlots.mood, {"mood"}, "calm")
    BY Listed DEF NatureSlots, Slot, Listens
  <2> QED BY <1>4, <2>1, <2>2, <2>3, <2>4, SlotTells
<1>6. /\ NatureSlots.place.knows = asked["place"] /\ NatureSlots.time.knows = asked["time"]
      /\ NatureSlots.special.knows = asked["special"] \cup {"blossom"}
      /\ NatureSlots.mood.knows = asked["mood"]
  BY <1>1 DEF NatureSlots, Slot
<1>8. {place, time, special, mood} \subseteq words
  <2>1. Scripts["living_nature"].slots = NatureSlots
    BY DEF Scripts
  <2>2. DOMAIN NatureSlots = {"place", "time", "special", "mood"}
    BY DEF NatureSlots
  <2> QED BY <2>1, <2>2, DrawnIs
<1> HIDE DEF asked, words, place, time, special, mood
<1>9. ASSUME NEW q \in DOMAIN answers \cap DOMAIN asked PROVE answers[q].word \in words
  BY <1>1, <1>3, <1>5, <1>6, <1>8 DEF Given, Taken
<1> QED BY <1>2, <1>9 DEF Hears, asked, words

(* A morning's subject and light share the slots of the catalogue's tile;  *)
(* what is typed is laid over the film                                     *)
LEMMA MorningHears ==
  ASSUME NEW answers, Offered("morning_video", answers)
  PROVE  Hears("morning_video", answers, Drawn(TileBoard("morning_video", answers)))
<1> DEFINE scene == Describe(MorningSlots.scene, "scene", answers)
           special == Describe(MorningSlots.special, "special", answers)
           text == Given(answers, "text", "Good morning!")
           words == Drawn(TileBoard("morning_video", answers))
           asked == Questions["morning_video"]
<1>1. /\ DOMAIN asked = {"subject", "light", "mood", "text"}
      /\ asked["subject"] = {"flowers", "nature", "tea", "sunrise"}
      /\ asked["light"] = {"pastel", "bright", "golden", "soft"}
      /\ asked["mood"] = {"tender", "cheerful", "warm"}
  BY DEF Questions
<1>2. /\ Unread["morning_video"] = {"mood"}
      /\ Unknown["morning_video"] = {"nature", "tea", "pastel", "bright", "golden", "soft"}
  BY DEF Unread, Unknown
<1>3. /\ \A q \in DOMAIN answers \cap {"subject", "light", "mood"} : answers[q].word \in asked[q]
      /\ "text" \in DOMAIN answers =>
           \A q \in {"subject", "light", "mood"} : answers["text"].word \notin asked[q]
      /\ {"scene", "special"} \cap DOMAIN answers = {}
  BY <1>1 DEF Offered, Typed
<1>4. scene = IF Given(answers, "subject", "sunrise") \in
     {"sunrise", "flowers", "cup of coffee", "window"}
   THEN Given(answers, "subject", "sunrise") ELSE "anything"
  <2>1. Listens(MorningSlots.scene, {"scene", "subject"}, "sunrise")
    BY Listed DEF MorningSlots, Slot, Listens
  <2>2. scene = Taken(MorningSlots.scene, "scene", Given(answers, "subject", "sunrise"))
    BY <1>3, <2>1, SlotTells
  <2>3. MorningSlots.scene.knows =
     {"sunrise", "flowers", "cup of coffee", "window"}
    BY DEF MorningSlots, Slot
  <2> HIDE DEF scene
  <2> QED BY <2>2, <2>3 DEF Taken, Echoed
<1>5. special = IF Given(answers, "light", "sun rays") \in
     {"sun rays", "light fog", "blooming flowers", "light dust",
      "floating light"}
   THEN Given(answers, "light", "sun rays") ELSE "anything"
  <2>1. Listens(MorningSlots.special, {"special", "light"}, "sun rays")
    BY Listed DEF MorningSlots, Slot, Listens
  <2>2. special = Taken(MorningSlots.special, "special", Given(answers, "light", "sun rays"))
    BY <1>3, <2>1, SlotTells, ZenonT(40)
  <2>3. MorningSlots.special.knows =
     {"sun rays", "light fog", "blooming flowers", "light dust",
      "floating light"}
    BY DEF MorningSlots, Slot
  <2> HIDE DEF special
  <2> QED BY <2>2, <2>3 DEF Taken, Echoed
<1>6. words = {scene, special, text}
  <2>1. Scripts["morning_video"].slots = MorningSlots /\ Scripts["morning_video"].overlay = "Good morning!"
    BY DEF Scripts
  <2>2. DOMAIN MorningSlots = {"scene", "special"}
    BY DEF MorningSlots
  <2>3. ToSet(OverlayOf("morning_video", answers)) = {text}
    BY <2>1, Laid
  <2>4. {Describe(MorningSlots[s], s, answers) : s \in {"scene", "special"}} = {scene, special}
    OBVIOUS
  <2>5. words = {Describe(MorningSlots[s], s, answers) : s \in DOMAIN MorningSlots} \cup {text}
    BY <2>1, <2>3, DrawnIs, ZenonT(40)
  <2> HIDE DEF words, scene, special, text
  <2> QED BY <2>2, <2>4, <2>5
<1> HIDE DEF asked, words, scene, special
<1>7. ASSUME NEW q \in DOMAIN answers \cap DOMAIN asked
      PROVE  answers[q].word \in words <=> q \notin Unread["morning_video"] /\ answers[q].word \notin Unknown["morning_video"]
  <2>1. CASE q = "subject"
    BY <1>1, <1>2, <1>3, <1>4, <1>5, <1>6, <2>1 DEF Given
  <2>2. CASE q = "light"
    BY <1>1, <1>2, <1>3, <1>4, <1>5, <1>6, <2>2 DEF Given
  <2>3. CASE q = "mood"
    BY <1>1, <1>2, <1>3, <1>4, <1>5, <1>6, <2>3 DEF Given
  <2>4. CASE q = "text"
    BY <1>1, <1>2, <1>3, <1>4, <1>5, <1>6, <2>4 DEF Given
  <2> QED BY <1>1, <2>1, <2>2, <2>3, <2>4
<1> QED BY <1>7 DEF Hears, asked, words

(* None of the subjects and lights of an inspiring film is in its tables *)
LEMMA InspiringHears ==
  ASSUME NEW answers, Offered("inspiring_video", answers)
  PROVE  Hears("inspiring_video", answers, Drawn(TileBoard("inspiring_video", answers)))
<1> DEFINE scene == Describe(InspiringSlots.scene, "scene", answers)
           special == Describe(InspiringSlots.special, "special", answers)
           text == Given(answers, "text", "Have a great day!")
           words == Drawn(TileBoard("inspiring_video", answers))
           asked == Questions["inspiring_video"]
<1>1. /\ DOMAIN asked = {"subject", "light", "mood", "text"}
      /\ asked["subject"] = {"mountains", "forest", "sunset", "flowers"}
      /\ asked["light"] = {"sunny", "fog", "golden hour", "stars"}
      /\ asked["mood"] = {"solemn", "quiet", "joyful"}
  BY DEF Questions
<1>2. /\ Unread["inspiring_video"] = {"mood"}
      /\ Unknown["inspiring_video"] = {"mountains", "forest", "sunset", "flowers",
                                      "sunny", "fog", "golden hour", "stars"}
  BY DEF Unread, Unknown
<1>3. /\ \A q \in DOMAIN answers \cap {"subject", "light", "mood"} : answers[q].word \in asked[q]
      /\ "text" \in DOMAIN answers =>
           \A q \in {"subject", "light", "mood"} : answers["text"].word \notin asked[q]
      /\ {"scene", "special"} \cap DOMAIN answers = {}
  BY <1>1 DEF Offered, Typed
<1>4. scene = IF Given(answers, "subject", "sunny landscape") \in
     {"sunny landscape", "blooming field", "sea", "city"}
   THEN Given(answers, "subject", "sunny landscape") ELSE "anything"
  <2>1. Listens(InspiringSlots.scene, {"scene", "subject"}, "sunny landscape")
    BY Listed DEF InspiringSlots, Slot, Listens
  <2>2. scene = Taken(InspiringSlots.scene, "scene", Given(answers, "subject", "sunny landscape"))
    BY <1>3, <2>1, SlotTells, ZenonT(40)
  <2>3. InspiringSlots.scene.knows =
     {"sunny landscape", "blooming field", "sea", "city"}
    BY DEF InspiringSlots, Slot
  <2> HIDE DEF scene
  <2> QED BY <2>2, <2>3 DEF Taken, Echoed
<1>5. special = IF Given(answers, "light", "light breeze") \in
     {"light wind", "light breeze", "sun glints", "floating petals",
      "drifting clouds"}
   THEN Given(answers, "light", "light breeze") ELSE "anything"
  <2>1. Listens(InspiringSlots.special, {"special", "light"}, "light breeze")
    BY Listed DEF InspiringSlots, Slot, Listens
  <2>2. special = Taken(InspiringSlots.special, "special", Given(answers, "light", "light breeze"))
    BY <1>3, <2>1, SlotTells, ZenonT(40)
  <2>3. InspiringSlots.special.knows =
     {"light wind", "light breeze", "sun glints", "floating petals",
      "drifting clouds"}
    BY DEF InspiringSlots, Slot
  <2> HIDE DEF special
  <2> QED BY <2>2, <2>3 DEF Taken, Echoed
<1>6. words = {scene, special, text}
  <2>1. Scripts["inspiring_video"].slots = InspiringSlots /\ Scripts["inspiring_video"].overlay = "Have a great day!"
    BY DEF Scripts
  <2>2. DOMAIN InspiringSlots = {"scene", "special"}
    BY DEF InspiringSlots
  <2>3. ToSet(OverlayOf("inspiring_video", answers)) = {text}
    BY <2>1, Laid
  <2>4. {Describe(InspiringSlots[s], s, answers) : s \in {"scene", "special"}} = {scene, special}
    OBVIOUS
  <2>5. words = {Describe(InspiringSlots[s], s, answers) : s \in DOMAIN InspiringSlots} \cup {text}
    BY <2>1, <2>3, DrawnIs, ZenonT(40)
  <2> HIDE DEF words, scene, special, text
  <2> QED BY <2>2, <2>4, <2>5
<1> HIDE DEF asked, words, scene, special
<1>7. ASSUME NEW q \in DOMAIN answers \cap DOMAIN asked
      PROVE  answers[q].word \in words <=> q \notin Unread["inspiring_video"] /\ answers[q].word \notin Unknown["inspiring_video"]
  <2>1. CASE q = "subject"
    BY <1>1, <1>2, <1>3, <1>4, <1>5, <1>6, <2>1 DEF Given
  <2>2. CASE q = "light"
    BY <1>1, <1>2, <1>3, <1>4, <1>5, <1>6, <2>2 DEF Given
  <2>3. CASE q = "mood"
    BY <1>1, <1>2, <1>3, <1>4, <1>5, <1>6, <2>3 DEF Given
  <2>4. CASE q = "text"
    BY <1>1, <1>2, <1>3, <1>4, <1>5, <1>6, <2>4 DEF Given
  <2> QED BY <1>1, <2>1, <2>2, <2>3, <2>4
<1> QED BY <1>7 DEF Hears, asked, words

(* An animal is typed or taken from the buttons and has no table *)
LEMMA AnimalHears ==
  ASSUME NEW answers, Offered("cute_animal_video", answers)
  PROVE  Hears("cute_animal_video", answers, Drawn(TileBoard("cute_animal_video", answers)))
<1> DEFINE animal == Describe(AnimalSlots.animal, "animal", answers)
           action == Describe(AnimalSlots.action, "action", answers)
           setting == Describe(AnimalSlots.setting, "setting", answers)
           words == Drawn(TileBoard("cute_animal_video", answers))
           asked == Questions["cute_animal_video"]
<1>1. /\ DOMAIN asked = {"action", "place", "mood", "animal"}
      /\ asked["action"] = {"sleeping", "playing", "surprised"}
      /\ asked["place"] = {"at home", "in the forest", "outside"}
      /\ asked["mood"] = {"funny", "tender", "touching"}
  BY DEF Questions
<1>2. /\ Unread["cute_animal_video"] = {"mood"}
      /\ Unknown["cute_animal_video"] = {"surprised", "in the forest", "outside"}
  BY DEF Unread, Unknown
<1>3. /\ \A q \in DOMAIN answers \cap {"action", "place", "mood"} : answers[q].word \in asked[q]
      /\ "animal" \in DOMAIN answers =>
           \A q \in {"action", "place", "mood"} : answers["animal"].word \notin asked[q]
      /\ {"setting"} \cap DOMAIN answers = {}
  BY <1>1 DEF Offered, Typed
<1>4. animal = Given(answers, "animal", "kitten")
  <2>1. Listens(AnimalSlots.animal, {"animal"}, "kitten")
    BY Listed DEF AnimalSlots, Slot, Listens
  <2>2. animal = Taken(AnimalSlots.animal, "animal", Given(answers, "animal", "kitten"))
    BY <1>3, <2>1, SlotTells
  <2> HIDE DEF animal
  <2> QED BY <2>2 DEF Taken, Echoed
<1>5. action = IF Given(answers, "action", "sitting & blinking") \in
     {"sitting", "sitting & blinking", "playing", "grooming", "wagging",
      "wagging tail", "sleeping"}
   THEN Given(answers, "action", "sitting & blinking") ELSE "anything"
  <2>1. Listens(AnimalSlots.action, {"action"}, "sitting & blinking")
    BY Listed DEF AnimalSlots, Slot, Listens
  <2>2. action = Taken(AnimalSlots.action, "action", Given(answers, "action", "sitting & blinking"))
    BY <1>3, <2>1, SlotTells
  <2>3. AnimalSlots.action.knows =
     {"sitting", "sitting & blinking", "playing", "grooming", "wagging",
      "wagging tail", "sleeping"}
    BY DEF AnimalSlots, Slot
  <2> HIDE DEF action
  <2> QED BY <2>2, <2>3 DEF Taken, Echoed
<1>6. setting = IF Given(answers, "place", "on a cozy blanket") \in
     {"at home", "on a cozy blanket", "in garden", "in the garden",
      "on windowsill", "on the windowsill", "in flowers", "among flowers"}
   THEN Given(answers, "place", "on a cozy blanket") ELSE "anything"
  <2>1. Listens(AnimalSlots.setting, {"setting", "place"}, "on a cozy blanket")
    BY Listed DEF AnimalSlots, Slot, Listens
  <2>2. setting = Taken(AnimalSlots.setting, "setting", Given(answers, "place", "on a cozy blanket"))
    BY <1>3, <2>1, SlotTells, ZenonT(40)
  <2>3. AnimalSlots.setting.knows =
     {"at home", "on a cozy blanket", "in garden", "in the garden",
      "on windowsill", "on the windowsill", "in flowers", "among flowers"}
    BY DEF AnimalSlots, Slot
  <2> HIDE DEF setting
  <2> QED BY <2>2, <2>3 DEF Taken, Echoed
<1>7. words = {animal, action, setting}
  <2>1. Scripts["cute_animal_video"].slots = AnimalSlots /\ Scripts["cute_animal_video"].overlay = "none"
    BY DEF Scripts
  <2>2. DOMAIN AnimalSlots = {"animal", "action", "setting"}
    BY DEF AnimalSlots
  <2>3. ToSet(OverlayOf("cute_animal_video", answers)) = {}
    BY <2>1, Laid
  <2>4. {Describe(AnimalSlots[s], s, answers) : s \in {"animal", "action", "setting"}} = {animal, action, setting}
    OBVIOUS
  <2>5. words = {Describe(AnimalSlots[s], s, answers) : s \in DOMAIN AnimalSlots} \cup {}
    BY <2>1, <2>3, DrawnIs
  <2> HIDE DEF words, animal, action, setting
  <2> QED BY <2>2, <2>4, <2>5
<1> HIDE DEF asked, words, animal, action, setting
<1>8. ASSUME NEW q \in DOMAIN answers \cap DOMAIN asked
      PROVE  answers[q].word \in words <=> q \notin Unread["cute_animal_video"] /\ answers[q].word \notin Unknown["cute_animal_video"]
  <2>1. CASE q = "action"
    BY <1>1, <1>2, <1>3, <1>4, <1>5, <1>6, <1>7, <2>1 DEF Given
  <2>2. CASE q = "place"
    BY <1>1, <1>2, <1>3, <1>4, <1>5, <1>6, <1>7, <2>2 DEF Given
  <2>3. CASE q = "mood"
    BY <1>1, <1>2, <1>3, <1>4, <1>5, <1>6, <1>7, <2>3 DEF Given
  <2>4. CASE q = "animal"
    BY <1>1, <1>2, <1>3, <1>4, <1>5, <1>6, <1>7, <2>4 DEF Given
  <2> QED BY <1>1, <2>1, <2>2, <2>3, <2>4
<1> QED BY <1>8 DEF Hears, asked, words

(* A cartoon character draws who it is and what it does, not its style *)
LEMMA CartoonHears ==
  ASSUME NEW answers, Offered("cartoon_character_video", answers)
  PROVE  Hears("cartoon_character_video", answers, Drawn(TileBoard("cartoon_character_video", answers)))
<1> DEFINE character == Describe(CartoonSlots.character, "character", answers)
           action == Describe(CartoonSlots.action, "action", answers)
           setting == Describe(CartoonSlots.setting, "setting", answers)
           words == Drawn(TileBoard("cartoon_character_video", answers))
           asked == Questions["cartoon_character_video"]
<1>1. /\ DOMAIN asked = {"hero", "action", "style", "palette"}
      /\ asked["hero"] = {"human", "animal", "creature"}
      /\ asked["action"] = {"dancing", "waving", "laughing", "surprised"}
      /\ asked["style"] = {"pixar", "anime", "fairytale", "cartoon"}
      /\ asked["palette"] = {"bright & cheerful", "soft & tender", "magical"}
  BY DEF Questions
<1>2. /\ Unread["cartoon_character_video"] = {"style", "palette"}
      /\ Unknown["cartoon_character_video"] = {"laughing", "surprised"}
  BY DEF Unread, Unknown
<1>3. /\ \A q \in DOMAIN answers \cap {"hero", "action", "style", "palette"} : answers[q].word \in asked[q]
      /\ {"character", "setting"} \cap DOMAIN answers = {}
  BY <1>1 DEF Offered, Typed
<1>4. character = Given(answers, "hero", "wizard")
  <2>1. Listens(CartoonSlots.character, {"character", "hero"}, "wizard")
    BY Listed DEF CartoonSlots, Slot, Listens
  <2>2. character = Taken(CartoonSlots.character, "character", Given(answers, "hero", "wizard"))
    BY <1>3, <2>1, SlotTells
  <2> HIDE DEF character
  <2> QED BY <2>2 DEF Taken, Echoed
<1>5. action = IF Given(answers, "action", "waving") \in
     {"waving", "dancing", "casting", "jumping"}
   THEN Given(answers, "action", "waving") ELSE "anything"
  <2>1. Listens(CartoonSlots.action, {"action"}, "waving")
    BY Listed DEF CartoonSlots, Slot, Listens
  <2>2. action = Taken(CartoonSlots.action, "action", Given(answers, "action", "waving"))
    BY <1>3, <2>1, SlotTells
  <2>3. CartoonSlots.action.knows =
     {"waving", "dancing", "casting", "jumping"}
    BY DEF CartoonSlots, Slot
  <2> HIDE DEF action
  <2> QED BY <2>2, <2>3 DEF Taken, Echoed
<1>6. setting = IF Given(answers, "setting", "in a village") \in
     {"village", "in a village", "forest", "in a forest", "city", "in the city",
      "castle", "in a castle"}
   THEN Given(answers, "setting", "in a village") ELSE "anything"
  <2>1. Listens(CartoonSlots.setting, {"setting"}, "in a village")
    BY Listed DEF CartoonSlots, Slot, Listens
  <2>2. setting = Taken(CartoonSlots.setting, "setting", Given(answers, "setting", "in a village"))
    BY <1>3, <2>1, SlotTells
  <2>3. CartoonSlots.setting.knows =
     {"village", "in a village", "forest", "in a forest", "city", "in the city",
      "castle", "in a castle"}
    BY DEF CartoonSlots, Slot
  <2> HIDE DEF setting
  <2> QED BY <2>2, <2>3 DEF Taken, Echoed
<1>7. words = {character, action, setting}
  <2>1. Scripts["cartoon_character_video"].slots = CartoonSlots /\ Scripts["cartoon_character_video"].overlay = "none"
    BY DEF Scripts
  <2>2. DOMAIN CartoonSlots = {"character", "action", "setting"}
    BY DEF CartoonSlots
  <2>3. ToSet(OverlayOf("cartoon_character_video", answers)) = {}
    BY <2>1, Laid
  <2>4. {Describe(CartoonSlots[s], s, answers) : s \in {"character", "action", "setting"}} = {character, action, setting}
    OBVIOUS
  <2>5. words = {Describe(CartoonSlots[s], s, answers) : s \in DOMAIN CartoonSlots} \cup {}
    BY <2>1, <2>3, DrawnIs
  <2> HIDE DEF words, character, action, setting
  <2> QED BY <2>2, <2>4, <2>5
<1> HIDE DEF asked, words, character, action, setting
<1>8. ASSUME NEW q \in DOMAIN answers \cap DOMAIN asked
      PROVE  answers[q].word \in words <=> q \notin Unread["cartoon_character_video"] /\ answers[q].word \notin Unknown["cartoon_character_video"]
  <2>1. CASE q = "hero"
    BY <1>1, <1>2, <1>3, <1>4, <1>5, <1>6, <1>7, <2>1 DEF Given
  <2>2. CASE q = "action"
    BY <1>1, <1>2, <1>3, <1>4, <1>5, <1>6, <1>7, <2>2 DEF Given
  <2>3. CASE q = "style"
    BY <1>1, <1>2, <1>3, <1>4, <1>5, <1>6, <1>7, <2>3 DEF Given
  <2>4. CASE q = "palette"
    BY <1>1, <1>2, <1>3, <1>4, <1>5, <1>6, <1>7, <2>4 DEF Given
  <2> QED BY <1>1, <2>1, <2>2, <2>3, <2>4
<1> QED BY <1>8 DEF Hears, asked, words

(* A greeting lays its words and the name over what the occasion draws *)
LEMMA GreetingHears ==
  ASSUME NEW answers, Offered("video_greeting", answers)
  PROVE  Hears("video_greeting", answers, Drawn(TileBoard("video_greeting", answers)))
<1> DEFINE occasion == Describe(GreetingSlots.occasion, "occasion", answers)
           text == Given(answers, "text", "Greeting")
           signed == IF "who" \in DOMAIN answers THEN {answers["who"].word} ELSE {}
           words == Drawn(TileBoard("video_greeting", answers))
           asked == Questions["video_greeting"]
<1>1. /\ DOMAIN asked = {"occasion", "audience", "subject", "text"}
      /\ asked["occasion"] = {"birthday", "jubilee", "new year", "other"}
      /\ asked["audience"] = {"woman", "man", "child"}
      /\ asked["subject"] = {"flowers", "candles", "balloons", "nature"}
  BY DEF Questions
<1>2. /\ Unread["video_greeting"] = {"audience", "subject"}
      /\ Unknown["video_greeting"] = {"jubilee", "new year", "other"}
  BY DEF Unread, Unknown
<1>3. /\ \A q \in DOMAIN answers \cap {"occasion", "audience", "subject"} : answers[q].word \in asked[q]
      /\ \A x \in DOMAIN answers \cap {"text", "who"} :
           \A q \in {"occasion", "audience", "subject"} : answers[x].word \notin asked[q]
  BY <1>1 DEF Offered, Typed
<1>4. occasion = IF Given(answers, "occasion", "birthday") \in Occasions
                 THEN Given(answers, "occasion", "birthday") ELSE "anything"
  <2>1. Listens(GreetingSlots.occasion, {"occasion"}, "birthday")
    BY Listed DEF GreetingSlots, Slot, Listens
  <2>2. occasion = Taken(GreetingSlots.occasion, "occasion", Given(answers, "occasion", "birthday"))
    BY <2>1, SlotTells
  <2>3. GreetingSlots.occasion.knows = Occasions
    BY DEF GreetingSlots, Slot
  <2> HIDE DEF occasion
  <2> QED BY <2>2, <2>3 DEF Taken, Echoed
<1>5. words = {occasion, text} \cup signed
  <2>1. /\ Scripts["video_greeting"].slots = GreetingSlots
        /\ Scripts["video_greeting"].overlay = "Greeting"
    BY DEF Scripts
  <2>2. DOMAIN GreetingSlots = {"occasion"}
    BY DEF GreetingSlots
  <2>3. ToSet(OverlayOf("video_greeting", answers)) = {text} \cup signed
    BY <2>1, Laid
  <2>4. {Describe(GreetingSlots[s], s, answers) : s \in {"occasion"}} = {occasion}
    OBVIOUS
  <2>5. words = {Describe(GreetingSlots[s], s, answers) : s \in DOMAIN GreetingSlots} \cup {text} \cup signed
    BY <2>1, <2>3, DrawnIs
  <2> HIDE DEF words, occasion, text, signed
  <2> QED BY <2>2, <2>4, <2>5
<1> HIDE DEF asked, words, occasion
<1>6. ASSUME NEW q \in DOMAIN answers \cap DOMAIN asked
      PROVE  answers[q].word \in words <=>
               q \notin Unread["video_greeting"] /\ answers[q].word \notin Unknown["video_greeting"]
  <2>1. CASE q = "occasion"
    BY <1>1, <1>2, <1>3, <1>4, <1>5, <2>1 DEF Given, Occasions
  <2>2. CASE q = "audience"
    BY <1>1, <1>2, <1>3, <1>4, <1>5, <2>2 DEF Given, Occasions
  <2>3. CASE q = "subject"
    BY <1>1, <1>2, <1>3, <1>4, <1>5, <2>3 DEF Given, Occasions
  <2>4. CASE q = "text"
    BY <1>1, <1>2, <1>3, <1>5, <2>4 DEF Given
  <2> QED BY <1>1, <2>1, <2>2, <2>3, <2>4
<1> QED BY <1>6 DEF Hears, asked, words

(* A photograph is moved gently, whatever was answered, and as strongly as *)
(* was asked where the tile asks for it                                    *)
LEMMA PhotoWords ==
  ASSUME NEW answers, "motion" \notin DOMAIN answers
  PROVE  Drawn(PhotoBoard(answers)) =
           {"gentle life",
            IF Given(answers, "intensity", "soft") \in {"barely", "barely noticeable", "soft", "expressive"}
            THEN Given(answers, "intensity", "soft") ELSE "anything"}
<1> DEFINE board == PhotoBoard(answers)
           scene == [s \in DOMAIN PhotoSlots |-> Describe(PhotoSlots[s], s, answers)]
           motion == Describe(PhotoSlots.motion, "motion", answers)
           intensity == Describe(PhotoSlots.intensity, "intensity", answers)
           soft == Given(answers, "intensity", "soft")
<1>1. board.scene = scene /\ board.overlay = <<>>
  BY DEF PhotoBoard
<1>2. DOMAIN PhotoSlots = {"motion", "intensity"}
  BY DEF PhotoSlots
<1>3. {scene[s] : s \in DOMAIN scene} = {motion, intensity}
  BY <1>2
<1>4. motion = "gentle life"
  <2>1. Listens(PhotoSlots.motion, {"motion"}, "gentle life")
    BY Listed DEF PhotoSlots, Slot, Listens
  <2>2. motion = Taken(PhotoSlots.motion, "motion", Given(answers, "motion", "gentle life"))
    BY <2>1, SlotTells
  <2>3. "gentle life" \in PhotoSlots.motion.knows
    BY DEF PhotoSlots, Slot
  <2> HIDE DEF motion
  <2> QED BY <2>2, <2>3 DEF Taken, Given
<1>5. intensity = IF soft \in {"barely", "barely noticeable", "soft", "expressive"} THEN soft ELSE "anything"
  <2>1. Listens(PhotoSlots.intensity, {"intensity"}, "soft")
    BY Listed DEF PhotoSlots, Slot, Listens
  <2>2. intensity = Taken(PhotoSlots.intensity, "intensity", soft)
    BY <2>1, SlotTells
  <2>3. PhotoSlots.intensity.knows = {"barely", "barely noticeable", "soft", "expressive"}
    BY DEF PhotoSlots, Slot
  <2> HIDE DEF intensity, soft
  <2> QED BY <2>2, <2>3 DEF Taken, Echoed
<1> HIDE DEF board, scene, motion, intensity
<1>6. ToSet(board.overlay) = {}
  BY <1>1, Listed
<1>7. Drawn(board) = {scene[s] : s \in DOMAIN scene}
  BY <1>1, <1>6 DEF Drawn
<1>8. Drawn(board) = {motion, intensity}
  BY <1>3, <1>7
<1> HIDE DEF soft
<1>9. Drawn(board) = {"gentle life", IF soft \in {"barely", "barely noticeable", "soft", "expressive"} THEN soft ELSE "anything"}
  BY <1>4, <1>5, <1>8
<1> QED BY <1>9 DEF board, soft

(* An animated photograph is filmed by the answers these tiles do not ask *)
LEMMA PhotoHears ==
  ASSUME NEW answers, NEW tile \in PhotoTiles, Offered(tile, answers)
  PROVE  Hears(tile, answers, Drawn(PhotoBoard(answers)))
<1> DEFINE words == Drawn(PhotoBoard(answers))
<1>1. CASE tile = "animate_photo"
  <2> DEFINE asked == Questions["animate_photo"]
  <2>1. /\ DOMAIN asked = {"target", "movement", "intensity", "mood"}
        /\ asked["target"] = {"face", "background", "everything"}
        /\ asked["movement"] = {"light breathing", "wind", "parallax effect"}
        /\ asked["intensity"] = {"barely noticeable", "soft", "expressive"}
        /\ asked["mood"] = {"tender", "lively", "magical"}
    BY DEF Questions
  <2>2. Unread["animate_photo"] = {"target", "movement", "mood"} /\ Unknown["animate_photo"] = {}
    BY DEF Unread, Unknown
  <2>3. /\ \A q \in DOMAIN answers \cap DOMAIN asked : answers[q].word \in asked[q]
        /\ "motion" \notin DOMAIN answers
    BY <1>1, <2>1 DEF Offered, Typed
  <2>4. words = {"gentle life",
                 IF Given(answers, "intensity", "soft") \in {"barely", "barely noticeable", "soft", "expressive"}
                 THEN Given(answers, "intensity", "soft") ELSE "anything"}
    BY <2>3, PhotoWords
  <2> HIDE DEF asked, words
  <2>5. ASSUME NEW q \in DOMAIN answers \cap DOMAIN asked
        PROVE  answers[q].word \in words <=>
                 q \notin Unread["animate_photo"] /\ answers[q].word \notin Unknown["animate_photo"]
    BY <2>1, <2>2, <2>3, <2>4, ZenonT(40) DEF Given
  <2> QED BY <1>1, <2>5 DEF Hears, asked, words
<1>2. CASE tile = "animate_pet"
  <2> DEFINE asked == Questions["animate_pet"]
  <2>1. /\ DOMAIN asked = {"action", "effect", "mood"}
        /\ asked["action"] = {"looks at the camera", "moves", "blinks"}
        /\ asked["effect"] = {"light breathing", "playful movement", "wink"}
        /\ asked["mood"] = {"tender", "playful", "funny"}
    BY DEF Questions
  <2>2. Unread["animate_pet"] = {"action", "effect", "mood"}
    BY DEF Unread
  <2>3. /\ \A q \in DOMAIN answers \cap DOMAIN asked : answers[q].word \in asked[q]
        /\ {"motion", "intensity"} \cap DOMAIN answers = {}
    BY <1>2, <2>1 DEF Offered, Typed
  <2>4. words = {"gentle life", "soft"}
    BY <2>3, PhotoWords DEF Given
  <2> HIDE DEF asked, words
  <2>5. ASSUME NEW q \in DOMAIN answers \cap DOMAIN asked
        PROVE  answers[q].word \notin words /\ q \in Unread["animate_pet"]
    BY <2>1, <2>2, <2>3, <2>4
  <2> QED BY <1>2, <2>5 DEF Hears, asked, words
<1> QED BY <1>1, <1>2 DEF PhotoTiles

(* Every tile of a video is heard but for the exceptions of the two tables *)
LEMMA BoardHears ==
  ASSUME NEW tile, NEW photo, NEW answers, tile \in DOMAIN Scripts \/ Animated(tile, photo),
         tile \in DOMAIN Questions => Offered(tile, answers)
  PROVE  tile \in DOMAIN Questions /\ Hears(tile, answers, Drawn(BoardOf(tile, photo, answers)))
<1>1. DOMAIN Scripts = {"living_nature", "morning_video", "inspiring_video", "cute_animal_video",
                        "cartoon_character_video", "video_greeting"}
  BY DEF Scripts
<1>2. DOMAIN Questions = DOMAIN Scripts \cup PhotoTiles
  BY <1>1 DEF Questions, PhotoTiles
<1>3. CASE Animated(tile, photo)
  BY <1>2, <1>3, PhotoHears DEF Animated, BoardOf
<1>4. CASE ~Animated(tile, photo)
  <2>1. tile \in DOMAIN Scripts /\ BoardOf(tile, photo, answers) = TileBoard(tile, answers)
        /\ Offered(tile, answers)
    BY <1>2, <1>4 DEF BoardOf
  <2>2. Hears(tile, answers, Drawn(TileBoard(tile, answers)))
    BY <1>1, <2>1, NatureHears, MorningHears, InspiringHears, AnimalHears, CartoonHears, GreetingHears
  <2> QED BY <1>2, <2>1, <2>2
<1> QED BY <1>3, <1>4

(* Every table of sounds has an entry for silence, which is empty *)
Quiet(board, answers) ==
  /\ board.paidSound <=> board.sound # ""
  /\ "audio" \in DOMAIN answers /\ answers["audio"].word = "silence" => board.sound = ""
LEMMA SilenceIs ==
  ASSUME NEW tile, NEW photo, NEW answers, tile \in DOMAIN Scripts \/ Animated(tile, photo)
  PROVE  Quiet(BoardOf(tile, photo, answers), answers)
<1>1. CASE Animated(tile, photo)
  <2>1. Bare(FirstAnswer(answers, <<"audio">>, "silence")) = Given(answers, "audio", "silence")
    BY ReadOne
  <2> QED BY <1>1, <2>1 DEF Quiet, BoardOf, PhotoBoard, Lookup, PhotoSounds, WithMusic, Given
<1>2. CASE ~Animated(tile, photo) /\ tile \in DOMAIN Scripts
  <2> DEFINE audio == Scripts[tile].audio
  <2>1. "silence" \in DOMAIN audio.knows /\ audio.knows["silence"] = ""
    <3>1. DOMAIN Scripts = {"living_nature", "morning_video", "inspiring_video", "cute_animal_video",
                            "cartoon_character_video", "video_greeting"}
      BY DEF Scripts
    <3>2. CASE tile = "living_nature"
      BY <3>2 DEF Scripts, Sound, Silent
    <3>3. CASE tile = "morning_video"
      BY <3>3 DEF Scripts, Sound, Silent
    <3>4. CASE tile = "inspiring_video"
      BY <3>4 DEF Scripts, Sound, Silent
    <3>5. CASE tile = "cute_animal_video"
      BY <3>5 DEF Scripts, Sound, Silent
    <3>6. CASE tile = "cartoon_character_video"
      BY <3>6 DEF Scripts, Sound, Silent
    <3>7. CASE tile = "video_greeting"
      BY <3>7 DEF Scripts, Sound, Silent
    <3> HIDE DEF audio
    <3> QED BY <1>2, <3>1, <3>2, <3>3, <3>4, <3>5, <3>6, <3>7
  <2>2. Bare(FirstAnswer(answers, <<"audio">>, audio.default)) = Given(answers, "audio", audio.default)
    BY ReadOne
  <2>3. AudioOf(tile, answers) = Lookup(audio.knows, Given(answers, "audio", audio.default), audio.unknown)
    BY <2>2 DEF AudioOf
  <2> HIDE DEF audio
  <2>4. "audio" \in DOMAIN answers /\ answers["audio"].word = "silence" => AudioOf(tile, answers) = ""
    BY <2>1, <2>3 DEF Lookup, Given
  <2>5. /\ TileBoard(tile, answers).sound = AudioOf(tile, answers)
        /\ TileBoard(tile, answers).paidSound = (AudioOf(tile, answers) # "")
    BY DEF TileBoard
  <2>6. BoardOf(tile, photo, answers) = TileBoard(tile, answers)
    BY <1>2 DEF BoardOf
  <2> QED BY <2>4, <2>5, <2>6 DEF Quiet
<1> QED BY <1>1, <1>2

LEMMA InvAnswersAreHeard == Inv => AnswersAreHeard
<1> SUFFICES ASSUME Inv, Written("video"), ~Worded PROVE AnswersAreHeard
  BY Zenon DEF AnswersAreHeard, OptionsAreHeard, SilenceIsKept
<1> DEFINE tile == ask.tile
           photo == ask.photo
           answers == ask.answers
<1>1. ask \in Requests /\ ask.kind = "video" /\ VideoAsked(ask) /\ result = BoardOf(tile, photo, answers)
  BY RequestIs DEF Inv, Outcome, Written
<1>2. tile \in DOMAIN Scripts \/ Animated(tile, photo)
  BY <1>1 DEF Worded
<1>3. tile \in DOMAIN Questions => Offered(tile, answers)
  BY <1>1, TypedAssumption DEF VideoAsked, TypedApart, Offered
<1> HIDE DEF tile, photo, answers
<1>4. tile \in DOMAIN Questions /\ Hears(tile, answers, Drawn(result))
  BY <1>1, <1>2, <1>3, BoardHears
<1>5. OptionsAreHeard
  BY <1>4 DEF OptionsAreHeard, Hears, Drawn, Bare, tile, answers
<1>6. SilenceIsKept
  <2>1. Quiet(result, answers)
    BY <1>1, <1>2, SilenceIs
  <2> QED BY <2>1, Zenon DEF Quiet, SilenceIsKept, answers
<1> QED BY <1>5, <1>6 DEF AnswersAreHeard

(* video_gen.py, for every combination of answers: a choice made for a     *)
(* video is filmed or laid over it unless its question is one nobody reads *)
(* or its option one the tables do not know; silence asked for is silence, *)
(* and sound is paid for exactly where there is one.                       *)
THEOREM AnswersAreFilmed == Spec => []AnswersAreHeard
  BY InvAnswersAreHeard, AlwaysInv, PTL
=============================================================================
