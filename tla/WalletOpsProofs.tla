-------------------------- MODULE WalletOpsProofs --------------------------
(***************************************************************************)
(* Lemmas about the operations of WalletOps, for every value of its        *)
(* constants: what an operation does to the sums of the journal, to the    *)
(* types of the rows and to the keys in use.                               *)
(***************************************************************************)
EXTENDS WalletOps, SequenceTheorems, WellFoundedInduction, TLAPS

-----------------------------------------------------------------------------
(* A set of naturals that is not empty has a least element: the library's  *)
(* well-foundedness of < stated without pairs.                             *)
LEMMA LeastElement ==
  ASSUME NEW S \in SUBSET Nat, S # {}
  PROVE  \E x \in S : \A y \in S : ~ (y < x)
<1> DEFINE R == {ss \in Nat \X Nat : ss[1] < ss[2]}
<1>1. R = OpToRel(<, Nat)
  BY DEF OpToRel
<1>2. IsWellFoundedOn(R, Nat)
  BY <1>1, NatLessThanWellFounded, Zenon
<1>3. \A x, y \in S : <<y, x>> \in R <=> y < x
  OBVIOUS
<1> HIDE DEF R
<1>4. PICK x \in S : \A y \in S : ~ (<<y, x>> \in R)
  BY <1>2, WFMin
<1> QED BY <1>3, <1>4, Zenon

RunningTotals(f, a, n) == f[0] = 0 /\ \A i \in 1..n : f[i] = f[i - 1] + a[i]

(* Running totals are unique: two functions that start at 0 and add the    *)
(* same amounts agree everywhere.                                          *)
LEMMA TotalsUnique ==
  ASSUME NEW n \in Nat, NEW a, NEW f, NEW g,
         RunningTotals(f, a, n), RunningTotals(g, a, n)
  PROVE  f[n] = g[n]
<1> DEFINE S == {i \in 0..n : f[i] # g[i]}
<1>1. S \in SUBSET Nat
  OBVIOUS
<1>2. SUFFICES ASSUME S # {} PROVE FALSE
  OBVIOUS
<1>3. PICK x \in S : \A y \in S : ~ (y < x)
  <2> HIDE DEF S
  <2> QED BY <1>1, <1>2, LeastElement
<1>4. x \in 0..n /\ f[x] # g[x]
  OBVIOUS
<1>5. x # 0
  BY <1>4 DEF RunningTotals
<1>6. x \in 1..n /\ x - 1 \in 0..n /\ x - 1 < x
  BY <1>4, <1>5
<1>7. f[x - 1] = g[x - 1]
  BY <1>3, <1>6
<1>8. f[x] = f[x - 1] + a[x] /\ g[x] = g[x - 1] + a[x]
  BY <1>6 DEF RunningTotals
<1> QED BY <1>4, <1>7, <1>8

(* The definition of SeqSum is not empty: running totals exist.            *)
LEMMA TotalsExist ==
  ASSUME NEW s \in Seq(Int), NEW n \in 0..Len(s)
  PROVE  \E f : f = [i \in 0..n |-> IF i = 0 THEN 0 ELSE f[i - 1] + s[i]]
<1> DEFINE Running(f, m) == f = [i \in 0..m |-> IF i = 0 THEN 0 ELSE f[i - 1] + s[i]]
<1> DEFINE S == {m \in 0..Len(s) : ~ \E f : Running(f, m)}
<1>1. SUFFICES ASSUME S # {} PROVE FALSE
  OBVIOUS
<1>2. PICK x \in S : \A y \in S : ~ (y < x)
  <2>1. S \in SUBSET Nat
    OBVIOUS
  <2> HIDE DEF S
  <2> QED BY <1>1, <2>1, LeastElement
<1>3. x \in 0..Len(s) /\ ~ \E f : Running(f, x)
  OBVIOUS
<1>4. x # 0
  <2> SUFFICES ASSUME x = 0 PROVE FALSE
    OBVIOUS
  <2> DEFINE z == [i \in 0..0 |-> 0]
  <2>1. Running(z, 0)
    OBVIOUS
  <2> QED BY <1>3, <2>1
<1>5. x - 1 \in 0..Len(s) /\ x - 1 < x
  BY <1>3, <1>4
<1>6. PICK f : Running(f, x - 1)
  <2>1. x - 1 \notin S
    <3> HIDE DEF S
    <3> QED BY <1>2, <1>5
  <2> QED BY <1>5, <2>1
<1> DEFINE g == [i \in 0..x |-> IF i = x THEN f[x - 1] + s[x] ELSE f[i]]
<1>7. Running(g, x)
  <2>1. \A i \in 0..x : g[i] = IF i = 0 THEN 0 ELSE g[i - 1] + s[i]
    <3> SUFFICES ASSUME NEW i \in 0..x
                 PROVE  g[i] = IF i = 0 THEN 0 ELSE g[i - 1] + s[i]
      OBVIOUS
    <3>1. CASE i = x
      BY <3>1, <1>3, <1>4, <1>5
    <3>2. CASE i # x
      BY <3>2, <1>3, <1>4, <1>5, <1>6
    <3> QED BY <3>1, <3>2
  <2> QED BY <2>1
<1> QED BY <1>3, <1>7

(* The running totals SeqSum chooses satisfy their equation.               *)
LEMMA SeqSumTotals ==
  ASSUME NEW s \in Seq(Int)
  PROVE  \E f : /\ SeqSum(s) = f[Len(s)]
               /\ f = [i \in 0..Len(s) |-> IF i = 0 THEN 0 ELSE f[i - 1] + s[i]]
<1> DEFINE Running(f) == f = [i \in 0..Len(s) |-> IF i = 0 THEN 0 ELSE f[i - 1] + s[i]]
<1>1. \E f : Running(f)
  BY TotalsExist
<1>2. SeqSum(s) = (CHOOSE f : Running(f))[Len(s)]
  BY DEF SeqSum
<1>3. Running(CHOOSE f : Running(f))
  <2> HIDE DEF Running
  <2> QED BY <1>1, Zenon
<1> QED BY <1>2, <1>3

(* Appending to a journal adds the amount appended to its sum.             *)
LEMMA SeqSumAppend ==
  ASSUME NEW s \in Seq(Int), NEW x \in Int
  PROVE  SeqSum(Append(s, x)) = SeqSum(s) + x
<1> DEFINE t == Append(s, x)
<1> DEFINE n == Len(s)
<1>1. /\ n \in Nat /\ t \in Seq(Int) /\ Len(t) = n + 1 /\ t[n + 1] = x
      /\ \A i \in 1..n : t[i] = s[i]
  OBVIOUS
<1>2. PICK f : /\ SeqSum(s) = f[n]
               /\ f = [i \in 0..n |-> IF i = 0 THEN 0 ELSE f[i - 1] + s[i]]
  BY SeqSumTotals
<1>3. PICK g : /\ SeqSum(t) = g[Len(t)]
               /\ g = [i \in 0..Len(t) |-> IF i = 0 THEN 0 ELSE g[i - 1] + t[i]]
  <2> HIDE DEF t
  <2> QED BY <1>1, SeqSumTotals
<1> HIDE DEF t, n
<1>4. RunningTotals(f, s, n) /\ RunningTotals(g, s, n) /\ g[n + 1] = g[n] + x
  BY <1>1, <1>2, <1>3 DEF RunningTotals
<1>5. f[n] = g[n]
  BY <1>1, <1>4, TotalsUnique
<1> QED BY <1>1, <1>2, <1>3, <1>4, <1>5 DEF t

(* An empty journal sums to nothing.                                       *)
LEMMA SeqSumEmpty == SeqSum(<<>>) = 0
<1> DEFINE e == <<>>
<1>1. e \in Seq(Int) /\ Len(e) = 0
  OBVIOUS
<1> HIDE DEF e
<1>2. PICK f : /\ SeqSum(e) = f[Len(e)]
               /\ f = [i \in 0..Len(e) |-> IF i = 0 THEN 0 ELSE f[i - 1] + e[i]]
  BY <1>1, SeqSumTotals
<1>3. SeqSum(e) = 0
  BY <1>1, <1>2
<1> QED BY <1>3 DEF e

-----------------------------------------------------------------------------
(* Journals joined: what a commit appends adds to every sum.               *)

(* A sum of integers is an integer.                                        *)
LEMMA SeqSumInt ==
  ASSUME NEW s \in Seq(Int)
  PROVE  SeqSum(s) \in Int
<1>1. PICK f : /\ SeqSum(s) = f[Len(s)]
               /\ f = [i \in 0..Len(s) |-> IF i = 0 THEN 0 ELSE f[i - 1] + s[i]]
  BY SeqSumTotals
<1> DEFINE S == {i \in 0..Len(s) : f[i] \notin Int}
<1>2. S = {}
  <2> SUFFICES ASSUME S # {} PROVE FALSE
    OBVIOUS
  <2>1. S \in SUBSET Nat
    OBVIOUS
  <2>2. PICK x \in S : \A y \in S : ~ (y < x)
    <3> HIDE DEF S
    <3> QED BY <2>1, LeastElement
  <2>3. x \in 0..Len(s) /\ f[x] \notin Int
    OBVIOUS
  <2>4. x # 0
    BY <1>1, <2>3
  <2>5. x - 1 \in 0..Len(s) /\ x - 1 < x /\ s[x] \in Int
    BY <2>3, <2>4
  <2>6. f[x - 1] \in Int
    <3>1. x - 1 \notin S
      <4> HIDE DEF S
      <4> QED BY <2>2, <2>5
    <3> QED BY <2>5, <3>1
  <2>7. f[x] = f[x - 1] + s[x]
    BY <1>1, <2>3, <2>4
  <2> QED BY <2>3, <2>5, <2>6, <2>7
<1>3. Len(s) \in 0..Len(s) /\ Len(s) \notin S
  BY <1>2
<1> QED BY <1>1, <1>3

First(t, n) == [i \in 1..n |-> t[i]]

(* A longer prefix is the shorter one with one more element.               *)
LEMMA FirstGrows ==
  ASSUME NEW t \in Seq(Int), NEW x \in 1..Len(t)
  PROVE  /\ First(t, x) \in Seq(Int) /\ First(t, x - 1) \in Seq(Int)
         /\ First(t, x) = Append(First(t, x - 1), t[x])
<1>1. /\ First(t, x) \in Seq(Int) /\ First(t, x - 1) \in Seq(Int)
      /\ Len(First(t, x)) = x /\ Len(First(t, x - 1)) = x - 1
      /\ \A i \in 1..x : First(t, x)[i] = t[i]
      /\ \A i \in 1..(x - 1) : First(t, x - 1)[i] = t[i]
  BY DEF First
<1> DEFINE a == Append(First(t, x - 1), t[x])
<1>2. /\ a \in Seq(Int) /\ Len(a) = x
      /\ \A i \in 1..x : a[i] = t[i]
  BY <1>1
<1> DEFINE b == First(t, x)
<1> HIDE DEF a, b
<1>3. b \in Seq(Int) /\ Len(b) = x /\ \A i \in 1..x : b[i] = t[i]
  BY <1>1 DEF b
<1>4. DOMAIN a = 1..x /\ DOMAIN b = 1..x
  BY <1>2, <1>3
<1>5. a = b
  BY <1>2, <1>3, <1>4
<1> QED BY <1>1, <1>5 DEF a, b

(* Two sequences joined sum to the sum of their sums.                      *)
LEMMA SeqSumConcat ==
  ASSUME NEW s \in Seq(Int), NEW t \in Seq(Int)
  PROVE  SeqSum(s \o t) = SeqSum(s) + SeqSum(t)
<1> DEFINE Adds(n) == SeqSum(s \o First(t, n)) = SeqSum(s) + SeqSum(First(t, n))
<1> DEFINE S == {n \in 0..Len(t) : ~ Adds(n)}
<1>1. S = {}
  <2> SUFFICES ASSUME S # {} PROVE FALSE
    OBVIOUS
  <2>1. S \in SUBSET Nat
    OBVIOUS
  <2>2. PICK x \in S : \A y \in S : ~ (y < x)
    <3> HIDE DEF S
    <3> QED BY <2>1, LeastElement
  <2>3. x \in 0..Len(t) /\ ~ Adds(x)
    OBVIOUS
  <2>4. x # 0
    <3> SUFFICES ASSUME x = 0 PROVE FALSE
      OBVIOUS
    <3>1. First(t, 0) = <<>>
      BY DEF First
    <3>2. s \o First(t, 0) = s
      BY <3>1
    <3>3. SeqSum(s) \in Int
      BY SeqSumInt
    <3>4. SeqSum(First(t, 0)) = 0
      BY <3>1, SeqSumEmpty, Zenon
    <3>5. SeqSum(s \o First(t, 0)) = SeqSum(s)
      BY <3>2, Zenon
    <3> QED BY <2>3, <3>3, <3>4, <3>5
  <2>5. x \in 1..Len(t) /\ x - 1 \in 0..Len(t) /\ x - 1 < x
    BY <2>3, <2>4
  <2>6. Adds(x - 1)
    <3>1. x - 1 \notin S
      <4> HIDE DEF S
      <4> QED BY <2>2, <2>5
    <3> QED BY <2>5, <3>1
  <2>7. /\ First(t, x) \in Seq(Int) /\ First(t, x - 1) \in Seq(Int)
        /\ First(t, x) = Append(First(t, x - 1), t[x])
    BY <2>5, FirstGrows
  <2> DEFINE a == First(t, x - 1)
  <2> HIDE DEF a
  <2>8. /\ a \in Seq(Int) /\ t[x] \in Int /\ First(t, x) = Append(a, t[x])
    BY <2>5, <2>7 DEF a
  <2>9. s \o Append(a, t[x]) = Append(s \o a, t[x]) /\ s \o a \in Seq(Int)
    BY <2>8
  <2>10. SeqSum(Append(s \o a, t[x])) = SeqSum(s \o a) + t[x]
    BY <2>8, <2>9, SeqSumAppend
  <2>11. SeqSum(Append(a, t[x])) = SeqSum(a) + t[x]
    BY <2>8, SeqSumAppend
  <2>12. SeqSum(s) \in Int /\ SeqSum(a) \in Int
    BY <2>8, SeqSumInt
  <2>13. SeqSum(s \o First(t, x)) = SeqSum(s \o a) + t[x]
    BY <2>8, <2>9, <2>10, Zenon
  <2>14. SeqSum(First(t, x)) = SeqSum(a) + t[x]
    BY <2>8, <2>11, Zenon
  <2>15. SeqSum(s \o a) = SeqSum(s) + SeqSum(a)
    BY <2>6 DEF a
  <2>16. SeqSum(s \o First(t, x)) = SeqSum(s) + SeqSum(First(t, x))
    BY <2>8, <2>12, <2>13, <2>14, <2>15
  <2> QED BY <2>3, <2>16
<1>2. Adds(Len(t))
  BY <1>1
<1>3. First(t, Len(t)) = t
  BY DEF First
<1> QED BY <1>2, <1>3

(* A sequence of zeros sums to nothing.                                    *)
LEMMA SeqSumZero ==
  ASSUME NEW s \in Seq(Int), \A i \in 1..Len(s) : s[i] = 0
  PROVE  SeqSum(s) = 0
<1> DEFINE n == Len(s)
<1> DEFINE z == [i \in 0..n |-> 0]
<1>1. PICK f : /\ SeqSum(s) = f[n]
               /\ f = [i \in 0..n |-> IF i = 0 THEN 0 ELSE f[i - 1] + s[i]]
  BY SeqSumTotals
<1>2. n \in Nat /\ \A i \in 1..n : s[i] = 0
  OBVIOUS
<1> HIDE DEF n
<1>3. f[0] = 0 /\ \A i \in 1..n : f[i] = f[i - 1] + s[i]
  BY <1>1, <1>2
<1>4. z[0] = 0 /\ z[n] = 0 /\ \A i \in 1..n : z[i] = z[i - 1] + s[i]
  BY <1>2
<1> HIDE DEF z
<1>5. f[n] = z[n]
  BY <1>2, <1>3, <1>4, TotalsUnique DEF RunningTotals
<1> QED BY <1>1, <1>4, <1>5

(* The sum of a bucket over two journals joined.                           *)
LEMMA LedgerSumConcat ==
  ASSUME NEW L \in Seq(Entry), NEW M \in Seq(Entry), NEW u, NEW b
  PROVE  LedgerSum(L \o M, u, b) = LedgerSum(L, u, b) + LedgerSum(M, u, b)
<1> DEFINE Of(J) == [i \in DOMAIN J |-> Amount(J[i], u, b)]
<1> DEFINE s == Of(L)
<1> DEFINE t == Of(M)
<1> DEFINE w == Of(L \o M)
<1>1. \A x \in Entry : Amount(x, u, b) \in Int
  BY DEF Amount, Entry
<1>2. /\ L \o M \in Seq(Entry) /\ Len(L \o M) = Len(L) + Len(M)
      /\ \A i \in 1..(Len(L) + Len(M)) :
           (L \o M)[i] = IF i <= Len(L) THEN L[i] ELSE M[i - Len(L)]
  BY ConcatProperties
<1>3. w = s \o t /\ s \in Seq(Int) /\ t \in Seq(Int)
  <2> DEFINE J == L \o M
  <2> HIDE DEF J, Entry
  <2>1. /\ J \in Seq(Entry) /\ Len(J) = Len(L) + Len(M)
        /\ \A i \in 1..(Len(L) + Len(M)) : J[i] = IF i <= Len(L) THEN L[i] ELSE M[i - Len(L)]
    BY <1>2 DEF J
  <2>2. /\ s \in Seq(Int) /\ Len(s) = Len(L) /\ \A i \in 1..Len(L) : s[i] = Amount(L[i], u, b)
    BY <1>1
  <2>3. /\ t \in Seq(Int) /\ Len(t) = Len(M) /\ \A i \in 1..Len(M) : t[i] = Amount(M[i], u, b)
    BY <1>1
  <2> DEFINE x == Of(J)
  <2>4. /\ x \in Seq(Int) /\ Len(x) = Len(J) /\ \A i \in 1..Len(J) : x[i] = Amount(J[i], u, b)
    BY <1>1, <2>1
  <2>5. x = w
    BY DEF J
  <2> HIDE DEF s, t, w, x
  <2>typed. s \in Seq(Int) /\ t \in Seq(Int)
    BY <2>2, <2>3
  <2>6. /\ s \o t \in Seq(Int) /\ Len(s \o t) = Len(s) + Len(t)
        /\ \A i \in 1..(Len(s) + Len(t)) :
             (s \o t)[i] = IF i <= Len(s) THEN s[i] ELSE t[i - Len(s)]
    BY <2>typed, ConcatProperties
  <2>7. \A i \in 1..Len(x) : x[i] = (s \o t)[i]
    <3> SUFFICES ASSUME NEW i \in 1..(Len(L) + Len(M)) PROVE x[i] = (s \o t)[i]
      BY <2>1, <2>4
    <3>1. Len(L) \in Nat /\ Len(M) \in Nat
      OBVIOUS
    <3>2. CASE i <= Len(L)
      BY <2>1, <2>2, <2>3, <2>4, <2>6, <3>1, <3>2
    <3>3. CASE ~ (i <= Len(L))
      <4>1. i - Len(L) \in 1..Len(M)
        BY <3>1, <3>3
      <4> QED BY <2>1, <2>2, <2>3, <2>4, <2>6, <3>1, <3>3, <4>1
    <3> QED BY <3>2, <3>3
  <2>8. x = s \o t
    BY <2>1, <2>2, <2>3, <2>4, <2>6, <2>7, SeqEqual
  <2> QED BY <2>2, <2>3, <2>5, <2>8
<1>4. SeqSum(s \o t) = SeqSum(s) + SeqSum(t)
  <2> HIDE DEF s, t
  <2> QED BY <1>3, SeqSumConcat
<1> QED BY <1>3, <1>4 DEF LedgerSum

(* The sum of a set of keys over two journals joined.                      *)
LEMMA KeySumConcat ==
  ASSUME NEW L \in Seq(Entry), NEW M \in Seq(Entry), NEW K
  PROVE  KeySum(L \o M, K) = KeySum(L, K) + KeySum(M, K)
<1> DEFINE Of(J) == [i \in DOMAIN J |-> KeyAmount(J[i], K)]
<1> DEFINE s == Of(L)
<1> DEFINE t == Of(M)
<1> DEFINE w == Of(L \o M)
<1>1. \A x \in Entry : KeyAmount(x, K) \in Int
  BY DEF KeyAmount, Entry
<1>2. /\ L \o M \in Seq(Entry) /\ Len(L \o M) = Len(L) + Len(M)
      /\ \A i \in 1..(Len(L) + Len(M)) :
           (L \o M)[i] = IF i <= Len(L) THEN L[i] ELSE M[i - Len(L)]
  BY ConcatProperties
<1>3. w = s \o t /\ s \in Seq(Int) /\ t \in Seq(Int)
  <2> DEFINE J == L \o M
  <2> HIDE DEF J, Entry
  <2>1. /\ J \in Seq(Entry) /\ Len(J) = Len(L) + Len(M)
        /\ \A i \in 1..(Len(L) + Len(M)) : J[i] = IF i <= Len(L) THEN L[i] ELSE M[i - Len(L)]
    BY <1>2 DEF J
  <2>2. /\ s \in Seq(Int) /\ Len(s) = Len(L) /\ \A i \in 1..Len(L) : s[i] = KeyAmount(L[i], K)
    BY <1>1
  <2>3. /\ t \in Seq(Int) /\ Len(t) = Len(M) /\ \A i \in 1..Len(M) : t[i] = KeyAmount(M[i], K)
    BY <1>1
  <2> DEFINE x == Of(J)
  <2>4. /\ x \in Seq(Int) /\ Len(x) = Len(J) /\ \A i \in 1..Len(J) : x[i] = KeyAmount(J[i], K)
    BY <1>1, <2>1
  <2>5. x = w
    BY DEF J
  <2> HIDE DEF s, t, w, x
  <2>typed. s \in Seq(Int) /\ t \in Seq(Int)
    BY <2>2, <2>3
  <2>6. /\ s \o t \in Seq(Int) /\ Len(s \o t) = Len(s) + Len(t)
        /\ \A i \in 1..(Len(s) + Len(t)) :
             (s \o t)[i] = IF i <= Len(s) THEN s[i] ELSE t[i - Len(s)]
    BY <2>typed, ConcatProperties
  <2>7. \A i \in 1..Len(x) : x[i] = (s \o t)[i]
    <3> SUFFICES ASSUME NEW i \in 1..(Len(L) + Len(M)) PROVE x[i] = (s \o t)[i]
      BY <2>1, <2>4
    <3>1. Len(L) \in Nat /\ Len(M) \in Nat
      OBVIOUS
    <3>2. CASE i <= Len(L)
      BY <2>1, <2>2, <2>3, <2>4, <2>6, <3>1, <3>2
    <3>3. CASE ~ (i <= Len(L))
      <4>1. i - Len(L) \in 1..Len(M)
        BY <3>1, <3>3
      <4> QED BY <2>1, <2>2, <2>3, <2>4, <2>6, <3>1, <3>3, <4>1
    <3> QED BY <3>2, <3>3
  <2>8. x = s \o t
    BY <2>1, <2>2, <2>3, <2>4, <2>6, <2>7, SeqEqual
  <2> QED BY <2>2, <2>3, <2>5, <2>8
<1>4. SeqSum(s \o t) = SeqSum(s) + SeqSum(t)
  <2> HIDE DEF s, t
  <2> QED BY <1>3, SeqSumConcat
<1> QED BY <1>3, <1>4 DEF KeySum

(* The sum of a bucket is an integer.                                      *)
LEMMA LedgerSumInt ==
  ASSUME NEW L \in Seq(Entry), NEW u, NEW b
  PROVE  LedgerSum(L, u, b) \in Int
<1> DEFINE s == [i \in DOMAIN L |-> Amount(L[i], u, b)]
<1>1. \A x \in Entry : Amount(x, u, b) \in Int
  BY DEF Amount, Entry
<1>2. s \in Seq(Int)
  <2> HIDE DEF Entry
  <2> QED BY <1>1
<1>3. SeqSum(s) \in Int
  <2> HIDE DEF s
  <2> QED BY <1>2, SeqSumInt
<1> QED BY <1>3 DEF LedgerSum

KeysIn(L) == {L[i].key : i \in DOMAIN L}

(* So is the sum of a set of keys; keys that are not in the journal add    *)
(* nothing.                                                                *)
LEMMA KeySumInt ==
  ASSUME NEW L \in Seq(Entry), NEW K
  PROVE  /\ KeySum(L, K) \in Int
         /\ KeysIn(L) \cap K = {} => KeySum(L, K) = 0
<1> DEFINE t == [i \in DOMAIN L |-> KeyAmount(L[i], K)]
<1>1. \A x \in Entry : KeyAmount(x, K) \in Int
  BY DEF KeyAmount, Entry
<1>2. t \in Seq(Int) /\ Len(t) = Len(L)
  <2> HIDE DEF Entry
  <2> QED BY <1>1
<1>3. ASSUME KeysIn(L) \cap K = {} PROVE \A i \in 1..Len(t) : t[i] = 0
  <2>1. \A i \in DOMAIN L : L[i].key \notin K
    BY <1>3 DEF KeysIn
  <2> QED BY <1>2, <2>1 DEF KeyAmount
<1>4. SeqSum(t) \in Int
  <2> HIDE DEF t
  <2> QED BY <1>2, SeqSumInt
<1>5. KeysIn(L) \cap K = {} => SeqSum(t) = 0
  <2> HIDE DEF t
  <2> QED BY <1>2, <1>3, SeqSumZero
<1> QED BY <1>4, <1>5 DEF KeySum

(* Sets that hold the same keys of the journal have the same sum.          *)
LEMMA KeySumSame ==
  ASSUME NEW L \in Seq(Entry), NEW K, NEW M, \A k \in KeysIn(L) : k \in K <=> k \in M
  PROVE  KeySum(L, K) = KeySum(L, M)
<1>1. \A i \in DOMAIN L : L[i].key \in KeysIn(L)
  BY DEF KeysIn
<1>2. \A i \in DOMAIN L : KeyAmount(L[i], K) = KeyAmount(L[i], M)
  BY <1>1 DEF KeyAmount
<1>3. [i \in DOMAIN L |-> KeyAmount(L[i], K)] = [i \in DOMAIN L |-> KeyAmount(L[i], M)]
  BY <1>2
<1> QED BY <1>3 DEF KeySum

(* The sums of a journal with one more row.                                *)
LEMMA KeySumAppend ==
  ASSUME NEW L \in Seq(Entry), NEW e \in Entry, NEW K
  PROVE  KeySum(Append(L, e), K) = KeySum(L, K) + KeyAmount(e, K)
<1> DEFINE M == <<e>>
<1>1. M \in Seq(Entry) /\ Append(L, e) = L \o M
  <2> HIDE DEF Entry
  <2> QED OBVIOUS
<1>2. [i \in DOMAIN M |-> KeyAmount(M[i], K)] = Append(<<>>, KeyAmount(e, K))
  OBVIOUS
<1>3. KeyAmount(e, K) \in Int
  BY DEF KeyAmount, Entry
<1>4. SeqSum(Append(<<>>, KeyAmount(e, K))) = SeqSum(<<>>) + KeyAmount(e, K)
  <2> DEFINE z == <<>>
  <2>1. z \in Seq(Int)
    OBVIOUS
  <2> HIDE DEF z
  <2>2. SeqSum(Append(z, KeyAmount(e, K))) = SeqSum(z) + KeyAmount(e, K)
    BY <1>3, <2>1, SeqSumAppend
  <2> QED BY <2>2 DEF z
<1>5. KeySum(M, K) = KeyAmount(e, K)
  BY <1>2, <1>3, <1>4, SeqSumEmpty DEF KeySum
<1> HIDE DEF M
<1>6. KeySum(L \o M, K) = KeySum(L, K) + KeySum(M, K)
  BY <1>1, KeySumConcat
<1> QED BY <1>1, <1>5, <1>6

-----------------------------------------------------------------------------
(* Books: their type, and what it means that an operation accounts for     *)
(* what it does: every balance moves by what is added to its journal.  A   *)
(* book need not be balanced for that, and what a session has read is not. *)

BookType == [wallet : [Users -> Row], ledger : Seq(Entry)]

SameGap(B, C) ==
  \A u \in Users : \A b \in Buckets :
    C.wallet[u][b] + LedgerSum(B.ledger, u, b) = B.wallet[u][b] + LedgerSum(C.ledger, u, b)

AccountsFor(B, C) == C \in BookType /\ SameGap(B, C)

Balanced(B) == \A u \in Users : \A b \in Buckets :
                 B.wallet[u][b] = LedgerSum(B.ledger, u, b)

OK(B) == B \in BookType /\ Balanced(B)

(* Balances are natural numbers.                                           *)
LEMMA Balances ==
  ASSUME NEW B \in BookType
  PROVE  \A u \in Users : \A b \in Buckets : B.wallet[u][b] \in Nat
<1>1. B.wallet \in [Users -> Row]
  BY DEF BookType
<1> QED BY <1>1 DEF Row, Buckets

(* So are the amounts that account for them, up to their sign.             *)
LEMMA GapsAreIntegers ==
  ASSUME NEW B \in BookType, NEW u \in Users, NEW b \in Buckets
  PROVE  B.wallet[u][b] \in Int /\ LedgerSum(B.ledger, u, b) \in Int
<1>1. B.ledger \in Seq(Entry)
  BY DEF BookType
<1> QED BY <1>1, Balances, LedgerSumInt

(* To account for what one does keeps a balanced book balanced.            *)
LEMMA AccountsOK ==
  ASSUME NEW B, OK(B), NEW C, AccountsFor(B, C)
  PROVE  OK(C)
<1> SUFFICES ASSUME NEW u \in Users, NEW b \in Buckets
             PROVE  C.wallet[u][b] = LedgerSum(C.ledger, u, b)
  BY DEF OK, AccountsFor, Balanced
<1>1. /\ C.wallet[u][b] + LedgerSum(B.ledger, u, b)
           = B.wallet[u][b] + LedgerSum(C.ledger, u, b)
      /\ B.wallet[u][b] = LedgerSum(B.ledger, u, b)
  BY DEF AccountsFor, SameGap, OK, Balanced
<1>2. B \in BookType /\ C \in BookType
  BY DEF OK, AccountsFor
<1> DEFINE bw == B.wallet[u][b]
<1> DEFINE cw == C.wallet[u][b]
<1> DEFINE bl == LedgerSum(B.ledger, u, b)
<1> DEFINE cl == LedgerSum(C.ledger, u, b)
<1>3. bw \in Int /\ cw \in Int /\ bl \in Int /\ cl \in Int
  BY <1>2, GapsAreIntegers
<1>4. cw + bl = bw + cl /\ bw = bl
  BY <1>1
<1> HIDE DEF bw, cw, bl, cl
<1>5. cw = cl
  BY <1>3, <1>4
<1> QED BY <1>5 DEF cw, cl

(* Doing nothing accounts for itself, and so do two steps that do.         *)
LEMMA AccountsChain ==
  ASSUME NEW B \in BookType
  PROVE  /\ AccountsFor(B, B)
         /\ \A C, D : AccountsFor(B, C) /\ AccountsFor(C, D) => AccountsFor(B, D)
<1>1. AccountsFor(B, B)
  BY DEF AccountsFor, SameGap
<1>2. ASSUME NEW C, NEW D, AccountsFor(B, C), AccountsFor(C, D) PROVE AccountsFor(B, D)
  <2> SUFFICES ASSUME NEW u \in Users, NEW b \in Buckets
               PROVE  D.wallet[u][b] + LedgerSum(B.ledger, u, b)
                        = B.wallet[u][b] + LedgerSum(D.ledger, u, b)
    BY <1>2 DEF AccountsFor, SameGap
  <2>1. /\ C.wallet[u][b] + LedgerSum(B.ledger, u, b)
             = B.wallet[u][b] + LedgerSum(C.ledger, u, b)
        /\ D.wallet[u][b] + LedgerSum(C.ledger, u, b)
             = C.wallet[u][b] + LedgerSum(D.ledger, u, b)
    BY <1>2 DEF AccountsFor, SameGap
  <2>2. B \in BookType /\ C \in BookType /\ D \in BookType
    BY <1>2 DEF AccountsFor
  <2> DEFINE bw == B.wallet[u][b]
  <2> DEFINE cw == C.wallet[u][b]
  <2> DEFINE dw == D.wallet[u][b]
  <2> DEFINE bl == LedgerSum(B.ledger, u, b)
  <2> DEFINE cl == LedgerSum(C.ledger, u, b)
  <2> DEFINE dl == LedgerSum(D.ledger, u, b)
  <2>3. /\ bw \in Int /\ cw \in Int /\ dw \in Int
        /\ bl \in Int /\ cl \in Int /\ dl \in Int
    BY <2>2, GapsAreIntegers
  <2>4. cw + bl = bw + cl /\ dw + cl = cw + dl
    BY <2>1
  <2> HIDE DEF bw, cw, dw, bl, cl, dl
  <2>5. dw + bl = bw + dl
    BY <2>3, <2>4
  <2> QED BY <2>5 DEF bw, dw, bl, dl
<1> QED BY <1>1, <1>2

(* A row appended to the journal adds its amount to the sum of its bucket. *)
LEMMA LedgerSumAppend ==
  ASSUME NEW L \in Seq(Entry), NEW e \in Entry, NEW u, NEW b
  PROVE  LedgerSum(Append(L, e), u, b) = LedgerSum(L, u, b) + Amount(e, u, b)
<1> DEFINE s == [i \in DOMAIN L |-> Amount(L[i], u, b)]
<1> DEFINE t == [i \in DOMAIN Append(L, e) |-> Amount(Append(L, e)[i], u, b)]
<1>1. \A x \in Entry : Amount(x, u, b) \in Int
  BY DEF Amount, Entry
<1>2. s \in Seq(Int) /\ Amount(e, u, b) \in Int
  <2> HIDE DEF Entry
  <2> QED BY <1>1
<1>3. t = Append(s, Amount(e, u, b))
  <2>1. Len(Append(L, e)) = Len(L) + 1 /\ DOMAIN Append(L, e) = 1..(Len(L) + 1)
    OBVIOUS
  <2>2. /\ DOMAIN t = 1..(Len(L) + 1)
        /\ \A i \in 1..(Len(L) + 1) :
             t[i] = IF i <= Len(L) THEN Amount(L[i], u, b) ELSE Amount(e, u, b)
    BY <2>1
  <2>3. /\ DOMAIN Append(s, Amount(e, u, b)) = 1..(Len(L) + 1)
        /\ \A i \in 1..(Len(L) + 1) : Append(s, Amount(e, u, b))[i]
             = IF i <= Len(L) THEN Amount(L[i], u, b) ELSE Amount(e, u, b)
    BY <1>2
  <2>4. t \in Seq(Int)
    BY <1>1, <2>1
  <2> HIDE DEF s, t
  <2> QED BY <1>2, <2>2, <2>3, <2>4
<1>4. SeqSum(Append(s, Amount(e, u, b))) = SeqSum(s) + Amount(e, u, b)
  <2> HIDE DEF s
  <2> QED BY <1>2, SeqSumAppend
<1> QED BY <1>3, <1>4 DEF LedgerSum

(* Every bucket starts at 0, as an empty journal says it should.           *)
LEMMA LedgerSumEmpty == \A u, b : LedgerSum(<<>>, u, b) = 0
<1> SUFFICES ASSUME NEW u, NEW b PROVE LedgerSum(<<>>, u, b) = 0
  OBVIOUS
<1>1. [i \in DOMAIN <<>> |-> Amount(<<>>[i], u, b)] = <<>>
  OBVIOUS
<1> QED BY <1>1, SeqSumEmpty DEF LedgerSum

(* A movement of tokens accounts for itself, unless it would overdraw the  *)
(* bucket.                                                                 *)
LEMMA PostedAccounts ==
  ASSUME NEW B \in BookType, NEW u \in Users, NEW b \in Buckets,
         NEW d \in Int, NEW k \in Keys, B.wallet[u][b] + d >= 0
  PROVE  /\ AccountsFor(B, Posted(B, u, b, d, k))
         /\ Posted(B, u, b, d, k).wallet[u][b] = B.wallet[u][b] + d
         /\ \A v \in Users, c \in Buckets : v # u \/ c # b =>
              Posted(B, u, b, d, k).wallet[v][c] = B.wallet[v][c]
<1> DEFINE after == B.wallet[u][b] + d
<1> DEFINE W == [B.wallet EXCEPT ![u][b] = after]
<1> DEFINE e == [user |-> u, bucket |-> b, delta |-> d, key |-> k, after |-> after]
<1> DEFINE P == Posted(B, u, b, d, k)
<1>1. B.wallet \in [Users -> Row] /\ B.ledger \in Seq(Entry)
  BY DEF BookType
<1>2. \A v \in Users : \A c \in Buckets : B.wallet[v][c] \in Nat
  BY <1>1 DEF Buckets, Row
<1>3. after \in Nat
  BY <1>2
<1>4. /\ W \in [Users -> Row]
      /\ \A v \in Users : \A c \in Buckets :
           W[v][c] = IF v = u /\ c = b THEN after ELSE B.wallet[v][c]
  <2> HIDE DEF after
  <2>1. CASE b = "free"
    BY <1>1, <1>3, <2>1 DEF Row, Buckets
  <2>2. CASE b = "sub"
    BY <1>1, <1>3, <2>2 DEF Row, Buckets
  <2> QED BY <2>1, <2>2 DEF Buckets
<1>5. e \in Entry
  BY <1>3 DEF Entry
<1>6. P.wallet = W /\ P.ledger = Append(B.ledger, e) /\ P \in BookType
  BY <1>1, <1>4, <1>5 DEF Posted, BookType
<1>7. \A v, c : Amount(e, v, c) = IF v = u /\ c = b THEN d ELSE 0
  BY DEF Amount
<1>8. SameGap(B, P)
  <2> HIDE DEF W, e, P, after
  <2> SUFFICES ASSUME NEW v \in Users, NEW c \in Buckets
               PROVE  W[v][c] + LedgerSum(B.ledger, v, c)
                        = B.wallet[v][c] + LedgerSum(Append(B.ledger, e), v, c)
    BY <1>6 DEF SameGap
  <2>1. /\ LedgerSum(Append(B.ledger, e), v, c) = LedgerSum(B.ledger, v, c) + Amount(e, v, c)
        /\ LedgerSum(B.ledger, v, c) \in Int
    BY <1>1, <1>5, LedgerSumAppend, LedgerSumInt
  <2> QED BY <1>2, <1>4, <1>7, <2>1 DEF after
<1> QED BY <1>4, <1>6, <1>8 DEF AccountsFor

-----------------------------------------------------------------------------
(* Every operation accounts for what it does, so that it maps balanced     *)
(* books to balanced books.                                                *)

(* Stamping the reward columns touches no balance and no journal row.      *)
LEMMA StampAccounts ==
  ASSUME NEW B \in BookType, NEW u \in Users, NEW day \in Nat, NEW rung \in Nat
  PROVE  /\ AccountsFor(B, Stamped(B, u, day, rung))
         /\ \A v \in Users, c \in Buckets :
              Stamped(B, u, day, rung).wallet[v][c] = B.wallet[v][c]
<1> DEFINE M == Stamped(B, u, day, rung)
<1>1. B.wallet \in [Users -> Row] /\ B.wallet[u] \in Row
  BY DEF BookType
<1>2. M.ledger = B.ledger /\ M \in BookType
  BY <1>1 DEF BookType, Row, Stamped
<1>3. \A v \in Users : \A c \in Buckets : M.wallet[v][c] = B.wallet[v][c]
  BY <1>1 DEF BookType, Row, Buckets, Stamped
<1>4. SameGap(B, M)
  <2> HIDE DEF M
  <2> QED BY <1>2, <1>3 DEF SameGap
<1> QED BY <1>2, <1>3, <1>4 DEF AccountsFor

(* Bonuses and refunds (grant, wallet.py:57).                              *)
LEMMA GrantAccounts ==
  ASSUME NEW B \in BookType, NEW u \in Users, NEW b \in Buckets, NEW amount \in Nat,
         NEW k \in Keys
  PROVE  AccountsFor(B, Grant(B, u, amount, b, k))
<1>1. B.wallet[u][b] + amount >= 0
  BY Balances
<1> QED BY <1>1, PostedAccounts, AccountsChain DEF Grant

(* The weekly reset (wallet.py:131): what it burns is journalled as a      *)
(* negative amount.                                                        *)
LEMMA WeeklyQuotaAccounts ==
  ASSUME NEW B \in BookType, NEW u \in Users, NEW quota \in Nat, NEW anchor \in Nat,
         NEW day \in Nat
  PROVE  AccountsFor(B, WeeklyQuota(B, u, quota, anchor, day))
<1> DEFINE k == QuotaKey(u, anchor, (day - anchor) \div PeriodDays)
<1>1. B.wallet[u].sub \in Nat /\ "sub" \in Buckets /\ AccountsFor(B, B)
  BY AccountsChain DEF BookType, Row, Buckets
<1>2. /\ quota - B.wallet[u].sub \in Int
      /\ B.wallet[u]["sub"] + (quota - B.wallet[u].sub) >= 0
  BY <1>1
<1>3. CASE day < anchor
  BY <1>1, <1>3 DEF WeeklyQuota
<1>4. CASE ~ (day < anchor)
  <2>1. (day - anchor) \div PeriodDays \in Nat
    BY <1>4, WalletAssumption
  <2>2. k \in Keys
    BY <2>1 DEF Keys, QuotaKey
  <2> HIDE DEF k
  <2>3. AccountsFor(B, ResetQuota(B, u, quota, k))
    BY <1>1, <1>2, <2>2, PostedAccounts DEF ResetQuota
  <2> QED BY <1>4, <2>3 DEF WeeklyQuota, k
<1> QED BY <1>3, <1>4

(* A claim always lands on a rung of the ladder (wallet.py:190-194).       *)
LEMMA StreakType ==
  ASSUME NEW w \in Row, NEW day \in Nat, DailyRewards # <<>>
  PROVE  NextStreak(w, day) \in 1..Len(DailyRewards)
BY WalletAssumption DEF NextStreak, Row

(* A daily claim, however little the cap lets through (wallet.py:167).     *)
LEMMA ClaimAccounts ==
  ASSUME NEW B \in BookType, NEW u \in Users, NEW day \in Nat
  PROVE  AccountsFor(B, Claim(B, u, day))
<1> DEFINE w == B.wallet[u]
<1> DEFINE rung == NextStreak(w, day)
<1> DEFINE granted == Lesser(DailyRewards[rung], Room(w))
<1> DEFINE M == Stamped(B, u, day, rung)
<1>1. CASE DailyRewards = <<>> \/ w.last = day
  BY <1>1, AccountsChain DEF Claim
<1>2. CASE ~ (DailyRewards = <<>> \/ w.last = day)
  <2>1. w \in Row
    BY DEF BookType
  <2>2. rung \in 1..Len(DailyRewards) /\ rung \in Nat
    BY <1>2, <2>1, StreakType
  <2>3. granted \in Nat
    BY <2>1, <2>2, WalletAssumption, SMTT(30) DEF Lesser, Room, NonNegative, Row
  <2>4. AccountsFor(B, M) /\ M \in BookType
    <3> HIDE DEF rung
    <3> QED BY <2>2, StampAccounts DEF AccountsFor
  <2>5. DailyKey(u, day) \in Keys /\ "free" \in Buckets
    BY DEF DailyKey, Keys, Buckets
  <2>6. Claim(B, u, day) = IF granted = 0 THEN M
                           ELSE Posted(M, u, "free", granted, DailyKey(u, day))
    BY <1>2 DEF Claim
  <2> HIDE DEF M, granted
  <2>7. M.wallet[u]["free"] + granted >= 0
    BY <2>3, <2>4, <2>5, Balances
  <2>8. AccountsFor(M, Posted(M, u, "free", granted, DailyKey(u, day)))
    BY <2>3, <2>4, <2>5, <2>7, PostedAccounts
  <2> QED BY <2>4, <2>6, <2>8, AccountsChain
<1> QED BY <1>1, <1>2

(* A charge the wallet covers; it overdraws neither bucket                 *)
(* (wallet.py:217).                                                        *)
LEMMA SpendAccounts ==
  ASSUME NEW B \in BookType, NEW u \in Users, NEW cost \in Nat, NEW p \in Payments,
         CanSpend(B, u, cost)
  PROVE  AccountsFor(B, Spend(B, u, cost, p))
<1> DEFINE fromSub == Lesser(B.wallet[u].sub, cost)
<1> DEFINE rest == cost - fromSub
<1> DEFINE D == IF fromSub = 0 THEN B
                ELSE Posted(B, u, "sub", -fromSub, SpendKey(p, "sub"))
<1>1. B.wallet[u].free \in Nat /\ B.wallet[u].sub \in Nat
  BY DEF BookType, Row
<1>2. "free" \in Buckets /\ "sub" \in Buckets
  BY DEF Buckets
<1>3. SpendKey(p, "sub") \in Keys /\ SpendKey(p, "free") \in Keys
  BY <1>2 DEF SpendKey, Keys
<1>4. /\ fromSub \in Nat /\ fromSub <= B.wallet[u].sub
      /\ rest \in Nat /\ rest <= B.wallet[u].free
  BY <1>1 DEF Lesser, CanSpend, Total
<1>5. AccountsFor(B, D) /\ D \in BookType /\ D.wallet[u]["free"] = B.wallet[u].free
  <2>1. -fromSub \in Int /\ B.wallet[u]["sub"] + (-fromSub) >= 0
    BY <1>1, <1>4
  <2> HIDE DEF fromSub
  <2> QED BY <1>2, <1>3, <2>1, PostedAccounts, AccountsChain DEF AccountsFor
<1>6. Spend(B, u, cost, p) = IF rest = 0 THEN D
                             ELSE Posted(D, u, "free", -rest, SpendKey(p, "free"))
  BY DEF Spend
<1>7. -rest \in Int /\ D.wallet[u]["free"] + (-rest) >= 0
  <2> HIDE DEF D, rest
  <2> QED BY <1>1, <1>4, <1>5
<1> HIDE DEF D, rest
<1>8. AccountsFor(D, Posted(D, u, "free", -rest, SpendKey(p, "free")))
  BY <1>2, <1>3, <1>5, <1>7, PostedAccounts
<1> QED BY <1>5, <1>6, <1>8, AccountsChain

(* Carrying a guest's balance over, on both sides (wallet.py:267).         *)
LEMMA TransferAccounts ==
  ASSUME NEW B \in BookType, NEW g \in Users, NEW t \in Users
  PROVE  AccountsFor(B, Transfer(B, g, t))
<1> DEFINE amount == Lesser(B.wallet[g].free, Room(B.wallet[t]))
<1> DEFINE D == Posted(B, g, "free", -amount, MergeOutKey(g))
<1>1. B.wallet[g].free \in Nat /\ B.wallet[t].free \in Nat /\ "free" \in Buckets
  BY DEF BookType, Row, Buckets
<1>2. MergeOutKey(g) \in Keys /\ MergeKey(t) \in Keys
  BY DEF MergeOutKey, MergeKey, Keys
<1>3. amount \in Nat /\ amount <= B.wallet[g].free
  BY <1>1, WalletAssumption DEF Lesser, Room, NonNegative
<1>4. -amount \in Int /\ B.wallet[g]["free"] + (-amount) >= 0
  BY <1>1, <1>3
<1>5. AccountsFor(B, D) /\ D \in BookType
  <2> HIDE DEF amount
  <2> QED BY <1>1, <1>2, <1>4, PostedAccounts DEF AccountsFor
<1>6. D.wallet[t]["free"] \in Nat
  <2> HIDE DEF D
  <2> QED BY <1>1, <1>5, Balances
<1>7. Transfer(B, g, t) = IF Applied(B, MergeKey(t)) \/ amount <= 0 THEN B
                          ELSE Posted(D, t, "free", amount, MergeKey(t))
  BY DEF Transfer
<1>8. D.wallet[t]["free"] + amount >= 0
  <2> HIDE DEF D, amount
  <2> QED BY <1>3, <1>6
<1> HIDE DEF D, amount
<1>9. AccountsFor(D, Posted(D, t, "free", amount, MergeKey(t)))
  BY <1>1, <1>2, <1>3, <1>5, <1>8, PostedAccounts
<1> QED BY <1>5, <1>7, <1>9, AccountsChain

-----------------------------------------------------------------------------
(* Which idempotency keys an operation may add to the journal. *)

Distinct(L) == \A i, j \in DOMAIN L : L[i].key = L[j].key => i = j

(* C's journal is B's with at most the keys of K added, none of them twice *)
KeysKept(B, C, K) ==
  /\ Distinct(B.ledger) => Distinct(C.ledger)
  /\ KeysIn(B.ledger) \subseteq KeysIn(C.ledger)
  /\ KeysIn(C.ledger) \subseteq KeysIn(B.ledger) \cup K

(* C's journal has the keys of B's and k besides *)
AddsKey(B, C, k) == KeysIn(C.ledger) = KeysIn(B.ledger) \cup {k}

(* A movement adds its own key to the journal's.                           *)
LEMMA PostedKeyIn ==
  ASSUME NEW B, B.ledger \in Seq(Entry), NEW u, NEW b, NEW d, NEW k
  PROVE  AddsKey(B, Posted(B, u, b, d, k), k)
<1> DEFINE e == [user |-> u, bucket |-> b, delta |-> d, key |-> k,
                 after |-> B.wallet[u][b] + d]
<1> DEFINE L == Posted(B, u, b, d, k).ledger
<1>1. L = Append(B.ledger, e) /\ e.key = k
  BY DEF Posted
<1> HIDE DEF L, e
<1>2. /\ DOMAIN L = 1..(Len(B.ledger) + 1)
      /\ DOMAIN B.ledger = 1..Len(B.ledger) /\ Len(B.ledger) \in Nat
      /\ \A i \in DOMAIN L : L[i] = IF i \in DOMAIN B.ledger THEN B.ledger[i] ELSE e
  BY <1>1
<1>3. KeysIn(L) \subseteq KeysIn(B.ledger) \cup {k} /\ KeysIn(B.ledger) \subseteq KeysIn(L)
  BY <1>1, <1>2 DEF KeysIn
<1>4. Len(B.ledger) + 1 \in DOMAIN L /\ L[Len(B.ledger) + 1] = e
  BY <1>2
<1>5. k \in KeysIn(L)
  BY <1>1, <1>4 DEF KeysIn
<1> QED BY <1>3, <1>5 DEF L, AddsKey

(* A movement under a fresh key repeats none.                              *)
LEMMA PostedKeys ==
  ASSUME NEW B, B.ledger \in Seq(Entry), NEW u, NEW b, NEW d, NEW k,
         k \notin KeysIn(B.ledger)
  PROVE  KeysKept(B, Posted(B, u, b, d, k), {k})
<1> DEFINE e == [user |-> u, bucket |-> b, delta |-> d, key |-> k,
                 after |-> B.wallet[u][b] + d]
<1> DEFINE L == Posted(B, u, b, d, k).ledger
<1>1. L = Append(B.ledger, e) /\ e.key = k
  BY DEF Posted
<1>4. KeysIn(L) = KeysIn(B.ledger) \cup {k}
  <2>1. AddsKey(B, Posted(B, u, b, d, k), k)
    BY PostedKeyIn
  <2> QED BY <2>1 DEF AddsKey
<1> HIDE DEF L, e
<1>2. /\ DOMAIN L = 1..(Len(B.ledger) + 1)
      /\ DOMAIN B.ledger = 1..Len(B.ledger) /\ Len(B.ledger) \in Nat
      /\ \A i \in DOMAIN L : L[i] = IF i \in DOMAIN B.ledger THEN B.ledger[i] ELSE e
  BY <1>1
<1>3. \A i \in DOMAIN B.ledger : B.ledger[i].key # k
  BY DEF KeysIn
<1>5. ASSUME Distinct(B.ledger) PROVE Distinct(L)
  <2> SUFFICES ASSUME NEW i \in DOMAIN L, NEW j \in DOMAIN L, L[i].key = L[j].key
               PROVE  i = j
    BY DEF Distinct
  <2>1. CASE i \in DOMAIN B.ledger /\ j \in DOMAIN B.ledger
    BY <1>2, <1>5, <2>1 DEF Distinct
  <2>2. CASE i \in DOMAIN B.ledger /\ j \notin DOMAIN B.ledger
    BY <1>1, <1>2, <1>3, <2>2
  <2>3. CASE i \notin DOMAIN B.ledger /\ j \in DOMAIN B.ledger
    BY <1>1, <1>2, <1>3, <2>3
  <2>4. CASE i \notin DOMAIN B.ledger /\ j \notin DOMAIN B.ledger
    BY <1>2, <2>4
  <2> QED BY <2>1, <2>2, <2>3, <2>4
<1> QED BY <1>4, <1>5 DEF KeysKept, L

(* The reward columns survive every movement of tokens.                    *)
SameRewards(B, C) ==
  \A v \in Users : /\ C.wallet[v].last = B.wallet[v].last
                   /\ C.wallet[v].streak = B.wallet[v].streak

(* A movement of tokens does not touch the reward columns.                 *)
LEMMA PostedRewards ==
  ASSUME NEW B, B.wallet \in [Users -> Row], NEW u \in Users, NEW b \in Buckets,
         NEW d, NEW k
  PROVE  SameRewards(B, Posted(B, u, b, d, k))
<1> DEFINE after == B.wallet[u][b] + d
<1> DEFINE W == [B.wallet EXCEPT ![u][b] = after]
<1>1. Posted(B, u, b, d, k).wallet = W
  BY DEF Posted
<1>2. \A v \in Users : W[v].last = B.wallet[v].last /\ W[v].streak = B.wallet[v].streak
  <2> HIDE DEF after
  <2>1. CASE b = "free"
    BY <2>1 DEF Row
  <2>2. CASE b = "sub"
    BY <2>2 DEF Row
  <2> QED BY <2>1, <2>2 DEF Buckets
<1> QED BY <1>1, <1>2 DEF SameRewards

(* _already_applied (wallet.py:340) finds a key exactly when a journal row *)
(* has it.                                                                 *)
LEMMA AppliedIsKeyIn ==
  ASSUME NEW B, NEW k
  PROVE  Applied(B, k) <=> k \in KeysIn(B.ledger)
BY DEF Applied, KeysIn

(* A grant uses its own key only, once, and leaves the ladder alone.       *)
LEMMA GrantKeys ==
  ASSUME NEW B \in BookType, NEW u \in Users, NEW b \in Buckets, NEW amount, NEW k
  PROVE  /\ KeysKept(B, Grant(B, u, amount, b, k), {k})
         /\ k \in KeysIn(Grant(B, u, amount, b, k).ledger)
         /\ SameRewards(B, Grant(B, u, amount, b, k))
<1>1. B.ledger \in Seq(Entry) /\ B.wallet \in [Users -> Row]
  BY DEF BookType
<1>2. KeysKept(B, B, {k}) /\ SameRewards(B, B)
  BY DEF KeysKept, SameRewards
<1>3. CASE Applied(B, k)
  BY <1>2, <1>3, AppliedIsKeyIn DEF Grant
<1>4. CASE ~Applied(B, k)
  <2>1. k \notin KeysIn(B.ledger) /\ Grant(B, u, amount, b, k) = Posted(B, u, b, amount, k)
    BY <1>4, AppliedIsKeyIn DEF Grant
  <2>2. KeysKept(B, Posted(B, u, b, amount, k), {k})
    BY <1>1, <2>1, PostedKeys
  <2>4. k \in KeysIn(Posted(B, u, b, amount, k).ledger)
    <3>1. AddsKey(B, Posted(B, u, b, amount, k), k)
      BY <1>1, PostedKeyIn
    <3> QED BY <3>1 DEF AddsKey
  <2>3. SameRewards(B, Posted(B, u, b, amount, k))
    BY <1>1, PostedRewards
  <2> QED BY <2>1, <2>2, <2>3, <2>4
<1> QED BY <1>3, <1>4

(* A weekly reset uses the key of its period only, once.                   *)
LEMMA WeeklyQuotaKeys ==
  ASSUME NEW B \in BookType, NEW u \in Users, NEW quota, NEW anchor, NEW day
  PROVE  LET C == WeeklyQuota(B, u, quota, anchor, day)
         IN  KeysKept(B, C, {QuotaKey(u, anchor, (day - anchor) \div PeriodDays)})
             /\ SameRewards(B, C)
<1> DEFINE k == QuotaKey(u, anchor, (day - anchor) \div PeriodDays)
<1>1. B.ledger \in Seq(Entry) /\ B.wallet \in [Users -> Row] /\ "sub" \in Buckets
  BY DEF BookType, Buckets
<1>2. KeysKept(B, B, {k}) /\ SameRewards(B, B)
  BY DEF KeysKept, SameRewards
<1>3. WeeklyQuota(B, u, quota, anchor, day) =
        IF day < anchor \/ Applied(B, k) THEN B
        ELSE Posted(B, u, "sub", quota - B.wallet[u].sub, k)
  BY DEF WeeklyQuota, ResetQuota
<1> HIDE DEF k
<1>4. KeysKept(B, WeeklyQuota(B, u, quota, anchor, day), {k})
      /\ SameRewards(B, WeeklyQuota(B, u, quota, anchor, day))
  BY <1>1, <1>2, <1>3, PostedKeys, PostedRewards, AppliedIsKeyIn
<1> QED BY <1>4 DEF k

(* A charge uses at most one key per bucket, none of which was used.       *)
LEMMA SpendKeys ==
  ASSUME NEW B \in BookType, NEW u \in Users, NEW cost \in Nat, NEW p \in Payments,
         CanSpend(B, u, cost), \A b \in Buckets : SpendKey(p, b) \notin KeysIn(B.ledger)
  PROVE  KeysKept(B, Spend(B, u, cost, p), {SpendKey(p, b) : b \in Buckets})
         /\ SameRewards(B, Spend(B, u, cost, p))
<1> DEFINE fromSub == Lesser(B.wallet[u].sub, cost)
<1> DEFINE rest == cost - fromSub
<1> DEFINE ks == SpendKey(p, "sub")
<1> DEFINE kf == SpendKey(p, "free")
<1> DEFINE D == IF fromSub = 0 THEN B ELSE Posted(B, u, "sub", -fromSub, ks)
<1>1. /\ B \in BookType /\ B.ledger \in Seq(Entry) /\ B.wallet \in [Users -> Row]
      /\ "sub" \in Buckets /\ "free" \in Buckets /\ B.wallet[u].sub \in Nat
  BY DEF BookType, Buckets, Row
<1>2. ks # kf /\ {SpendKey(p, b) : b \in Buckets} = {ks, kf}
  BY DEF SpendKey, Buckets
<1>3. -fromSub \in Int /\ B.wallet[u]["sub"] + (-fromSub) >= 0 /\ ks \in Keys
  BY <1>1 DEF Lesser, SpendKey, Keys
<1>4. KeysKept(B, D, {ks}) /\ SameRewards(B, D) /\ D \in BookType
  <2>1. KeysKept(B, B, {ks}) /\ SameRewards(B, B)
    BY DEF KeysKept, SameRewards
  <2>2. ks \notin KeysIn(B.ledger)
    BY <1>1
  <2> HIDE DEF ks, fromSub
  <2> QED BY <1>1, <1>3, <2>1, <2>2, PostedKeys, PostedRewards, PostedAccounts DEF AccountsFor
<1>5. kf \notin KeysIn(D.ledger)
  <2> HIDE DEF D, ks
  <2> QED BY <1>1, <1>2, <1>4 DEF KeysKept
<1>6. Spend(B, u, cost, p) = IF rest = 0 THEN D ELSE Posted(D, u, "free", -rest, kf)
  BY DEF Spend
<1> HIDE DEF D, ks, kf, rest
<1>7. KeysKept(D, Spend(B, u, cost, p), {kf}) /\ SameRewards(D, Spend(B, u, cost, p))
  <2>1. KeysKept(D, D, {kf}) /\ SameRewards(D, D)
    BY DEF KeysKept, SameRewards
  <2> QED BY <1>1, <1>4, <1>5, <1>6, <2>1, PostedKeys, PostedRewards DEF BookType
<1> QED BY <1>2, <1>4, <1>7 DEF KeysKept, SameRewards

(* A merge uses the guest's and the account's merge keys, each once.       *)
LEMMA TransferKeys ==
  ASSUME NEW B \in BookType, NEW g \in Users, NEW t \in Users,
         MergeOutKey(g) \notin KeysIn(B.ledger)
  PROVE  KeysKept(B, Transfer(B, g, t), {MergeOutKey(g), MergeKey(t)})
         /\ SameRewards(B, Transfer(B, g, t))
<1> DEFINE amount == Lesser(B.wallet[g].free, Room(B.wallet[t]))
<1> DEFINE ko == MergeOutKey(g)
<1> DEFINE ki == MergeKey(t)
<1> DEFINE D == Posted(B, g, "free", -amount, ko)
<1>1. /\ B \in BookType /\ B.ledger \in Seq(Entry) /\ B.wallet \in [Users -> Row]
      /\ "free" \in Buckets /\ B.wallet[g].free \in Nat /\ B.wallet[t].free \in Nat
  BY DEF BookType, Buckets, Row
<1>2. ko # ki /\ ko \in Keys
  BY DEF MergeOutKey, MergeKey, Keys
<1>3. -amount \in Int /\ B.wallet[g]["free"] + (-amount) >= 0
  BY <1>1, WalletAssumption DEF Lesser, Room, NonNegative
<1>4. Transfer(B, g, t) = IF Applied(B, ki) \/ amount <= 0 THEN B
                          ELSE Posted(D, t, "free", amount, ki)
  BY DEF Transfer
<1> HIDE DEF amount, ki, ko
<1>5. KeysKept(B, D, {ko}) /\ SameRewards(B, D) /\ D \in BookType
  BY <1>1, <1>2, <1>3, PostedKeys, PostedRewards, PostedAccounts DEF AccountsFor, ko
<1>6. CASE Applied(B, ki) \/ amount <= 0
  BY <1>4, <1>6 DEF KeysKept, SameRewards, ki, ko
<1>7. CASE ~ (Applied(B, ki) \/ amount <= 0)
  <2> HIDE DEF D
  <2>1. ki \notin KeysIn(D.ledger)
    BY <1>2, <1>5, <1>7, AppliedIsKeyIn DEF KeysKept
  <2>2. KeysKept(D, Transfer(B, g, t), {ki}) /\ SameRewards(D, Transfer(B, g, t))
    BY <1>1, <1>4, <1>5, <1>7, <2>1, PostedKeys, PostedRewards DEF BookType
  <2> QED BY <1>5, <2>2 DEF KeysKept, SameRewards, ki, ko
<1> QED BY <1>6, <1>7

(* A claim that is accepted moves the reward columns of its user only, and *)
(* may add the key of that day.                                            *)
LEMMA ClaimKeys ==
  ASSUME NEW B \in BookType, NEW u \in Users, NEW day \in Nat,
         DailyRewards # <<>>, B.wallet[u].last # day,
         DailyKey(u, day) \notin KeysIn(B.ledger)
  PROVE  LET C == Claim(B, u, day) IN
         /\ KeysKept(B, C, {DailyKey(u, day)})
         /\ C.wallet[u].last = day
         /\ C.wallet[u].streak = NextStreak(B.wallet[u], day)
         /\ \A v \in Users : v # u => /\ C.wallet[v].last = B.wallet[v].last
                                     /\ C.wallet[v].streak = B.wallet[v].streak
<1> DEFINE k == DailyKey(u, day)
<1> DEFINE rung == NextStreak(B.wallet[u], day)
<1> DEFINE granted == Lesser(DailyRewards[rung], Room(B.wallet[u]))
<1> DEFINE M == Stamped(B, u, day, rung)
<1>1. B.wallet \in [Users -> Row] /\ B.ledger \in Seq(Entry) /\ "free" \in Buckets
  BY DEF BookType, Buckets
<1>2. Claim(B, u, day) = IF granted = 0 THEN M ELSE Posted(M, u, "free", granted, k)
  BY DEF Claim
<1>3. rung \in Nat
  BY <1>1, StreakType
<1>4. /\ M.ledger = B.ledger /\ M.wallet[u].last = day /\ M.wallet[u].streak = rung
      /\ \A v \in Users : v # u => M.wallet[v] = B.wallet[v]
  BY <1>1 DEF Stamped, Row
<1>5. M.wallet \in [Users -> Row]
  <2> HIDE DEF rung
  <2> QED BY <1>3, StampAccounts DEF AccountsFor, BookType
<1> HIDE DEF M, k, granted, rung
<1>6. /\ KeysKept(B, Claim(B, u, day), {k})
      /\ SameRewards(M, Claim(B, u, day))
  <2>1. KeysKept(B, M, {k}) /\ SameRewards(M, M)
    BY <1>4 DEF KeysKept, SameRewards
  <2>2. k \notin KeysIn(M.ledger)
    BY <1>4 DEF k
  <2>3. KeysKept(M, Posted(M, u, "free", granted, k), {k})
        /\ SameRewards(M, Posted(M, u, "free", granted, k))
    BY <1>1, <1>4, <1>5, <2>2, PostedKeys, PostedRewards
  <2> QED BY <1>2, <1>4, <2>1, <2>3 DEF KeysKept
<1> QED BY <1>4, <1>6 DEF SameRewards, k, rung

-----------------------------------------------------------------------------
(* What an operation adds to the sum of a set of keys.                     *)

(* A movement adds its amount to the sets that hold its key.               *)
LEMMA PostedKeySum ==
  ASSUME NEW B \in BookType, NEW u \in Users, NEW b \in Buckets,
         NEW d \in Int, NEW k \in Keys, B.wallet[u][b] + d >= 0, NEW K
  PROVE  KeySum(Posted(B, u, b, d, k).ledger, K)
           = KeySum(B.ledger, K) + (IF k \in K THEN d ELSE 0)
<1> DEFINE after == B.wallet[u][b] + d
<1> DEFINE e == [user |-> u, bucket |-> b, delta |-> d, key |-> k, after |-> after]
<1>1. after \in Int /\ B.ledger \in Seq(Entry)
  BY GapsAreIntegers DEF BookType
<1>2. e \in Entry /\ KeyAmount(e, K) = IF k \in K THEN d ELSE 0
  <2> HIDE DEF after
  <2> QED BY <1>1 DEF Entry, KeyAmount
<1>3. Posted(B, u, b, d, k).ledger = Append(B.ledger, e)
  BY DEF Posted
<1> HIDE DEF e
<1> QED BY <1>1, <1>2, <1>3, KeySumAppend

(* A grant adds its amount to the sets that hold its key, unless the key   *)
(* was applied.                                                            *)
LEMMA GrantKeySum ==
  ASSUME NEW B \in BookType, NEW u \in Users, NEW b \in Buckets, NEW amount \in Nat,
         NEW k \in Keys, NEW K
  PROVE  KeySum(Grant(B, u, amount, b, k).ledger, K)
           = KeySum(B.ledger, K) + (IF k \in K /\ ~Applied(B, k) THEN amount ELSE 0)
<1>1. B.wallet[u][b] + amount >= 0 /\ KeySum(B.ledger, K) \in Int
  BY Balances, KeySumInt DEF BookType
<1> QED BY <1>1, PostedKeySum DEF Grant

(* A weekly reset adds nothing to the sets without its key.                *)
LEMMA WeeklyQuotaKeySum ==
  ASSUME NEW B \in BookType, NEW u \in Users, NEW quota \in Nat, NEW anchor \in Nat,
         NEW day \in Nat, NEW K, \A period : QuotaKey(u, anchor, period) \notin K
  PROVE  KeySum(WeeklyQuota(B, u, quota, anchor, day).ledger, K) = KeySum(B.ledger, K)
<1> DEFINE k == QuotaKey(u, anchor, (day - anchor) \div PeriodDays)
<1>1. B.wallet[u].sub \in Nat /\ "sub" \in Buckets /\ KeySum(B.ledger, K) \in Int
  BY KeySumInt DEF BookType, Row, Buckets
<1>2. /\ quota - B.wallet[u].sub \in Int
      /\ B.wallet[u]["sub"] + (quota - B.wallet[u].sub) >= 0
  BY <1>1
<1>3. CASE day < anchor
  BY <1>3 DEF WeeklyQuota
<1>4. CASE ~ (day < anchor)
  <2>1. (day - anchor) \div PeriodDays \in Nat
    BY <1>4, WalletAssumption
  <2>2. k \in Keys /\ k \notin K
    BY <2>1 DEF Keys, QuotaKey
  <2> HIDE DEF k
  <2>3. KeySum(ResetQuota(B, u, quota, k).ledger, K) = KeySum(B.ledger, K)
    BY <1>1, <1>2, <2>2, PostedKeySum DEF ResetQuota
  <2> QED BY <1>4, <2>3 DEF WeeklyQuota, k
<1> QED BY <1>3, <1>4

(* A claim adds nothing to the sets without the keys of its days.          *)
LEMMA ClaimKeySum ==
  ASSUME NEW B \in BookType, NEW u \in Users, NEW day \in Nat, NEW K,
         DailyKey(u, day) \notin K
  PROVE  KeySum(Claim(B, u, day).ledger, K) = KeySum(B.ledger, K)
<1> DEFINE w == B.wallet[u]
<1> DEFINE rung == NextStreak(w, day)
<1> DEFINE granted == Lesser(DailyRewards[rung], Room(w))
<1> DEFINE M == Stamped(B, u, day, rung)
<1>1. CASE DailyRewards = <<>> \/ w.last = day
  BY <1>1 DEF Claim
<1>2. CASE ~ (DailyRewards = <<>> \/ w.last = day)
  <2>1. w \in Row
    BY DEF BookType
  <2>2. rung \in 1..Len(DailyRewards) /\ rung \in Nat
    BY <1>2, <2>1, StreakType
  <2>3. granted \in Nat
    BY <2>1, <2>2, WalletAssumption, SMTT(30) DEF Lesser, Room, NonNegative, Row
  <2>4. M \in BookType
    <3> HIDE DEF rung
    <3> QED BY <2>2, StampAccounts DEF AccountsFor
  <2>5. DailyKey(u, day) \in Keys /\ "free" \in Buckets /\ M.ledger = B.ledger
    BY DEF DailyKey, Keys, Buckets, Stamped
  <2>6. Claim(B, u, day) = IF granted = 0 THEN M
                           ELSE Posted(M, u, "free", granted, DailyKey(u, day))
    BY <1>2 DEF Claim
  <2> HIDE DEF M, granted
  <2>7. M.wallet[u]["free"] + granted >= 0 /\ KeySum(M.ledger, K) \in Int
    BY <2>3, <2>4, <2>5, Balances, KeySumInt DEF BookType
  <2> QED BY <2>3, <2>4, <2>5, <2>6, <2>7, PostedKeySum
<1> QED BY <1>1, <1>2

(* A charge takes its price from the sets that hold its keys, whatever     *)
(* buckets it draws on.                                                    *)
LEMMA SpendKeySum ==
  ASSUME NEW B \in BookType, NEW u \in Users, NEW cost \in Nat, NEW p \in Payments,
         CanSpend(B, u, cost), NEW K,
         SpendKey(p, "sub") \in K <=> SpendKey(p, "free") \in K
  PROVE  KeySum(Spend(B, u, cost, p).ledger, K)
           = KeySum(B.ledger, K) - (IF SpendKey(p, "sub") \in K THEN cost ELSE 0)
<1> DEFINE own == SpendKey(p, "sub") \in K
<1>0. own \in BOOLEAN /\ \A b \in Buckets : SpendKey(p, b) \in K <=> own
  BY DEF Buckets
<1> SUFFICES KeySum(Spend(B, u, cost, p).ledger, K)
               = KeySum(B.ledger, K) - (IF own THEN cost ELSE 0)
  OBVIOUS
<1> HIDE DEF own
<1> DEFINE fromSub == Lesser(B.wallet[u].sub, cost)
<1> DEFINE rest == cost - fromSub
<1> DEFINE D == IF fromSub = 0 THEN B
                ELSE Posted(B, u, "sub", -fromSub, SpendKey(p, "sub"))
<1>1. B.wallet[u].free \in Nat /\ B.wallet[u].sub \in Nat /\ KeySum(B.ledger, K) \in Int
  BY KeySumInt DEF BookType, Row
<1>2. "free" \in Buckets /\ "sub" \in Buckets
  BY DEF Buckets
<1>3. SpendKey(p, "sub") \in Keys /\ SpendKey(p, "free") \in Keys
  BY <1>2 DEF SpendKey, Keys
<1>4. /\ fromSub \in Nat /\ fromSub <= B.wallet[u].sub /\ cost = fromSub + rest
      /\ rest \in Nat /\ rest <= B.wallet[u].free
  BY <1>1 DEF Lesser, CanSpend, Total
<1>5. /\ D \in BookType /\ D.wallet[u]["free"] = B.wallet[u].free
      /\ KeySum(D.ledger, K) = KeySum(B.ledger, K) - (IF own THEN fromSub ELSE 0)
  <2>1. -fromSub \in Int /\ B.wallet[u]["sub"] + (-fromSub) >= 0
    BY <1>1, <1>4
  <2> HIDE DEF fromSub
  <2>2. CASE fromSub = 0
    BY <1>1, <2>2
  <2>3. CASE fromSub # 0
    <3> DEFINE P == Posted(B, u, "sub", -fromSub, SpendKey(p, "sub"))
    <3>1. P \in BookType /\ P.wallet[u]["free"] = B.wallet[u].free
      BY <1>2, <1>3, <2>1, PostedAccounts DEF AccountsFor
    <3>2. KeySum(P.ledger, K) = KeySum(B.ledger, K) + (IF own THEN -fromSub ELSE 0)
      BY <1>0, <1>2, <1>3, <2>1, PostedKeySum
    <3> HIDE DEF P
    <3>3. KeySum(P.ledger, K) = KeySum(B.ledger, K) - (IF own THEN fromSub ELSE 0)
      BY <1>1, <1>4, <3>2
    <3> QED BY <2>3, <3>1, <3>3 DEF P
  <2> QED BY <2>2, <2>3
<1>6. Spend(B, u, cost, p) = IF rest = 0 THEN D
                             ELSE Posted(D, u, "free", -rest, SpendKey(p, "free"))
  BY DEF Spend
<1>7. -rest \in Int /\ D.wallet[u]["free"] + (-rest) >= 0
  <2> HIDE DEF D, rest
  <2> QED BY <1>1, <1>4, <1>5
<1> HIDE DEF D, rest, fromSub
<1>8. KeySum(Posted(D, u, "free", -rest, SpendKey(p, "free")).ledger, K)
        = KeySum(D.ledger, K) + (IF own THEN -rest ELSE 0)
  BY <1>0, <1>2, <1>3, <1>5, <1>7, PostedKeySum
<1>9. CASE rest = 0
  BY <1>1, <1>4, <1>5, <1>6, <1>9
<1>10. CASE rest # 0
  <2>1. KeySum(Spend(B, u, cost, p).ledger, K)
          = KeySum(D.ledger, K) + (IF own THEN -rest ELSE 0)
    BY <1>6, <1>8, <1>10
  <2> QED BY <1>1, <1>4, <1>5, <2>1
<1> QED BY <1>9, <1>10

(* A transfer adds nothing to the sets that hold both of its keys, or none *)
LEMMA TransferKeySum ==
  ASSUME NEW B \in BookType, NEW g \in Users, NEW t \in Users, NEW K,
         MergeOutKey(g) \in K <=> MergeKey(t) \in K
  PROVE  KeySum(Transfer(B, g, t).ledger, K) = KeySum(B.ledger, K)
<1> DEFINE amount == Lesser(B.wallet[g].free, Room(B.wallet[t]))
<1> DEFINE D == Posted(B, g, "free", -amount, MergeOutKey(g))
<1> DEFINE x == KeySum(B.ledger, K)
<1>1. B.wallet[g].free \in Nat /\ B.wallet[t].free \in Nat /\ "free" \in Buckets /\ x \in Int
  BY KeySumInt DEF BookType, Row, Buckets
<1>2. MergeOutKey(g) \in Keys /\ MergeKey(t) \in Keys
  BY DEF MergeOutKey, MergeKey, Keys
<1>3. amount \in Nat /\ amount <= B.wallet[g].free
  BY <1>1, WalletAssumption DEF Lesser, Room, NonNegative
<1>4. -amount \in Int /\ B.wallet[g]["free"] + (-amount) >= 0
  BY <1>1, <1>3
<1>5. D \in BookType /\ KeySum(D.ledger, K) = x + (IF MergeOutKey(g) \in K THEN -amount ELSE 0)
  <2> HIDE DEF amount
  <2> QED BY <1>1, <1>2, <1>4, PostedAccounts, PostedKeySum DEF AccountsFor
<1>6. D.wallet[t]["free"] \in Nat
  <2> HIDE DEF D
  <2> QED BY <1>1, <1>5, Balances
<1>7. Transfer(B, g, t) = IF Applied(B, MergeKey(t)) \/ amount <= 0 THEN B
                          ELSE Posted(D, t, "free", amount, MergeKey(t))
  BY DEF Transfer
<1>8. D.wallet[t]["free"] + amount >= 0
  <2> HIDE DEF D, amount
  <2> QED BY <1>3, <1>6
<1> HIDE DEF D, amount
<1>9. KeySum(Posted(D, t, "free", amount, MergeKey(t)).ledger, K)
        = KeySum(D.ledger, K) + (IF MergeKey(t) \in K THEN amount ELSE 0)
  BY <1>1, <1>2, <1>3, <1>5, <1>8, PostedKeySum
<1> HIDE DEF x
<1>10. KeySum(Posted(D, t, "free", amount, MergeKey(t)).ledger, K) = x
  BY <1>1, <1>3, <1>5, <1>9
<1> QED BY <1>7, <1>10 DEF x

-----------------------------------------------------------------------------
(* Which balances an operation moves, and how far.                         *)

(* C's balances are B's, but for bucket b of u, which holds x              *)
OnlyMoves(B, C, u, b, x) ==
  \A v \in Users, c \in Buckets :
    C.wallet[v][c] = IF v = u /\ c = b THEN x ELSE B.wallet[v][c]

(* A grant adds its amount to one bucket, or does nothing.                 *)
LEMMA GrantMoves ==
  ASSUME NEW B \in BookType, NEW u \in Users, NEW b \in Buckets, NEW amount \in Nat,
         NEW k \in Keys
  PROVE  OnlyMoves(B, Grant(B, u, amount, b, k), u, b,
                   B.wallet[u][b] + (IF Applied(B, k) THEN 0 ELSE amount))
<1>1. B.wallet[u][b] \in Nat /\ B.wallet[u][b] + amount >= 0
  BY Balances
<1>2. OnlyMoves(B, Posted(B, u, b, amount, k), u, b, B.wallet[u][b] + amount)
  BY <1>1, PostedAccounts DEF OnlyMoves
<1> QED BY <1>1, <1>2 DEF Grant, OnlyMoves

(* A weekly reset sets the subscription bucket to the quota, or does       *)
(* nothing.                                                                *)
LEMMA WeeklyQuotaMoves ==
  ASSUME NEW B \in BookType, NEW u \in Users, NEW quota \in Nat, NEW anchor \in Nat,
         NEW day \in Nat
  PROVE  \E x \in {B.wallet[u].sub, quota} :
           OnlyMoves(B, WeeklyQuota(B, u, quota, anchor, day), u, "sub", x)
<1> DEFINE k == QuotaKey(u, anchor, (day - anchor) \div PeriodDays)
<1>1. /\ B.wallet[u].sub \in Nat /\ "sub" \in Buckets
      /\ OnlyMoves(B, B, u, "sub", B.wallet[u].sub)
  BY DEF BookType, Row, Buckets, OnlyMoves
<1>2. /\ quota - B.wallet[u].sub \in Int
      /\ B.wallet[u]["sub"] + (quota - B.wallet[u].sub) = quota /\ quota >= 0
  BY <1>1
<1>3. CASE day < anchor
  BY <1>1, <1>3 DEF WeeklyQuota
<1>4. CASE ~ (day < anchor)
  <2>1. (day - anchor) \div PeriodDays \in Nat
    BY <1>4, WalletAssumption
  <2>2. k \in Keys
    BY <2>1 DEF Keys, QuotaKey
  <2> HIDE DEF k
  <2>3. OnlyMoves(B, Posted(B, u, "sub", quota - B.wallet[u].sub, k), u, "sub", quota)
    BY <1>1, <1>2, <2>2, PostedAccounts DEF OnlyMoves
  <2>4. \/ WeeklyQuota(B, u, quota, anchor, day) = B
        \/ WeeklyQuota(B, u, quota, anchor, day) = Posted(B, u, "sub", quota - B.wallet[u].sub, k)
    BY <1>4 DEF WeeklyQuota, ResetQuota, k
  <2> QED BY <1>1, <2>3, <2>4
<1> QED BY <1>3, <1>4

(* What is trimmed to the room that is left does not pass the cap.         *)
LEMMA WithinRoom ==
  ASSUME NEW x \in Nat, NEW w, w.free \in Nat
  PROVE  /\ Lesser(x, Room(w)) \in Nat /\ Lesser(x, Room(w)) <= x
         /\ Lesser(x, Room(w)) = 0 \/ w.free + Lesser(x, Room(w)) <= FreeBalanceCap
<1> DEFINE free == w.free
<1> DEFINE room == IF FreeBalanceCap - free > 0 THEN FreeBalanceCap - free ELSE 0
<1>1. free \in Nat /\ FreeBalanceCap \in Nat /\ Room(w) = room
  BY WalletAssumption DEF Room, NonNegative
<1> HIDE DEF free
<1>2. room \in Nat /\ (room = 0 \/ free + room = FreeBalanceCap)
  BY <1>1
<1> HIDE DEF room
<1>3. /\ Lesser(x, room) \in Nat /\ Lesser(x, room) <= x
      /\ Lesser(x, room) = 0 \/ free + Lesser(x, room) <= FreeBalanceCap
  BY <1>1, <1>2 DEF Lesser
<1> QED BY <1>1, <1>3 DEF free

(* A claim adds to the free bucket, and never past the cap.                *)
LEMMA ClaimMoves ==
  ASSUME NEW B \in BookType, NEW u \in Users, NEW day \in Nat
  PROVE  \E granted \in Nat :
           /\ granted = 0 \/ B.wallet[u].free + granted <= FreeBalanceCap
           /\ OnlyMoves(B, Claim(B, u, day), u, "free", B.wallet[u].free + granted)
<1> DEFINE w == B.wallet[u]
<1> DEFINE rung == NextStreak(w, day)
<1> DEFINE granted == Lesser(DailyRewards[rung], Room(w))
<1> DEFINE M == Stamped(B, u, day, rung)
<1>1. /\ w \in Row /\ w.free \in Nat /\ "free" \in Buckets
  BY DEF BookType, Row, Buckets
<1>2. CASE DailyRewards = <<>> \/ w.last = day
  <2>1. OnlyMoves(B, Claim(B, u, day), u, "free", B.wallet[u].free + 0)
    BY <1>1, <1>2 DEF Claim, OnlyMoves
  <2> QED BY <2>1
<1>3. CASE ~ (DailyRewards = <<>> \/ w.last = day)
  <2>1. rung \in 1..Len(DailyRewards) /\ rung \in Nat
    BY <1>1, <1>3, StreakType
  <2>2. granted \in Nat /\ (granted = 0 \/ w.free + granted <= FreeBalanceCap)
    <3>1. DailyRewards[rung] \in Nat
      BY <2>1, WalletAssumption
    <3> QED BY <1>1, <3>1, WithinRoom
  <2>3. M \in BookType /\ \A v \in Users, c \in Buckets : M.wallet[v][c] = B.wallet[v][c]
    <3> HIDE DEF rung
    <3> QED BY <2>1, StampAccounts DEF AccountsFor
  <2>4. DailyKey(u, day) \in Keys
    BY DEF DailyKey, Keys
  <2>5. Claim(B, u, day) = IF granted = 0 THEN M
                           ELSE Posted(M, u, "free", granted, DailyKey(u, day))
    BY <1>3 DEF Claim
  <2> HIDE DEF M, granted
  <2>6. M.wallet[u]["free"] = w.free /\ M.wallet[u]["free"] + granted >= 0
    BY <1>1, <2>2, <2>3
  <2>7. OnlyMoves(B, Posted(M, u, "free", granted, DailyKey(u, day)), u, "free", w.free + granted)
    BY <1>1, <2>2, <2>3, <2>4, <2>6, PostedAccounts DEF OnlyMoves
  <2>8. granted = 0 => OnlyMoves(B, M, u, "free", w.free + granted)
    BY <1>1, <2>3 DEF OnlyMoves
  <2> HIDE DEF w
  <2>9. OnlyMoves(B, Claim(B, u, day), u, "free", w.free + granted)
    BY <2>5, <2>7, <2>8
  <2> QED BY <2>2, <2>9 DEF w
<1> QED BY <1>2, <1>3

(* A charge takes from one wallet, and from its free bucket only after the *)
(* subscription bucket is empty.                                           *)
LEMMA SpendMoves ==
  ASSUME NEW B \in BookType, NEW u \in Users, NEW cost \in Nat, NEW p \in Payments,
         CanSpend(B, u, cost)
  PROVE  LET W == Spend(B, u, cost, p).wallet IN
         /\ W[u].free \in Nat /\ W[u].sub \in Nat
         /\ W[u].free <= B.wallet[u].free /\ W[u].sub <= B.wallet[u].sub
         /\ W[u].free < B.wallet[u].free => W[u].sub = 0
         /\ \A v \in Users \ {u}, c \in Buckets : W[v][c] = B.wallet[v][c]
<1> DEFINE fromSub == Lesser(B.wallet[u].sub, cost)
<1> DEFINE rest == cost - fromSub
<1> DEFINE D == IF fromSub = 0 THEN B
                ELSE Posted(B, u, "sub", -fromSub, SpendKey(p, "sub"))
<1> DEFINE E == Posted(D, u, "free", -rest, SpendKey(p, "free"))
<1> DEFINE free == B.wallet[u].free
<1> DEFINE sub == B.wallet[u].sub
<1>1. free \in Nat /\ sub \in Nat /\ "free" \in Buckets /\ "sub" \in Buckets
  BY DEF BookType, Row, Buckets
<1>2. SpendKey(p, "sub") \in Keys /\ SpendKey(p, "free") \in Keys
  BY <1>1 DEF SpendKey, Keys
<1>3. /\ fromSub \in Nat /\ fromSub <= sub /\ rest \in Nat /\ rest <= free
      /\ rest = 0 \/ fromSub = sub
  BY <1>1 DEF Lesser, CanSpend, Total
<1>4. /\ D \in BookType
      /\ D.wallet[u]["free"] = free /\ D.wallet[u]["sub"] = sub - fromSub
      /\ \A v \in Users \ {u}, c \in Buckets : D.wallet[v][c] = B.wallet[v][c]
  <2> DEFINE P == Posted(B, u, "sub", -fromSub, SpendKey(p, "sub"))
  <2>1. -fromSub \in Int /\ sub + (-fromSub) >= 0 /\ sub + (-fromSub) = sub - fromSub
    BY <1>1, <1>3
  <2> HIDE DEF fromSub
  <2>2. /\ P \in BookType
        /\ P.wallet[u]["free"] = free /\ P.wallet[u]["sub"] = sub - fromSub
        /\ \A v \in Users \ {u}, c \in Buckets : P.wallet[v][c] = B.wallet[v][c]
    BY <1>1, <1>2, <2>1, PostedAccounts DEF AccountsFor
  <2> HIDE DEF P
  <2>3. CASE fromSub = 0
    BY <1>1, <2>3
  <2>4. CASE fromSub # 0
    BY <2>2, <2>4 DEF P
  <2> QED BY <2>3, <2>4
<1>5. Spend(B, u, cost, p) = IF rest = 0 THEN D ELSE E
  BY DEF Spend
<1>6. -rest \in Int /\ D.wallet[u]["free"] + (-rest) >= 0 /\ free + (-rest) = free - rest
  <2> HIDE DEF D, rest
  <2> QED BY <1>1, <1>3, <1>4
<1>7. /\ E.wallet[u]["free"] = free - rest /\ E.wallet[u]["sub"] = sub - fromSub
      /\ \A v \in Users \ {u}, c \in Buckets : E.wallet[v][c] = B.wallet[v][c]
  <2> HIDE DEF D, rest
  <2> QED BY <1>1, <1>2, <1>4, <1>6, PostedAccounts
<1> HIDE DEF D, E, rest, fromSub, free, sub
<1>8. CASE rest = 0
  <2>1. Spend(B, u, cost, p).wallet = D.wallet
    BY <1>5, <1>8
  <2> QED BY <1>1, <1>3, <1>4, <2>1 DEF free, sub
<1>9. CASE rest # 0
  <2>1. Spend(B, u, cost, p).wallet = E.wallet
    BY <1>5, <1>9
  <2> QED BY <1>1, <1>3, <1>7, <1>9, <2>1 DEF free, sub
<1> QED BY <1>8, <1>9

(* C is B after an amount moved from one free bucket to another, and not   *)
(* past the cap.                                                           *)
Carried(B, C, g, t, amount) ==
  /\ amount <= B.wallet[g].free
  /\ amount = 0 \/ B.wallet[t].free + amount <= FreeBalanceCap
  /\ \A v \in Users, c \in Buckets :
       C.wallet[v][c] = IF c # "free" THEN B.wallet[v][c]
                        ELSE IF v = g THEN B.wallet[v][c] - amount
                        ELSE IF v = t THEN B.wallet[v][c] + amount
                        ELSE B.wallet[v][c]

(* A transfer does no more.                                                *)
LEMMA TransferMoves ==
  ASSUME NEW B \in BookType, NEW g \in Users, NEW t \in Users, g # t
  PROVE  \E amount \in Nat : Carried(B, Transfer(B, g, t), g, t, amount)
<1> DEFINE amount == Lesser(B.wallet[g].free, Room(B.wallet[t]))
<1> DEFINE D == Posted(B, g, "free", -amount, MergeOutKey(g))
<1> DEFINE E == Posted(D, t, "free", amount, MergeKey(t))
<1>1. B.wallet[g].free \in Nat /\ B.wallet[t].free \in Nat /\ "free" \in Buckets
  BY DEF BookType, Row, Buckets
<1>2. MergeOutKey(g) \in Keys /\ MergeKey(t) \in Keys
  BY DEF MergeOutKey, MergeKey, Keys
<1>3. /\ amount \in Nat /\ amount <= B.wallet[g].free
      /\ amount = 0 \/ B.wallet[t].free + amount <= FreeBalanceCap
  BY <1>1, WithinRoom
<1>4. -amount \in Int /\ B.wallet[g]["free"] + (-amount) >= 0
  BY <1>1, <1>3
<1>5. /\ D \in BookType
      /\ \A v \in Users, c \in Buckets :
           D.wallet[v][c] = IF v = g /\ c = "free" THEN B.wallet[v][c] + (-amount)
                            ELSE B.wallet[v][c]
  <2> HIDE DEF amount
  <2> QED BY <1>1, <1>2, <1>4, PostedAccounts DEF AccountsFor
<1>6. D.wallet[t]["free"] = B.wallet[t].free /\ D.wallet[t]["free"] + amount >= 0
  <2> HIDE DEF D, amount
  <2> QED BY <1>1, <1>3, <1>5
<1>7. Transfer(B, g, t) = IF Applied(B, MergeKey(t)) \/ amount <= 0 THEN B ELSE E
  BY DEF Transfer
<1>8. \A v \in Users, c \in Buckets :
        E.wallet[v][c] = IF v = t /\ c = "free" THEN D.wallet[v][c] + amount ELSE D.wallet[v][c]
  <2> HIDE DEF D, amount
  <2> QED BY <1>1, <1>2, <1>3, <1>5, <1>6, PostedAccounts
<1> HIDE DEF D, E, amount
<1>9. \A v \in Users, c \in Buckets : B.wallet[v][c] \in Nat
  BY Balances
<1>10. CASE Applied(B, MergeKey(t)) \/ amount <= 0
  <2>1. Transfer(B, g, t) = B
    BY <1>7, <1>10
  <2>2. Carried(B, B, g, t, 0)
    BY <1>1, <1>9 DEF Carried
  <2> QED BY <2>1, <2>2
<1>11. CASE ~ (Applied(B, MergeKey(t)) \/ amount <= 0)
  <2>1. Transfer(B, g, t) = E
    BY <1>7, <1>11
  <2>2. \A v \in Users, c \in Buckets :
          E.wallet[v][c] = IF c # "free" THEN B.wallet[v][c]
                           ELSE IF v = g THEN B.wallet[v][c] - amount
                           ELSE IF v = t THEN B.wallet[v][c] + amount
                           ELSE B.wallet[v][c]
    BY <1>3, <1>5, <1>8, <1>9
  <2>3. Carried(B, E, g, t, amount)
    BY <1>3, <2>2 DEF Carried
  <2> QED BY <1>3, <2>1, <2>3
<1> QED BY <1>10, <1>11
=============================================================================
