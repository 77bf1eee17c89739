------------------------------ MODULE Iteration ------------------------------
(***************************************************************************)
(* Lemmas about recursive functions over an interval of numbers: walks     *)
(* along a pointer and sums over an array.  Induction is by the least      *)
(* counterexample, which a well-founded order has.                         *)
(***************************************************************************)
EXTENDS Integers, WellFoundedInduction, TLAPS

\* A set of natural numbers has a least element.
LEMMA Least ==
    ASSUME NEW T \in SUBSET Nat, T # {}
    PROVE  \E n \in T : \A m \in T : n <= m
<1>1. PICK n \in T : \A m \in T : ~(<<m, n>> \in OpToRel(<, Nat))
  <2>1. T \subseteq Nat
    OBVIOUS
  <2> QED
    BY <2>1, NatLessThanWellFounded, WFMin
<1>2. \A m \in T : m \in Nat /\ n \in Nat
  OBVIOUS
<1>3. \A m \in T : ~(m < n)
  BY <1>1, <1>2 DEF OpToRel
<1> QED
  BY <1>2, <1>3

\* What holds at 0 and is handed on holds up to n.
LEMMA UpTo ==
    ASSUME NEW n \in Nat, NEW T,
           0 \in T, \A i \in 0 .. n : i # n /\ i \in T => i + 1 \in T
    PROVE  0 .. n \subseteq T
<1> DEFINE Bad == {i \in 0 .. n : i \notin T}
<1> SUFFICES ASSUME Bad # {} PROVE FALSE
  OBVIOUS
<1>1. Bad \in SUBSET Nat
  OBVIOUS
<1>2. PICK i \in Bad : \A j \in Bad : i <= j
  <2> HIDE DEF Bad
  <2> QED
    BY <1>1, Least
<1>3. i \in 0 .. n /\ i \notin T /\ i # 0
  BY <1>2
<1>4. i - 1 \in 0 .. n /\ i - 1 # n /\ i - 1 \notin Bad
  BY <1>2, <1>3
<1>5. i - 1 \in T
  BY <1>4
<1>6. (i - 1) + 1 \in T
  BY <1>4, <1>5
<1> QED
  BY <1>3, <1>6

-----------------------------------------------------------------------------
\* The walk of n steps along f from p: what a recursive function that follows a
\* pointer is defined by.
Walks(w, f, p, n) == w = [i \in 0 .. n |-> IF i = 0 THEN p ELSE f[w[i - 1]]]

\* It exists, so the function follows the pointer indeed.
LEMMA WalkExists ==
    ASSUME NEW S, NEW f \in [S -> S], NEW p \in S, NEW n \in Nat
    PROVE  \E w \in [0 .. n -> S] : Walks(w, f, p, n)
<1> DEFINE T == {m \in Nat : \E w \in [0 .. m -> S] : Walks(w, f, p, m)}
<1>1. 0 \in T
  <2> DEFINE w == [i \in 0 .. 0 |-> p]
  <2>1. w \in [0 .. 0 -> S] /\ Walks(w, f, p, 0)
    BY DEF Walks
  <2> QED
    BY <2>1
<1>2. ASSUME NEW m \in 0 .. n, m \in T PROVE m + 1 \in T
  <2>1. PICK w \in [0 .. m -> S] : Walks(w, f, p, m)
    BY <1>2
  <2> DEFINE v == [i \in 0 .. m + 1 |-> IF i = m + 1 THEN f[w[m]] ELSE w[i]]
  <2>2. m \in 0 .. m /\ w[m] \in S
    BY <2>1
  <2>3. v \in [0 .. m + 1 -> S]
    BY <2>1, <2>2
  <2>4. ASSUME NEW i \in 0 .. m + 1 PROVE v[i] = IF i = 0 THEN p ELSE f[v[i - 1]]
    <3>1. CASE i = m + 1
      BY <2>2, <3>1
    <3>2. CASE i # m + 1
      <4>1. i \in 0 .. m /\ w[i] = IF i = 0 THEN p ELSE f[w[i - 1]]
        BY <2>1, <3>2 DEF Walks
      <4>2. i # 0 => i - 1 \in 0 .. m + 1 /\ i - 1 # m + 1
        BY <4>1
      <4> QED
        BY <3>2, <4>1, <4>2
    <3> QED
      BY <3>1, <3>2
  <2>5. Walks(v, f, p, m + 1)
    <3>1. v = [i \in 0 .. m + 1 |-> v[i]]
      BY <2>3
    <3> HIDE DEF v
    <3> QED
      BY <2>4, <3>1 DEF Walks
  <2> QED
    BY <2>3, <2>5
<1>3. 0 .. n \subseteq T
  <2> HIDE DEF T
  <2> QED
    BY <1>1, <1>2, UpTo
<1> QED
  BY <1>3

\* And it stays where f leads.
LEMMA WalkIn ==
    ASSUME NEW S, NEW f \in [S -> S], NEW p \in S, NEW n \in Nat,
           NEW w, Walks(w, f, p, n)
    PROVE  w \in [0 .. n -> S]
<1> DEFINE T == {i \in 0 .. n : w[i] \in S}
<1>1. \A i \in 0 .. n : w[i] = IF i = 0 THEN p ELSE f[w[i - 1]]
  BY DEF Walks
<1>2. 0 \in T
  BY <1>1
<1>3. ASSUME NEW i \in 0 .. n, i # n, i \in T PROVE i + 1 \in T
  <2>1. i + 1 \in 0 .. n /\ i + 1 # 0 /\ (i + 1) - 1 = i
    BY <1>3
  <2>2. w[i + 1] = f[w[i]] /\ w[i] \in S
    BY <1>1, <1>3, <2>1
  <2> QED
    BY <2>1, <2>2
<1>4. 0 .. n \subseteq T
  <2> HIDE DEF T
  <2> QED
    BY <1>2, <1>3, UpTo
<1>5. w = [i \in 0 .. n |-> IF i = 0 THEN p ELSE f[w[i - 1]]]
  BY DEF Walks
<1>6. \A i \in 0 .. n : (IF i = 0 THEN p ELSE f[w[i - 1]]) \in S
  BY <1>1, <1>4
<1> QED
  BY <1>5, <1>6

-----------------------------------------------------------------------------
\* The partial sums of the numbers a[0], a[1], ... up to n of them.
Sums(s, a, n) == s = [i \in 0 .. n |-> IF i = 0 THEN 0 ELSE s[i - 1] + a[i - 1]]

\* The partial sums exist.
LEMMA SumExists ==
    ASSUME NEW n \in Nat, NEW a \in [0 .. n - 1 -> Int]
    PROVE  \E s \in [0 .. n -> Int] : Sums(s, a, n)
<1> DEFINE T == {m \in 0 .. n : \E s \in [0 .. m -> Int] : Sums(s, a, m)}
<1>1. 0 \in T
  <2> DEFINE s == [i \in 0 .. 0 |-> 0]
  <2>1. s \in [0 .. 0 -> Int] /\ Sums(s, a, 0)
    BY DEF Sums
  <2> QED
    BY <2>1
<1>2. ASSUME NEW m \in 0 .. n, m # n, m \in T PROVE m + 1 \in T
  <2>1. PICK s \in [0 .. m -> Int] : Sums(s, a, m)
    BY <1>2
  <2> DEFINE v == [i \in 0 .. m + 1 |-> IF i = m + 1 THEN s[m] + a[m] ELSE s[i]]
  <2>2. m \in 0 .. m /\ s[m] \in Int /\ m \in 0 .. n - 1 /\ a[m] \in Int
    BY <1>2, <2>1
  <2>3. v \in [0 .. m + 1 -> Int]
    BY <2>1, <2>2
  <2>4. ASSUME NEW i \in 0 .. m + 1 PROVE v[i] = IF i = 0 THEN 0 ELSE v[i - 1] + a[i - 1]
    <3>1. CASE i = m + 1
      BY <2>2, <3>1
    <3>2. CASE i # m + 1
      <4>1. i \in 0 .. m /\ s[i] = IF i = 0 THEN 0 ELSE s[i - 1] + a[i - 1]
        BY <2>1, <3>2 DEF Sums
      <4>2. i # 0 => i - 1 \in 0 .. m + 1 /\ i - 1 # m + 1
        BY <4>1
      <4> QED
        BY <3>2, <4>1, <4>2
    <3> QED
      BY <3>1, <3>2
  <2>5. Sums(v, a, m + 1)
    <3>1. v = [i \in 0 .. m + 1 |-> v[i]]
      BY <2>3
    <3> HIDE DEF v
    <3> QED
      BY <2>4, <3>1 DEF Sums
  <2> QED
    BY <1>2, <2>3, <2>5
<1>3. 0 .. n \subseteq T
  <2> HIDE DEF T
  <2> QED
    BY <1>1, <1>2, UpTo
<1>4. n \in T
  BY <1>3
<1> QED
  BY <1>4

\* Sums of numbers are numbers, and sums of natural ones are natural.
LEMMA SumIn ==
    ASSUME NEW n \in Nat, NEW N, N \in {Nat, Int}, NEW a \in [0 .. n - 1 -> N],
           NEW s, Sums(s, a, n)
    PROVE  s \in [0 .. n -> N]
<1> DEFINE T == {i \in 0 .. n : s[i] \in N}
<1>1. \A i \in 0 .. n : s[i] = IF i = 0 THEN 0 ELSE s[i - 1] + a[i - 1]
  BY DEF Sums
<1>2. 0 \in T
  BY <1>1
<1>3. ASSUME NEW i \in 0 .. n, i # n, i \in T PROVE i + 1 \in T
  <2>1. i + 1 \in 0 .. n /\ i + 1 # 0 /\ (i + 1) - 1 = i /\ i \in 0 .. n - 1
    BY <1>3
  <2>2. s[i + 1] = s[i] + a[i] /\ s[i] \in N /\ a[i] \in N
    BY <1>1, <1>3, <2>1
  <2>3. \A x, y \in N : x + y \in N
    OBVIOUS
  <2>4. s[i + 1] \in N
    BY <2>2, <2>3
  <2> QED
    BY <2>1, <2>4
<1>4. 0 .. n \subseteq T
  <2> HIDE DEF T
  <2> QED
    BY <1>2, <1>3, UpTo
<1>5. s = [i \in 0 .. n |-> IF i = 0 THEN 0 ELSE s[i - 1] + a[i - 1]]
  BY DEF Sums
<1>6. \A i \in 0 .. n : (IF i = 0 THEN 0 ELSE s[i - 1] + a[i - 1]) \in N
  BY <1>1, <1>4
<1> QED
  BY <1>5, <1>6

\* One number that changes changes the sums behind it by as much.
LEMMA SumChanges ==
    ASSUME NEW n \in Nat, NEW a \in [0 .. n - 1 -> Int], NEW b \in [0 .. n - 1 -> Int],
           NEW k \in 0 .. n - 1, \A i \in 0 .. n - 1 : i # k => b[i] = a[i],
           NEW s \in [0 .. n -> Int], Sums(s, a, n),
           NEW t \in [0 .. n -> Int], Sums(t, b, n)
    PROVE  t[n] = s[n] + (b[k] - a[k])
<1> DEFINE T == {i \in 0 .. n : t[i] = s[i] + (IF k < i THEN b[k] - a[k] ELSE 0)}
<1>0. /\ s[0] = 0 /\ t[0] = 0
      /\ \A i \in 0 .. n : i # n => /\ s[i + 1] = s[i] + a[i] /\ t[i + 1] = t[i] + b[i]
                                    /\ s[i] \in Int /\ t[i] \in Int /\ a[i] \in Int /\ b[i] \in Int
  <2>1. \A i \in 0 .. n : /\ s[i] = IF i = 0 THEN 0 ELSE s[i - 1] + a[i - 1]
                          /\ t[i] = IF i = 0 THEN 0 ELSE t[i - 1] + b[i - 1]
    BY DEF Sums
  <2>2. 0 \in 0 .. n
    OBVIOUS
  <2>3. s[0] = 0 /\ t[0] = 0
    BY <2>1, <2>2
  <2>4. ASSUME NEW i \in 0 .. n, i # n
        PROVE  /\ s[i + 1] = s[i] + a[i] /\ t[i + 1] = t[i] + b[i]
               /\ s[i] \in Int /\ t[i] \in Int /\ a[i] \in Int /\ b[i] \in Int
    <3>1. i + 1 \in 0 .. n /\ i + 1 # 0 /\ (i + 1) - 1 = i /\ i \in 0 .. n - 1
      BY <2>4
    <3> QED
      BY <2>1, <3>1
  <2> QED
    BY <2>3, <2>4
<1>1. 0 \in T
  BY <1>0
<1>2. ASSUME NEW i \in 0 .. n, i # n, i \in T PROVE i + 1 \in T
  <2>1. t[i] = s[i] + (IF k < i THEN b[k] - a[k] ELSE 0) /\ i + 1 \in 0 .. n /\ i \in 0 .. n - 1
    BY <1>2
  <2>2. s[i + 1] = s[i] + a[i] /\ t[i + 1] = t[i] + b[i] /\ s[i] \in Int /\ t[i] \in Int
        /\ a[i] \in Int /\ b[i] \in Int /\ a[k] \in Int /\ b[k] \in Int
    BY <1>0, <1>2
  <2>3. CASE i = k
    BY <2>1, <2>2, <2>3
  <2>4. CASE i # k
    <3>1. b[i] = a[i] /\ (k < i + 1 <=> k < i)
      BY <2>1, <2>4
    <3>2. CASE k < i
      <4>1. t[i] = s[i] + (b[k] - a[k]) /\ k < i + 1
        BY <2>1, <3>1, <3>2
      <4>2. PICK d \in Int : d = b[k] - a[k]
        BY <2>2
      <4>3. t[i] = s[i] + d
        BY <4>1, <4>2
      <4>4. t[i + 1] = s[i + 1] + d
        <5>1. \A x, y, u \in Int : (x + y) + u = (x + u) + y
          OBVIOUS
        <5>2. s[i] \in Int /\ a[i] \in Int
          BY <2>2
        <5>3. (s[i] + d) + a[i] = (s[i] + a[i]) + d
          BY <5>1, <5>2, Zenon
        <5> QED
          BY <5>3, <4>3, <2>2, <3>1, Zenon
      <4>5. t[i + 1] = s[i + 1] + (b[k] - a[k])
        BY <4>2, <4>4
      <4> QED
        BY <2>1, <4>1, <4>5
    <3>3. CASE ~(k < i)
      <4>1. t[i] = s[i] + 0 /\ ~(k < i + 1)
        BY <2>1, <3>1, <3>3
      <4>2. t[i + 1] = s[i + 1] + 0
        BY <4>1, <2>2, <3>1
      <4> QED
        BY <2>1, <4>1, <4>2
    <3> QED
      BY <3>2, <3>3
  <2> QED
    BY <2>3, <2>4
<1>3. 0 .. n \subseteq T
  <2> HIDE DEF T
  <2> QED
    BY <1>1, <1>2, UpTo
<1>4. n \in T /\ k < n
  BY <1>3
<1> QED
  BY <1>4
==============================================================================
