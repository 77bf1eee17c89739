---------------------------- MODULE ZendGc_proofs -----------------------------
(***************************************************************************)
(* The inductive invariant of ZendGc, a predicate of a heap, the variables *)
(* and a stack, so that it can be spoken of in the middle of an action.    *)
(* First what the steps that the actions are made of do to it: a task is   *)
(* pushed or done, a count, a colour or an element changes, a reference is *)
(* dropped, a collection makes a list.  Then the longer ones: the end of a *)
(* zval, of an object and of a destructor, and the loops over the list.    *)
(* Then the actions, and what the invariant says: nothing dangles, every   *)
(* count is exact, and a collection condemns the garbage and nothing else. *)
(***************************************************************************)
EXTENDS ZendGc, Iteration, FiniteSetTheorems, SequenceTheorems, TLAPS

\* There are finitely many nodes.
LEMMA NodesFinite == IsFiniteSet(Node) /\ \A S \in SUBSET Node : IsFiniteSet(S)
<1>1. IsFiniteSet(Node)
  BY FiniteAssumption, FS_Union DEF FiniteAssumption, Node
<1> QED
  BY <1>1, FS_Subset
\* What one more step leads to.
More(next) == [T \in SUBSET Node |-> T \cup UNION {next[x] : x \in T}]

\* Reach walks: every step adds what the nodes so far lead to.
LEMMA ReachWalk ==
    ASSUME NEW next \in [Node -> SUBSET Node], NEW S \in SUBSET Node
    PROVE  \E w \in [0 .. Cardinality(Node) -> SUBSET Node] :
              /\ Walks(w, More(next), S, Cardinality(Node))
              /\ Reach(next, S) = w[Cardinality(Node)]
<1> DEFINE n == Cardinality(Node)
           step == CHOOSE w : w = [i \in 0 .. n |-> IF i = 0 THEN S ELSE More(next)[w[i - 1]]]
<1>1. n \in Nat
  BY NodesFinite, FS_CardinalityType
<1>2. More(next) \in [SUBSET Node -> SUBSET Node]
  BY DEF More
<1>3. \E w : w = [i \in 0 .. n |-> IF i = 0 THEN S ELSE More(next)[w[i - 1]]]
  <2> HIDE DEF n, step
  <2>1. \E w \in [0 .. n -> SUBSET Node] : Walks(w, More(next), S, n)
    BY <1>1, <1>2, WalkExists
  <2> QED
    BY <2>1 DEF Walks
<1>4. step = [i \in 0 .. n |-> IF i = 0 THEN S ELSE More(next)[step[i - 1]]]
  BY <1>3
<1>5. Walks(step, More(next), S, n)
  BY <1>4 DEF Walks
<1>6. step \in [0 .. n -> SUBSET Node]
  <2> HIDE DEF n, step
  <2> QED
    BY <1>1, <1>2, <1>5, WalkIn
<1>7. Reach(next, S) = step[n]
  BY DEF Reach, More
<1> QED
  BY <1>5, <1>6, <1>7

\* It has what one starts from.
LEMMA ReachContains ==
    ASSUME NEW next \in [Node -> SUBSET Node], NEW S \in SUBSET Node
    PROVE  S \subseteq Reach(next, S) /\ Reach(next, S) \subseteq Node
<1> DEFINE n == Cardinality(Node)
<1>1. n \in Nat
  BY NodesFinite, FS_CardinalityType
<1>2. PICK w \in [0 .. n -> SUBSET Node] : Walks(w, More(next), S, n) /\ Reach(next, S) = w[n]
  BY ReachWalk
<1> DEFINE T == {i \in 0 .. n : S \subseteq w[i]}
<1> HIDE DEF n
<1>3. \A i \in 0 .. n : w[i] = IF i = 0 THEN S ELSE More(next)[w[i - 1]]
  BY <1>2 DEF Walks
<1>4. 0 \in T
  <2>1. 0 \in 0 .. n
    BY <1>1
  <2>2. w[0] = S
    BY <1>3, <2>1
  <2> QED
    BY <2>1, <2>2
<1>5. ASSUME NEW i \in 0 .. n, i # n, i \in T PROVE i + 1 \in T
  <2>1. i + 1 \in 0 .. n /\ i + 1 # 0 /\ (i + 1) - 1 = i
    BY <1>1, <1>5
  <2>2. w[i + 1] = More(next)[w[i]] /\ w[i] \in SUBSET Node
    BY <1>2, <1>3, <2>1
  <2>3. w[i] \subseteq w[i + 1]
    BY <2>2 DEF More
  <2> QED
    BY <1>5, <2>1, <2>3
<1>6. 0 .. n \subseteq T
  <2> HIDE DEF T
  <2> QED
    BY <1>1, <1>4, <1>5, UpTo
<1>7. n \in T
  BY <1>1, <1>6
<1> QED
  BY <1>1, <1>2, <1>7

\* It is part of all that has this and what its members lead to.
LEMMA ReachLeast ==
    ASSUME NEW next \in [Node -> SUBSET Node], NEW S \in SUBSET Node,
           NEW U, S \subseteq U, \A x \in U \cap Node : next[x] \subseteq U
    PROVE  Reach(next, S) \subseteq U
<1> DEFINE n == Cardinality(Node)
<1>1. n \in Nat
  BY NodesFinite, FS_CardinalityType
<1>2. PICK w \in [0 .. n -> SUBSET Node] : Walks(w, More(next), S, n) /\ Reach(next, S) = w[n]
  BY ReachWalk
<1> DEFINE T == {i \in 0 .. n : w[i] \subseteq U}
<1> HIDE DEF n
<1>3. \A i \in 0 .. n : w[i] = IF i = 0 THEN S ELSE More(next)[w[i - 1]]
  BY <1>2 DEF Walks
<1>4. 0 \in T
  BY <1>1, <1>3
<1>5. ASSUME NEW i \in 0 .. n, i # n, i \in T PROVE i + 1 \in T
  <2>1. i + 1 \in 0 .. n /\ i + 1 # 0 /\ (i + 1) - 1 = i
    BY <1>1, <1>5
  <2>2. w[i + 1] = More(next)[w[i]] /\ w[i] \in SUBSET Node
    BY <1>2, <1>3, <2>1
  <2>3. w[i + 1] \subseteq U
    BY <1>5, <2>2 DEF More
  <2> QED
    BY <2>1, <2>3
<1>6. 0 .. n \subseteq T
  <2> HIDE DEF T
  <2> QED
    BY <1>1, <1>4, <1>5, UpTo
<1>7. n \in T
  BY <1>1, <1>6
<1> QED
  BY <1>1, <1>2, <1>7

\* It has what its members lead to: as long as a step leads to something new
\* there are more nodes than steps.
LEMMA ReachClosed ==
    ASSUME NEW next \in [Node -> SUBSET Node], NEW S \in SUBSET Node,
           NEW x \in Reach(next, S)
    PROVE  next[x] \subseteq Reach(next, S)
<1> DEFINE n == Cardinality(Node)
<1>1. n \in Nat
  BY NodesFinite, FS_CardinalityType
<1>2. PICK w \in [0 .. n -> SUBSET Node] : Walks(w, More(next), S, n) /\ Reach(next, S) = w[n]
  BY ReachWalk
<1> DEFINE m == More(next)
           T == {i \in 0 .. n : m[w[i]] = w[i] \/ Cardinality(w[i]) >= i}
<1> HIDE DEF n
<1>3. \A i \in 0 .. n : w[i] = IF i = 0 THEN S ELSE m[w[i - 1]]
  BY <1>2 DEF Walks
<1>4. 0 \in T
  <2>1. 0 \in 0 .. n /\ Cardinality(w[0]) \in Nat
    BY <1>1, <1>2, NodesFinite, FS_CardinalityType
  <2> QED
    BY <2>1
<1>5. ASSUME NEW i \in 0 .. n, i # n, i \in T PROVE i + 1 \in T
  <2>1. i + 1 \in 0 .. n /\ i + 1 # 0 /\ (i + 1) - 1 = i
    BY <1>1, <1>5
  <2>2. w[i + 1] = m[w[i]] /\ w[i] \in SUBSET Node /\ w[i + 1] \in SUBSET Node
    BY <1>2, <1>3, <2>1
  <2>3. CASE m[w[i]] = w[i]
    BY <2>1, <2>2, <2>3
  <2>4. CASE m[w[i]] # w[i]
    <3>1. Cardinality(w[i]) >= i
      BY <1>5, <2>4
    <3>2. w[i] \subseteq w[i + 1]
      BY <2>2 DEF More
    <3>3. PICK y \in w[i + 1] : y \notin w[i]
      BY <2>2, <2>4, <3>2
    <3>4. IsFiniteSet(w[i]) /\ IsFiniteSet(w[i + 1]) /\ IsFiniteSet(w[i] \cup {y})
      BY <2>2, NodesFinite, FS_AddElement
    <3>5. Cardinality(w[i] \cup {y}) = Cardinality(w[i]) + 1
      BY <3>3, <3>4, FS_AddElement
    <3>6. w[i] \cup {y} \subseteq w[i + 1]
      BY <3>2, <3>3
    <3>7. Cardinality(w[i] \cup {y}) <= Cardinality(w[i + 1])
      BY <3>4, <3>6, FS_Subset
    <3>8. Cardinality(w[i + 1]) \in Nat /\ Cardinality(w[i]) \in Nat
      BY <3>4, FS_CardinalityType
    <3>9. Cardinality(w[i + 1]) >= i + 1
      BY <3>1, <3>5, <3>7, <3>8
    <3> QED
      BY <2>1, <3>9
  <2> QED
    BY <2>3, <2>4
<1>6. 0 .. n \subseteq T
  <2> HIDE DEF T
  <2> QED
    BY <1>1, <1>4, <1>5, UpTo
<1>7. n \in T /\ w[n] \in SUBSET Node
  BY <1>1, <1>2, <1>6
<1>8. m[w[n]] = w[n]
  <2> SUFFICES ASSUME Cardinality(w[n]) >= n PROVE m[w[n]] = w[n]
    BY <1>7
  <2>1. Cardinality(w[n]) <= n /\ Cardinality(w[n]) \in Nat
    BY <1>7, NodesFinite, FS_Subset, FS_CardinalityType DEF n
  <2>2. Cardinality(w[n]) = n
    BY <1>1, <2>1
  <2>3. w[n] = Node
    BY <1>7, <2>2, NodesFinite, FS_Subset DEF n
  <2> QED
    BY <2>3 DEF More
<1>9. next[x] \subseteq m[w[n]]
  BY <1>2, <1>7 DEF More
<1> QED
  BY <1>2, <1>8, <1>9

\* It has nothing that nothing leads to.
LEMMA ReachFrom ==
    ASSUME NEW next \in [Node -> SUBSET Node], NEW S \in SUBSET Node,
           NEW x \in Reach(next, S), x \notin S
    PROVE  \E y \in Reach(next, S) : x \in next[y]
<1> SUFFICES ASSUME \A y \in Reach(next, S) : x \notin next[y] PROVE FALSE
  OBVIOUS
<1> DEFINE U == Reach(next, S) \ {x}
<1>1. S \subseteq U
  BY ReachContains
<1>2. \A y \in U \cap Node : next[y] \subseteq U
  BY ReachClosed
<1>3. Reach(next, S) \subseteq U
  <2> HIDE DEF U
  <2> QED
    BY <1>1, <1>2, ReachLeast
<1> QED
  BY <1>3

-----------------------------------------------------------------------------
(* Counting: what a set gains or loses, who has a reference to a node.      *)

\* How many elements a part of a finite set has.
LEMMA PartCount ==
    ASSUME NEW A, IsFiniteSet(A), NEW S \in SUBSET A
    PROVE  /\ IsFiniteSet(S) /\ Cardinality(S) \in Nat
           /\ Cardinality(S) = 0 <=> S = {}
           /\ \A a \in S : Cardinality(S) = 1 => S = {a}
           /\ \A a \in A : /\ Cardinality(S \cup {a}) = IF a \in S THEN Cardinality(S) ELSE Cardinality(S) + 1
                           /\ Cardinality(S \ {a}) = IF a \in S THEN Cardinality(S) - 1 ELSE Cardinality(S)
<1>1. IsFiniteSet(S) /\ Cardinality(S) \in Nat
  BY FS_Subset, FS_CardinalityType
<1>2. Cardinality(S) = 0 <=> S = {}
  BY <1>1, FS_EmptySet
<1>3. ASSUME NEW a \in A
      PROVE  /\ Cardinality(S \cup {a}) = IF a \in S THEN Cardinality(S) ELSE Cardinality(S) + 1
             /\ Cardinality(S \ {a}) = IF a \in S THEN Cardinality(S) - 1 ELSE Cardinality(S)
  BY <1>1, FS_AddElement, FS_RemoveElement
<1>4. ASSUME NEW a \in S, Cardinality(S) = 1 PROVE S = {a}
  <2>1. Cardinality(S \ {a}) = 0
    BY <1>3, <1>4
  <2>2. IsFiniteSet(S \ {a})
    BY <1>1, FS_RemoveElement
  <2>3. S \ {a} = {}
    BY <2>1, <2>2, FS_EmptySet
  <2> QED
    BY <2>3
<1> QED
  BY <1>1, <1>2, <1>3, <1>4

\* A finite set without one of its members.
LEMMA PartLess ==
    ASSUME NEW A, IsFiniteSet(A), NEW S \in SUBSET A, NEW a \in A
    PROVE  Cardinality(S \ {a}) = IF a \in S THEN Cardinality(S) - 1 ELSE Cardinality(S)
<1>1. IsFiniteSet(S)
  BY FS_Subset
<1> QED
  BY <1>1, FS_RemoveElement

\* The nodes that are counted for x, and the tasks that hold it.
Referrers(h, x) == {y \in Node : x \in Counted(h, y)}
Holders(st, x) == {i \in 1 .. Len(st) : Holds(st[i], x)}
ByVariable(hd, x) == IF x \in hd THEN 1 ELSE 0
RefsOf(h, hd, st, x) ==
    Cardinality(Referrers(h, x)) + ByVariable(hd, x) + Cardinality(Holders(st, x))

\* The count that CountsExact speaks of, as one of the heap, the variables and
\* the stack it is given.
LEMMA RefsNow ==
    ASSUME stack \in Seq(Tasks), NEW x PROVE Refs(x) = RefsOf(heap, held, stack, x)
<1>1. DOMAIN stack = 1 .. Len(stack)
  OBVIOUS
<1>2. {i \in DOMAIN stack : Holds(stack[i], x)} = Holders(stack, x)
  BY <1>1 DEF Holders
<1> QED
  BY <1>2 DEF Refs, RefsOf, Referrers, ByVariable

\* It is a natural number.
LEMMA RefsType ==
    ASSUME NEW h, NEW hd, NEW st \in Seq(Tasks), NEW x
    PROVE  /\ Cardinality(Referrers(h, x)) \in Nat
           /\ Cardinality(Holders(st, x)) \in Nat
           /\ ByVariable(hd, x) \in {0, 1}
           /\ RefsOf(h, hd, st, x) \in Nat
<1>1. IsFiniteSet(1 .. Len(st)) /\ Holders(st, x) \in SUBSET (1 .. Len(st))
  BY FS_Interval DEF Holders
<1>2. Cardinality(Referrers(h, x)) \in Nat
  BY NodesFinite, PartCount DEF Referrers
<1>3. Cardinality(Holders(st, x)) \in Nat
  BY <1>1, PartCount
<1> QED
  BY <1>2, <1>3 DEF RefsOf, ByVariable

\* Nobody has a reference that does not count.
LEMMA NoRefs ==
    ASSUME NEW h, NEW hd, NEW st \in Seq(Tasks), NEW x, RefsOf(h, hd, st, x) = 0
    PROVE  /\ x \notin hd
           /\ \A y \in Node : x \notin Counted(h, y)
           /\ \A i \in 1 .. Len(st) : ~Holds(st[i], x)
<1>1. /\ Cardinality(Referrers(h, x)) = 0 /\ Cardinality(Holders(st, x)) = 0
      /\ ByVariable(hd, x) = 0
  BY RefsType DEF RefsOf
<1>2. Referrers(h, x) = {}
  BY <1>1, NodesFinite, PartCount DEF Referrers
<1>3. IsFiniteSet(1 .. Len(st)) /\ Holders(st, x) \in SUBSET (1 .. Len(st))
  BY FS_Interval DEF Holders
<1>4. Holders(st, x) = {}
  BY <1>1, <1>3, PartCount
<1> QED
  BY <1>1, <1>2, <1>4 DEF ByVariable, Holders, Referrers

\* The only reference is that of a task.
LEMMA OnlyTask ==
    ASSUME NEW h, NEW hd, NEW st \in Seq(Tasks), NEW x, RefsOf(h, hd, st, x) = 1,
           NEW k \in 1 .. Len(st), Holds(st[k], x)
    PROVE  /\ x \notin hd
           /\ \A y \in Node : x \notin Counted(h, y)
           /\ Cardinality(Holders(st, x)) = 1
<1>1. IsFiniteSet(1 .. Len(st)) /\ Holders(st, x) \in SUBSET (1 .. Len(st)) /\ k \in Holders(st, x)
  BY FS_Interval DEF Holders
<1>2. Cardinality(Holders(st, x)) # 0
  BY <1>1, PartCount
<1>3. /\ Cardinality(Referrers(h, x)) = 0 /\ Cardinality(Holders(st, x)) = 1
      /\ ByVariable(hd, x) = 0
  BY <1>2, RefsType DEF RefsOf
<1>4. Referrers(h, x) = {}
  BY <1>3, NodesFinite, PartCount DEF Referrers
<1> QED
  BY <1>3, <1>4 DEF ByVariable, Referrers

\* A task more on the stack.
LEMMA HoldersPush ==
    ASSUME NEW st \in Seq(Tasks), NEW t \in Tasks, NEW x
    PROVE  Cardinality(Holders(Append(st, t), x))
               = Cardinality(Holders(st, x)) + (IF Holds(t, x) THEN 1 ELSE 0)
<1> DEFINE n == Len(st)  s2 == Append(st, t)
<1>1. n \in Nat /\ Len(s2) = n + 1 /\ s2[n + 1] = t /\ \A i \in 1 .. n : s2[i] = st[i]
  OBVIOUS
<1>2. IsFiniteSet(1 .. n + 1) /\ Holders(st, x) \in SUBSET (1 .. n + 1)
      /\ n + 1 \in 1 .. n + 1 /\ n + 1 \notin Holders(st, x)
  BY <1>1, FS_Interval, SMTT(30) DEF Holders
<1>3. CASE Holds(t, x)
  <2>1. Holders(s2, x) = Holders(st, x) \cup {n + 1}
    BY <1>1, <1>3 DEF Holders
  <2> QED
    BY SMTT(60), <1>2, <1>3, <2>1, PartCount
<1>4. CASE ~Holds(t, x)
  <2>1. Holders(s2, x) = Holders(st, x)
    BY <1>1, <1>4 DEF Holders
  <2>2. Cardinality(Holders(st, x)) \in Nat
    BY <1>2, PartCount
  <2> QED
    BY <1>4, <2>1, <2>2
<1> QED
  BY <1>3, <1>4

\* One node counts for others than before.
LEMMA ReferrersChange ==
    ASSUME NEW g, NEW h, NEW c \in Node,
           \A y \in Node \ {c} : Counted(g, y) = Counted(h, y), NEW x
    PROVE  Cardinality(Referrers(g, x))
               = Cardinality(Referrers(h, x)) - (IF x \in Counted(h, c) THEN 1 ELSE 0)
                 + (IF x \in Counted(g, c) THEN 1 ELSE 0)
<1>1. IsFiniteSet(Node) /\ Referrers(h, x) \in SUBSET Node /\ Referrers(g, x) \in SUBSET Node
  BY NodesFinite DEF Referrers
<1>2. Cardinality(Referrers(h, x)) \in Nat /\ Cardinality(Referrers(g, x)) \in Nat
  BY <1>1, PartCount
<1>3. c \in Referrers(h, x) <=> x \in Counted(h, c)
  BY DEF Referrers
<1>4. c \in Referrers(g, x) <=> x \in Counted(g, c)
  BY DEF Referrers
<1>5. Referrers(g, x) \ {c} = Referrers(h, x) \ {c}
  BY DEF Referrers
<1>6. Cardinality(Referrers(h, x) \ {c})
          = Cardinality(Referrers(h, x)) - (IF c \in Referrers(h, x) THEN 1 ELSE 0)
  <2>1. Cardinality(Referrers(h, x) \ {c})
           = IF c \in Referrers(h, x) THEN Cardinality(Referrers(h, x)) - 1 ELSE Cardinality(Referrers(h, x))
    BY <1>1, PartLess
  <2> QED
    BY <1>2, <2>1
<1>7. Cardinality(Referrers(g, x) \ {c})
          = Cardinality(Referrers(g, x)) - (IF c \in Referrers(g, x) THEN 1 ELSE 0)
  <2>1. Cardinality(Referrers(g, x) \ {c})
           = IF c \in Referrers(g, x) THEN Cardinality(Referrers(g, x)) - 1 ELSE Cardinality(Referrers(g, x))
    BY <1>1, PartLess
  <2> QED
    BY <1>2, <2>1
<1> DEFINE p == Cardinality(Referrers(h, x))  q == Cardinality(Referrers(g, x))
           a == IF x \in Counted(h, c) THEN 1 ELSE 0  b == IF x \in Counted(g, c) THEN 1 ELSE 0
<1>8. p - a = q - b /\ p \in Nat /\ q \in Nat /\ a \in Nat /\ b \in Nat
  BY <1>2, <1>3, <1>4, <1>5, <1>6, <1>7
<1> HIDE DEF p, q, a, b
<1>9. q = p - a + b
  BY <1>8
<1> QED
  BY <1>9 DEF p, q, a, b

\* No node counts for others than before.
LEMMA ReferrersSame ==
    ASSUME NEW g, NEW h, \A y \in Node : Counted(g, y) = Counted(h, y), NEW x
    PROVE  Referrers(g, x) = Referrers(h, x)
  BY DEF Referrers
-----------------------------------------------------------------------------
(* The tasks. *)

\* What each task carries.
LEMMA TaskType ==
    ASSUME NEW t \in Tasks
    PROVE  /\ t[1] \in {"drop", "check", "efree", "delref", "gone", "user", "return", "buffer", "dtors",
                       "destroy"}
           /\ t[1] = "drop" => t[2] \in SUBSET Zval /\ t[2] # {} /\ t = <<"drop", t[2]>>
           /\ t[1] \in {"check", "efree"} => t[2] \in Zval /\ t = <<t[1], t[2]>>
           /\ t[1] \in {"delref", "gone", "user", "return"} => t[2] \in Object /\ t = <<t[1], t[2]>>
           /\ t[1] = "buffer" => t[2] \in Node /\ t[3] \in Zval /\ t = <<"buffer", t[2], t[3]>>
           /\ t[1] \in {"dtors", "destroy"} =>
                  t[2] \in Seq(Zval) /\ t[3] \in Seq(Zval) /\ t = <<t[1], t[2], t[3]>>
<1>1. CASE t \in {"drop"} \X {S \in SUBSET Zval : S # {}}
  <2> DEFINE T == {R \in SUBSET Zval : R # {}}
  <2>1. \A R \in T : R \in SUBSET Zval /\ R # {}
    OBVIOUS
  <2>2. t \in {"drop"} \X T
    BY <1>1
  <2> HIDE DEF T
  <2>3. t[1] = "drop" /\ t[2] \in T /\ t = <<"drop", t[2]>>
    BY <2>2
  <2> QED
    BY <2>1, <2>3
<1>2. CASE t \in {"check", "efree"} \X Zval
  BY <1>2
<1>3. CASE t \in {"delref", "gone", "user", "return"} \X Object
  BY <1>3
<1>4. CASE t \in {"buffer"} \X Node \X Zval
  BY <1>4
<1>5. CASE t \in {"dtors", "destroy"} \X Seq(Zval) \X Seq(Zval)
  BY <1>5
<1> QED
  BY <1>1, <1>2, <1>3, <1>4, <1>5 DEF Tasks

\* The tasks that the code pushes are tasks.
LEMMA MadeDrop == ASSUME NEW S \in SUBSET Zval, S # {} PROVE <<"drop", S>> \in Tasks
<1> DEFINE T == {R \in SUBSET Zval : R # {}}
<1>0. S \in T
  OBVIOUS
<1> HIDE DEF T
<1>1. <<"drop", S>> \in {"drop"} \X T
  BY <1>0
<1> USE DEF T
<1> QED
  BY <1>1 DEF Tasks

\* Tasks for a zval.
LEMMA MadeZval == ASSUME NEW z \in Zval PROVE <<"check", z>> \in Tasks /\ <<"efree", z>> \in Tasks
<1>1. <<"check", z>> \in {"check", "efree"} \X Zval /\ <<"efree", z>> \in {"check", "efree"} \X Zval
  OBVIOUS
<1> QED
  BY <1>1 DEF Tasks

\* Tasks for an object.
LEMMA MadeObject ==
    ASSUME NEW o \in Object
    PROVE  /\ <<"delref", o>> \in Tasks /\ <<"gone", o>> \in Tasks
           /\ <<"user", o>> \in Tasks /\ <<"return", o>> \in Tasks
<1> DEFINE T == {"delref", "gone", "user", "return"} \X Object
<1>1. <<"delref", o>> \in T /\ <<"gone", o>> \in T /\ <<"user", o>> \in T /\ <<"return", o>> \in T
  OBVIOUS
<1> QED
  BY <1>1 DEF Tasks

\* Buffering after a collection.
LEMMA MadeBuffer == ASSUME NEW x \in Node, NEW z \in Zval PROVE <<"buffer", x, z>> \in Tasks
<1>1. <<"buffer", x, z>> \in {"buffer"} \X Node \X Zval
  OBVIOUS
<1> QED
  BY <1>1 DEF Tasks

\* The tasks of a list.
LEMMA MadeList ==
    ASSUME NEW l \in Seq(Zval), NEW r \in Seq(Zval)
    PROVE  <<"dtors", l, r>> \in Tasks /\ <<"destroy", l, r>> \in Tasks
<1> DEFINE T == {"dtors", "destroy"} \X Seq(Zval) \X Seq(Zval)
<1>1. <<"dtors", l, r>> \in T /\ <<"destroy", l, r>> \in T
  OBVIOUS
<1> QED
  BY <1>1 DEF Tasks

\* What each of them holds.
LEMMA HoldsDrop == ASSUME NEW S, NEW x PROVE Holds(<<"drop", S>>, x) <=> x \in S
  BY DEF Holds, InList

\* What a task has a reference to: the first ones nothing.
LEMMA HoldsZval == ASSUME NEW z, NEW x PROVE ~Holds(<<"efree", z>>, x) /\ ~Holds(<<"check", z>>, x)
  BY DEF Holds, InList

\* Those for an object that object.
LEMMA HoldsObject ==
    ASSUME NEW o, NEW x
    PROVE  /\ Holds(<<"delref", o>>, x) <=> x = o
           /\ Holds(<<"gone", o>>, x) <=> x = o
           /\ Holds(<<"user", o>>, x) <=> x = o
           /\ ~Holds(<<"return", o>>, x)
  BY DEF Holds, InList

\* A node that is buffered is held by the zval of the caller.
LEMMA HoldsBuffer == ASSUME NEW y, NEW z, NEW x PROVE Holds(<<"buffer", y, z>>, x) <=> x = z
  BY DEF Holds, InList

\* A list its zvals.
LEMMA HoldsList ==
    ASSUME NEW l, NEW r, NEW x
    PROVE  /\ Holds(<<"dtors", l, r>>, x) <=> x \in InList(<<"dtors", l, r>>)
           /\ Holds(<<"destroy", l, r>>, x) <=> x \in InList(<<"destroy", l, r>>)
  BY DEF Holds
-----------------------------------------------------------------------------
(* The inductive invariant, of a heap h, the variables hd and a stack st.   *)

\* What a loop over free_list has still to visit, and which zvals of the list
\* are as the collection has left them.
Rest(t) == {t[3][i] : i \in DOMAIN t[3]}
IsList(t) == t[1] \in {"dtors", "destroy"}
Due(t) == IF t[1] = "dtors" THEN InList(t) ELSE IF t[1] = "destroy" THEN Rest(t) ELSE {}
To(h, z, o) == h.type[z] = "object" /\ h.obj[z] = o
Rests(h, o) == h.type[o] = "valid" /\ h.rc[o] = 0

\* What a node can be.
Kinds(h) ==
    /\ \A z \in Zval : /\ h.type[z] \in {"free", "array", "object", "null"}
                       /\ h.type[z] = "object" => h.obj[z] \in Object
    /\ \A o \in Object : h.type[o] \in {"free", "valid"}
    /\ \A x \in Node : /\ h.kids[x] # {} => h.type[x] \in {"array", "valid"}
                       /\ h.type[x] = "free" => h.rc[x] = 0 /\ h.addr[x] = "null"

\* Every count is the number of references.
Exact(h, hd, st) == \A x \in Node : h.rc[x] = RefsOf(h, hd, st, x)

\* The buffer has the arrays and objects that say they are in it.
Rooted(h) ==
    /\ Cardinality(h.roots) <= MaxRoots
    /\ \A x \in Node : /\ x \in h.roots <=> h.addr[x] = "root"
                       /\ x \in h.roots => h.type[x] \in {"array", "valid"}
                       /\ x \in h.roots /\ x \in Object => h.rc[x] > 0

\* The lists of collections are apart from each other.
Lists(h, st) ==
    /\ \A o \in Object : h.addr[o] # "list"
    /\ \A z \in Zval : h.addr[z] = "list" => /\ h.col[z] = "black"
                                             /\ \E i \in 1 .. Len(st) : z \in InList(st[i])
    /\ \A i \in 1 .. Len(st) : \A z \in InList(st[i]) :
          h.addr[z] = "list" /\ \A j \in 1 .. Len(st) : z \in InList(st[j]) => j = i
    /\ \A i \in 1 .. Len(st) : IsList(st[i]) =>
          /\ Rest(st[i]) \subseteq InList(st[i])
          /\ st[i][1] = "destroy" => \A z \in InList(st[i]) \ Rest(st[i]) : h.type[z] # "array"

\* The task t is going to buffer the object o.
About(h, t, o) == \/ t[1] = "check" /\ h.obj[t[2]] = o
                  \/ t[1] = "buffer" /\ t[2] = o

\* The list at i is the newest that leads to the object o, and has still to.
Leads(h, st, o, i) ==
    /\ \E z \in Due(st[i]) : To(h, z, o)
    /\ \A m \in i + 1 .. Len(st) : \A z \in InList(st[m]) : ~To(h, z, o)

\* What has a zval of a list goes with it: it is in the same list, or an object
\* that nothing but the list leads to, or whose destructor the list has called.
Doomed(h, st, i, c) ==
    \/ c \in Due(st[i])
    \/ c \in Object /\ h.rc[c] = 0 /\ Leads(h, st, c, i)
    \/ i < Len(st) /\ st[i + 1] = <<"user", c>>

\* Nothing else does, but for tasks that are done before the list.
Apart(h, hd, st, but) ==
    \A i \in 1 .. Len(st) : \A z \in InList(st[i]) :
        /\ z \notin hd
        /\ \A j \in 1 .. Len(st) : /\ st[j][1] = "drop" /\ z \in st[j][2] => i < j
                                   /\ st[j][1] = "buffer" => z # st[j][3]
        /\ \A c \in Node \ but : z \in h.kids[c] => Doomed(h, st, i, c)

\* An object without references waits for a list, the newest that leads to it.
Owner(h, st, o, k) ==
    /\ Leads(h, st, o, k)
    /\ h.done[o] \/ (st[k][1] = "dtors" /\ \E z \in Rest(st[k]) : To(h, z, o))
    /\ \A j \in 1 .. Len(st) : About(h, st[j], o) => j < k
Waits(h, st) ==
    \A o \in Object : Rests(h, o) => \E k \in 1 .. Len(st) : Owner(h, st, o, k)

\* Who has called a destructor, and what free_storage is about to free.
Calls(h, st) ==
    \A j \in 1 .. Len(st) :
        /\ st[j][1] = "user" =>
              /\ j > 1
              /\ \/ st[j - 1] = <<"delref", st[j][2]>>
                 \/ /\ st[j - 1][1] = "dtors" /\ h.done[st[j][2]]
                    /\ \E z \in InList(st[j - 1]) : To(h, z, st[j][2])
        /\ st[j][1] = "gone" =>
              /\ h.type[st[j][2]] = "valid" /\ h.kids[st[j][2]] = {}
              /\ h.rc[st[j][2]] = 1 /\ h.addr[st[j][2]] # "root"
              /\ \A m \in 1 .. Len(st) : About(h, st[m], st[j][2]) => m < j

\* A zval that is about to be freed, and what its object is checked for.
Dying(h, hd, st) ==
    \A j \in 1 .. Len(st) :
        /\ st[j][1] = "efree" =>
              /\ h.type[st[j][2]] = "null" /\ h.addr[st[j][2]] = "null" /\ st[j][2] \notin hd
              /\ \A c \in Node : st[j][2] \notin h.kids[c]
              /\ \A m \in 1 .. Len(st) :
                    /\ st[m][1] = "drop" => st[j][2] \notin st[m][2]
                    /\ st[m][1] = "buffer" /\ st[m][3] = st[j][2] => j < m
                    /\ st[m] = st[j] => m = j
        /\ st[j][1] = "check" =>
              j > 1 /\ st[j - 1] = <<"efree", st[j][2]>> /\ h.obj[st[j][2]] \in Object
        /\ st[j][1] = "buffer" =>
              \/ st[j][2] = st[j][3] /\ h.type[st[j][3]] = "array"
              \/ st[j][2] \in Object /\ (To(h, st[j][3], st[j][2]) \/ h.type[st[j][3]] = "null")

\* What the tasks rely on, but for the nodes of but.
Shape(h, hd, st, but) ==
    Lists(h, st) /\ Apart(h, hd, st, but) /\ Waits(h, st) /\ Calls(h, st) /\ Dying(h, hd, st)

AlmostGood(h, hd, st, but) ==
    /\ h \in Heaps /\ hd \in SUBSET Zval /\ st \in Seq(Tasks)
    /\ Kinds(h) /\ Rooted(h) /\ Exact(h, hd, st) /\ Shape(h, hd, st, but)
Good(h, hd, st) == AlmostGood(h, hd, st, {})

-----------------------------------------------------------------------------
(* What becomes of the shape when a task is pushed or popped, or the heap   *)
(* changes.                                                                 *)

\* s2 is the stack st with t on top.
Pushed(st, t, s2) ==
    /\ s2 \in Seq(Tasks) /\ Len(s2) = Len(st) + 1 /\ s2[Len(st) + 1] = t
    /\ \A i \in 1 .. Len(st) : s2[i] = st[i]

\* A stack with a task more, whether it is pushed or about to be popped.
LEMMA PushedAppend ==
    ASSUME NEW st \in Seq(Tasks), NEW t \in Tasks PROVE Pushed(st, t, Append(st, t))
  BY DEF Pushed

\* A stack is its top, pushed onto what is below.
LEMMA PushedTop ==
    ASSUME NEW st \in Seq(Tasks), st # <<>>
    PROVE  /\ SubSeq(st, 1, Len(st) - 1) \in Seq(Tasks) /\ st[Len(st)] \in Tasks
           /\ st = Append(SubSeq(st, 1, Len(st) - 1), st[Len(st)])
<1> DEFINE n == Len(st)  b == SubSeq(st, 1, n - 1)
<1>1. n \in Nat /\ n > 0
  BY EmptySeq
<1>2. b \in Seq(Tasks) /\ Len(b) = n - 1 /\ \A i \in 1 .. n - 1 : b[i] = st[i]
  <2>1. PICK m \in Nat : m = n - 1
    BY <1>1
  <2>2. \A i \in 1 .. m : st[i] \in Tasks
    BY <2>1
  <2> HIDE DEF n
  <2>3. 1 \in Int /\ m \in Int
    BY <2>1
  <2>4. SubSeq(st, 1, m) \in Seq(Tasks)
    BY <2>2, <2>3, SubSeqProperties
  <2>5. Len(SubSeq(st, 1, m)) = IF 1 <= m THEN m - 1 + 1 ELSE 0
    BY <2>2, <2>3, SubSeqProperties
  <2>6. \A i \in 1 .. m - 1 + 1 : SubSeq(st, 1, m)[i] = st[1 + i - 1]
    BY <2>2, <2>3, SubSeqProperties
  <2>7. Len(SubSeq(st, 1, m)) = m
    BY <2>1, <2>5
  <2>8. \A i \in 1 .. m : i \in 1 .. m - 1 + 1 /\ 1 + i - 1 = i
    BY <2>1
  <2> QED
    BY <2>1, <2>4, <2>6, <2>7, <2>8
<1>3. st[n] \in Tasks
  BY <1>1
<1>4. Append(b, st[n]) \in Seq(Tasks) /\ Len(Append(b, st[n])) = n
      /\ \A i \in 1 .. n : Append(b, st[n])[i] = st[i]
  BY <1>1, <1>2, <1>3
<1> QED
  BY <1>1, <1>2, <1>3, <1>4, SeqEqual

\* A task that is done, and neither is a list nor has a destructor running,
\* leaves the shape as it was.
LEMMA PopKeeps ==
    ASSUME NEW h, NEW hd, NEW st \in Seq(Tasks), NEW t \in Tasks, NEW s2, NEW but, Pushed(st, t, s2),
           ~IsList(t), t[1] # "user", Shape(h, hd, s2, but)
    PROVE  Shape(h, hd, st, but)
<1> DEFINE n == Len(st)
<1>1. /\ n \in Nat /\ Len(s2) = n + 1 /\ s2[n + 1] = t
      /\ \A i \in 1 .. n : i \in 1 .. n + 1 /\ s2[i] = st[i] /\ i # n + 1
      /\ \A i \in 1 .. n + 1 : i # n + 1 => i \in 1 .. n
  BY DEF Pushed
<1>2. InList(t) = {} /\ Due(t) = {}
  BY DEF InList, Due, IsList
<1> HIDE DEF n
<1>3. Lists(h, st)
  <2>1. Lists(h, s2)
    BY DEF Shape
  <2> QED
    BY <1>1, <1>2, <2>1 DEF Lists, n
<1>4. Apart(h, hd, st, but)
  <2>1. Apart(h, hd, s2, but)
    BY DEF Shape
  <2>2. ASSUME NEW i \in 1 .. n, NEW c, Doomed(h, s2, i, c) PROVE Doomed(h, st, i, c)
    <3>1. i < n + 1 /\ s2[i + 1] = <<"user", c>> => i < n /\ st[i + 1] = <<"user", c>>
      <4>1. ASSUME s2[i + 1] = <<"user", c>> PROVE i # n
        BY <1>1, <4>1
      <4>2. ASSUME i # n PROVE i + 1 \in 1 .. n /\ i < n
        BY <1>1, <4>2
      <4> QED
        BY <1>1, <4>1, <4>2
    <3>2. Leads(h, s2, c, i) => Leads(h, st, c, i)
      <4>1. \A m \in i + 1 .. n : m \in i + 1 .. n + 1 /\ s2[m] = st[m]
        BY <1>1
      <4> QED
        BY <1>1, <4>1 DEF Leads, n
    <3> QED
      BY <1>1, <2>2, <3>1, <3>2 DEF Doomed, n
  <2> QED
    BY <1>1, <2>1, <2>2 DEF Apart, n
<1>5. Waits(h, st)
  <2>1. Waits(h, s2)
    BY DEF Shape
  <2>2. ASSUME NEW o \in Object, NEW k \in 1 .. n + 1, Owner(h, s2, o, k)
        PROVE  k \in 1 .. n /\ Owner(h, st, o, k)
    <3>1. k \in 1 .. n
      BY <1>1, <1>2, <2>2 DEF Owner, Leads
    <3>2. \A i \in k + 1 .. n : i \in k + 1 .. n + 1 /\ s2[i] = st[i]
      BY <1>1, <3>1
    <3> QED
      BY <1>1, <2>2, <3>1, <3>2 DEF Owner, Leads, n
  <2> QED
    BY <1>1, <2>1, <2>2 DEF Waits, n
<1>6. \A j \in 1 .. n : j > 1 => s2[j - 1] = st[j - 1]
  BY <1>1
<1>7. Calls(h, st)
  <2>1. Calls(h, s2)
    BY DEF Shape
  <2>2. ASSUME NEW j \in 1 .. n, st[j][1] = "user"
        PROVE  /\ j > 1
               /\ \/ st[j - 1] = <<"delref", st[j][2]>>
                  \/ /\ st[j - 1][1] = "dtors" /\ h.done[st[j][2]]
                     /\ \E z \in InList(st[j - 1]) : To(h, z, st[j][2])
    BY <1>1, <1>6, <2>1, <2>2 DEF Calls, n
  <2>3. ASSUME NEW j \in 1 .. n, st[j][1] = "gone"
        PROVE  /\ h.type[st[j][2]] = "valid" /\ h.kids[st[j][2]] = {}
               /\ h.rc[st[j][2]] = 1 /\ h.addr[st[j][2]] # "root"
               /\ \A m \in 1 .. n : About(h, st[m], st[j][2]) => m < j
    BY <1>1, <2>1, <2>3 DEF Calls, n
  <2> QED
    BY <2>2, <2>3 DEF Calls, n
<1>8. Dying(h, hd, st)
  <2>1. Dying(h, hd, s2)
    BY DEF Shape
  <2> QED
    BY <1>1, <1>6, <2>1 DEF Dying, n
<1> QED
  BY <1>3, <1>4, <1>5, <1>7, <1>8 DEF Shape

\* What a task must find when it is pushed.
Fits(h, hd, st, u) ==
    /\ ~IsList(u)
    /\ u[1] = "drop" => \A j \in 1 .. Len(st) : st[j][1] = "efree" => st[j][2] \notin u[2]
    /\ u[1] = "check" =>
          /\ Len(st) > 0 /\ st[Len(st)] = <<"efree", u[2]>> /\ h.obj[u[2]] \in Object
          /\ ~Rests(h, h.obj[u[2]]) /\ \A j \in 1 .. Len(st) : st[j] # <<"gone", h.obj[u[2]]>>
    /\ u[1] = "buffer" =>
          /\ h.addr[u[3]] # "list"
          /\ ~Rests(h, u[2]) /\ \A j \in 1 .. Len(st) : st[j] # <<"gone", u[2]>>
          /\ \/ u[2] = u[3] /\ h.type[u[3]] = "array"
             \/ u[2] \in Object /\ (To(h, u[3], u[2]) \/ h.type[u[3]] = "null")
    /\ u[1] = "user" =>
          /\ Len(st) > 0
          /\ \/ st[Len(st)] = <<"delref", u[2]>>
             \/ /\ st[Len(st)][1] = "dtors" /\ h.done[u[2]]
                /\ \E z \in InList(st[Len(st)]) : To(h, z, u[2])
    /\ u[1] = "gone" =>
          h.type[u[2]] = "valid" /\ h.kids[u[2]] = {} /\ h.rc[u[2]] = 1 /\ h.addr[u[2]] # "root"
    /\ u[1] = "efree" =>
          /\ h.type[u[2]] = "null" /\ h.addr[u[2]] = "null" /\ u[2] \notin hd
          /\ \A c \in Node : u[2] \notin h.kids[c]
          /\ \A m \in 1 .. Len(st) : /\ st[m][1] = "drop" => u[2] \notin st[m][2]
                                     /\ st[m][1] = "buffer" => st[m][3] # u[2]
                                     /\ st[m] # u

\* A task can be pushed when it fits in with the others.
LEMMA PushKeeps ==
    ASSUME NEW h, NEW hd, NEW st \in Seq(Tasks), NEW u \in Tasks, NEW s2, NEW but, Pushed(st, u, s2),
           Fits(h, hd, st, u), Shape(h, hd, st, but)
    PROVE  Shape(h, hd, s2, but)
<1> DEFINE n == Len(st)
<1>1. /\ n \in Nat /\ Len(s2) = n + 1 /\ s2[n + 1] = u
      /\ \A i \in 1 .. n : i \in 1 .. n + 1 /\ s2[i] = st[i] /\ i < n + 1
      /\ \A i \in 1 .. n + 1 : i # n + 1 => i \in 1 .. n
      /\ n + 1 \in 1 .. n + 1 
  BY DEF Pushed
<1>2. InList(u) = {} /\ ~IsList(u)
  BY DEF InList, IsList, Fits
<1>3. Lists(h, s2)
  <2>1. Lists(h, st)
    BY DEF Shape
  <2> HIDE DEF n
  <2> QED
    BY <1>1, <1>2, <2>1 DEF Lists, n
<1>4. Apart(h, hd, s2, but)
  <2>1. Apart(h, hd, st, but) /\ Lists(h, st)
    BY DEF Shape
  <2>2. ASSUME NEW i \in 1 .. n, NEW c, Doomed(h, st, i, c) PROVE Doomed(h, s2, i, c)
    <3>1. i < n /\ st[i + 1] = <<"user", c>> => i < n + 1 /\ s2[i + 1] = <<"user", c>>
      <4>1. ASSUME i < n PROVE i + 1 \in 1 .. n /\ i < n + 1
        BY <1>1, <4>1
      <4> QED
        BY <1>1, <4>1
    <3>2. Leads(h, st, c, i) => Leads(h, s2, c, i)
      <4>1. \A m \in i + 1 .. n + 1 : (m \in i + 1 .. n /\ s2[m] = st[m]) \/ InList(s2[m]) = {}
        BY <1>1, <1>2
      <4> HIDE DEF n
      <4> QED
        BY <1>1, <4>1 DEF Leads, n
    <3> QED
      BY <1>1, <2>2, <3>1, <3>2 DEF Doomed
  <2>3. ASSUME NEW i \in 1 .. n + 1, NEW z \in InList(s2[i])
        PROVE  i \in 1 .. n /\ z \in InList(st[i]) /\ h.addr[z] = "list"
    BY <1>1, <1>2, <2>1, <2>3 DEF Lists
  <2>4. u[1] = "buffer" => h.addr[u[3]] # "list"
    BY DEF Fits
  <2> HIDE DEF n
  <2>5. ASSUME NEW i \in 1 .. n + 1, NEW z \in InList(s2[i])
        PROVE  z \notin hd /\ \A c \in Node \ but : z \in h.kids[c] => Doomed(h, s2, i, c)
    BY <1>1, <2>1, <2>2, <2>3, <2>5 DEF Apart, n
  <2>6. ASSUME NEW i \in 1 .. n + 1, NEW z \in InList(s2[i]), NEW j \in 1 .. n + 1
        PROVE  /\ s2[j][1] = "drop" /\ z \in s2[j][2] => i < j
               /\ s2[j][1] = "buffer" => z # s2[j][3]
    <3>1. i \in 1 .. n /\ z \in InList(st[i]) /\ h.addr[z] = "list"
      BY <2>3, <2>6
    <3>2. CASE j = n + 1
      BY <1>1, <2>4, <3>1, <3>2
    <3>3. CASE j # n + 1
      <4>1. j \in 1 .. n /\ s2[j] = st[j]
        BY <1>1, <3>3
      <4>2. /\ st[j][1] = "drop" /\ z \in st[j][2] => i < j
            /\ st[j][1] = "buffer" => z # st[j][3]
        BY <2>1, <3>1, <4>1 DEF Apart, n
      <4> QED
        BY <4>1, <4>2
    <3> QED
      BY <3>2, <3>3
  <2>7. Len(s2) = n + 1
    BY <1>1
  <2> QED
    BY <2>5, <2>6, <2>7 DEF Apart
<1>5. Waits(h, s2)
  <2>1. Waits(h, st)
    BY DEF Shape
  <2>2. ASSUME NEW o \in Object, Rests(h, o), NEW k \in 1 .. n, Owner(h, st, o, k)
        PROVE  k \in 1 .. n + 1 /\ Owner(h, s2, o, k)
    <3>1. k \in 1 .. n + 1 /\ k < n + 1
      BY <1>1
    <3>2. \A i \in k + 1 .. n + 1 : i \in k + 1 .. n \/ InList(s2[i]) = {}
      BY <1>1, <1>2
    <3>3. \A i \in k + 1 .. n : s2[i] = st[i]
      BY <1>1
    <3>4. ~About(h, u, o)
      BY <2>2 DEF Fits, About
    <3> HIDE DEF n
    <3> QED
      BY <1>1, <2>2, <3>1, <3>2, <3>3, <3>4 DEF Owner, Leads, n
  <2> QED
    BY <1>1, <2>1, <2>2 DEF Waits
<1>6. \A j \in 1 .. n : j > 1 => s2[j - 1] = st[j - 1]
  BY <1>1
<1>7. Len(st) > 0 => n + 1 > 1 /\ s2[(n + 1) - 1] = st[n]
  BY <1>1
<1>8. Calls(h, s2)
  <2>1. Calls(h, st)
    BY DEF Shape
  <2> HIDE DEF n
  <2>2. ASSUME NEW j \in 1 .. n + 1, s2[j][1] = "user"
        PROVE  /\ j > 1
               /\ \/ s2[j - 1] = <<"delref", s2[j][2]>>
                  \/ /\ s2[j - 1][1] = "dtors" /\ h.done[s2[j][2]]
                     /\ \E z \in InList(s2[j - 1]) : To(h, z, s2[j][2])
    <3>1. CASE j = n + 1
      BY <1>1, <1>7, <2>2, <3>1 DEF Fits, n
    <3>2. CASE j # n + 1
      BY <1>1, <1>6, <2>1, <2>2, <3>2 DEF Calls, n
    <3> QED
      BY <3>1, <3>2
  <2>3. ASSUME NEW j \in 1 .. n + 1, s2[j][1] = "gone"
        PROVE  /\ h.type[s2[j][2]] = "valid" /\ h.kids[s2[j][2]] = {}
               /\ h.rc[s2[j][2]] = 1 /\ h.addr[s2[j][2]] # "root"
    <3>1. CASE j = n + 1
      BY <1>1, <2>3, <3>1 DEF Fits, n
    <3>2. CASE j # n + 1
      BY ZenonT(60), <1>1, <2>1, <2>3, <3>2 DEF Calls, n
    <3> QED
      BY <3>1, <3>2
  <2>4. ASSUME NEW j \in 1 .. n + 1, s2[j][1] = "gone",
               NEW m \in 1 .. n + 1, About(h, s2[m], s2[j][2])
        PROVE  m < j
    <3>1. j # m
      BY <2>4 DEF About
    <3>2. CASE j = n + 1
      BY <1>1, <3>1, <3>2
    <3>3. CASE j # n + 1 /\ m # n + 1
      BY <1>1, <2>1, <2>4, <3>3 DEF Calls, n
    <3>4. CASE j # n + 1 /\ m = n + 1
      <4>1. j \in 1 .. n /\ s2[j] = st[j] /\ st[j] \in Tasks /\ s2[m] = u
        BY <1>1, <3>4 DEF n
      <4>2. st[j] = <<"gone", st[j][2]>>
        BY <2>4, <4>1, TaskType
      <4> QED
        BY <2>4, <4>1, <4>2 DEF About, Fits, n
    <3> QED
      BY <3>2, <3>3, <3>4
  <2> QED
    BY <1>1, <2>2, <2>3, <2>4 DEF Calls
<1>9. Dying(h, hd, s2)
  <2>1. Dying(h, hd, st)
    BY DEF Shape
  <2> HIDE DEF n
  <2>2. ASSUME NEW j \in 1 .. n + 1, s2[j][1] = "efree"
        PROVE  /\ h.type[s2[j][2]] = "null" /\ h.addr[s2[j][2]] = "null" /\ s2[j][2] \notin hd
               /\ \A c \in Node : s2[j][2] \notin h.kids[c]
    BY <1>1, <2>1, <2>2 DEF Dying, Fits, n
  <2>3. ASSUME NEW j \in 1 .. n + 1, s2[j][1] = "efree", NEW m \in 1 .. n + 1
        PROVE  /\ s2[m][1] = "drop" => s2[j][2] \notin s2[m][2]
               /\ s2[m][1] = "buffer" /\ s2[m][3] = s2[j][2] => j < m
               /\ s2[m] = s2[j] => m = j
    <3>1. CASE j = n + 1 /\ m = n + 1
      BY <1>1, <2>3, <3>1
    <3>2. CASE j = n + 1 /\ m # n + 1
      BY <1>1, <2>3, <3>2 DEF Fits, n
    <3>3. CASE j # n + 1 /\ m = n + 1
      <4>1. st[j] # u
        BY <1>1, <2>1, <2>3, <3>3 DEF Fits, n
      <4> QED
        BY <1>1, <2>1, <2>3, <3>3, <4>1 DEF Dying, Fits, n
    <3>4. CASE j # n + 1 /\ m # n + 1
      BY <1>1, <2>1, <2>3, <3>4 DEF Dying, n
    <3> QED
      BY <3>1, <3>2, <3>3, <3>4
  <2>4. ASSUME NEW j \in 1 .. n + 1, s2[j][1] = "check"
        PROVE  j > 1 /\ s2[j - 1] = <<"efree", s2[j][2]>> /\ h.obj[s2[j][2]] \in Object
    <3>1. CASE j = n + 1
      BY <1>1, <1>7, <2>4, <3>1 DEF Fits, n
    <3>2. CASE j # n + 1
      BY <1>1, <1>6, <2>1, <2>4, <3>2 DEF Dying, n
    <3> QED
      BY <3>1, <3>2
  <2>5. ASSUME NEW j \in 1 .. n + 1, s2[j][1] = "buffer"
        PROVE  \/ s2[j][2] = s2[j][3] /\ h.type[s2[j][3]] = "array"
               \/ s2[j][2] \in Object /\ (To(h, s2[j][3], s2[j][2]) \/ h.type[s2[j][3]] = "null")
    BY <1>1, <2>1, <2>5 DEF Dying, Fits, n
  <2> QED
    BY <1>1, <2>2, <2>3, <2>4, <2>5 DEF Dying
<1> QED
  BY <1>3, <1>4, <1>5, <1>8, <1>9 DEF Shape

\* What a step may do to the heap as long as the stack stays as it is.  A zval
\* of a list may lose an object that needs no list any more.
Settled(g, st, o, but) ==
    /\ ~Rests(g, o) /\ (o \in but \/ g.kids[o] = {})
    /\ \A j \in 1 .. Len(st) : st[j] # <<"user", o>>
AlikeLists(h, g, hd, hd2, st, but) ==
    /\ \A z \in Zval : g.addr[z] = "list" <=> h.addr[z] = "list"
    /\ \A z \in Zval : h.addr[z] = "list" =>
          /\ g.col[z] = "black" /\ (z \in hd2 => z \in hd)
          /\ g.type[z] = "array" => h.type[z] = "array"
          /\ \A o : To(g, z, o) => To(h, z, o)
          /\ \A o : To(h, z, o) => To(g, z, o) \/ Settled(g, st, o, but)
    /\ \A o \in Object : g.addr[o] # "list"
AlikeKids(h, g, st) ==
    \A c \in Node : \A z \in g.kids[c] :
        \/ z \in h.kids[c]
        \/ h.addr[z] # "list" /\ \A j \in 1 .. Len(st) : st[j] # <<"efree", z>>
AlikeObjects(h, g, st, but) ==
    \A o \in Object :
        /\ Rests(g, o) => Rests(h, o)
        /\ h.rc[o] = 0 => \/ g.rc[o] = 0 \/ g.kids[o] = {} \/ o \in but
                          \/ \A i \in 1 .. Len(st) :
                                Leads(h, st, o, i) => i < Len(st) /\ st[i + 1] = <<"user", o>>
        /\ h.done[o] /\ g.type[o] = "valid" => g.done[o]
AlikeTasks(h, g, hd2, st) ==
    \A j \in 1 .. Len(st) :
        /\ st[j][1] = "user" => g.type[st[j][2]] = "valid"
        /\ st[j][1] = "gone" => /\ g.type[st[j][2]] = "valid" /\ g.kids[st[j][2]] = {}
                                /\ g.rc[st[j][2]] = 1 /\ g.addr[st[j][2]] # "root"
        /\ st[j][1] = "efree" => /\ g.type[st[j][2]] = "null" /\ g.addr[st[j][2]] = "null"
                                 /\ st[j][2] \notin hd2 /\ g.obj[st[j][2]] = h.obj[st[j][2]]
        /\ st[j][1] = "buffer" =>
              \/ g.type[st[j][3]] = h.type[st[j][3]] /\ g.obj[st[j][3]] = h.obj[st[j][3]]
              \/ st[j][2] \in Object /\ g.type[st[j][3]] = "null"

\* The shape stays when the heap changes only as AlikeLists, AlikeKids,
\* AlikeWaits and AlikeDying allow.
LEMMA HeapKeeps ==
    ASSUME NEW h \in Heaps, NEW g \in Heaps, NEW hd, NEW hd2, NEW st \in Seq(Tasks),
           NEW was, NEW but, Shape(h, hd, st, was),
           \A c \in Node : c \in was => c \in but \/ g.kids[c] = {},
           AlikeLists(h, g, hd, hd2, st, but), AlikeKids(h, g, st), AlikeObjects(h, g, st, but),
           AlikeTasks(h, g, hd2, st)
    PROVE  Shape(g, hd2, st, but)
<1> DEFINE n == Len(st)
<1>0. n \in Nat /\ \A j \in 1 .. n : st[j] \in Tasks
  OBVIOUS
<1> HIDE DEF n
<1>1. Lists(h, st) /\ Apart(h, hd, st, was) /\ Waits(h, st) /\ Calls(h, st) /\ Dying(h, hd, st)
  BY DEF Shape
<1>2. \A i \in 1 .. n : InList(st[i]) \subseteq Zval /\ Due(st[i]) \subseteq InList(st[i])
  <2> SUFFICES ASSUME NEW i \in 1 .. n PROVE InList(st[i]) \subseteq Zval /\ Due(st[i]) \subseteq InList(st[i])
    OBVIOUS
  <2>1. Due(st[i]) \subseteq InList(st[i])
    BY <1>1 DEF Due, Lists, IsList, n
  <2>2. st[i][1] \in {"dtors", "destroy"} => st[i][2] \in Seq(Zval)
    BY <1>0, TaskType
  <2>3. InList(st[i]) \subseteq Zval
    BY <2>2 DEF InList
  <2> QED
    BY <2>1, <2>3
<1>3. \A i \in 1 .. n : \A z \in InList(st[i]) :
         /\ z \in Zval /\ h.addr[z] = "list"
         /\ \A o : To(g, z, o) => To(h, z, o)
         /\ \A o : To(h, z, o) => To(g, z, o) \/ Settled(g, st, o, but)
  BY <1>1, <1>2 DEF Lists, AlikeLists, n
<1>9. ASSUME NEW j \in 1 .. n, NEW o PROVE About(g, st[j], o) <=> About(h, st[j], o)
  <2>1. CASE st[j][1] = "check"
    <3>1. j - 1 \in 1 .. n /\ st[j - 1] = <<"efree", st[j][2]>>
      BY <1>0, <1>1, <2>1 DEF Dying, n
    <3>2. g.obj[st[j][2]] = h.obj[st[j][2]]
      BY <3>1 DEF AlikeTasks, n
    <3> QED
      BY <2>1, <3>2 DEF About
  <2>2. CASE st[j][1] # "check"
    BY <2>2 DEF About
  <2> QED
    BY <2>1, <2>2
<1>4. Lists(g, st)
  <2>1. \A z \in Zval : g.addr[z] = "list" => g.col[z] = "black" /\ \E i \in 1 .. n : z \in InList(st[i])
    BY <1>1 DEF Lists, AlikeLists, n
  <2>2. \A i \in 1 .. n : \A z \in InList(st[i]) :
          g.addr[z] = "list" /\ \A j \in 1 .. n : z \in InList(st[j]) => j = i
    BY <1>1, <1>3 DEF Lists, AlikeLists, n
  <2>3. ASSUME NEW i \in 1 .. n, IsList(st[i])
        PROVE  /\ Rest(st[i]) \subseteq InList(st[i])
               /\ st[i][1] = "destroy" => \A z \in InList(st[i]) \ Rest(st[i]) : g.type[z] # "array"
    BY <1>1, <1>3, <2>3 DEF Lists, AlikeLists, n
  <2> QED
    BY <1>1, <2>1, <2>2, <2>3 DEF Lists, AlikeLists, n
<1>5. Apart(g, hd2, st, but)
  <2>1. ASSUME NEW i \in 1 .. n, NEW z \in InList(st[i]) PROVE z \notin hd2
    BY <1>1, <1>3, <2>1 DEF Apart, AlikeLists, n
  <2>2. ASSUME NEW i \in 1 .. n, NEW z \in InList(st[i]), NEW j \in 1 .. n
        PROVE  /\ st[j][1] = "drop" /\ z \in st[j][2] => i < j
               /\ st[j][1] = "buffer" => z # st[j][3]
    BY ZenonT(60), <1>1, <2>2 DEF Apart, n
  <2>3. ASSUME NEW i \in 1 .. n, NEW z \in InList(st[i]), NEW c \in Node \ but, z \in g.kids[c]
        PROVE  Doomed(g, st, i, c)
    <3>1. h.addr[z] = "list"
      BY <1>3
    <3>2. z \in h.kids[c]
      BY <2>3, <3>1 DEF AlikeKids
    <3>3. Doomed(h, st, i, c)
      BY <1>1, <2>3, <3>2 DEF Apart, n
    <3>4. g.kids[c] # {}
      BY <2>3
    <3>5. ASSUME c \in Object, h.rc[c] = 0, Leads(h, st, c, i)
          PROVE  (g.rc[c] = 0 /\ Leads(g, st, c, i)) \/ (i < n /\ st[i + 1] = <<"user", c>>)
      <4>1. g.rc[c] = 0 \/ (i < n /\ st[i + 1] = <<"user", c>>)
        BY <2>3, <3>4, <3>5 DEF AlikeObjects, n
      <4>2. Leads(g, st, c, i)
        <5>1. ~Settled(g, st, c, but)
          BY <2>3, <3>4 DEF Settled
        <5>2. \E y \in Due(st[i]) : To(g, y, c)
          BY <1>2, <1>3, <3>5, <5>1 DEF Leads
        <5>3. \A m \in i + 1 .. n : m \in 1 .. n
          BY <1>0
        <5> QED
          BY <1>3, <3>5, <5>2, <5>3 DEF Leads, n
      <4> QED
        BY <4>1, <4>2
    <3> QED
      BY <3>3, <3>5 DEF Doomed, n
  <2> QED
    BY <2>1, <2>2, <2>3 DEF Apart, n
<1>6. Waits(g, st)
  <2>1. ASSUME NEW o \in Object, Rests(g, o), NEW k \in 1 .. n, Owner(h, st, o, k)
        PROVE  Owner(g, st, o, k)
    <3>1. \E z \in Due(st[k]) : To(g, z, o)
      BY <1>2, <1>3, <2>1 DEF Owner, Leads, Settled
    <3>2. g.done[o] \/ (st[k][1] = "dtors" /\ \E z \in Rest(st[k]) : To(g, z, o))
      <4>1. h.done[o] => g.done[o]
        BY <2>1 DEF AlikeObjects, Rests
      <4>2. st[k][1] = "dtors" => Rest(st[k]) \subseteq InList(st[k])
        BY <1>1 DEF Lists, IsList, n
      <4> QED
        BY <1>3, <2>1, <4>1, <4>2 DEF Owner, Settled
    <3>3. \A i \in k + 1 .. n : \A z \in InList(st[i]) : ~To(g, z, o)
      <4>1. \A i \in k + 1 .. n : i \in 1 .. n
        BY <1>0
      <4> QED
        BY <1>3, <2>1, <4>1 DEF Owner, Leads, n
    <3>4. ASSUME NEW j \in 1 .. n, About(g, st[j], o) PROVE j < k
      BY <1>9, <2>1, <3>4 DEF Owner, n
    <3> QED
      BY <3>1, <3>2, <3>3, <3>4 DEF Owner, Leads, n
  <2>2. ASSUME NEW o \in Object, Rests(g, o) PROVE \E k \in 1 .. n : Owner(g, st, o, k)
    <3>1. \E k \in 1 .. n : Owner(h, st, o, k)
      BY <1>1, <2>2 DEF Waits, AlikeObjects, n
    <3> QED
      BY <2>1, <2>2, <3>1
  <2> QED
    BY <2>2 DEF Waits, n
<1>7. Calls(g, st)
  <2>1. ASSUME NEW j \in 1 .. n, st[j][1] = "user"
        PROVE  /\ j > 1
               /\ \/ st[j - 1] = <<"delref", st[j][2]>>
                  \/ /\ st[j - 1][1] = "dtors" /\ g.done[st[j][2]]
                     /\ \E z \in InList(st[j - 1]) : To(g, z, st[j][2])
    <3>1. st[j][2] \in Object /\ g.type[st[j][2]] = "valid"
      BY <1>0, <2>1, TaskType DEF AlikeTasks, n
    <3>2. h.done[st[j][2]] => g.done[st[j][2]]
      BY <3>1 DEF AlikeObjects
    <3>3. j > 1 => j - 1 \in 1 .. n
      BY <1>0
    <3>4. st[j] = <<"user", st[j][2]>>
      BY <1>0, <2>1, TaskType
    <3>5. ~Settled(g, st, st[j][2], but)
      BY <3>4 DEF Settled, n
    <3>6. /\ j > 1
          /\ \/ st[j - 1] = <<"delref", st[j][2]>>
             \/ /\ st[j - 1][1] = "dtors" /\ h.done[st[j][2]]
                /\ \E z \in InList(st[j - 1]) : To(h, z, st[j][2])
      BY <1>1, <2>1 DEF Calls, n
    <3>7. \A z \in InList(st[j - 1]) : To(h, z, st[j][2]) => To(g, z, st[j][2])
      BY <1>3, <3>3, <3>5, <3>6
    <3> QED
      BY <3>2, <3>6, <3>7
  <2>2. ASSUME NEW j \in 1 .. n, st[j][1] = "gone", NEW m \in 1 .. n, About(g, st[m], st[j][2])
        PROVE  m < j
    BY <1>1, <1>9, <2>2 DEF Calls, n
  <2> QED
    BY <2>1, <2>2 DEF Calls, AlikeTasks, n
<1>8. Dying(g, hd2, st)
  <2>1. ASSUME NEW j \in 1 .. n, st[j][1] = "efree"
        PROVE  /\ g.type[st[j][2]] = "null" /\ g.addr[st[j][2]] = "null" /\ st[j][2] \notin hd2
               /\ \A c \in Node : st[j][2] \notin g.kids[c]
    <3>1. st[j] = <<"efree", st[j][2]>>
      BY <1>0, <2>1, TaskType
    <3>2. \A c \in Node : st[j][2] \notin h.kids[c]
      BY <1>1, <2>1 DEF Dying, n
    <3> QED
      BY <2>1, <3>1, <3>2 DEF AlikeKids, AlikeTasks, n
  <2>2. ASSUME NEW j \in 1 .. n, st[j][1] = "check"
        PROVE  j > 1 /\ st[j - 1] = <<"efree", st[j][2]>> /\ g.obj[st[j][2]] \in Object
    <3>1. j > 1 /\ j - 1 \in 1 .. n /\ st[j - 1] = <<"efree", st[j][2]>> /\ h.obj[st[j][2]] \in Object
      BY <1>0, <1>1, <2>2 DEF Dying, n
    <3>2. g.obj[st[j][2]] = h.obj[st[j][2]]
      BY <3>1 DEF AlikeTasks, n
    <3> QED
      BY <3>1, <3>2
  <2>3. ASSUME NEW j \in 1 .. n, st[j][1] = "buffer"
        PROVE  \/ st[j][2] = st[j][3] /\ g.type[st[j][3]] = "array"
               \/ st[j][2] \in Object /\ (To(g, st[j][3], st[j][2]) \/ g.type[st[j][3]] = "null")
    BY <1>1, <2>3 DEF Dying, AlikeTasks, To, n
  <2>4. ASSUME NEW j \in 1 .. n, st[j][1] = "efree", NEW m \in 1 .. n
        PROVE  /\ st[m][1] = "drop" => st[j][2] \notin st[m][2]
               /\ st[m][1] = "buffer" /\ st[m][3] = st[j][2] => j < m
               /\ st[m] = st[j] => m = j
    BY <1>1, <2>4 DEF Dying, n
  <2> QED
    BY <2>1, <2>2, <2>3, <2>4 DEF Dying, n
<1> QED
  BY <1>4, <1>5, <1>6, <1>7, <1>8 DEF Shape

\* The list that is worked on goes on.
LEMMA ListTop ==
    ASSUME NEW h \in Heaps, NEW hd, NEW st \in Seq(Tasks), NEW t \in Tasks, NEW u \in Tasks,
           NEW but, NEW s1, NEW s2, Pushed(st, t, s1), Pushed(st, u, s2), Shape(h, hd, s1, but),
           IsList(t), IsList(u), InList(u) = InList(t), Rest(u) \subseteq InList(u),
           u[1] = "destroy" => \A z \in InList(u) \ Rest(u) : h.type[z] # "array",
           \A o \in Object : Rests(h, o) /\ Owner(h, s1, o, Len(st) + 1) =>
               /\ \E z \in Due(u) : To(h, z, o)
               /\ h.done[o] \/ (u[1] = "dtors" /\ \E z \in Rest(u) : To(h, z, o)),
           \A c \in Node \ but : Doomed(h, s1, Len(st) + 1, c) /\ h.kids[c] # {} =>
               c \in Due(u) \/ (c \in Object /\ h.rc[c] = 0 /\ \E z \in Due(u) : To(h, z, c))
    PROVE  Shape(h, hd, s2, but)
<1> DEFINE n == Len(st)
<1>1. /\ n \in Nat /\ Len(s2) = n + 1 /\ s2[n + 1] = u /\ Len(s1) = n + 1 /\ s1[n + 1] = t
      /\ \A i \in 1 .. n : i \in 1 .. n + 1 /\ s2[i] = st[i] /\ s1[i] = st[i] /\ i < n + 1
      /\ \A i \in 1 .. n + 1 : i # n + 1 => i \in 1 .. n
      /\ n + 1 \in 1 .. n + 1
  BY DEF Pushed
<1>2. Lists(h, s1) /\ Apart(h, hd, s1, but) /\ Waits(h, s1) /\ Calls(h, s1) /\ Dying(h, hd, s1)
  BY DEF Shape
<1>3. \A i \in 1 .. n + 1 : /\ InList(s1[i]) = InList(s2[i])
                            /\ i # n + 1 => s1[i] = s2[i] /\ Due(s1[i]) = Due(s2[i])
                            /\ ~IsList(s1[i]) \/ ~IsList(s2[i]) => s1[i] = s2[i]
  BY <1>1
<1>4. ASSUME NEW i \in 1 .. n + 1, ~IsList(s2[i]) \/ s1[i][1] \in {"drop", "check", "efree", "gone", "user", "buffer"}
      PROVE  i # n + 1 /\ s1[i] = s2[i]
  <2>1. i # n + 1
    BY <1>1, <1>4 DEF IsList
  <2> QED
    BY <1>1, <2>1
<1>5. ASSUME NEW i \in 1 .. n + 1, s2[i][1] \in {"drop", "check", "efree", "gone", "user", "buffer"}
      PROVE  i # n + 1 /\ s1[i] = s2[i]
  BY <1>4, <1>5 DEF IsList
<1> HIDE DEF n
<1>6. Lists(h, s2)
  <2>1. \A z \in Zval : h.addr[z] = "list" =>
          /\ h.col[z] = "black" /\ \E i \in 1 .. n + 1 : z \in InList(s2[i])
    BY <1>1, <1>2, <1>3 DEF Lists
  <2>2. \A i \in 1 .. n + 1 : \A z \in InList(s2[i]) :
          h.addr[z] = "list" /\ \A j \in 1 .. n + 1 : z \in InList(s2[j]) => j = i
    BY <1>1, <1>2, <1>3 DEF Lists
  <2>3. ASSUME NEW i \in 1 .. n + 1, IsList(s2[i])
        PROVE  /\ Rest(s2[i]) \subseteq InList(s2[i])
               /\ s2[i][1] = "destroy" => \A z \in InList(s2[i]) \ Rest(s2[i]) : h.type[z] # "array"
    <3>1. CASE i = n + 1
      BY <1>1, <3>1
    <3>2. CASE i # n + 1
      BY <1>1, <1>2, <1>3, <2>3, <3>2 DEF Lists
    <3> QED
      BY <3>1, <3>2
  <2> QED
    BY <1>1, <1>2, <2>1, <2>2, <2>3 DEF Lists
<1>7. ASSUME NEW i \in 1 .. n, NEW c
      PROVE  Leads(h, s1, c, i) <=> Leads(h, s2, c, i)
  <2>1. i \in 1 .. n + 1 /\ i # n + 1 /\ \A m \in i + 1 .. n + 1 : m \in 1 .. n + 1
    BY <1>1
  <2> QED
    BY <1>1, <1>3, <2>1 DEF Leads
<1>8. \A c : Leads(h, s2, c, n + 1) <=> \E z \in Due(u) : To(h, z, c)
  BY <1>1 DEF Leads
<1>9. ASSUME NEW j \in 1 .. n + 1, NEW o PROVE About(h, s1[j], o) <=> About(h, s2[j], o)
  BY <1>4, <1>5 DEF About
<1>10. Apart(h, hd, s2, but)
  <2>1. ASSUME NEW i \in 1 .. n + 1, NEW z \in InList(s2[i])
        PROVE  z \notin hd
    BY <1>1, <1>2, <1>3, <2>1 DEF Apart
  <2>2. ASSUME NEW i \in 1 .. n + 1, NEW z \in InList(s2[i]), NEW j \in 1 .. n + 1
        PROVE  /\ s2[j][1] = "drop" /\ z \in s2[j][2] => i < j
               /\ s2[j][1] = "buffer" => z # s2[j][3]
    BY <1>1, <1>2, <1>3, <1>5, <2>2 DEF Apart
  <2>3. ASSUME NEW i \in 1 .. n + 1, NEW z \in InList(s2[i]), NEW c \in Node \ but, z \in h.kids[c]
        PROVE  Doomed(h, s2, i, c)
    <3>1. Doomed(h, s1, i, c)
      BY <1>1, <1>2, <1>3, <2>3 DEF Apart
    <3>2. CASE i = n + 1
      BY <1>1, <1>8, <2>3, <3>1, <3>2 DEF Doomed, n
    <3>3. CASE i # n + 1
      <4>1. i \in 1 .. n
        BY <1>1, <3>3
      <4>2. i < n + 1 /\ s1[i + 1] = <<"user", c>> => s2[i + 1] = <<"user", c>>
        <5>1. i + 1 \in 1 .. n + 1
          BY <1>1, <4>1
        <5> QED
          BY <1>4, <5>1
      <4> QED
        BY <1>1, <1>3, <1>7, <3>1, <3>3, <4>1, <4>2 DEF Doomed
    <3> QED
      BY <3>2, <3>3
  <2> QED
    BY <1>1, <2>1, <2>2, <2>3 DEF Apart
<1>11. Waits(h, s2)
  <2>1. ASSUME NEW o \in Object, Rests(h, o), NEW k \in 1 .. n + 1, Owner(h, s1, o, k)
        PROVE  Owner(h, s2, o, k)
    <3>1. Leads(h, s2, o, k) /\ (h.done[o] \/ (s2[k][1] = "dtors" /\ \E z \in Rest(s2[k]) : To(h, z, o)))
      <4>1. CASE k = n + 1
        BY <1>1, <1>8, <2>1, <4>1 DEF n
      <4>2. CASE k # n + 1
        BY <1>1, <1>3, <1>7, <2>1, <4>2 DEF Owner
      <4> QED
        BY <4>1, <4>2
    <3>2. \A j \in 1 .. n + 1 : About(h, s2[j], o) => j < k
      BY <1>1, <1>9, <2>1 DEF Owner
    <3> QED
      BY <1>1, <3>1, <3>2 DEF Owner
  <2> QED
    BY <1>1, <1>2, <2>1 DEF Waits
<1>12. Calls(h, s2)
  <2>1. ASSUME NEW j \in 1 .. n + 1, s2[j][1] = "user"
        PROVE  /\ j > 1
               /\ \/ s2[j - 1] = <<"delref", s2[j][2]>>
                  \/ /\ s2[j - 1][1] = "dtors" /\ h.done[s2[j][2]]
                     /\ \E z \in InList(s2[j - 1]) : To(h, z, s2[j][2])
    <3>1. j # n + 1 /\ s1[j] = s2[j]
      BY <1>5, <2>1
    <3>2. j > 1 => j - 1 \in 1 .. n /\ s1[j - 1] = s2[j - 1]
      BY <1>1, <3>1
    <3> QED
      BY <1>1, <1>2, <2>1, <3>1, <3>2 DEF Calls
  <2>2. ASSUME NEW j \in 1 .. n + 1, s2[j][1] = "gone"
        PROVE  /\ h.type[s2[j][2]] = "valid" /\ h.kids[s2[j][2]] = {}
               /\ h.rc[s2[j][2]] = 1 /\ h.addr[s2[j][2]] # "root"
               /\ \A m \in 1 .. n + 1 : About(h, s2[m], s2[j][2]) => m < j
    <3>1. s1[j] = s2[j]
      BY <1>5, <2>2
    <3>2. \A m \in 1 .. n + 1 : About(h, s2[m], s2[j][2]) => About(h, s1[m], s1[j][2])
      BY <1>9, <3>1
    <3> QED
      BY <1>1, <1>2, <2>2, <3>1, <3>2 DEF Calls
  <2> QED
    BY <1>1, <2>1, <2>2 DEF Calls
<1>13. Dying(h, hd, s2)
  <2>1. ASSUME NEW j \in 1 .. n + 1, s2[j][1] = "efree"
        PROVE  /\ h.type[s2[j][2]] = "null" /\ h.addr[s2[j][2]] = "null" /\ s2[j][2] \notin hd
               /\ \A c \in Node : s2[j][2] \notin h.kids[c]
    BY <1>1, <1>2, <1>5, <2>1 DEF Dying
  <2>2. ASSUME NEW j \in 1 .. n + 1, s2[j][1] = "efree", NEW m \in 1 .. n + 1
        PROVE  /\ s2[m][1] = "drop" => s2[j][2] \notin s2[m][2]
               /\ s2[m][1] = "buffer" /\ s2[m][3] = s2[j][2] => j < m
               /\ s2[m] = s2[j] => m = j
    <3>1. s1[j] = s2[j]
      BY <1>5, <2>2
    <3>2. s2[m][1] \in {"drop", "buffer"} \/ s2[m] = s2[j] => s1[m] = s2[m]
      BY <1>5, <2>2
    <3> QED
      BY <1>1, <1>2, <2>2, <3>1, <3>2 DEF Dying
  <2>3. ASSUME NEW j \in 1 .. n + 1, s2[j][1] = "check"
        PROVE  j > 1 /\ s2[j - 1] = <<"efree", s2[j][2]>> /\ h.obj[s2[j][2]] \in Object
    <3>1. j # n + 1 /\ s1[j] = s2[j]
      BY <1>5, <2>3
    <3>2. j > 1 => j - 1 \in 1 .. n /\ s1[j - 1] = s2[j - 1]
      BY <1>1, <3>1
    <3> QED
      BY <1>1, <1>2, <2>3, <3>1, <3>2 DEF Dying
  <2>4. ASSUME NEW j \in 1 .. n + 1, s2[j][1] = "buffer"
        PROVE  \/ s2[j][2] = s2[j][3] /\ h.type[s2[j][3]] = "array"
               \/ s2[j][2] \in Object /\ (To(h, s2[j][3], s2[j][2]) \/ h.type[s2[j][3]] = "null")
    BY <1>1, <1>2, <1>5, <2>4 DEF Dying
  <2> QED
    BY <1>1, <2>1, <2>2, <2>3, <2>4 DEF Dying
<1> QED
  BY <1>6, <1>10, <1>11, <1>12, <1>13 DEF Shape

-----------------------------------------------------------------------------
(* References, when a task is pushed, a variable is set or a node changes.  *)

\* A node is either a zval or an object.
LEMMA Apartness == /\ \A z \in Zval : z \in Node /\ z \notin Object
                   /\ \A o \in Object : o \in Node /\ o \notin Zval
                   /\ \A x \in Node : x \in Zval \/ x \in Object
  BY DisjointAssumption DEF Node, DisjointAssumption

\* A task more is a reference more for what it holds.
LEMMA RefsPush ==
    ASSUME NEW h, NEW hd, NEW st \in Seq(Tasks), NEW t \in Tasks, NEW x
    PROVE  RefsOf(h, hd, Append(st, t), x) = RefsOf(h, hd, st, x) + (IF Holds(t, x) THEN 1 ELSE 0)
<1>1. PICK a \in Nat : a = Cardinality(Referrers(h, x))
  BY RefsType
<1>2. PICK b \in Nat : b = ByVariable(hd, x)
  BY DEF ByVariable
<1>3. PICK c \in Nat : c = Cardinality(Holders(st, x))
  BY RefsType
<1>4. Cardinality(Holders(Append(st, t), x)) = c + (IF Holds(t, x) THEN 1 ELSE 0)
  BY <1>3, HoldersPush
<1>5. RefsOf(h, hd, st, x) = a + b + c
  BY <1>1, <1>2, <1>3 DEF RefsOf
<1>6. RefsOf(h, hd, Append(st, t), x) = a + b + (c + (IF Holds(t, x) THEN 1 ELSE 0))
  BY <1>1, <1>2, <1>4 DEF RefsOf
<1> QED
  BY <1>5, <1>6

\* A node that refers to others than before.
LEMMA RefsNode ==
    ASSUME NEW h, NEW g, NEW hd, NEW st \in Seq(Tasks), NEW c \in Node,
           \A y \in Node \ {c} : Counted(g, y) = Counted(h, y), NEW x
    PROVE  RefsOf(g, hd, st, x) = RefsOf(h, hd, st, x) - (IF x \in Counted(h, c) THEN 1 ELSE 0)
                                      + (IF x \in Counted(g, c) THEN 1 ELSE 0)
<1>1. PICK a \in Nat : a = Cardinality(Referrers(h, x))
  BY RefsType
<1>2. PICK b \in Nat : b = ByVariable(hd, x)
  BY DEF ByVariable
<1>3. PICK d \in Nat : d = Cardinality(Holders(st, x))
  BY RefsType
<1>4. Cardinality(Referrers(g, x)) = a - (IF x \in Counted(h, c) THEN 1 ELSE 0)
                                       + (IF x \in Counted(g, c) THEN 1 ELSE 0)
  BY <1>1, ReferrersChange
<1>5. RefsOf(h, hd, st, x) = a + b + d
  BY <1>1, <1>2, <1>3 DEF RefsOf
<1>6. RefsOf(g, hd, st, x) = Cardinality(Referrers(g, x)) + b + d
  BY <1>2, <1>3 DEF RefsOf
<1> QED
  BY <1>4, <1>5, <1>6

\* References that stay.
LEMMA RefsSame ==
    ASSUME NEW h, NEW g, NEW hd, NEW st, \A y \in Node : Counted(g, y) = Counted(h, y), NEW x
    PROVE  RefsOf(g, hd, st, x) = RefsOf(h, hd, st, x)
  BY ReferrersSame DEF RefsOf

\* A variable more, or one less.
LEMMA RefsSet ==
    ASSUME NEW h, NEW hd, NEW st \in Seq(Tasks), NEW z, NEW x
    PROVE  /\ z \notin hd => RefsOf(h, hd \cup {z}, st, x) = RefsOf(h, hd, st, x) + (IF x = z THEN 1 ELSE 0)
           /\ z \in hd => RefsOf(h, hd \ {z}, st, x) = RefsOf(h, hd, st, x) - (IF x = z THEN 1 ELSE 0)
<1>1. PICK a \in Nat : a = Cardinality(Referrers(h, x))
  BY RefsType
<1>2. PICK c \in Nat : c = Cardinality(Holders(st, x))
  BY RefsType
<1>3. \A v : RefsOf(h, v, st, x) = a + ByVariable(v, x) + c
  BY <1>1, <1>2 DEF RefsOf
<1>4. \A v : ByVariable(v, x) \in Nat
  BY DEF ByVariable
<1>5. z \notin hd => ByVariable(hd \cup {z}, x) = ByVariable(hd, x) + (IF x = z THEN 1 ELSE 0)
  BY DEF ByVariable
<1>6. z \in hd => ByVariable(hd \ {z}, x) = ByVariable(hd, x) - (IF x = z THEN 1 ELSE 0)
  BY DEF ByVariable
<1> QED
  BY <1>3, <1>4, <1>5, <1>6

\* Counts are numbers, and what somebody has a reference to is not free.
LEMMA CountsType ==
    ASSUME NEW h \in Heaps, NEW hd, NEW st \in Seq(Tasks), Kinds(h), Exact(h, hd, st), NEW x \in Node
    PROVE  /\ h.rc[x] \in Nat
           /\ h.rc[x] > 0 => h.type[x] # "free"
           /\ x \in hd => h.rc[x] > 0
           /\ \A y \in Node : x \in Counted(h, y) => h.rc[x] > 0
           /\ \A i \in 1 .. Len(st) : Holds(st[i], x) => h.rc[x] > 0
<1>1. h.rc[x] = RefsOf(h, hd, st, x) /\ h.rc[x] \in Nat
  BY RefsType DEF Exact
<1>2. h.rc[x] = 0 => x \notin hd /\ (\A y \in Node : x \notin Counted(h, y))
                     /\ \A i \in 1 .. Len(st) : ~Holds(st[i], x)
  BY <1>1, NoRefs
<1>3. h.rc[x] > 0 => h.type[x] # "free"
  BY DEF Kinds
<1> QED
  BY <1>1, <1>2, <1>3

\* What a task holds that somebody else has a reference to as well.
LEMMA TwoRefs ==
    ASSUME NEW h \in Heaps, NEW hd, NEW st \in Seq(Tasks), Exact(h, hd, st), NEW x \in Node,
           NEW k \in 1 .. Len(st), Holds(st[k], x), h.rc[x] = 1
    PROVE  /\ x \notin hd
           /\ \A y \in Node : x \notin Counted(h, y)
           /\ \A i \in 1 .. Len(st) : Holds(st[i], x) => i = k
<1>1. RefsOf(h, hd, st, x) = 1
  BY DEF Exact
<1>2. x \notin hd
  BY <1>1, OnlyTask
<1>3. \A y \in Node : x \notin Counted(h, y)
  BY <1>1, OnlyTask
<1>4. Holders(st, x) = {k}
  <2>1. IsFiniteSet(1 .. Len(st)) /\ Holders(st, x) \in SUBSET (1 .. Len(st)) /\ k \in Holders(st, x)
    BY FS_Interval DEF Holders
  <2>2. Cardinality(Holders(st, x)) # 0
    BY <2>1, PartCount
  <2>3. Cardinality(Holders(st, x)) = 1
    BY <1>1, <2>2, RefsType DEF RefsOf
  <2> QED
    BY <2>1, <2>3, PartCount
<1>5. \A i \in 1 .. Len(st) : Holds(st[i], x) => i = k
  BY <1>4 DEF Holders
<1> QED
  BY <1>2, <1>3, <1>5

\* The zvals that something of the heap refers to are elements or properties,
\* the objects those of a zval.
LEMMA CountedIs ==
    ASSUME NEW h \in Heaps, Kinds(h), NEW y \in Node
    PROVE  /\ \A z \in Zval : z \in Counted(h, y) <=> z \in h.kids[y]
           /\ \A o \in Object : o \in Counted(h, y) <=> y \in Zval /\ To(h, y, o) /\ h.addr[y] # "list"
           /\ Counted(h, y) \in SUBSET Node
<1>1. h.kids[y] \in SUBSET Zval /\ (y \in Zval => h.obj[y] \in Object \cup {NoObject})
  BY DEF Heaps
<1>2. CASE h.type[y] \in {"array", "valid"}
  <2>1. Counted(h, y) = h.kids[y]
    BY <1>2 DEF Counted, Uncounted, Out
  <2> QED
    BY <1>1, <1>2, <2>1, Apartness DEF To
<1>3. CASE h.type[y] = "object"
  <2>1. y \in Zval /\ h.obj[y] \in Object /\ h.kids[y] = {}
    BY <1>3, Apartness DEF Kinds
  <2>2. Counted(h, y) = IF h.addr[y] = "list" THEN {} ELSE {h.obj[y]}
    BY <1>3 DEF Counted, Uncounted, Out
  <2> QED
    BY <1>3, <2>1, <2>2, Apartness DEF To
<1>4. CASE h.type[y] \notin {"array", "valid", "object"}
  <2>1. Counted(h, y) = {}
    BY <1>4 DEF Counted, Uncounted, Out
  <2>2. h.kids[y] = {}
    BY <1>4 DEF Kinds
  <2> QED
    BY <1>4, <2>1, <2>2 DEF To
<1> QED
  BY <1>2, <1>3, <1>4

-----------------------------------------------------------------------------
(* The steps that the actions are made of.                                  *)

SetRc(h, x, v) == [h EXCEPT !.rc[x] = v]
RcOf(g, h, x, v) ==
    /\ g \in Heaps
    /\ g.type = h.type /\ g.kids = h.kids /\ g.obj = h.obj /\ g.col = h.col
    /\ g.addr = h.addr /\ g.done = h.done /\ g.roots = h.roots
    /\ g.rc[x] = v /\ \A y \in Node : y # x => g.rc[y] = h.rc[y]

\* A count is set.
LEMMA RcFields ==
    ASSUME NEW h \in Heaps, NEW x \in Node, NEW v \in Int
    PROVE  RcOf(SetRc(h, x, v), h, x, v)
  BY DEF Heaps, SetRc, RcOf

\* Who is counted depends on types, elements, references and lists alone.
LEMMA CountedSame ==
    ASSUME NEW h, NEW g, NEW y, g.type[y] = h.type[y], g.kids[y] = h.kids[y], g.obj[y] = h.obj[y],
           g.addr[y] = "list" <=> h.addr[y] = "list"
    PROVE  Counted(g, y) = Counted(h, y)
  BY DEF Counted, Uncounted, Out

\* Nothing is added to an element of a list while the elements stay.
LEMMA KidsSame ==
    ASSUME NEW h, NEW g, NEW hd, NEW st, NEW but, Shape(h, hd, st, but), g.kids = h.kids
    PROVE  /\ AlikeKids(h, g, st)
           /\ \A j \in 1 .. Len(st) : st[j][1] = "gone" => g.kids[st[j][2]] = {}
  BY DEF AlikeKids, Shape, Calls

\* A zval that is dropped.
LEMMA DropTask == ASSUME NEW z \in Zval PROVE <<"drop", {z}>> \in Tasks
<1>1. {z} \in SUBSET Zval /\ {z} # {}
  OBVIOUS
<1> QED
  BY <1>1, MadeDrop

\* An object whose destructor runs is there.
Used(h, st) == \A j \in 1 .. Len(st) : st[j][1] = "user" =>
                   st[j][2] \in Object /\ h.type[st[j][2]] = "valid" /\ h.rc[st[j][2]] > 0

\* What a task holds is not freed: its count says so.
LEMMA UsedNow ==
    ASSUME NEW h \in Heaps, NEW hd, NEW st \in Seq(Tasks), Kinds(h), Exact(h, hd, st)
    PROVE  Used(h, st)
<1> SUFFICES ASSUME NEW j \in 1 .. Len(st), st[j][1] = "user"
             PROVE  st[j][2] \in Object /\ h.type[st[j][2]] = "valid" /\ h.rc[st[j][2]] > 0
  BY DEF Used
<1>1. st[j] \in Tasks
  OBVIOUS
<1>2. st[j][2] \in Object
  BY <1>1, TaskType
<1>3. Holds(st[j], st[j][2])
  BY DEF Holds
<1>4. st[j][2] \in Node
  BY <1>2, Apartness
<1>5. h.rc[st[j][2]] > 0
  BY <1>3, <1>4, CountsType
<1>6. h.type[st[j][2]] # "free"
  BY <1>4, <1>5, CountsType
<1> QED
  BY <1>2, <1>5, <1>6 DEF Kinds

\* What a task below the top holds is not freed.
LEMMA UsedBelow ==
    ASSUME NEW h, NEW st, NEW t, NEW s2, Pushed(st, t, s2), Used(h, s2), Len(st) \in Nat
    PROVE  Used(h, st)
<1>1. \A j \in 1 .. Len(st) : j \in 1 .. Len(s2) /\ s2[j] = st[j]
  BY DEF Pushed
<1> QED
  BY <1>1 DEF Used

\* A step that changes only what nodes contain, and of the counts those of zvals.
LEMMA KidsShape ==
    ASSUME NEW h \in Heaps, NEW g \in Heaps, NEW hd, NEW hd2, hd2 \subseteq hd,
           NEW st \in Seq(Tasks), NEW but, Shape(h, hd, st, but), Used(h, st),
           g.type = h.type, AlikeKids(h, g, st), g.obj = h.obj, g.done = h.done,
           \A j \in 1 .. Len(st) : st[j][1] = "gone" => g.kids[st[j][2]] = {},
           \A o \in Object : g.rc[o] = h.rc[o] /\ g.addr[o] # "list",
           \A z \in Zval : g.addr[z] = "list" <=> h.addr[z] = "list",
           \A z \in Zval : h.addr[z] = "list" => g.col[z] = "black",
           \A j \in 1 .. Len(st) : st[j][1] = "gone" => g.addr[st[j][2]] # "root",
           \A j \in 1 .. Len(st) : st[j][1] = "efree" => g.addr[st[j][2]] = "null"
    PROVE  Shape(g, hd2, st, but)
<1>1. AlikeLists(h, g, hd, hd2, st, but)
  BY DEF AlikeLists, To
<1>3. AlikeObjects(h, g, st, but)
  BY DEF AlikeObjects, Rests
<1>4. AlikeTasks(h, g, hd2, st)
  <2> SUFFICES ASSUME NEW j \in 1 .. Len(st)
               PROVE  /\ st[j][1] = "user" => g.type[st[j][2]] = "valid"
                      /\ st[j][1] = "gone" =>
                            /\ g.type[st[j][2]] = "valid" /\ g.kids[st[j][2]] = {}
                            /\ g.rc[st[j][2]] = 1 /\ g.addr[st[j][2]] # "root"
                      /\ st[j][1] = "efree" =>
                            /\ g.type[st[j][2]] = "null" /\ g.addr[st[j][2]] = "null"
                            /\ st[j][2] \notin hd2 /\ g.obj[st[j][2]] = h.obj[st[j][2]]
                      /\ st[j][1] = "buffer" =>
                            g.type[st[j][3]] = h.type[st[j][3]] /\ g.obj[st[j][3]] = h.obj[st[j][3]]
    BY DEF AlikeTasks
  <2>1. st[j] \in Tasks
    OBVIOUS
  <2>2. st[j][1] = "gone" => g.rc[st[j][2]] = h.rc[st[j][2]]
    BY <2>1, TaskType
  <2> QED
    BY <2>2 DEF Used, Shape, Calls, Dying
<1> QED
  BY <1>1, <1>3, <1>4, HeapKeeps

\* A step that changes no structure.
LEMMA SameShape ==
    ASSUME NEW h \in Heaps, NEW g \in Heaps, NEW hd, NEW hd2, hd2 \subseteq hd,
           NEW st \in Seq(Tasks), NEW but, Shape(h, hd, st, but), Used(h, st),
           g.type = h.type, g.kids = h.kids, g.obj = h.obj, g.done = h.done,
           \A o \in Object : g.rc[o] = h.rc[o] /\ g.addr[o] # "list",
           \A z \in Zval : g.addr[z] = "list" <=> h.addr[z] = "list",
           \A z \in Zval : h.addr[z] = "list" => g.col[z] = "black",
           \A j \in 1 .. Len(st) : st[j][1] = "gone" => g.addr[st[j][2]] # "root",
           \A j \in 1 .. Len(st) : st[j][1] = "efree" => g.addr[st[j][2]] = "null"
    PROVE  Shape(g, hd2, st, but)
<1>1. AlikeKids(h, g, st) /\ \A j \in 1 .. Len(st) : st[j][1] = "gone" => g.kids[st[j][2]] = {}
  BY KidsSame
<1> QED
  BY <1>1, KidsShape

\* A reference that is not the last one is dropped.
LEMMA DropDone ==
    ASSUME NEW h, NEW hd, NEW st \in Seq(Tasks), NEW z \in Zval,
           Good(h, hd, Append(st, <<"drop", {z}>>)), h.rc[z] > 1
    PROVE  Good(SetRc(h, z, h.rc[z] - 1), hd, st)
<1>0. PICK v : v = h.rc[z] - 1
  OBVIOUS
<1> DEFINE t == <<"drop", {z}>>  s2 == Append(st, t)  g == SetRc(h, z, v)
<1>1. /\ h \in Heaps /\ hd \in SUBSET Zval /\ Kinds(h) /\ Rooted(h) /\ Exact(h, hd, s2)
      /\ Shape(h, hd, s2, {})
  BY DEF Good, AlmostGood
<1>2. t \in Tasks /\ Pushed(st, t, s2) /\ s2 \in Seq(Tasks)
  BY DropTask, PushedAppend
<1>3. z \in Node /\ z \notin Object /\ h.rc[z] \in Int /\ v \in Int
  BY <1>0, <1>1, Apartness DEF Heaps
<1>4. /\ g \in Heaps
      /\ g.type = h.type /\ g.kids = h.kids /\ g.obj = h.obj /\ g.col = h.col
      /\ g.addr = h.addr /\ g.done = h.done /\ g.roots = h.roots
      /\ g.rc[z] = v /\ \A y \in Node : y # z => g.rc[y] = h.rc[y]
  BY <1>1, <1>3, RcFields DEF RcOf
<1>5. \A x : Holds(t, x) <=> x = z
  BY HoldsDrop
<1> HIDE DEF t, s2, g
<1>6. \A o \in Object : g.rc[o] = h.rc[o]
  BY <1>3, <1>4, Apartness
<1>7. Kinds(g)
  BY <1>0, <1>1, <1>3, <1>4 DEF Kinds
<1>8. Rooted(g)
  BY <1>1, <1>4, <1>6 DEF Rooted
<1>9. Exact(g, hd, st)
  <2> SUFFICES ASSUME NEW x \in Node PROVE g.rc[x] = RefsOf(g, hd, st, x)
    BY DEF Exact
  <2>0. \A y \in Node : Counted(g, y) = Counted(h, y)
    BY <1>4, CountedSame
  <2>1. RefsOf(g, hd, st, x) = RefsOf(h, hd, st, x)
    BY <2>0, RefsSame
  <2>2. RefsOf(h, hd, s2, x) = RefsOf(h, hd, st, x) + (IF Holds(t, x) THEN 1 ELSE 0)
    BY <1>2, RefsPush DEF s2
  <2>3. h.rc[x] = RefsOf(h, hd, s2, x) /\ RefsOf(h, hd, st, x) \in Nat
    BY <1>1, RefsType DEF Exact
  <2> QED
    BY <1>0, <1>3, <1>4, <1>5, <2>1, <2>2, <2>3
<1>10. Shape(g, hd, st, {})
  <2>1. Shape(h, hd, st, {})
    BY <1>1, <1>2, PopKeeps DEF IsList, t
  <2>2. Used(h, st)
    <3>1. Used(h, s2) /\ Len(st) \in Nat
      BY <1>1, <1>2, UsedNow
    <3> QED
      BY <1>2, <3>1, UsedBelow
  <2>3. \A o \in Object : g.rc[o] = h.rc[o] /\ g.addr[o] # "list"
    BY <1>4, <1>6, <2>1 DEF Shape, Lists
  <2>4. \A y \in Zval : h.addr[y] = "list" => g.col[y] = "black"
    BY <1>4, <2>1 DEF Shape, Lists
  <2>5. \A j \in 1 .. Len(st) : st[j][1] = "gone" => g.addr[st[j][2]] # "root"
    BY <1>4, <2>1 DEF Shape, Calls
  <2>6. \A j \in 1 .. Len(st) : st[j][1] = "efree" => g.addr[st[j][2]] = "null"
    BY <1>4, <2>1 DEF Shape, Dying
  <2> QED
    BY <1>1, <1>4, <2>1, <2>2, <2>3, <2>4, <2>5, <2>6, SameShape
<1> QED
  BY <1>0, <1>1, <1>4, <1>7, <1>8, <1>9, <1>10 DEF Good, AlmostGood, g

Purple(h, x) == [h EXCEPT !.col[x] = "purple"]

\* A node becomes purple.
LEMMA PurpleFields ==
    ASSUME NEW h \in Heaps, NEW x \in Node
    PROVE  /\ Purple(h, x) \in Heaps
           /\ Purple(h, x).type = h.type /\ Purple(h, x).kids = h.kids /\ Purple(h, x).obj = h.obj
           /\ Purple(h, x).rc = h.rc /\ Purple(h, x).addr = h.addr /\ Purple(h, x).done = h.done
           /\ Purple(h, x).roots = h.roots
           /\ \A y \in Node : y # x => Purple(h, x).col[y] = h.col[y]
  BY DEF Heaps, Purple

AddRoot(h, x) == [h EXCEPT !.addr[x] = "root", !.roots = @ \cup {x}]

\* A node becomes a root.
LEMMA RootFields ==
    ASSUME NEW h \in Heaps, NEW x \in Node
    PROVE  /\ AddRoot(h, x) \in Heaps
           /\ AddRoot(h, x).type = h.type /\ AddRoot(h, x).kids = h.kids /\ AddRoot(h, x).obj = h.obj
           /\ AddRoot(h, x).rc = h.rc /\ AddRoot(h, x).col = h.col /\ AddRoot(h, x).done = h.done
           /\ AddRoot(h, x).roots = h.roots \cup {x} /\ AddRoot(h, x).addr[x] = "root"
           /\ \A y \in Node : y # x => AddRoot(h, x).addr[y] = h.addr[y]
  BY DEF Heaps, AddRoot

\* Colours say nothing outside of lists.
LEMMA ColourChange ==
    ASSUME NEW h, NEW hd, NEW st, NEW x \in Node, Good(h, hd, st), h.addr[x] # "list"
    PROVE  Good(Purple(h, x), hd, st)
<1> DEFINE g == Purple(h, x)
<1>1. /\ h \in Heaps /\ hd \in SUBSET Zval /\ st \in Seq(Tasks) /\ Kinds(h) /\ Rooted(h)
      /\ Exact(h, hd, st) /\ Shape(h, hd, st, {})
  BY DEF Good, AlmostGood
<1>2. /\ g \in Heaps /\ g.type = h.type /\ g.kids = h.kids /\ g.obj = h.obj /\ g.rc = h.rc
      /\ g.addr = h.addr /\ g.done = h.done /\ g.roots = h.roots
      /\ \A y \in Node : y # x => g.col[y] = h.col[y]
  BY <1>1, PurpleFields
<1> HIDE DEF g
<1>3. Kinds(g) /\ Rooted(g)
  BY <1>1, <1>2 DEF Kinds, Rooted
<1>4. Exact(g, hd, st)
  <2>1. \A y \in Node : Counted(g, y) = Counted(h, y)
    BY <1>2, CountedSame
  <2>2. \A y \in Node : RefsOf(g, hd, st, y) = RefsOf(h, hd, st, y)
    BY <2>1, RefsSame
  <2> QED
    BY <1>1, <1>2, <2>2 DEF Exact
<1>5. Shape(g, hd, st, {})
  <2>1. Used(h, st)
    BY <1>1, UsedNow
  <2>2. \A o \in Object : g.rc[o] = h.rc[o] /\ g.addr[o] # "list"
    BY <1>1, <1>2 DEF Shape, Lists
  <2>3. \A y \in Zval : h.addr[y] = "list" => g.col[y] = "black"
    BY <1>1, <1>2, Apartness DEF Shape, Lists
  <2>4. \A j \in 1 .. Len(st) : st[j][1] = "gone" => g.addr[st[j][2]] # "root"
    BY <1>1, <1>2 DEF Shape, Calls
  <2>5. \A j \in 1 .. Len(st) : st[j][1] = "efree" => g.addr[st[j][2]] = "null"
    BY <1>1, <1>2 DEF Shape, Dying
  <2> QED
    BY <1>1, <1>2, <2>1, <2>2, <2>3, <2>4, <2>5, SameShape
<1> QED
  BY <1>1, <1>2, <1>3, <1>4, <1>5 DEF Good, AlmostGood, g

\* A node becomes a root: it has to be an array or an object in use.
LEMMA RootAdd ==
    ASSUME NEW h, NEW hd, NEW st, NEW x \in Node, Good(h, hd, st),
           h.addr[x] = "null", h.type[x] \in {"array", "valid"}, x \in Object => h.rc[x] > 0,
           Cardinality(h.roots) < MaxRoots, \A j \in 1 .. Len(st) : st[j] # <<"gone", x>>
    PROVE  Good(AddRoot(h, x), hd, st)
<1> DEFINE g == AddRoot(h, x)
<1>1. /\ h \in Heaps /\ hd \in SUBSET Zval /\ st \in Seq(Tasks) /\ Kinds(h) /\ Rooted(h)
      /\ Exact(h, hd, st) /\ Shape(h, hd, st, {})
  BY DEF Good, AlmostGood
<1>2. /\ g \in Heaps /\ g.type = h.type /\ g.kids = h.kids /\ g.obj = h.obj /\ g.rc = h.rc
      /\ g.col = h.col /\ g.done = h.done /\ g.roots = h.roots \cup {x} /\ g.addr[x] = "root"
      /\ \A y \in Node : y # x => g.addr[y] = h.addr[y]
  BY <1>1, RootFields
<1> HIDE DEF g
<1>3. Kinds(g)
  BY <1>1, <1>2 DEF Kinds
<1>4. Rooted(g)
  <2>1. h.roots \in SUBSET Node
    BY <1>1 DEF Heaps
  <2>2. IsFiniteSet(h.roots) /\ Cardinality(h.roots) \in Nat
    BY <2>1, NodesFinite, FS_CardinalityType
  <2>3. Cardinality(g.roots) <= Cardinality(h.roots) + 1
    <3>1. Cardinality(h.roots \cup {x}) \in {Cardinality(h.roots), Cardinality(h.roots) + 1}
      BY <2>2, FS_AddElement
    <3> QED
      BY <1>2, <2>2, <3>1
  <2>4. Cardinality(g.roots) <= MaxRoots
    <3>1. IsFiniteSet(g.roots) /\ MaxRoots \in Nat
      BY <1>2, <2>2, FS_AddElement, MaxRootsAssumption DEF MaxRootsAssumption
    <3>2. Cardinality(g.roots) \in Nat
      BY <3>1, FS_CardinalityType
    <3> QED
      BY <2>2, <2>3, <3>1, <3>2
  <2> QED
    BY <1>1, <1>2, <2>4 DEF Rooted
<1>5. Exact(g, hd, st)
  <2>1. \A y \in Node : Counted(g, y) = Counted(h, y)
    BY <1>2, CountedSame
  <2>2. \A y \in Node : RefsOf(g, hd, st, y) = RefsOf(h, hd, st, y)
    BY <2>1, RefsSame
  <2> QED
    BY <1>1, <1>2, <2>2 DEF Exact
<1>6. Shape(g, hd, st, {})
  <2>1. Used(h, st)
    BY <1>1, UsedNow
  <2>2. \A o \in Object : g.rc[o] = h.rc[o] /\ g.addr[o] # "list"
    BY <1>1, <1>2, Apartness DEF Shape, Lists
  <2>3. \A y \in Zval : g.addr[y] = "list" <=> h.addr[y] = "list"
    BY <1>2, Apartness
  <2>4. \A y \in Zval : h.addr[y] = "list" => g.col[y] = "black"
    BY <1>1, <1>2 DEF Shape, Lists
  <2>5. ASSUME NEW j \in 1 .. Len(st), st[j][1] = "gone" PROVE g.addr[st[j][2]] # "root"
    <3>1. st[j] = <<"gone", st[j][2]>> /\ st[j][2] \in Object
      BY <1>1, <2>5, TaskType
    <3>2. st[j][2] # x
      BY <3>1
    <3> QED
      BY <1>1, <1>2, <2>5, <3>1, <3>2, Apartness DEF Shape, Calls
  <2>6. ASSUME NEW j \in 1 .. Len(st), st[j][1] = "efree" PROVE g.addr[st[j][2]] = "null"
    <3>1. st[j][2] \in Zval
      BY <1>1, <2>6, TaskType
    <3>2. h.type[st[j][2]] = "null" /\ h.addr[st[j][2]] = "null"
      BY <1>1, <2>6 DEF Shape, Dying
    <3> QED
      BY <1>2, <3>1, <3>2, Apartness
  <2> QED
    BY <1>1, <1>2, <2>1, <2>2, <2>3, <2>4, <2>5, <2>6, SameShape
<1> QED
  BY <1>1, <1>2, <1>3, <1>4, <1>5, <1>6 DEF Good, AlmostGood, g

\* A task is pushed that holds nothing but what is counted for it.
LEMMA TaskPush ==
    ASSUME NEW h, NEW hd, NEW st \in Seq(Tasks), NEW but, NEW t \in Tasks, Fits(h, hd, st, t),
           Shape(h, hd, st, but)
    PROVE  Append(st, t) \in Seq(Tasks) /\ Shape(h, hd, Append(st, t), but)
<1>1. Pushed(st, t, Append(st, t)) /\ Append(st, t) \in Seq(Tasks)
  BY PushedAppend
<1> QED
  BY <1>1, PushKeeps

\* gc_zval_possible_root keeps what its caller holds while it collects.
LEMMA BufferPush ==
    ASSUME NEW h, NEW hd, NEW st, NEW x \in Node, NEW z \in Zval, Good(h, hd, st),
           h.type[z] # "free", Fits(h, hd, st, <<"buffer", x, z>>)
    PROVE  Good(SetRc(h, z, h.rc[z] + 1), hd, Append(st, <<"buffer", x, z>>))
<1>0. PICK v : v = h.rc[z] + 1
  OBVIOUS
<1> DEFINE t == <<"buffer", x, z>>  s2 == Append(st, t)  g == SetRc(h, z, v)
<1>1. /\ h \in Heaps /\ hd \in SUBSET Zval /\ st \in Seq(Tasks) /\ Kinds(h) /\ Rooted(h)
      /\ Exact(h, hd, st) /\ Shape(h, hd, st, {}) /\ t \in Tasks
  BY MadeBuffer DEF Good, AlmostGood
<1>2. z \in Node /\ z \notin Object /\ h.rc[z] \in Int /\ v \in Int
  BY <1>0, <1>1, Apartness DEF Heaps
<1>3. /\ g \in Heaps
      /\ g.type = h.type /\ g.kids = h.kids /\ g.obj = h.obj /\ g.col = h.col
      /\ g.addr = h.addr /\ g.done = h.done /\ g.roots = h.roots
      /\ g.rc[z] = v /\ \A y \in Node : y # z => g.rc[y] = h.rc[y]
  BY <1>1, <1>2, RcFields DEF RcOf
<1>4. \A y : Holds(t, y) <=> y = z
  BY HoldsBuffer
<1>5. s2 \in Seq(Tasks) /\ Shape(h, hd, s2, {})
  BY <1>1, TaskPush
<1> HIDE DEF t, s2, g
<1>6. \A o \in Object : g.rc[o] = h.rc[o]
  BY <1>2, <1>3, Apartness
<1>7. Kinds(g)
  BY <1>0, <1>1, <1>2, <1>3 DEF Kinds
<1>8. Rooted(g)
  BY <1>1, <1>3, <1>6 DEF Rooted
<1>9. Exact(g, hd, s2)
  <2> SUFFICES ASSUME NEW y \in Node PROVE g.rc[y] = RefsOf(g, hd, s2, y)
    BY DEF Exact
  <2>1. RefsOf(g, hd, s2, y) = RefsOf(h, hd, s2, y)
    <3>1. \A c \in Node : Counted(g, c) = Counted(h, c)
      BY <1>3, CountedSame
    <3> QED
      BY <3>1, RefsSame
  <2>2. RefsOf(h, hd, s2, y) = RefsOf(h, hd, st, y) + (IF Holds(t, y) THEN 1 ELSE 0)
    BY <1>1, RefsPush DEF s2
  <2>3. h.rc[y] = RefsOf(h, hd, st, y) /\ RefsOf(h, hd, st, y) \in Nat
    BY <1>1, RefsType DEF Exact
  <2> QED
    BY <1>0, <1>2, <1>3, <1>4, <2>1, <2>2, <2>3
<1>10. Shape(g, hd, s2, {})
  <2>1. Used(h, s2)
    <3>1. Used(h, st) /\ Len(st) \in Nat
      BY <1>1, UsedNow
    <3>2. Pushed(st, t, s2) /\ t[1] = "buffer"
      BY <1>1, PushedAppend DEF s2, t
    <3> QED
      BY <3>1, <3>2 DEF Used, Pushed
  <2>2. \A o \in Object : g.rc[o] = h.rc[o] /\ g.addr[o] # "list"
    BY <1>3, <1>5, <1>6 DEF Shape, Lists
  <2>3. \A y \in Zval : h.addr[y] = "list" => g.col[y] = "black"
    BY <1>3, <1>5 DEF Shape, Lists
  <2>4. \A j \in 1 .. Len(s2) : s2[j][1] = "gone" => g.addr[s2[j][2]] # "root"
    BY <1>3, <1>5 DEF Shape, Calls
  <2>5. \A j \in 1 .. Len(s2) : s2[j][1] = "efree" => g.addr[s2[j][2]] = "null"
    BY <1>3, <1>5 DEF Shape, Dying
  <2> QED
    BY <1>1, <1>3, <1>5, <2>1, <2>2, <2>3, <2>4, <2>5, SameShape
<1> QED
  BY <1>0, <1>1, <1>3, <1>5, <1>7, <1>8, <1>9, <1>10 DEF Good, AlmostGood, g, s2, t

\* What is checked or buffered when the time has come.
LEMMA AboutTop ==
    ASSUME NEW h, NEW hd, NEW st \in Seq(Tasks), NEW t \in Tasks, NEW but, NEW o \in Object,
           Shape(h, hd, Append(st, t), but), About(h, t, o)
    PROVE  ~Rests(h, o) /\ \A j \in 1 .. Len(st) : st[j] # <<"gone", o>>
<1> DEFINE s2 == Append(st, t)  n == Len(st)
<1>1. /\ n \in Nat /\ Len(s2) = n + 1 /\ s2[n + 1] = t /\ n + 1 \in 1 .. n + 1
      /\ \A i \in 1 .. n : i \in 1 .. n + 1 /\ s2[i] = st[i] /\ i < n + 1
      /\ \A i \in 1 .. n + 1 : ~(n + 1 < i)
  OBVIOUS
<1>2. Waits(h, s2) /\ Calls(h, s2)
  BY DEF Shape
<1> HIDE DEF s2, n
<1>3. ~Rests(h, o)
  BY <1>1, <1>2 DEF Waits, Owner
<1>4. ASSUME NEW j \in 1 .. n, st[j] = <<"gone", o>> PROVE FALSE
  <2>1. s2[j][1] = "gone" /\ s2[j][2] = o
    BY <1>1, <1>4
  <2> QED
    BY <1>1, <1>2, <2>1 DEF Calls
<1> QED
  BY <1>3, <1>4 DEF n

\* The task that buffers an object after the release of a reference to it.
LEMMA PopCheck ==
    ASSUME NEW h, NEW hd, NEW st \in Seq(Tasks), NEW z \in Zval,
           Good(h, hd, Append(st, <<"check", z>>))
    PROVE  Good(h, hd, st)
<1> DEFINE t == <<"check", z>>  s2 == Append(st, t)
<1>1. /\ h \in Heaps /\ hd \in SUBSET Zval /\ Kinds(h) /\ Rooted(h) /\ Exact(h, hd, s2)
      /\ Shape(h, hd, s2, {})
  BY DEF Good, AlmostGood
<1>2. t \in Tasks /\ Pushed(st, t, s2)
  BY MadeZval, PushedAppend
<1>3. Exact(h, hd, st)
  <2> SUFFICES ASSUME NEW x \in Node PROVE h.rc[x] = RefsOf(h, hd, st, x)
    BY DEF Exact
  <2>1. RefsOf(h, hd, s2, x) = RefsOf(h, hd, st, x) + (IF Holds(t, x) THEN 1 ELSE 0)
    BY <1>2, RefsPush
  <2>2. ~Holds(t, x)
    BY HoldsZval
  <2>3. RefsOf(h, hd, st, x) \in Nat
    BY RefsType
  <2> HIDE DEF s2, t
  <2> QED
    BY <1>1, <2>1, <2>2, <2>3 DEF Exact
<1>4. Shape(h, hd, st, {})
  BY <1>1, <1>2, PopKeeps DEF IsList
<1> QED
  BY <1>1, <1>3, <1>4 DEF Good, AlmostGood

\* Back in the function that was to buffer something.
LEMMA BufferDone ==
    ASSUME NEW h, NEW hd, NEW st \in Seq(Tasks), NEW x \in Node, NEW z \in Zval,
           Good(h, hd, Append(st, <<"buffer", x, z>>)), h.rc[z] = 1 => h.type[z] = "null"
    PROVE  Good(SetRc(h, z, h.rc[z] - 1), hd, st)
<1>0. PICK v : v = h.rc[z] - 1
  OBVIOUS
<1> DEFINE t == <<"buffer", x, z>>  s2 == Append(st, t)  g == SetRc(h, z, v)
<1>1. /\ h \in Heaps /\ hd \in SUBSET Zval /\ Kinds(h) /\ Rooted(h) /\ Exact(h, hd, s2)
      /\ Shape(h, hd, s2, {})
  BY DEF Good, AlmostGood
<1>2. t \in Tasks /\ Pushed(st, t, s2) /\ s2 \in Seq(Tasks)
  BY MadeBuffer, PushedAppend
<1>3. z \in Node /\ z \notin Object /\ h.rc[z] \in Int /\ v \in Int
  BY <1>0, <1>1, Apartness DEF Heaps
<1>4. /\ g \in Heaps
      /\ g.type = h.type /\ g.kids = h.kids /\ g.obj = h.obj /\ g.col = h.col
      /\ g.addr = h.addr /\ g.done = h.done /\ g.roots = h.roots
      /\ g.rc[z] = v /\ \A y \in Node : y # z => g.rc[y] = h.rc[y]
  <2>1. RcOf(g, h, z, v)
    BY <1>1, <1>3, RcFields
  <2> QED
    BY <2>1 DEF RcOf
<1>5. \A y : Holds(t, y) <=> y = z
  BY HoldsBuffer
<1> HIDE DEF t, s2, g
<1>6. \A o \in Object : g.rc[o] = h.rc[o]
  BY <1>3, <1>4, Apartness
<1>7. Kinds(g)
  <2>1. h.type[z] # "free"
    <3>1. Len(st) + 1 \in 1 .. Len(s2) /\ s2[Len(st) + 1] = t
      BY <1>2 DEF Pushed
    <3>2. h.rc[z] > 0
      BY <1>1, <1>2, <1>3, <1>5, <3>1, CountsType
    <3> QED
      BY <1>1, <1>2, <1>3, <3>2, CountsType
  <2> QED
    BY <1>0, <1>1, <1>3, <1>4, <2>1 DEF Kinds
<1>8. Rooted(g)
  BY <1>1, <1>4, <1>6 DEF Rooted
<1>9. Exact(g, hd, st)
  <2> SUFFICES ASSUME NEW y \in Node PROVE g.rc[y] = RefsOf(g, hd, st, y)
    BY DEF Exact
  <2>0. \A c \in Node : Counted(g, c) = Counted(h, c)
    BY <1>4, CountedSame
  <2>1. RefsOf(g, hd, st, y) = RefsOf(h, hd, st, y)
    BY <2>0, RefsSame
  <2>2. RefsOf(h, hd, s2, y) = RefsOf(h, hd, st, y) + (IF Holds(t, y) THEN 1 ELSE 0)
    BY <1>2, RefsPush DEF s2
  <2>3. h.rc[y] = RefsOf(h, hd, s2, y) /\ RefsOf(h, hd, st, y) \in Nat
    BY <1>1, RefsType DEF Exact
  <2> QED
    BY <1>0, <1>3, <1>4, <1>5, <2>1, <2>2, <2>3
<1>10. Shape(g, hd, st, {})
  <2>1. Shape(h, hd, st, {})
    BY <1>1, <1>2, PopKeeps DEF IsList, t
  <2>2. Used(h, st)
    <3>1. Used(h, s2) /\ Len(st) \in Nat
      BY <1>1, <1>2, UsedNow
    <3> QED
      BY <1>2, <3>1, UsedBelow
  <2>3. \A o \in Object : g.rc[o] = h.rc[o] /\ g.addr[o] # "list"
    BY <1>4, <1>6, <2>1 DEF Shape, Lists
  <2>4. \A y \in Zval : h.addr[y] = "list" => g.col[y] = "black"
    BY <1>4, <2>1 DEF Shape, Lists
  <2>5. \A j \in 1 .. Len(st) : st[j][1] = "gone" => g.addr[st[j][2]] # "root"
    BY <1>4, <2>1 DEF Shape, Calls
  <2>6. \A j \in 1 .. Len(st) : st[j][1] = "efree" => g.addr[st[j][2]] = "null"
    BY <1>4, <2>1 DEF Shape, Dying
  <2> QED
    BY <1>1, <1>4, <2>1, <2>2, <2>3, <2>4, <2>5, <2>6, SameShape
<1> QED
  BY <1>0, <1>1, <1>4, <1>7, <1>8, <1>9, <1>10 DEF Good, AlmostGood, g

\* What is dropped one after the other.
LEMMA SplitDrop ==
    ASSUME NEW h, NEW hd, NEW st \in Seq(Tasks), NEW S \in SUBSET Zval, NEW z \in S,
           Good(h, hd, Append(st, <<"drop", S>>))
    PROVE  st \o Drops(S \ {z}) \in Seq(Tasks) /\ Good(h, hd, Append(st \o Drops(S \ {z}), <<"drop", {z}>>))
<1> DEFINE R == S \ {z}
<1>1. CASE R = {}
  <2>1. S = {z} /\ Drops(R) = <<>>
    BY <1>1 DEF Drops
  <2>2. st \o <<>> = st
    OBVIOUS
  <2> QED
    BY <2>1, <2>2
<1>2. CASE R # {}
  <2> DEFINE t == <<"drop", S>>  a == <<"drop", R>>  b == <<"drop", {z}>>
             s2 == Append(st, t)  s3 == Append(st, a)  s4 == Append(s3, b)
  <2>1. /\ h \in Heaps /\ hd \in SUBSET Zval /\ Kinds(h) /\ Rooted(h) /\ Exact(h, hd, s2)
        /\ Shape(h, hd, s2, {})
    BY DEF Good, AlmostGood
  <2>2. Drops(R) = <<a>> /\ st \o <<a>> = Append(st, a)
    BY <1>2 DEF Drops
  <2>3. t \in Tasks /\ a \in Tasks /\ b \in Tasks /\ Pushed(st, t, s2)
    <3>1. z \in Zval /\ R \in SUBSET Zval /\ S # {}
      OBVIOUS
    <3>2. t \in Tasks /\ a \in Tasks /\ b \in Tasks
      BY <1>2, <3>1, MadeDrop, DropTask
    <3> QED
      BY <3>2, PushedAppend
  <2>4. s3 \in Seq(Tasks) /\ s4 \in Seq(Tasks) /\ s2 \in Seq(Tasks)
    BY <2>3
  <2>5. \A x : (Holds(t, x) <=> x \in S) /\ (Holds(a, x) <=> x \in R) /\ (Holds(b, x) <=> x = z)
    BY HoldsDrop
  <2>6. Exact(h, hd, s4)
    <3> SUFFICES ASSUME NEW x \in Node PROVE h.rc[x] = RefsOf(h, hd, s4, x)
      BY DEF Exact
    <3>1. RefsOf(h, hd, s2, x) = RefsOf(h, hd, st, x) + (IF Holds(t, x) THEN 1 ELSE 0)
      BY <2>3, RefsPush
    <3>2. RefsOf(h, hd, s3, x) = RefsOf(h, hd, st, x) + (IF Holds(a, x) THEN 1 ELSE 0)
      BY <2>3, RefsPush
    <3>3. RefsOf(h, hd, s4, x) = RefsOf(h, hd, s3, x) + (IF Holds(b, x) THEN 1 ELSE 0)
      <4> HIDE DEF s3, a, b, t
      <4> QED
        BY <2>3, <2>4, RefsPush
    <3>4. h.rc[x] = RefsOf(h, hd, s2, x) /\ RefsOf(h, hd, st, x) \in Nat
      BY <2>1, RefsType DEF Exact
    <3> HIDE DEF s2, s3, s4, t, a, b
    <3> QED
      BY <2>5, <3>1, <3>2, <3>3, <3>4
  <2>7. Shape(h, hd, st, {})
    BY <2>1, <2>3, PopKeeps DEF IsList
  <2>8. \A j \in 1 .. Len(st) : st[j][1] = "efree" => st[j][2] \notin S
    <3>1. Len(st) + 1 \in 1 .. Len(s2) /\ s2[Len(st) + 1][1] = "drop" /\ s2[Len(st) + 1][2] = S
      OBVIOUS
    <3>2. \A j \in 1 .. Len(st) : j \in 1 .. Len(s2) /\ s2[j] = st[j]
      OBVIOUS
    <3> HIDE DEF s2
    <3> QED
      BY <2>1, <3>1, <3>2 DEF Shape, Dying
  <2>9. Shape(h, hd, s3, {})
    <3>1. Fits(h, hd, st, a)
      BY <2>8 DEF Fits, IsList
    <3> QED
      BY <2>3, <2>7, <3>1, TaskPush
  <2>10. Shape(h, hd, s4, {})
    <3>1. \A j \in 1 .. Len(s3) : s3[j][1] = "efree" => s3[j][2] \notin {z}
      <4>1. \A j \in 1 .. Len(s3) : (j \in 1 .. Len(st) /\ s3[j] = st[j]) \/ s3[j] = a
        OBVIOUS
      <4>2. a[1] # "efree"
        OBVIOUS
      <4> HIDE DEF s3, a
      <4> QED
        BY <2>8, <4>1, <4>2
    <3>2. Fits(h, hd, s3, b)
      BY <3>1 DEF Fits, IsList
    <3> QED
      BY <2>3, <2>4, <2>9, <3>2, TaskPush
  <2> QED
    BY <2>1, <2>2, <2>4, <2>6, <2>10 DEF Good, AlmostGood
<1> QED
  BY <1>1, <1>2

\* A variable lets go of what it refers to.
LEMMA UnsetHold ==
    ASSUME NEW h, NEW hd, NEW st, NEW z \in hd, Good(h, hd, st)
    PROVE  Good(h, hd \ {z}, Append(st, <<"drop", {z}>>))
<1> DEFINE t == <<"drop", {z}>>  s2 == Append(st, t)
<1>1. /\ h \in Heaps /\ hd \in SUBSET Zval /\ st \in Seq(Tasks) /\ Kinds(h) /\ Rooted(h)
      /\ Exact(h, hd, st) /\ Shape(h, hd, st, {})
  BY DEF Good, AlmostGood
<1>2. t \in Tasks /\ s2 \in Seq(Tasks)
  BY <1>1, DropTask
<1>3. Exact(h, hd \ {z}, s2)
  <2> SUFFICES ASSUME NEW x \in Node PROVE h.rc[x] = RefsOf(h, hd \ {z}, s2, x)
    BY DEF Exact
  <2>1. RefsOf(h, hd \ {z}, s2, x) = RefsOf(h, hd \ {z}, st, x) + (IF Holds(t, x) THEN 1 ELSE 0)
    BY <1>1, <1>2, RefsPush
  <2>2. RefsOf(h, hd \ {z}, st, x) = RefsOf(h, hd, st, x) - (IF x = z THEN 1 ELSE 0)
    BY <1>1, RefsSet
  <2>3. Holds(t, x) <=> x = z
    BY HoldsDrop
  <2>4. h.rc[x] = RefsOf(h, hd, st, x) /\ RefsOf(h, hd, st, x) \in Nat
    BY <1>1, RefsType DEF Exact
  <2> HIDE DEF s2, t
  <2> QED
    BY <2>1, <2>2, <2>3, <2>4
<1>4. Shape(h, hd \ {z}, st, {})
  <2>1. Used(h, st)
    BY <1>1, UsedNow
  <2>2. \A o \in Object : h.addr[o] # "list"
    BY <1>1 DEF Shape, Lists
  <2>3. \A y \in Zval : h.addr[y] = "list" => h.col[y] = "black"
    BY <1>1 DEF Shape, Lists
  <2>4. \A j \in 1 .. Len(st) : st[j][1] = "gone" => h.addr[st[j][2]] # "root"
    BY <1>1 DEF Shape, Calls
  <2>5. \A j \in 1 .. Len(st) : st[j][1] = "efree" => h.addr[st[j][2]] = "null"
    BY <1>1 DEF Shape, Dying
  <2> QED
    BY <1>1, <2>1, <2>2, <2>3, <2>4, <2>5, SameShape
<1>5. \A j \in 1 .. Len(st) : st[j][1] = "efree" => st[j][2] \notin {z}
  BY <1>1 DEF Shape, Dying
<1>6. Shape(h, hd \ {z}, s2, {})
  <2>1. Fits(h, hd \ {z}, st, t)
    BY <1>5 DEF Fits, IsList
  <2> QED
    BY <1>1, <1>2, <1>4, <2>1, TaskPush
<1> QED
  BY <1>1, <1>2, <1>3, <1>6 DEF Good, AlmostGood

\* A step that changes one node that is in no list.
OnlyAt(g, h, x) ==
    /\ \A y \in Node : y # x => /\ g.type[y] = h.type[y] /\ g.kids[y] = h.kids[y]
                                /\ g.rc[y] = h.rc[y] /\ g.col[y] = h.col[y] /\ g.addr[y] = h.addr[y]
    /\ \A z \in Zval : z # x => g.obj[z] = h.obj[z]
    /\ \A o \in Object : o # x => g.done[o] = h.done[o]
Bears(h, g, hd, hd2, st, but, x) ==
    /\ h.addr[x] # "list" /\ g.addr[x] # "list"
    /\ \A z \in g.kids[x] :
          z \in h.kids[x] \/ (h.addr[z] # "list" /\ \A j \in 1 .. Len(st) : st[j] # <<"efree", z>>)
    /\ \A z \in hd2 :
          z \in hd \/ (h.addr[z] # "list" /\ \A j \in 1 .. Len(st) : st[j] # <<"efree", z>>)
    /\ x \in Object =>
          /\ Rests(g, x) => Rests(h, x)
          /\ h.rc[x] = 0 => g.rc[x] = 0 \/ g.kids[x] = {} \/ x \in but
          /\ h.done[x] /\ g.type[x] = "valid" => g.done[x]
          /\ g.type[x] = "valid" \/ \A j \in 1 .. Len(st) : st[j] # <<"user", x>>
          /\ \A j \in 1 .. Len(st) : st[j] # <<"gone", x>>
    /\ x \in Zval =>
          /\ \A j \in 1 .. Len(st) : st[j] # <<"efree", x>>
          /\ \/ g.type[x] = h.type[x] /\ g.obj[x] = h.obj[x]
             \/ \A j \in 1 .. Len(st) : st[j][1] = "buffer" => st[j][3] # x

\* The shape stays when one node changes that is in no list.
LEMMA OneNode ==
    ASSUME NEW h \in Heaps, NEW g \in Heaps, NEW hd, NEW hd2, NEW st \in Seq(Tasks), NEW was, NEW but,
           NEW x \in Node, Shape(h, hd, st, was), Used(h, st), OnlyAt(g, h, x),
           \A c \in Node : c \in was => c \in but \/ g.kids[c] = {},
           Bears(h, g, hd, hd2, st, but, x)
    PROVE  Shape(g, hd2, st, but)
<1>1. Lists(h, st) /\ Calls(h, st) /\ Dying(h, hd, st)
  BY DEF Shape
<1>2. AlikeLists(h, g, hd, hd2, st, but)
  <2>1. \A z \in Zval : g.addr[z] = "list" <=> h.addr[z] = "list"
    BY Apartness DEF OnlyAt, Bears
  <2>2. \A o \in Object : g.addr[o] # "list"
    BY <1>1, Apartness DEF OnlyAt, Bears, Lists
  <2>3. ASSUME NEW z \in Zval, h.addr[z] = "list"
        PROVE  /\ g.col[z] = "black" /\ (z \in hd2 => z \in hd)
               /\ g.type[z] = h.type[z] /\ g.obj[z] = h.obj[z]
    <3>1. z # x /\ z \in Node
      BY <2>3, Apartness DEF Bears
    <3> QED
      BY <1>1, <2>3, <3>1 DEF OnlyAt, Bears, Lists
  <2> QED
    BY <2>1, <2>2, <2>3 DEF AlikeLists, To
<1>3. AlikeKids(h, g, st)
  BY DEF AlikeKids, OnlyAt, Bears
<1>4. AlikeObjects(h, g, st, but)
  BY Apartness DEF AlikeObjects, OnlyAt, Bears, Rests
<1>5. AlikeTasks(h, g, hd2, st)
  <2> SUFFICES ASSUME NEW j \in 1 .. Len(st)
               PROVE  /\ st[j][1] = "user" => g.type[st[j][2]] = "valid"
                      /\ st[j][1] = "gone" =>
                            /\ g.type[st[j][2]] = "valid" /\ g.kids[st[j][2]] = {}
                            /\ g.rc[st[j][2]] = 1 /\ g.addr[st[j][2]] # "root"
                      /\ st[j][1] = "efree" =>
                            /\ g.type[st[j][2]] = "null" /\ g.addr[st[j][2]] = "null"
                            /\ st[j][2] \notin hd2 /\ g.obj[st[j][2]] = h.obj[st[j][2]]
                      /\ st[j][1] = "buffer" =>
                            \/ g.type[st[j][3]] = h.type[st[j][3]] /\ g.obj[st[j][3]] = h.obj[st[j][3]]
                            \/ st[j][2] \in Object /\ g.type[st[j][3]] = "null"
    BY DEF AlikeTasks
  <2>0. st[j] \in Tasks
    OBVIOUS
  <2>1. ASSUME st[j][1] = "user" PROVE g.type[st[j][2]] = "valid"
    <3>1. st[j] = <<"user", st[j][2]>> /\ st[j][2] \in Object /\ st[j][2] \in Node
      BY <2>0, <2>1, TaskType, Apartness
    <3>2. h.type[st[j][2]] = "valid"
      BY <2>1 DEF Used
    <3> QED
      BY <3>1, <3>2 DEF OnlyAt, Bears
  <2>2. ASSUME st[j][1] = "gone"
        PROVE  /\ g.type[st[j][2]] = "valid" /\ g.kids[st[j][2]] = {}
               /\ g.rc[st[j][2]] = 1 /\ g.addr[st[j][2]] # "root"
    <3>1. st[j] = <<"gone", st[j][2]>> /\ st[j][2] \in Object /\ st[j][2] \in Node
      BY <2>0, <2>2, TaskType, Apartness
    <3>2. st[j][2] # x
      BY <3>1 DEF Bears
    <3>3. /\ h.type[st[j][2]] = "valid" /\ h.kids[st[j][2]] = {}
          /\ h.rc[st[j][2]] = 1 /\ h.addr[st[j][2]] # "root"
      BY <1>1, <2>2 DEF Calls
    <3> QED
      BY <3>1, <3>2, <3>3 DEF OnlyAt
  <2>3. ASSUME st[j][1] = "efree"
        PROVE  /\ g.type[st[j][2]] = "null" /\ g.addr[st[j][2]] = "null"
               /\ st[j][2] \notin hd2 /\ g.obj[st[j][2]] = h.obj[st[j][2]]
    <3>1. st[j] = <<"efree", st[j][2]>> /\ st[j][2] \in Zval /\ st[j][2] \in Node
      BY <2>0, <2>3, TaskType, Apartness
    <3>2. st[j][2] # x
      BY <3>1 DEF Bears
    <3>3. h.type[st[j][2]] = "null" /\ h.addr[st[j][2]] = "null" /\ st[j][2] \notin hd
      BY <1>1, <2>3 DEF Dying
    <3> QED
      BY <3>1, <3>2, <3>3 DEF OnlyAt, Bears
  <2>4. ASSUME st[j][1] = "buffer"
        PROVE  g.type[st[j][3]] = h.type[st[j][3]] /\ g.obj[st[j][3]] = h.obj[st[j][3]]
    <3>1. st[j][3] \in Zval /\ st[j][3] \in Node
      BY <2>0, <2>4, TaskType, Apartness
    <3> QED
      BY <2>4, <3>1 DEF OnlyAt, Bears
  <2> QED
    BY <2>1, <2>2, <2>3, <2>4
<1> QED
  BY <1>2, <1>3, <1>4, <1>5, HeapKeeps

\* The counts that such a step leaves right.
LEMMA OneCount ==
    ASSUME NEW h \in Heaps, NEW g \in Heaps, NEW x \in Node, OnlyAt(g, h, x), Kinds(h)
    PROVE  \A y \in Node \ {x} : Counted(g, y) = Counted(h, y)
<1> SUFFICES ASSUME NEW y \in Node, y # x PROVE Counted(g, y) = Counted(h, y)
  OBVIOUS
<1>1. g.type[y] = h.type[y] /\ g.kids[y] = h.kids[y] /\ g.addr[y] = h.addr[y]
  BY DEF OnlyAt
<1>2. CASE y \in Zval
  <2>1. g.obj[y] = h.obj[y]
    BY <1>2 DEF OnlyAt
  <2> QED
    BY <1>1, <2>1, CountedSame
<1>3. CASE y \in Object
  <2>1. h.type[y] # "object"
    BY <1>3 DEF Kinds
  <2> QED
    BY <1>1, <2>1 DEF Counted, Uncounted, Out
<1> QED
  BY <1>2, <1>3, Apartness

\* An element or a property is taken out, or put in.
SetKids(h, c, S) == [h EXCEPT !.kids[c] = S]
KidsOf(g, h, c, S) ==
    /\ g \in Heaps
    /\ g.type = h.type /\ g.rc = h.rc /\ g.obj = h.obj /\ g.col = h.col
    /\ g.addr = h.addr /\ g.done = h.done /\ g.roots = h.roots
    /\ g.kids[c] = S /\ \A y \in Node : y # c => g.kids[y] = h.kids[y]

\* The elements of an array, or the properties of an object, are set.
LEMMA KidsFields ==
    ASSUME NEW h \in Heaps, NEW c \in Node, NEW S \in SUBSET Zval
    PROVE  KidsOf(SetKids(h, c, S), h, c, S)
  BY DEF Heaps, SetKids, KidsOf

\* What a container counts for when its elements change.
LEMMA KidsCounted ==
    ASSUME NEW h \in Heaps, NEW g, NEW c \in Node, NEW S, KidsOf(g, h, c, S), h.type[c] \in {"array", "valid"}
    PROVE  /\ Counted(h, c) = h.kids[c] /\ Counted(g, c) = S
           /\ \A y \in Node \ {c} : Counted(g, y) = Counted(h, y)
  BY DEF KidsOf, Counted, Uncounted, Out

\* What is taken out of a container is held by the one who drops it.
LEMMA UnlinkHold ==
    ASSUME NEW h, NEW hd, NEW st, NEW c \in Node, NEW z \in h.kids[c], Good(h, hd, st)
    PROVE  Good(SetKids(h, c, h.kids[c] \ {z}), hd, Append(st, <<"drop", {z}>>))
<1> DEFINE t == <<"drop", {z}>>  s2 == Append(st, t)  S == h.kids[c] \ {z}  g == SetKids(h, c, S)
<1>1. /\ h \in Heaps /\ hd \in SUBSET Zval /\ st \in Seq(Tasks) /\ Kinds(h) /\ Rooted(h)
      /\ Exact(h, hd, st) /\ Shape(h, hd, st, {})
  BY DEF Good, AlmostGood
<1>2. h.kids[c] \in SUBSET Zval /\ z \in Zval /\ S \in SUBSET Zval
  BY <1>1 DEF Heaps
<1>3. t \in Tasks /\ s2 \in Seq(Tasks)
  BY <1>1, <1>2, DropTask
<1>4. KidsOf(g, h, c, S)
  BY <1>1, <1>2, KidsFields
<1>5. /\ g \in Heaps
      /\ g.type = h.type /\ g.rc = h.rc /\ g.obj = h.obj /\ g.col = h.col
      /\ g.addr = h.addr /\ g.done = h.done /\ g.roots = h.roots
      /\ g.kids[c] = h.kids[c] \ {z} /\ \A y \in Node : y # c => g.kids[y] = h.kids[y]
  BY <1>4 DEF KidsOf
<1>6. h.type[c] \in {"array", "valid"}
  BY <1>1 DEF Kinds
<1>7. /\ Counted(h, c) = h.kids[c] /\ Counted(g, c) = S
      /\ \A y \in Node \ {c} : Counted(g, y) = Counted(h, y)
  <2> HIDE DEF g, S
  <2> QED
    BY <1>1, <1>4, <1>6, KidsCounted
<1>8. \A x : Holds(t, x) <=> x = z
  BY HoldsDrop
<1> HIDE DEF t, s2, g
<1>9. Kinds(g) /\ Rooted(g)
  BY <1>1, <1>5 DEF Kinds, Rooted
<1>10. Exact(g, hd, s2)
  <2> SUFFICES ASSUME NEW x \in Node PROVE g.rc[x] = RefsOf(g, hd, s2, x)
    BY DEF Exact
  <2>1. RefsOf(g, hd, s2, x) = RefsOf(g, hd, st, x) + (IF Holds(t, x) THEN 1 ELSE 0)
    BY <1>1, <1>3, RefsPush DEF s2
  <2>2. RefsOf(g, hd, st, x) = RefsOf(h, hd, st, x) - (IF x \in Counted(h, c) THEN 1 ELSE 0)
                                  + (IF x \in Counted(g, c) THEN 1 ELSE 0)
    BY <1>1, <1>7, RefsNode
  <2>3. h.rc[x] = RefsOf(h, hd, st, x) /\ RefsOf(h, hd, st, x) \in Nat
    BY <1>1, RefsType DEF Exact
  <2> QED
    BY <1>5, <1>7, <1>8, <2>1, <2>2, <2>3
<1>11. Shape(g, hd, s2, {})
  <2>1. Used(h, st)
    BY <1>1, UsedNow
  <2>2. AlikeKids(h, g, st)
    BY <1>5 DEF AlikeKids
  <2>3. \A o \in Object : g.rc[o] = h.rc[o] /\ g.addr[o] # "list"
    BY <1>1, <1>5 DEF Shape, Lists
  <2>4. \A y \in Zval : h.addr[y] = "list" => g.col[y] = "black"
    BY <1>1, <1>5 DEF Shape, Lists
  <2>5. ASSUME NEW j \in 1 .. Len(st), st[j][1] = "gone"
        PROVE  g.addr[st[j][2]] # "root" /\ g.kids[st[j][2]] = {}
    <3>1. st[j][2] \in Node
      BY <1>1, <2>5, TaskType, Apartness
    <3>2. h.addr[st[j][2]] # "root" /\ h.kids[st[j][2]] = {}
      BY <1>1, <2>5 DEF Shape, Calls
    <3> QED
      BY <1>5, <3>1, <3>2
  <2>6. \A j \in 1 .. Len(st) : st[j][1] = "efree" => g.addr[st[j][2]] = "null"
    BY <1>1, <1>5 DEF Shape, Dying
  <2>7. Shape(g, hd, st, {})
    BY SMTT(60), <1>1, <1>5, <2>1, <2>2, <2>3, <2>4, <2>5, <2>6, KidsShape
  <2>8. \A j \in 1 .. Len(st) : st[j][1] = "efree" => st[j][2] \notin {z}
    BY <1>1 DEF Shape, Dying
  <2>9. Fits(g, hd, st, t)
    BY <2>8 DEF Fits, IsList, t
  <2> QED
    BY <1>1, <1>3, <2>7, <2>9, TaskPush DEF s2
<1> QED
  BY <1>1, <1>3, <1>5, <1>9, <1>10, <1>11 DEF Good, AlmostGood, g, s2, t

\* What is put into a container has one reference more.
LEMMA LinkGood ==
    ASSUME NEW h, NEW hd, NEW st, NEW c \in Node, NEW z \in Zval, Good(h, hd, st),
           h.type[c] \in {"array", "valid"}, z \notin h.kids[c], h.type[z] # "free", h.addr[z] # "list",
           \A j \in 1 .. Len(st) : st[j] # <<"gone", c>> /\ st[j] # <<"efree", z>>
    PROVE  Good(SetRc(SetKids(h, c, h.kids[c] \cup {z}), z, h.rc[z] + 1), hd, st)
<1>0. PICK v : v = h.rc[z] + 1
  OBVIOUS
<1> DEFINE S == h.kids[c] \cup {z}  f == SetKids(h, c, S)  g == SetRc(f, z, v)
<1>1. /\ h \in Heaps /\ hd \in SUBSET Zval /\ st \in Seq(Tasks) /\ Kinds(h) /\ Rooted(h)
      /\ Exact(h, hd, st) /\ Shape(h, hd, st, {})
  BY DEF Good, AlmostGood
<1>2. S \in SUBSET Zval /\ z \in Node /\ z \notin Object /\ h.rc[z] \in Int /\ v \in Int
  BY <1>0, <1>1, Apartness DEF Heaps
<1>3. KidsOf(f, h, c, S)
  BY <1>1, <1>2, KidsFields
<1>4. f \in Heaps
  BY <1>3 DEF KidsOf
<1>5. RcOf(g, f, z, v)
  BY <1>2, <1>4, RcFields
<1>6. /\ g \in Heaps
      /\ g.type = h.type /\ g.obj = h.obj /\ g.col = h.col
      /\ g.addr = h.addr /\ g.done = h.done /\ g.roots = h.roots
      /\ g.kids[c] = h.kids[c] \cup {z} /\ \A y \in Node : y # c => g.kids[y] = h.kids[y]
      /\ g.rc[z] = v /\ \A y \in Node : y # z => g.rc[y] = h.rc[y]
  BY <1>3, <1>5 DEF KidsOf, RcOf
<1>7. /\ Counted(h, c) = h.kids[c] /\ Counted(f, c) = S
      /\ \A y \in Node \ {c} : Counted(f, y) = Counted(h, y)
  <2> HIDE DEF f, S
  <2> QED
    BY <1>1, <1>3, KidsCounted
<1>8. \A y \in Node : Counted(g, y) = Counted(f, y)
  BY <1>5, CountedSame DEF RcOf
<1> HIDE DEF f, g
<1>9. \A o \in Object : g.rc[o] = h.rc[o]
  BY <1>2, <1>6, Apartness
<1>10. Kinds(g)
  BY <1>1, <1>6 DEF Kinds
<1>11. Rooted(g)
  BY <1>1, <1>6, <1>9 DEF Rooted
<1>12. Exact(g, hd, st)
  <2> SUFFICES ASSUME NEW x \in Node PROVE g.rc[x] = RefsOf(g, hd, st, x)
    BY DEF Exact
  <2>1. RefsOf(g, hd, st, x) = RefsOf(f, hd, st, x)
    BY <1>8, RefsSame
  <2>2. RefsOf(f, hd, st, x) = RefsOf(h, hd, st, x) - (IF x \in Counted(h, c) THEN 1 ELSE 0)
                                  + (IF x \in Counted(f, c) THEN 1 ELSE 0)
    BY <1>1, <1>7, RefsNode
  <2>3. h.rc[x] = RefsOf(h, hd, st, x) /\ RefsOf(h, hd, st, x) \in Nat
    BY <1>1, RefsType DEF Exact
  <2> QED
    BY <1>0, <1>6, <1>7, <2>1, <2>2, <2>3
<1>13. Shape(g, hd, st, {})
  <2>1. Used(h, st)
    BY <1>1, UsedNow
  <2>2. AlikeKids(h, g, st)
    BY <1>6 DEF AlikeKids
  <2>3. \A o \in Object : g.rc[o] = h.rc[o] /\ g.addr[o] # "list"
    BY <1>1, <1>6, <1>9 DEF Shape, Lists
  <2>4. \A y \in Zval : h.addr[y] = "list" => g.col[y] = "black"
    BY <1>1, <1>6 DEF Shape, Lists
  <2>5. ASSUME NEW j \in 1 .. Len(st), st[j][1] = "gone"
        PROVE  g.addr[st[j][2]] # "root" /\ g.kids[st[j][2]] = {}
    <3>1. st[j] = <<"gone", st[j][2]>> /\ st[j][2] \in Node
      BY <1>1, <2>5, TaskType, Apartness
    <3>2. h.addr[st[j][2]] # "root" /\ h.kids[st[j][2]] = {}
      BY <1>1, <2>5 DEF Shape, Calls
    <3>3. st[j][2] # c
      BY <3>1
    <3> QED
      BY <1>6, <3>1, <3>2, <3>3
  <2>6. \A j \in 1 .. Len(st) : st[j][1] = "efree" => g.addr[st[j][2]] = "null"
    BY <1>1, <1>6 DEF Shape, Dying
  <2> QED
    BY <1>1, <1>6, <2>1, <2>2, <2>3, <2>4, <2>5, <2>6, KidsShape
<1> QED
  BY <1>0, <1>1, <1>6, <1>10, <1>11, <1>12, <1>13 DEF Good, AlmostGood, g, f

\* What an object that is referred to by a task of its own has to be.
LEMMA ObjectHeld ==
    ASSUME NEW h \in Heaps, NEW hd, NEW st \in Seq(Tasks), Kinds(h), Exact(h, hd, st), NEW o \in Object,
           NEW k \in 1 .. Len(st), Holds(st[k], o)
    PROVE  h.type[o] = "valid" /\ h.rc[o] \in Nat /\ h.rc[o] > 0 /\ o \in Node
<1>1. o \in Node
  BY Apartness
<1>2. h.rc[o] > 0 /\ h.rc[o] \in Nat /\ h.type[o] # "free"
  BY <1>1, CountsType
<1> QED
  BY <1>1, <1>2 DEF Kinds

\* A stack with a task more, element by element.
LEMMA AppendAt ==
    ASSUME NEW st \in Seq(Tasks), NEW t \in Tasks
    PROVE  /\ Append(st, t) \in Seq(Tasks) /\ Len(st) + 1 \in 1 .. Len(Append(st, t))
           /\ Append(st, t)[Len(st) + 1] = t /\ Len(st) \in Nat
           /\ \A j \in 1 .. Len(st) : /\ j \in 1 .. Len(Append(st, t)) /\ Append(st, t)[j] = st[j]
                                      /\ j # Len(st) + 1
  OBVIOUS

\* A reference of a zval that is gone is dropped, and it was not the last one.
LEMMA ReleaseDec ==
    ASSUME NEW h, NEW hd, NEW st \in Seq(Tasks), NEW o \in Object,
           Good(h, hd, Append(st, <<"delref", o>>)), h.type[o] # "valid" \/ h.rc[o] # 1
    PROVE  Good(SetRc(h, o, h.rc[o] - 1), hd, st)
<1>0. PICK v : v = h.rc[o] - 1
  OBVIOUS
<1> DEFINE t == <<"delref", o>>  s2 == Append(st, t)  g == SetRc(h, o, v)
<1>1. /\ h \in Heaps /\ hd \in SUBSET Zval /\ Kinds(h) /\ Rooted(h) /\ Exact(h, hd, s2)
      /\ Shape(h, hd, s2, {})
  BY DEF Good, AlmostGood
<1>2. t \in Tasks /\ Pushed(st, t, s2) /\ s2 \in Seq(Tasks) /\ ~IsList(t) /\ t[1] # "user"
  <2>1. t \in Tasks /\ ~IsList(t) /\ t[1] # "user"
    BY MadeObject DEF IsList
  <2> QED
    BY <2>1, PushedAppend
<1>3. \A x : Holds(t, x) <=> x = o
  BY HoldsObject
<1>4. Len(st) + 1 \in 1 .. Len(s2) /\ s2[Len(st) + 1] = t /\ Len(st) \in Nat
  BY <1>2, AppendAt
<1> HIDE DEF t, s2
<1>5. h.type[o] = "valid" /\ h.rc[o] \in Nat /\ h.rc[o] > 0 /\ o \in Node
  <2>1. Holds(s2[Len(st) + 1], o)
    BY <1>3, <1>4
  <2> QED
    BY <1>1, <1>2, <1>4, <2>1, ObjectHeld
<1>6. h.rc[o] > 1 /\ v \in Nat /\ v > 0 /\ v \in Int
  BY <1>0, <1>5
<1>7. RcOf(g, h, o, v)
  BY <1>1, <1>5, <1>6, RcFields
<1> HIDE DEF g
<1>8. /\ g \in Heaps
      /\ g.type = h.type /\ g.kids = h.kids /\ g.obj = h.obj /\ g.col = h.col
      /\ g.addr = h.addr /\ g.done = h.done /\ g.roots = h.roots
      /\ g.rc[o] = v /\ \A y \in Node : y # o => g.rc[y] = h.rc[y]
  BY <1>7 DEF RcOf
<1>9. Kinds(g)
  BY <1>1, <1>5, <1>8 DEF Kinds
<1>10. Rooted(g)
  BY <1>1, <1>6, <1>8 DEF Rooted
<1>11. Exact(g, hd, st)
  <2> SUFFICES ASSUME NEW y \in Node PROVE g.rc[y] = RefsOf(g, hd, st, y)
    BY DEF Exact
  <2>0. \A c \in Node : Counted(g, c) = Counted(h, c)
    BY <1>8, CountedSame
  <2>1. RefsOf(g, hd, st, y) = RefsOf(h, hd, st, y)
    BY <2>0, RefsSame
  <2>2. RefsOf(h, hd, s2, y) = RefsOf(h, hd, st, y) + (IF Holds(t, y) THEN 1 ELSE 0)
    BY <1>2, RefsPush DEF s2
  <2>3. h.rc[y] = RefsOf(h, hd, s2, y) /\ RefsOf(h, hd, st, y) \in Nat
    BY <1>1, RefsType DEF Exact
  <2> QED
    BY <1>0, <1>3, <1>8, <2>1, <2>2, <2>3
<1>12. Shape(g, hd, st, {})
  <2>1. Shape(h, hd, st, {})
    BY <1>1, <1>2, PopKeeps
  <2>2. Used(h, st)
    <3>1. Used(h, s2)
      BY <1>1, <1>2, UsedNow
    <3> QED
      BY <1>2, <1>4, <3>1, UsedBelow
  <2>3. OnlyAt(g, h, o)
    BY <1>8 DEF OnlyAt
  <2>4. h.addr[o] # "list" /\ \A j \in 1 .. Len(st) : st[j] # <<"gone", o>>
    <3>1. \A j \in 1 .. Len(st) : st[j][1] = "gone" => h.rc[st[j][2]] = 1
      BY <2>1 DEF Shape, Calls
    <3>2. ASSUME NEW j \in 1 .. Len(st), st[j] = <<"gone", o>> PROVE FALSE
      <4>1. st[j][1] = "gone" /\ st[j][2] = o
        BY <3>2
      <4> QED
        BY <1>6, <3>1, <4>1
    <3> QED
      BY <2>1, <3>2 DEF Shape, Lists
  <2>5. Bears(h, g, hd, hd, st, {}, o)
    BY <1>5, <1>6, <1>8, <2>4, Apartness DEF Bears, Rests
  <2> QED
    BY <1>1, <1>5, <1>8, <2>1, <2>2, <2>3, <2>5, OneNode
<1> QED
  BY <1>0, <1>1, <1>8, <1>9, <1>10, <1>11, <1>12 DEF Good, AlmostGood, g

\* The destructor is called.
SetDone(h, o) == [h EXCEPT !.done[o] = TRUE]

\* destructor_called is set.
LEMMA DoneFields ==
    ASSUME NEW h \in Heaps, NEW o \in Object
    PROVE  /\ SetDone(h, o) \in Heaps
           /\ SetDone(h, o).type = h.type /\ SetDone(h, o).kids = h.kids /\ SetDone(h, o).obj = h.obj
           /\ SetDone(h, o).rc = h.rc /\ SetDone(h, o).addr = h.addr /\ SetDone(h, o).col = h.col
           /\ SetDone(h, o).roots = h.roots /\ SetDone(h, o).done[o] = TRUE
           /\ \A y \in Object : y # o => SetDone(h, o).done[y] = h.done[y]
  BY DEF Heaps, SetDone

\* The last reference goes, and the destructor is called with one of its own.
LEMMA ReleaseUser ==
    ASSUME NEW h, NEW hd, NEW st \in Seq(Tasks), NEW o \in Object,
           Good(h, hd, Append(st, <<"delref", o>>)), h.rc[o] = 1
    PROVE  Good(SetRc(SetDone(h, o), o, h.rc[o] + 1), hd, Append(Append(st, <<"delref", o>>), <<"user", o>>))
<1>0. PICK v : v = h.rc[o] + 1
  OBVIOUS
<1> DEFINE t == <<"delref", o>>  s2 == Append(st, t)  u == <<"user", o>>  s3 == Append(s2, u)
           f == SetDone(h, o)  g == SetRc(f, o, v)
<1>1. /\ h \in Heaps /\ hd \in SUBSET Zval /\ Kinds(h) /\ Rooted(h) /\ Exact(h, hd, s2)
      /\ Shape(h, hd, s2, {}) /\ s2 \in Seq(Tasks)
  BY DEF Good, AlmostGood
<1>2. t \in Tasks /\ u \in Tasks
  BY MadeObject
<1>3. \A x : (Holds(t, x) <=> x = o) /\ (Holds(u, x) <=> x = o)
  BY HoldsObject
<1>4. /\ Len(st) + 1 \in 1 .. Len(s2) /\ s2[Len(st) + 1] = t /\ Len(st) \in Nat
      /\ Len(s2) = Len(st) + 1
  BY <1>2, AppendAt
<1>5. v \in Int /\ v = 2 /\ o \in Node
  BY <1>0, Apartness
<1>6. /\ f \in Heaps /\ f.type = h.type /\ f.kids = h.kids /\ f.obj = h.obj /\ f.rc = h.rc
      /\ f.addr = h.addr /\ f.col = h.col /\ f.roots = h.roots /\ f.done[o] = TRUE
      /\ \A y \in Object : y # o => f.done[y] = h.done[y]
  BY <1>1, DoneFields
<1> HIDE DEF s2, f
<1>7. RcOf(g, f, o, v)
  BY <1>5, <1>6, RcFields
<1> HIDE DEF g
<1>8. /\ g \in Heaps
      /\ g.type = h.type /\ g.kids = h.kids /\ g.obj = h.obj /\ g.col = h.col
      /\ g.addr = h.addr /\ g.roots = h.roots /\ g.done[o] = TRUE
      /\ \A y \in Object : y # o => g.done[y] = h.done[y]
      /\ g.rc[o] = v /\ \A y \in Node : y # o => g.rc[y] = h.rc[y]
  BY <1>6, <1>7 DEF RcOf
<1>9. Holds(s2[Len(st) + 1], o)
  BY <1>3, <1>4
<1>10. h.type[o] = "valid"
  BY <1>1, <1>4, <1>9, ObjectHeld
<1>11. Kinds(g)
  BY <1>1, <1>8, <1>10 DEF Kinds
<1>12. Rooted(g)
  BY <1>1, <1>5, <1>8 DEF Rooted
<1>13. s3 \in Seq(Tasks)
  BY <1>1, <1>2
<1>14. Exact(g, hd, s3)
  <2> SUFFICES ASSUME NEW y \in Node PROVE g.rc[y] = RefsOf(g, hd, s3, y)
    BY DEF Exact
  <2>0. \A c \in Node : Counted(g, c) = Counted(h, c)
    BY <1>8, CountedSame
  <2>1. RefsOf(g, hd, s3, y) = RefsOf(h, hd, s3, y)
    BY <2>0, RefsSame
  <2>2. RefsOf(h, hd, s3, y) = RefsOf(h, hd, s2, y) + (IF Holds(u, y) THEN 1 ELSE 0)
    BY <1>1, <1>2, RefsPush
  <2>3. h.rc[y] = RefsOf(h, hd, s2, y) /\ RefsOf(h, hd, s2, y) \in Nat
    BY <1>1, RefsType DEF Exact
  <2> HIDE DEF s3, u
  <2> QED
    BY <1>0, <1>3, <1>8, <2>1, <2>2, <2>3
<1>15. Shape(g, hd, s2, {})
  <2>1. Used(h, s2)
    BY <1>1, UsedNow
  <2>2. OnlyAt(g, h, o)
    BY <1>8 DEF OnlyAt
  <2>3. h.addr[o] # "list"
    BY <1>1 DEF Shape, Lists
  <2>4. ASSUME NEW j \in 1 .. Len(s2), s2[j] = <<"gone", o>> PROVE FALSE
    <3>1. Holds(s2[j], o)
      BY <2>4, HoldsObject
    <3>2. j = Len(st) + 1
      <4>1. PICK k \in 1 .. Len(s2) : k = Len(st) + 1
        BY <1>4
      <4>2. Holds(s2[k], o)
        BY <1>9, <4>1
      <4> QED
        BY <1>1, <1>5, <3>1, <4>1, <4>2, TwoRefs
    <3> QED
      BY <1>4, <2>4, <3>2
  <2>5. Bears(h, g, hd, hd, s2, {}, o)
    BY <1>5, <1>8, <1>10, <2>3, <2>4, Apartness DEF Bears, Rests
  <2> QED
    BY <1>1, <1>5, <1>8, <2>1, <2>2, <2>5, OneNode
<1>16. Shape(g, hd, s3, {})
  <2>1. Len(s2) > 0 /\ s2[Len(s2)] = <<"delref", u[2]>>
    BY <1>4
  <2>2. Fits(g, hd, s2, u)
    BY <2>1 DEF Fits, IsList
  <2> QED
    BY <1>1, <1>2, <1>15, <2>2, TaskPush
<1> QED
  <2>1. Good(g, hd, s3)
    BY <1>1, <1>8, <1>11, <1>12, <1>13, <1>14, <1>16 DEF Good, AlmostGood
  <2> QED
    BY <1>0, <2>1 DEF g, f, s2

\* Sequences of tasks.
LEMMA DropsType == ASSUME NEW S \in SUBSET Zval PROVE Drops(S) \in Seq(Tasks)
<1>1. CASE S = {}
  BY <1>1 DEF Drops
<1>2. CASE S # {}
  <2> DEFINE t == <<"drop", S>>
  <2>1. t \in Tasks
    BY <1>2, MadeDrop
  <2>2. Drops(S) = <<t>>
    BY <1>2 DEF Drops
  <2> HIDE DEF t
  <2> QED
    BY <2>1, <2>2
<1> QED
  BY <1>1, <1>2

\* Tasks pushed one after the other.
LEMMA Sequences ==
    ASSUME NEW st \in Seq(Tasks), NEW t \in Tasks, NEW d \in Seq(Tasks)
    PROVE  /\ st \o <<>> = st /\ st \o <<t>> = Append(st, t)
           /\ st \o (<<t>> \o d) = Append(st, t) \o d
<1>1. st \o <<>> = st /\ st \o <<t>> = Append(st, t)
  OBVIOUS
<1> DEFINE a == st \o (<<t>> \o d)  b == Append(st, t) \o d  n == Len(st)  m == Len(d)
<1>2. n \in Nat /\ m \in Nat
  OBVIOUS
<1>3. a \in Seq(Tasks) /\ b \in Seq(Tasks) /\ Len(a) = n + 1 + m /\ Len(b) = n + 1 + m
  OBVIOUS
<1>4. ASSUME NEW i \in 1 .. Len(a) PROVE a[i] = b[i]
  <2>0. i \in 1 .. n + 1 + m
    BY <1>3
  <2>1. CASE i <= n
    BY <2>0, <2>1
  <2>2. CASE i = n + 1
    BY <2>0, <2>2
  <2>3. CASE i > n + 1
    BY <2>0, <2>3
  <2> QED
    BY <1>2, <2>0, <2>1, <2>2, <2>3
<1>5. a = b
  BY <1>3, <1>4, SeqEqual
<1> QED
  BY <1>1, <1>5

\* The references of S are still to be dropped.
Owing(h, hd, st, S) ==
    /\ h \in Heaps /\ hd \in SUBSET Zval /\ st \in Seq(Tasks) /\ S \in SUBSET Zval
    /\ Kinds(h) /\ Rooted(h) /\ Shape(h, hd, st, {})
    /\ \A x \in Node : h.rc[x] = RefsOf(h, hd, st, x) + (IF x \in S THEN 1 ELSE 0)
    /\ \A j \in 1 .. Len(st) : st[j][1] = "efree" => st[j][2] \notin S

\* What an object that is emptied held is dropped.
LEMMA PushDrops ==
    ASSUME NEW h, NEW hd, NEW st, NEW S, Owing(h, hd, st, S)
    PROVE  Good(h, hd, st \o Drops(S))
<1>1. /\ h \in Heaps /\ hd \in SUBSET Zval /\ st \in Seq(Tasks) /\ S \in SUBSET Zval
      /\ Kinds(h) /\ Rooted(h) /\ Shape(h, hd, st, {})
      /\ \A x \in Node : h.rc[x] = RefsOf(h, hd, st, x) + (IF x \in S THEN 1 ELSE 0)
      /\ \A j \in 1 .. Len(st) : st[j][1] = "efree" => st[j][2] \notin S
  BY DEF Owing
<1>2. CASE S = {}
  <2>1. \A x \in Node : h.rc[x] = RefsOf(h, hd, st, x)
    BY <1>1, <1>2, RefsType
  <2>2. Exact(h, hd, st)
    BY <2>1 DEF Exact
  <2>3. st \o Drops(S) = st
    BY <1>1, <1>2 DEF Drops
  <2> QED
    BY <1>1, <2>2, <2>3 DEF Good, AlmostGood
<1>3. CASE S # {}
  <2> DEFINE t == <<"drop", S>>  s2 == Append(st, t)
  <2>1. t \in Tasks
    BY <1>1, <1>3, MadeDrop
  <2>2. st \o Drops(S) = s2 /\ s2 \in Seq(Tasks)
    BY <1>1, <1>3, <2>1, Sequences DEF Drops
  <2>3. \A x : Holds(t, x) <=> x \in S
    BY HoldsDrop
  <2>4. Fits(h, hd, st, t)
    BY <1>1 DEF Fits, IsList
  <2> HIDE DEF t
  <2>5. Shape(h, hd, s2, {})
    BY <1>1, <2>1, <2>4, TaskPush
  <2>6. Exact(h, hd, s2)
    <3> SUFFICES ASSUME NEW x \in Node PROVE h.rc[x] = RefsOf(h, hd, s2, x)
      BY DEF Exact
    <3>1. RefsOf(h, hd, s2, x) = RefsOf(h, hd, st, x) + (IF Holds(t, x) THEN 1 ELSE 0)
      BY <1>1, <2>1, RefsPush
    <3> HIDE DEF s2
    <3> QED
      BY <1>1, <2>3, <3>1
  <2> QED
    BY <1>1, <2>2, <2>5, <2>6 DEF Good, AlmostGood
<1> QED
  BY <1>2, <1>3

\* What is freed is no root any more.
UnlistOf(g, h, x) ==
    /\ g \in Heaps
    /\ g.type = h.type /\ g.rc = h.rc /\ g.kids = h.kids /\ g.obj = h.obj /\ g.done = h.done
    /\ g.roots = h.roots \ {x} /\ g.addr[x] = (IF h.addr[x] = "root" THEN "null" ELSE h.addr[x])
    /\ \A y \in Node : y # x => g.addr[y] = h.addr[y] /\ g.col[y] = h.col[y]

\* A root leaves the buffer.
LEMMA UnlistFields ==
    ASSUME NEW h \in Heaps, NEW x \in Node, Rooted(h) PROVE UnlistOf(Unlist(h, x), h, x)
<1>1. x \in h.roots <=> h.addr[x] = "root"
  BY DEF Rooted
<1>2. CASE h.addr[x] = "root"
  BY <1>2 DEF Heaps, Unlist, UnlistOf
<1>3. CASE h.addr[x] # "root"
  <2>1. h.roots \ {x} = h.roots
    BY <1>1, <1>3
  <2> QED
    BY <1>3, <2>1 DEF Unlist, UnlistOf
<1> QED
  BY <1>2, <1>3

\* The buffer has what says that it is in it.
LEMMA UnlistRooted ==
    ASSUME NEW h \in Heaps, NEW g, NEW x \in Node, Rooted(h),
           g.roots = h.roots \ {x}, g.addr[x] # "root",
           \A y \in Node : y # x => g.addr[y] = h.addr[y] /\ g.type[y] = h.type[y] /\ g.rc[y] = h.rc[y]
    PROVE  Rooted(g)
<1>1. h.roots \in SUBSET Node /\ Cardinality(h.roots) <= MaxRoots
  BY DEF Heaps, Rooted
<1>2. IsFiniteSet(h.roots) /\ Cardinality(h.roots) \in Nat
  BY <1>1, NodesFinite, FS_CardinalityType
<1>3. Cardinality(g.roots) \in {Cardinality(h.roots), Cardinality(h.roots) - 1}
  <2>1. Cardinality(h.roots \ {x}) = IF x \in h.roots THEN Cardinality(h.roots) - 1 ELSE Cardinality(h.roots)
    BY <1>2, FS_RemoveElement
  <2> QED
    BY <2>1
<1>4. Cardinality(g.roots) \in Nat
  BY <1>2, FS_RemoveElement, FS_CardinalityType
<1>5. Cardinality(g.roots) <= MaxRoots
  BY <1>1, <1>2, <1>3, <1>4, MaxRootsAssumption DEF MaxRootsAssumption
<1> QED
  BY <1>5 DEF Rooted

\* The last reference is dropped: the object is destroyed.
LEMMA Last ==
    ASSUME NEW h, NEW hd, NEW st \in Seq(Tasks), NEW o \in Object,
           AlmostGood(h, hd, Append(st, <<"delref", o>>), {o}), h.rc[o] = 1, h.type[o] = "valid"
    PROVE  Good(SetKids(Unlist(h, o), o, {}), hd, st \o (<<<<"gone", o>>>> \o Drops(h.kids[o])))
<1> DEFINE t == <<"delref", o>>  s2 == Append(st, t)  u == <<"gone", o>>  s3 == Append(st, u)
           f == Unlist(h, o)  g == SetKids(f, o, {})  K == h.kids[o]
<1>1. /\ h \in Heaps /\ hd \in SUBSET Zval /\ Kinds(h) /\ Rooted(h) /\ Exact(h, hd, s2)
      /\ Shape(h, hd, s2, {o}) /\ s2 \in Seq(Tasks)
  BY DEF AlmostGood
<1>2. /\ t \in Tasks /\ u \in Tasks /\ o \in Node /\ o \notin Zval /\ ~IsList(t) /\ t[1] # "user"
      /\ K \in SUBSET Zval
  BY <1>1, MadeObject, Apartness DEF IsList, Heaps
<1>3. \A x : (Holds(t, x) <=> x = o) /\ (Holds(u, x) <=> x = o)
  BY HoldsObject
<1>4. Pushed(st, t, s2) /\ Len(st) + 1 \in 1 .. Len(s2) /\ s2[Len(st) + 1] = t /\ Len(st) \in Nat
      /\ \A j \in 1 .. Len(st) : j \in 1 .. Len(s2) /\ s2[j] = st[j] /\ j # Len(st) + 1
  BY <1>2, AppendAt, PushedAppend
<1>5. UnlistOf(f, h, o)
  BY <1>1, <1>2, UnlistFields
<1> HIDE DEF f, s2
<1>6. f \in Heaps
  BY <1>5 DEF UnlistOf
<1>7. KidsOf(g, f, o, {})
  BY <1>2, <1>6, KidsFields
<1> HIDE DEF g
<1>8. /\ g \in Heaps
      /\ g.type = h.type /\ g.rc = h.rc /\ g.obj = h.obj /\ g.done = h.done
      /\ g.kids[o] = {} /\ g.roots = h.roots \ {o}
      /\ g.addr[o] = (IF h.addr[o] = "root" THEN "null" ELSE h.addr[o])
      /\ \A y \in Node : y # o => /\ g.kids[y] = h.kids[y] /\ g.addr[y] = h.addr[y]
                                  /\ g.col[y] = h.col[y]
  BY <1>5, <1>7 DEF UnlistOf, KidsOf
<1>9. h.addr[o] # "list" /\ g.addr[o] # "list" /\ g.addr[o] # "root"
  BY <1>1, <1>8 DEF Shape, Lists
<1>10. Kinds(g)
  BY <1>1, <1>8, <1>9 DEF Kinds
<1>11. Rooted(g)
  BY <1>1, <1>2, <1>8, <1>9, UnlistRooted
<1>12. s3 \in Seq(Tasks)
  BY <1>2
<1>13. OnlyAt(g, h, o)
  BY <1>8 DEF OnlyAt
<1>14. \A x \in Node : g.rc[x] = RefsOf(g, hd, s3, x) + (IF x \in K THEN 1 ELSE 0)
  <2> SUFFICES ASSUME NEW x \in Node PROVE g.rc[x] = RefsOf(g, hd, s3, x) + (IF x \in K THEN 1 ELSE 0)
    OBVIOUS
  <2>0. \A y \in Node \ {o} : Counted(g, y) = Counted(h, y)
    BY <1>1, <1>2, <1>8, <1>13, OneCount
  <2>1. Counted(h, o) = K /\ Counted(g, o) = {}
    BY <1>8 DEF Counted, Uncounted, Out
  <2>2. RefsOf(g, hd, st, x) = RefsOf(h, hd, st, x) - (IF x \in Counted(h, o) THEN 1 ELSE 0)
                                    + (IF x \in Counted(g, o) THEN 1 ELSE 0)
    BY <1>2, <2>0, RefsNode
  <2>3. RefsOf(h, hd, s2, x) = RefsOf(h, hd, st, x) + (IF Holds(t, x) THEN 1 ELSE 0)
    BY <1>2, RefsPush DEF s2
  <2>4. RefsOf(g, hd, s3, x) = RefsOf(g, hd, st, x) + (IF Holds(u, x) THEN 1 ELSE 0)
    BY <1>2, RefsPush
  <2>5. h.rc[x] = RefsOf(h, hd, s2, x) /\ RefsOf(h, hd, st, x) \in Nat
    BY <1>1, RefsType DEF Exact
  <2> HIDE DEF s3, u, t, K
  <2> QED
    BY <1>3, <1>8, <2>1, <2>2, <2>3, <2>4, <2>5
<1>15. \A j \in 1 .. Len(st) : st[j] # <<"gone", o>>
  <2> SUFFICES ASSUME NEW j \in 1 .. Len(st), st[j] = <<"gone", o>> PROVE FALSE
    OBVIOUS
  <2>0. Holds(st[j], o)
    BY HoldsObject
  <2>1. Holds(s2[j], o) /\ j \in 1 .. Len(s2) /\ j # Len(st) + 1
    BY <1>4, <2>0
  <2>2. PICK k \in 1 .. Len(s2) : k = Len(st) + 1
    BY <1>4
  <2>3. Holds(s2[k], o)
    BY <1>3, <1>4, <2>2
  <2> QED
    BY <1>1, <1>2, <2>1, <2>2, <2>3, TwoRefs
<1>16. Shape(g, hd, s3, {})
  <2>1. Shape(h, hd, st, {o})
    BY <1>1, <1>2, <1>4, PopKeeps
  <2>2. Used(h, st)
    <3>1. Used(h, s2)
      BY <1>1, UsedNow
    <3> QED
      BY <1>4, <3>1, UsedBelow
  <2>3. Bears(h, g, hd, hd, st, {}, o)
    BY <1>2, <1>8, <1>9, <1>15 DEF Bears, Rests
  <2>4. \A c \in Node : c \in {o} => c \in {} \/ g.kids[c] = {}
    BY <1>8
  <2>5. Shape(g, hd, st, {})
    BY <1>1, <1>2, <1>8, <1>13, <2>1, <2>2, <2>3, <2>4, OneNode
  <2>6. Fits(g, hd, st, u)
    BY <1>8, <1>9 DEF Fits, IsList
  <2> QED
    BY <1>1, <1>2, <2>5, <2>6, TaskPush
<1>17. \A j \in 1 .. Len(s3) : s3[j][1] = "efree" => s3[j][2] \notin K
  <2>1. \A j \in 1 .. Len(st) : st[j][1] = "efree" => st[j][2] \notin K
    BY <1>1, <1>2, <1>4 DEF Shape, Dying
  <2>2. \A j \in 1 .. Len(s3) : (j \in 1 .. Len(st) /\ s3[j] = st[j]) \/ s3[j] = u
    BY <1>2, AppendAt
  <2>3. u[1] # "efree"
    OBVIOUS
  <2> HIDE DEF s3, u, K
  <2> QED
    BY <2>1, <2>2, <2>3
<1>18. Owing(g, hd, s3, K)
  <2> HIDE DEF s3, K
  <2> QED
    BY <1>1, <1>2, <1>8, <1>10, <1>11, <1>12, <1>14, <1>16, <1>17 DEF Owing
<1>19. Good(g, hd, s3 \o Drops(K))
  BY <1>18, PushDrops
<1>20. s3 \o Drops(K) = st \o (<<u>> \o Drops(K))
  BY ZenonT(60), <1>2, DropsType, Sequences
<1> QED
  BY <1>19, <1>20 DEF g, f

\* The invariant with a node left out of account is weaker.
LEMMA ButMore ==
    ASSUME NEW h, NEW hd, NEW st, NEW but, Good(h, hd, st) PROVE AlmostGood(h, hd, st, but)
<1>1. Apart(h, hd, st, {}) => Apart(h, hd, st, but)
  BY DEF Apart
<1> QED
  BY <1>1 DEF Good, AlmostGood, Shape

\* Two tasks pushed at once.
LEMMA TwoTasks ==
    ASSUME NEW st \in Seq(Tasks), NEW t \in Tasks, NEW u \in Tasks
    PROVE  st \o <<t, u>> = Append(Append(st, t), u)
<1> DEFINE a == st \o <<t, u>>  b == Append(Append(st, t), u)  n == Len(st)
<1>1. n \in Nat /\ <<t, u>> \in Seq(Tasks) /\ Append(st, t) \in Seq(Tasks)
  OBVIOUS
<1>2. a \in Seq(Tasks) /\ b \in Seq(Tasks) /\ Len(a) = n + 2 /\ Len(b) = n + 2
  BY <1>1
<1>3. ASSUME NEW i \in 1 .. Len(a) PROVE a[i] = b[i]
  <2>0. i \in 1 .. n + 2
    BY <1>2
  <2>1. CASE i <= n
    BY <2>0, <2>1
  <2>2. CASE i = n + 1
    BY <2>0, <2>2
  <2>3. CASE i = n + 2
    BY <2>0, <2>3
  <2> QED
    BY <1>1, <2>0, <2>1, <2>2, <2>3
<1> QED
  BY <1>2, <1>3, SeqEqual

\* zend_objects_store_del_ref_by_handle_ex keeps the invariant.
LEMMA ReleaseGood ==
    ASSUME NEW h, NEW hd, NEW st \in Seq(Tasks), NEW o \in Object,
           Good(h, hd, Append(st, <<"delref", o>>)), Release(h, o, st)
    PROVE  Good(heap', hd, stack')
<1>0. h \in Heaps
  BY DEF Good, AlmostGood
<1>1. CASE h.type[o] # "valid" \/ h.rc[o] # 1
  <2>1. heap' = SetRc(h, o, h.rc[o] - 1) /\ stack' = st \o <<>>
    BY <1>1 DEF Release, Continues, SetRc
  <2>2. stack' = st
    BY <2>1, Sequences, MadeObject
  <2> QED
    BY <1>1, <2>1, <2>2, ReleaseDec
<1>2. CASE h.type[o] = "valid" /\ h.rc[o] = 1 /\ ~h.done[o]
  <2> DEFINE t == <<"delref", o>>  u == <<"user", o>>
  <2>1. heap' = [h EXCEPT !.done[o] = TRUE, !.rc[o] = @ + 1] /\ stack' = st \o <<t, u>>
    BY <1>2 DEF Release, Continues
  <2>2. heap' = SetRc(SetDone(h, o), o, h.rc[o] + 1)
    BY <1>0, <2>1 DEF SetRc, SetDone, Heaps
  <2>3. t \in Tasks /\ u \in Tasks
    BY MadeObject
  <2> HIDE DEF t, u
  <2>4. stack' = Append(Append(st, t), u)
    BY <2>1, <2>3, TwoTasks
  <2> USE DEF t, u
  <2> QED
    BY <1>2, <2>2, <2>4, ReleaseUser
<1>3. CASE h.type[o] = "valid" /\ h.rc[o] = 1 /\ h.done[o]
  <2>1. heap' = [Unlist(h, o) EXCEPT !.kids[o] = {}] /\ stack' = st \o (<<<<"gone", o>>>> \o Drops(h.kids[o]))
    BY <1>3 DEF Release, Continues
  <2>2. heap' = SetKids(Unlist(h, o), o, {})
    BY <2>1 DEF SetKids
  <2>3. AlmostGood(h, hd, Append(st, <<"delref", o>>), {o})
    BY ButMore
  <2>4. Good(SetKids(Unlist(h, o), o, {}), hd, st \o (<<<<"gone", o>>>> \o Drops(h.kids[o])))
    BY <1>3, <2>3, Last
  <2> QED
    BY <2>1, <2>2, <2>4
<1> QED
  BY <1>1, <1>2, <1>3

\* A zval without references: its own are still to be dropped.
SetNull(h, z) == [h EXCEPT !.type[z] = "null", !.kids[z] = {}]
DeadOf(g, h, z) ==
    /\ g \in Heaps /\ g.obj = h.obj /\ g.done = h.done /\ g.roots = h.roots \ {z}
    /\ g.type[z] = "null" /\ g.kids[z] = {} /\ g.rc[z] = 0
    /\ g.addr[z] = (IF h.addr[z] = "root" THEN "null" ELSE h.addr[z])
    /\ \A y \in Node : y # z => /\ g.type[y] = h.type[y] /\ g.kids[y] = h.kids[y]
                                /\ g.rc[y] = h.rc[y] /\ g.addr[y] = h.addr[y] /\ g.col[y] = h.col[y]
NullOf(g, h, z) ==
    /\ g \in Heaps /\ g.obj = h.obj /\ g.done = h.done /\ g.roots = h.roots
    /\ g.rc = h.rc /\ g.addr = h.addr /\ g.col = h.col
    /\ g.type[z] = "null" /\ g.kids[z] = {}
    /\ \A y \in Node : y # z => g.type[y] = h.type[y] /\ g.kids[y] = h.kids[y]

\* A zval is emptied, and leaves the buffer.
LEMMA NullFields ==
    ASSUME NEW h \in Heaps, NEW z \in Node PROVE NullOf(SetNull(h, z), h, z)
  BY DEF Heaps, SetNull, NullOf

\* The fields of a zval that has lost its last reference.
LEMMA DeadFields ==
    ASSUME NEW h \in Heaps, NEW z \in Node, Rooted(h), z \notin Object
    PROVE  DeadOf(SetNull(Unlist(SetRc(h, z, 0), z), z), h, z)
<1> DEFINE f == SetRc(h, z, 0)  e == Unlist(f, z)  g == SetNull(e, z)
<1>1. RcOf(f, h, z, 0)
  BY RcFields
<1> HIDE DEF f
<1>2. /\ f \in Heaps
      /\ f.type = h.type /\ f.kids = h.kids /\ f.obj = h.obj /\ f.col = h.col
      /\ f.addr = h.addr /\ f.done = h.done /\ f.roots = h.roots
      /\ f.rc[z] = 0 /\ \A y \in Node : y # z => f.rc[y] = h.rc[y]
  BY <1>1 DEF RcOf
<1>3. Rooted(f)
  BY <1>2 DEF Rooted
<1>4. UnlistOf(e, f, z)
  BY <1>2, <1>3, UnlistFields
<1> HIDE DEF e
<1>5. /\ e \in Heaps
      /\ e.type = f.type /\ e.rc = f.rc /\ e.kids = f.kids /\ e.obj = f.obj /\ e.done = f.done
      /\ e.roots = f.roots \ {z} /\ e.addr[z] = (IF f.addr[z] = "root" THEN "null" ELSE f.addr[z])
      /\ \A y \in Node : y # z => e.addr[y] = f.addr[y] /\ e.col[y] = f.col[y]
  BY <1>4 DEF UnlistOf
<1>6. NullOf(g, e, z)
  BY <1>5, NullFields
<1> HIDE DEF g
<1>7. /\ g \in Heaps /\ g.obj = e.obj /\ g.done = e.done /\ g.roots = e.roots
      /\ g.rc = e.rc /\ g.addr = e.addr /\ g.col = e.col
      /\ g.type[z] = "null" /\ g.kids[z] = {}
      /\ \A y \in Node : y # z => g.type[y] = e.type[y] /\ g.kids[y] = e.kids[y]
  BY <1>6 DEF NullOf
<1>8. DeadOf(g, h, z)
  BY <1>2, <1>5, <1>7 DEF DeadOf
<1> QED
  BY <1>8 DEF g, e, f

Buried(g, hd, st, T) ==
    /\ g \in Heaps /\ hd \in SUBSET Zval /\ st \in Seq(Tasks)
    /\ Kinds(g) /\ Rooted(g) /\ Shape(g, hd, st, {})
    /\ \A x \in Node : g.rc[x] = RefsOf(g, hd, st, x) + (IF x \in T THEN 1 ELSE 0)

\* What the zval without references held is counted once more than it has
\* references, until the tasks that drop it are pushed.
LEMMA Death ==
    ASSUME NEW h, NEW g, NEW hd, NEW st \in Seq(Tasks), NEW z \in Zval,
           Good(h, hd, Append(st, <<"drop", {z}>>)), h.rc[z] = 1, DeadOf(g, h, z)
    PROVE  Buried(g, hd, Append(st, <<"efree", z>>), Counted(h, z))
<1> DEFINE t == <<"drop", {z}>>  s2 == Append(st, t)  u == <<"efree", z>>  s3 == Append(st, u)
           T == Counted(h, z)
<1>1. /\ h \in Heaps /\ hd \in SUBSET Zval /\ Kinds(h) /\ Rooted(h) /\ Exact(h, hd, s2)
      /\ Shape(h, hd, s2, {}) /\ s2 \in Seq(Tasks)
  BY DEF Good, AlmostGood
<1>2. t \in Tasks /\ u \in Tasks /\ z \in Node /\ z \notin Object /\ ~IsList(t) /\ t[1] # "user"
  BY DropTask, MadeZval, Apartness DEF IsList
<1>3. \A x : (Holds(t, x) <=> x = z) /\ ~Holds(u, x)
  BY HoldsDrop, HoldsZval
<1>4. Pushed(st, t, s2) /\ Len(st) + 1 \in 1 .. Len(s2) /\ s2[Len(st) + 1] = t /\ Len(st) \in Nat
      /\ \A j \in 1 .. Len(st) : j \in 1 .. Len(s2) /\ s2[j] = st[j] /\ j # Len(st) + 1
  BY <1>2, AppendAt, PushedAppend
<1>5. /\ g \in Heaps /\ g.obj = h.obj /\ g.done = h.done /\ g.roots = h.roots \ {z}
      /\ g.type[z] = "null" /\ g.kids[z] = {} /\ g.rc[z] = 0
      /\ g.addr[z] = (IF h.addr[z] = "root" THEN "null" ELSE h.addr[z])
      /\ \A y \in Node : y # z => /\ g.type[y] = h.type[y] /\ g.kids[y] = h.kids[y]
                                  /\ g.rc[y] = h.rc[y] /\ g.addr[y] = h.addr[y] /\ g.col[y] = h.col[y]
  BY DEF DeadOf
<1> HIDE DEF s2
<1>6. /\ z \notin hd /\ \A y \in Node : z \notin Counted(h, y)
      /\ \A j \in 1 .. Len(st) : ~Holds(st[j], z)
  <2>1. PICK k \in 1 .. Len(s2) : k = Len(st) + 1
    BY <1>4
  <2>2. Holds(s2[k], z)
    BY <1>3, <1>4, <2>1
  <2>3. /\ z \notin hd /\ \A y \in Node : z \notin Counted(h, y)
        /\ \A j \in 1 .. Len(s2) : Holds(s2[j], z) => j = k
    BY <1>1, <1>2, <2>2, TwoRefs
  <2> QED
    BY <1>4, <2>1, <2>3
<1>7. \A j \in 1 .. Len(st) : st[j] # <<"efree", z>>
  <2> SUFFICES ASSUME NEW j \in 1 .. Len(st), st[j] = <<"efree", z>> PROVE FALSE
    OBVIOUS
  <2>1. PICK k \in 1 .. Len(s2) : k = Len(st) + 1
    BY <1>4
  <2>2. s2[j][1] = "efree" /\ s2[j][2] = z /\ j \in 1 .. Len(s2)
    BY <1>4
  <2>3. s2[k][1] = "drop" /\ z \in s2[k][2]
    BY <1>4, <2>1
  <2> QED
    BY <1>1, <2>2, <2>3 DEF Shape, Dying
<1>8. h.addr[z] # "list"
  <2> SUFFICES ASSUME h.addr[z] = "list" PROVE FALSE
    OBVIOUS
  <2>0. PICK k \in 1 .. Len(s2) : k = Len(st) + 1
    BY <1>4
  <2>1. PICK i \in 1 .. Len(s2) : z \in InList(s2[i])
    BY <1>1 DEF Shape, Lists
  <2>2. Holds(s2[i], z)
    BY <2>1 DEF Holds
  <2>3. Holds(s2[k], z)
    BY <1>3, <1>4, <2>0
  <2>4. i = k
    BY <1>1, <1>2, <2>2, <2>3, TwoRefs
  <2>5. InList(t) = {}
    BY DEF InList
  <2> QED
    BY <1>4, <2>0, <2>1, <2>4, <2>5
<1>9. g.addr[z] = "null"
  BY <1>1, <1>2, <1>5, <1>8 DEF Heaps
<1>10. Kinds(g)
  <2>1. ASSUME NEW y \in Zval
        PROVE  /\ g.type[y] \in {"free", "array", "object", "null"}
               /\ g.type[y] = "object" => g.obj[y] \in Object
    BY <1>1, <1>5, Apartness DEF Kinds
  <2>2. ASSUME NEW o \in Object PROVE g.type[o] \in {"free", "valid"}
    BY <1>1, <1>2, <1>5, Apartness DEF Kinds
  <2>3. ASSUME NEW y \in Node
        PROVE  /\ g.kids[y] # {} => g.type[y] \in {"array", "valid"}
               /\ g.type[y] = "free" => g.rc[y] = 0 /\ g.addr[y] = "null"
    BY <1>1, <1>5 DEF Kinds
  <2> QED
    BY <2>1, <2>2, <2>3 DEF Kinds
<1>11. Rooted(g)
  BY <1>1, <1>2, <1>5, <1>9, UnlistRooted
<1>12. s3 \in Seq(Tasks)
  BY <1>2
<1>13. OnlyAt(g, h, z)
  BY <1>5 DEF OnlyAt
<1>14. \A x \in Node : g.rc[x] = RefsOf(g, hd, s3, x) + (IF x \in T THEN 1 ELSE 0)
  <2> SUFFICES ASSUME NEW x \in Node PROVE g.rc[x] = RefsOf(g, hd, s3, x) + (IF x \in T THEN 1 ELSE 0)
    OBVIOUS
  <2>0. \A y \in Node \ {z} : Counted(g, y) = Counted(h, y)
    BY <1>1, <1>2, <1>5, <1>13, OneCount
  <2>1. Counted(g, z) = {}
    BY <1>5 DEF Counted, Uncounted, Out
  <2>2. RefsOf(g, hd, st, x) = RefsOf(h, hd, st, x) - (IF x \in T THEN 1 ELSE 0)
                                    + (IF x \in Counted(g, z) THEN 1 ELSE 0)
    BY <1>2, <2>0, RefsNode
  <2>3. RefsOf(h, hd, s2, x) = RefsOf(h, hd, st, x) + (IF Holds(t, x) THEN 1 ELSE 0)
    BY <1>2, RefsPush DEF s2
  <2>4. RefsOf(g, hd, s3, x) = RefsOf(g, hd, st, x) + (IF Holds(u, x) THEN 1 ELSE 0)
    BY <1>2, RefsPush
  <2>5. h.rc[x] = RefsOf(h, hd, s2, x) /\ RefsOf(h, hd, st, x) \in Nat
    BY <1>1, RefsType DEF Exact
  <2>6. g.rc[x] = h.rc[x] - (IF x = z THEN 1 ELSE 0)
    <3>1. h.rc[x] \in Int
      BY <1>1 DEF Heaps
    <3> QED
      BY <1>5, <3>1
  <2>7. z \notin T
    BY <1>2, <1>6
  <2> HIDE DEF s3, u, t, T
  <2> QED
    BY <1>3, <2>1, <2>2, <2>3, <2>4, <2>5, <2>6, <2>7
<1>15. Shape(g, hd, s3, {})
  <2>1. Shape(h, hd, st, {})
    BY <1>1, <1>2, <1>4, PopKeeps
  <2>2. Used(h, st)
    <3>1. Used(h, s2)
      BY <1>1, UsedNow
    <3> QED
      BY <1>4, <3>1, UsedBelow
  <2>3. \A j \in 1 .. Len(st) : /\ st[j][1] = "buffer" => st[j][3] # z
                                /\ st[j][1] = "drop" => z \notin st[j][2]
    BY <1>6 DEF Holds
  <2>4. Bears(h, g, hd, hd, st, {}, z)
    BY <1>2, <1>5, <1>7, <1>8, <1>9, <2>3 DEF Bears
  <2>5. Shape(g, hd, st, {})
    BY <1>1, <1>2, <1>5, <1>13, <2>1, <2>2, <2>4, OneNode
  <2>6. \A c \in Node : z \notin g.kids[c]
    BY <1>1, <1>5, <1>6, CountedIs
  <2>7. \A j \in 1 .. Len(st) : st[j] # u
    BY <1>7
  <2>8. Fits(g, hd, st, u)
    BY <1>5, <1>6, <1>9, <2>3, <2>6, <2>7 DEF Fits, IsList
  <2> QED
    BY <1>1, <1>2, <2>5, <2>8, TaskPush
<1>16. Buried(g, hd, s3, T)
  <2> HIDE DEF s3, T
  <2> QED
    BY <1>1, <1>5, <1>10, <1>11, <1>12, <1>14, <1>15 DEF Buried
<1> QED
  BY <1>16

\* Three tasks pushed at once.
LEMMA ThreeTasks ==
    ASSUME NEW st \in Seq(Tasks), NEW t \in Tasks, NEW u \in Tasks, NEW v \in Tasks
    PROVE  st \o <<t, u, v>> = Append(Append(Append(st, t), u), v)
<1> DEFINE a == st \o <<t, u, v>>  b == Append(Append(Append(st, t), u), v)  n == Len(st)
<1>1. n \in Nat /\ <<t, u, v>> \in Seq(Tasks) /\ Append(st, t) \in Seq(Tasks)
  OBVIOUS
<1>2. a \in Seq(Tasks) /\ b \in Seq(Tasks) /\ Len(a) = n + 3 /\ Len(b) = n + 3
  BY <1>1
<1>3. ASSUME NEW i \in 1 .. Len(a) PROVE a[i] = b[i]
  <2>0. i \in 1 .. n + 3
    BY <1>2
  <2>1. CASE i <= n
    BY <2>0, <2>1
  <2>2. CASE i = n + 1
    BY <2>0, <2>2
  <2>3. CASE i = n + 2
    BY <2>0, <2>3
  <2>4. CASE i = n + 3
    BY <2>0, <2>4
  <2> QED
    BY <1>1, <2>0, <2>1, <2>2, <2>3, <2>4
<1> QED
  BY <1>2, <1>3, SeqEqual

\* The last reference to an array goes.
LEMMA DeathContainer ==
    ASSUME NEW h, NEW g, NEW hd, NEW st \in Seq(Tasks), NEW z \in Zval,
           Good(h, hd, Append(st, <<"drop", {z}>>)), h.rc[z] = 1, DeadOf(g, h, z), h.type[z] # "object"
    PROVE  Good(g, hd, st \o (<<<<"efree", z>>>> \o Drops(h.kids[z])))
<1> DEFINE u == <<"efree", z>>  s3 == Append(st, u)  K == h.kids[z]
<1>1. /\ h \in Heaps /\ Kinds(h) /\ Exact(h, hd, Append(st, <<"drop", {z}>>))
      /\ Shape(h, hd, Append(st, <<"drop", {z}>>), {})
  BY DEF Good, AlmostGood
<1>2. u \in Tasks /\ z \in Node /\ K \in SUBSET Zval
  BY <1>1, MadeZval, Apartness DEF Heaps
<1>3. Counted(h, z) = K
  BY <1>1, <1>2 DEF Kinds, Counted, Uncounted, Out
<1>4. Buried(g, hd, s3, K)
  BY <1>3, Death
<1>5. \A j \in 1 .. Len(s3) : s3[j][1] = "efree" => s3[j][2] \notin K
  <2> DEFINE t == <<"drop", {z}>>  s2 == Append(st, t)
  <2>1. \A j \in 1 .. Len(st) : j \in 1 .. Len(s2) /\ s2[j] = st[j]
    BY DropTask, AppendAt
  <2>2. Dying(h, hd, s2)
    BY <1>1 DEF Shape
  <2> HIDE DEF s2
  <2>3. \A j \in 1 .. Len(st) : st[j][1] = "efree" => st[j][2] \notin K
    BY <1>2, <2>1, <2>2 DEF Dying
  <2>4. \A j \in 1 .. Len(s3) : (j \in 1 .. Len(st) /\ s3[j] = st[j]) \/ s3[j] = u
    BY <1>2, AppendAt
  <2>5. u[2] = z
    OBVIOUS
  <2>6. z \notin K
    <3>1. /\ g.type[z] = "null" /\ \A y \in Node : y # z => g.kids[y] = h.kids[y]
      BY DEF DeadOf
    <3>2. \A x \in Node : g.rc[x] = RefsOf(g, hd, s3, x) + (IF x \in K THEN 1 ELSE 0)
      BY <1>4 DEF Buried
    <3>3. g.rc[z] = 0 /\ RefsOf(g, hd, s3, z) \in Nat
      <4>1. s3 \in Seq(Tasks)
        BY <1>2
      <4>2. g.rc[z] = 0
        BY DEF DeadOf
      <4> HIDE DEF s3
      <4> QED
        BY <4>1, <4>2, RefsType
    <3> HIDE DEF s3, K
    <3> QED
      BY <1>2, <3>2, <3>3
  <2> HIDE DEF s3, u, K
  <2> QED
    BY <2>3, <2>4, <2>5, <2>6
<1>6. Owing(g, hd, s3, K)
  <2> HIDE DEF s3, K
  <2> QED
    BY <1>2, <1>4, <1>5 DEF Buried, Owing
<1>7. Good(g, hd, s3 \o Drops(K))
  BY <1>6, PushDrops
<1>8. s3 \o Drops(K) = st \o (<<u>> \o Drops(K))
  BY <1>2, DropsType, Sequences
<1> QED
  BY <1>7, <1>8

\* The last reference to a zval that has an object goes.
LEMMA DeathObject ==
    ASSUME NEW h, NEW g, NEW hd, NEW st \in Seq(Tasks), NEW z \in Zval,
           Good(h, hd, Append(st, <<"drop", {z}>>)), h.rc[z] = 1, DeadOf(g, h, z), h.type[z] = "object"
    PROVE  Good(g, hd, st \o <<<<"efree", z>>, <<"check", z>>, <<"delref", h.obj[z]>>>>)
<1> DEFINE o == h.obj[z]  a == <<"efree", z>>  b == <<"check", z>>  c == <<"delref", o>>
           s1 == Append(st, a)  s2 == Append(s1, b)  s3 == Append(s2, c)
<1>1. /\ h \in Heaps /\ Kinds(h) /\ Shape(h, hd, Append(st, <<"drop", {z}>>), {})
      /\ Exact(h, hd, Append(st, <<"drop", {z}>>)) /\ Append(st, <<"drop", {z}>>) \in Seq(Tasks)
  BY DEF Good, AlmostGood
<1>2. o \in Object /\ o \in Node
  BY <1>1, Apartness DEF Kinds
<1>3. a \in Tasks /\ b \in Tasks /\ c \in Tasks
  BY <1>2, MadeZval, MadeObject
<1>4. h.addr[z] # "list"
  <2> DEFINE t == <<"drop", {z}>>  r2 == Append(st, t)
  <2> SUFFICES ASSUME h.addr[z] = "list" PROVE FALSE
    OBVIOUS
  <2>0. PICK k \in 1 .. Len(r2) : k = Len(st) + 1 /\ r2[k] = t
    BY DropTask, AppendAt
  <2>1. r2 \in Seq(Tasks) /\ Exact(h, hd, r2) /\ Lists(h, r2) /\ z \in Node
    BY <1>1, Apartness DEF Shape
  <2>2. Holds(r2[k], z)
    BY <2>0, HoldsDrop
  <2>3. InList(t) = {}
    BY DEF InList
  <2> HIDE DEF r2, t
  <2>4. PICK i \in 1 .. Len(r2) : z \in InList(r2[i])
    BY <2>1 DEF Lists
  <2>5. Holds(r2[i], z)
    BY <2>4 DEF Holds
  <2>6. i = k
    BY <1>1, <2>1, <2>2, <2>5, TwoRefs
  <2> QED
    BY <2>0, <2>3, <2>4, <2>6
<1>5. Counted(h, z) = {o}
  BY <1>4 DEF Counted, Uncounted, Out
<1> HIDE DEF o
<1>6. Buried(g, hd, s1, {o})
  BY <1>5, Death
<1>7. g.type[z] = "null" /\ g.obj[z] = o
  BY DEF DeadOf, o
<1>8. s1 \in Seq(Tasks) /\ s2 \in Seq(Tasks) /\ s3 \in Seq(Tasks)
  BY <1>3
<1>9. Len(s1) > 0 /\ s1[Len(s1)] = a
  BY <1>3
<1> HIDE DEF s1
<1>10. /\ g \in Heaps /\ hd \in SUBSET Zval /\ Kinds(g) /\ Rooted(g) /\ Shape(g, hd, s1, {})
       /\ \A x \in Node : g.rc[x] = RefsOf(g, hd, s1, x) + (IF x = o THEN 1 ELSE 0)
  BY <1>6 DEF Buried
<1>11. ~Rests(g, o) /\ \A j \in 1 .. Len(s1) : s1[j] # <<"gone", o>>
  <2>1. g.rc[o] = RefsOf(g, hd, s1, o) + 1 /\ RefsOf(g, hd, s1, o) \in Nat
    BY <1>2, <1>8, <1>10, RefsType
  <2>2. \A j \in 1 .. Len(s1) : s1[j][1] = "gone" => g.rc[s1[j][2]] = 1
    BY <1>10 DEF Shape, Calls
  <2>3. ASSUME NEW j \in 1 .. Len(s1), s1[j] = <<"gone", o>> PROVE FALSE
    <3>1. s1[j][1] = "gone" /\ s1[j][2] = o
      BY <2>3
    <3>2. Holds(s1[j], o)
      BY <2>3, HoldsObject
    <3>3. RefsOf(g, hd, s1, o) # 0
      BY <1>8, <3>2, NoRefs
    <3> QED
      BY <2>1, <2>2, <3>1, <3>3
  <2> QED
    BY <2>1, <2>3 DEF Rests
<1>12. Fits(g, hd, s1, b)
  BY <1>2, <1>7, <1>9, <1>11 DEF Fits, IsList
<1>13. Shape(g, hd, s2, {})
  BY <1>3, <1>8, <1>10, <1>12, TaskPush
<1>14. Fits(g, hd, s2, c)
  BY DEF Fits, IsList
<1>15. Shape(g, hd, s3, {})
  <2> HIDE DEF s2
  <2> QED
    BY <1>3, <1>8, <1>13, <1>14, TaskPush
<1>16. Exact(g, hd, s3)
  <2> SUFFICES ASSUME NEW x \in Node PROVE g.rc[x] = RefsOf(g, hd, s3, x)
    BY DEF Exact
  <2>1. RefsOf(g, hd, s2, x) = RefsOf(g, hd, s1, x) + (IF Holds(b, x) THEN 1 ELSE 0)
    BY <1>3, <1>8, RefsPush
  <2>2. RefsOf(g, hd, s3, x) = RefsOf(g, hd, s2, x) + (IF Holds(c, x) THEN 1 ELSE 0)
    <3> HIDE DEF s2
    <3> QED
      BY <1>3, <1>8, RefsPush
  <2>3. ~Holds(b, x) /\ (Holds(c, x) <=> x = o)
    BY HoldsZval, HoldsObject
  <2>4. RefsOf(g, hd, s1, x) \in Nat
    BY <1>8, RefsType
  <2> HIDE DEF s2, s3, b, c
  <2> QED
    BY <1>10, <2>1, <2>2, <2>3, <2>4
<1>17. Good(g, hd, s3)
  <2> HIDE DEF s3
  <2> QED
    BY <1>8, <1>10, <1>15, <1>16 DEF Good, AlmostGood
<1>18. st \o <<a, b, c>> = s3
  <2> HIDE DEF a, b, c
  <2> QED
    BY <1>3, ThreeTasks DEF s1
<1> QED
  BY <1>17, <1>18 DEF o

-----------------------------------------------------------------------------
(* A collection.                                                            *)

\* What the phases look at.
LEMMA LinksType ==
    ASSUME NEW h \in Heaps, Kinds(h)
    PROVE  /\ Links(h) \in [Node -> SUBSET Node] /\ h.roots \in SUBSET Node
           /\ \A x \in Node : Links(h)[x] = Out(h, x)
<1>1. ASSUME NEW x \in Node PROVE Out(h, x) \in SUBSET Node
  <2>1. h.kids[x] \in SUBSET Zval /\ Zval \subseteq Node
    BY DEF Heaps, Node
  <2>2. CASE h.type[x] = "object"
    <3>1. h.obj[x] \in Object
      BY <1>1, <2>2, Apartness DEF Kinds
    <3> QED
      BY <2>2, <3>1 DEF Out, Node
  <2> QED
    BY <2>1, <2>2 DEF Out
<1> QED
  BY <1>1 DEF Links, Heaps

\* What the roots lead to is closed under links.
LEMMA FoundIs ==
    ASSUME NEW h \in Heaps, Kinds(h)
    PROVE  /\ h.roots \subseteq Found(h) /\ Found(h) \in SUBSET Node
           /\ \A x \in Found(h) : Out(h, x) \subseteq Found(h)
           /\ \A x \in Found(h) : x \in h.roots \/ \E y \in Found(h) : x \in Out(h, y)
<1>1. Links(h) \in [Node -> SUBSET Node] /\ h.roots \in SUBSET Node
      /\ \A x \in Node : Links(h)[x] = Out(h, x)
  BY LinksType
<1>2. h.roots \subseteq Found(h) /\ Found(h) \in SUBSET Node
  BY <1>1, ReachContains DEF Found
<1>3. \A x \in Found(h) : Links(h)[x] \subseteq Found(h)
  BY <1>1, ReachClosed DEF Found
<1>4. ASSUME NEW x \in Found(h), x \notin h.roots PROVE \E y \in Found(h) : x \in Links(h)[y]
  BY <1>1, <1>4, ReachFrom DEF Found
<1> QED
  BY <1>1, <1>2, <1>3, <1>4

\* What has a reference from outside, and what lives on for it.
Outside(h) == {x \in Found(h) : h.rc[x] > Cardinality(Inside(h, x))}

LEMMA LiveOutside == ASSUME NEW h PROVE Live(h) = Reach(Links(h), Outside(h))
  BY DEF Live, Outside, Inside

\* So is what lives on.
LEMMA LiveIs ==
    ASSUME NEW h \in Heaps, Kinds(h)
    PROVE  /\ Outside(h) \subseteq Live(h) /\ Live(h) \in SUBSET Node
           /\ \A x \in Live(h) : Out(h, x) \subseteq Live(h)
<1>1. Links(h) \in [Node -> SUBSET Node] /\ \A x \in Node : Links(h)[x] = Out(h, x)
  BY LinksType
<1>2. Outside(h) \in SUBSET Node /\ Live(h) = Reach(Links(h), Outside(h))
  BY FoundIs, LiveOutside DEF Outside
<1>3. Outside(h) \subseteq Live(h) /\ Live(h) \in SUBSET Node
  BY <1>1, <1>2, ReachContains
<1>4. \A x \in Live(h) : Links(h)[x] \subseteq Live(h)
  BY <1>1, <1>2, ReachClosed
<1> QED
  BY <1>1, <1>3, <1>4

\* All that is counted for a node without a reference from outside is what was
\* found to refer to it.
LEMMA SameSize ==
    ASSUME NEW A, IsFiniteSet(A), NEW S \in SUBSET A, NEW T \in SUBSET S, NEW n \in Nat,
           Cardinality(S) + n <= Cardinality(T)
    PROVE  S = T /\ n = 0
<1>1. IsFiniteSet(S) /\ IsFiniteSet(T)
  BY FS_Subset
<1>2. Cardinality(S) \in Nat /\ Cardinality(T) \in Nat /\ Cardinality(T) <= Cardinality(S)
  BY <1>1, FS_CardinalityType, FS_Subset
<1>3. Cardinality(S) = Cardinality(T) /\ n = 0
  BY <1>2
<1> QED
  BY <1>1, <1>3, FS_Subset

\* The references from inside, which marking takes away.
LEMMA InsideIs ==
    ASSUME NEW h, NEW hd, NEW st, Good(h, hd, st), NEW x \in Found(h),
           ~(h.rc[x] > Cardinality(Inside(h, x))), \A y \in Inside(h, x) : x \in Counted(h, y)
    PROVE  /\ Referrers(h, x) = Inside(h, x) /\ x \notin hd
           /\ \A i \in 1 .. Len(st) : ~Holds(st[i], x)
<1>1. h \in Heaps /\ st \in Seq(Tasks) /\ Kinds(h) /\ Exact(h, hd, st)
  BY DEF Good, AlmostGood
<1>2. x \in Node /\ Found(h) \in SUBSET Node
  BY <1>1, FoundIs
<1> DEFINE v == ByVariable(hd, x)  w == Cardinality(Holders(st, x))  S == Referrers(h, x)
           T == Inside(h, x)
<1>3. v \in Nat /\ w \in Nat /\ Cardinality(S) \in Nat /\ v + w \in Nat
  <2>1. v \in {0, 1} /\ w \in Nat /\ Cardinality(S) \in Nat
    BY <1>1, RefsType
  <2> HIDE DEF v, w
  <2> QED
    BY <2>1
<1>4. h.rc[x] = Cardinality(S) + v + w /\ h.rc[x] \in Nat
  BY <1>1, <1>2, <1>3 DEF Exact, RefsOf
<1>5. S \in SUBSET Node /\ T \in SUBSET S
  BY <1>2 DEF Referrers, Inside
<1>6. IsFiniteSet(Node) /\ Cardinality(T) \in Nat
  <2>1. T \in SUBSET Node
    BY <1>5
  <2> QED
    BY <2>1, NodesFinite, PartCount
<1> HIDE DEF v, w, S, T
<1>7. Cardinality(S) + (v + w) <= Cardinality(T)
  BY <1>3, <1>4, <1>6 DEF T
<1>8. S = T /\ v + w = 0
  BY <1>3, <1>5, <1>6, <1>7, SameSize
<1>9. v = 0 /\ w = 0
  BY <1>3, <1>8
<1>10. x \notin hd
  BY <1>9 DEF v, ByVariable
<1>11. \A i \in 1 .. Len(st) : ~Holds(st[i], x)
  <2>1. IsFiniteSet(1 .. Len(st)) /\ Holders(st, x) \in SUBSET (1 .. Len(st))
    BY <1>1, FS_Interval DEF Holders
  <2>2. Holders(st, x) = {}
    BY <1>9, <2>1, PartCount DEF w
  <2> QED
    BY <2>2 DEF Holders
<1> QED
  BY <1>8, <1>10, <1>11 DEF S, T

\* What zval_collect_white condemns nobody else has a reference to.
LEMMA GarbageIsolated ==
    ASSUME NEW h, NEW hd, NEW st, Good(h, hd, st), NEW x \in Garbage(h)
    PROVE  /\ x \in Node /\ x \in Found(h) /\ x \notin hd
           /\ \A i \in 1 .. Len(st) : ~Holds(st[i], x)
           /\ h.addr[x] # "list"
           /\ Referrers(h, x) = Inside(h, x)
           /\ \A y \in Referrers(h, x) : y \in Garbage(h)
<1>1. h \in Heaps /\ Kinds(h) /\ Lists(h, st) /\ st \in Seq(Tasks) /\ Exact(h, hd, st)
  BY DEF Good, AlmostGood, Shape
<1>2. x \in Found(h) /\ x \notin Live(h) /\ Found(h) \in SUBSET Node /\ x \in Node
  BY <1>1, FoundIs DEF Garbage
<1>3. Outside(h) \subseteq Live(h) /\ \A y \in Live(h) : Out(h, y) \subseteq Live(h)
  BY <1>1, LiveIs
<1>4. ~(h.rc[x] > Cardinality(Inside(h, x)))
  BY <1>2, <1>3 DEF Outside
\* The zvals of a list live on, for the list has a reference to them.
<1>5. ASSUME NEW y \in Found(h), h.addr[y] = "list" PROVE y \in Live(h)
  <2>1. y \in Zval /\ y \in Node
    BY <1>1, <1>2, <1>5, Apartness DEF Lists
  <2>2. \A c \in Inside(h, y) : y \in Counted(h, c)
    <3>1. ASSUME NEW c \in Inside(h, y) PROVE y \in Counted(h, c)
      <4>1. c \in Node /\ y \in Out(h, c)
        BY <1>2 DEF Inside
      <4>2. ~Uncounted(h, c)
        <5>1. h.type[c] = "object" => h.obj[c] \in Object /\ Out(h, c) = {h.obj[c]}
          BY <1>1, <4>1, Apartness DEF Kinds, Out
        <5> QED
          BY <2>1, <4>1, <5>1, Apartness DEF Uncounted
      <4> QED
        BY <4>1, <4>2 DEF Counted
    <3> QED
      BY <3>1
  <2>3. PICK i \in 1 .. Len(st) : Holds(st[i], y)
    BY <1>1, <1>5, <2>1 DEF Lists, Holds
  <2>4. h.rc[y] > Cardinality(Inside(h, y))
    BY <2>2, <2>3, InsideIs
  <2> QED
    BY <1>3, <2>4 DEF Outside
<1>6. \A y \in Inside(h, x) : x \in Counted(h, y)
  <2>1. ASSUME NEW y \in Inside(h, x) PROVE x \in Counted(h, y)
    <3>1. y \in Found(h) /\ x \in Out(h, y)
      BY DEF Inside
    <3>2. h.addr[y] # "list"
      BY <1>2, <1>3, <1>5, <3>1
    <3> QED
      BY <3>1, <3>2 DEF Counted, Uncounted
  <2> QED
    BY <2>1
<1>7. /\ Referrers(h, x) = Inside(h, x) /\ x \notin hd
      /\ \A i \in 1 .. Len(st) : ~Holds(st[i], x)
  BY <1>2, <1>4, <1>6, InsideIs
<1>8. ASSUME NEW y \in Referrers(h, x) PROVE y \in Garbage(h)
  <2>1. y \in Found(h) /\ x \in Out(h, y)
    BY <1>7 DEF Inside
  <2> QED
    BY <1>2, <1>3, <2>1 DEF Garbage
<1> QED
  BY <1>2, <1>5, <1>7, <1>8

\* It is there, and an object of it is referred to by a zval of it.
LEMMA GarbageThere ==
    ASSUME NEW h, NEW hd, NEW st, Good(h, hd, st)
    PROVE  /\ \A x \in Garbage(h) : h.type[x] # "free"
           /\ \A o \in Garbage(h) \cap Object : \E z \in Garbage(h) \cap Zval : To(h, z, o)
<1>1. h \in Heaps /\ Kinds(h) /\ Rooted(h) /\ st \in Seq(Tasks) /\ Exact(h, hd, st)
  BY DEF Good, AlmostGood
<1>2. ASSUME NEW x \in Garbage(h), x \notin h.roots \/ x \in Object PROVE Referrers(h, x) # {}
  <2>1. /\ x \in Node /\ x \in Found(h) /\ x \notin hd
        /\ \A i \in 1 .. Len(st) : ~Holds(st[i], x)
        /\ Referrers(h, x) = Inside(h, x)
    BY GarbageIsolated
  <2>2. CASE x \in h.roots
    <3>1. h.rc[x] > 0 /\ h.rc[x] = RefsOf(h, hd, st, x)
      BY <1>1, <1>2, <2>1, <2>2 DEF Rooted, Exact
    <3>2. Holders(st, x) = {} /\ ByVariable(hd, x) = 0
      BY <2>1 DEF Holders, ByVariable
    <3>3. Cardinality({}) = 0
      BY FS_EmptySet
    <3> SUFFICES ASSUME Referrers(h, x) = {} PROVE FALSE
      OBVIOUS
    <3>4. RefsOf(h, hd, st, x) = 0
      BY <3>2, <3>3 DEF RefsOf
    <3> QED
      BY <3>1, <3>4
  <2>3. CASE x \notin h.roots
    <3>1. PICK y \in Found(h) : x \in Out(h, y)
      BY <1>1, <2>1, <2>3, FoundIs
    <3> QED
      BY <2>1, <3>1 DEF Inside
  <2> QED
    BY <2>2, <2>3
<1>3. ASSUME NEW x \in Garbage(h) PROVE h.type[x] # "free"
  <2>1. x \in Node
    BY GarbageIsolated
  <2>2. CASE x \in h.roots
    BY <1>1, <2>1, <2>2 DEF Rooted
  <2>3. CASE x \notin h.roots
    <3>1. PICK y \in Referrers(h, x) : TRUE
      BY <1>2, <2>3
    <3>2. h.rc[x] > 0
      BY <1>1, <2>1, CountsType DEF Referrers
    <3> QED
      BY <1>1, <2>1, <3>2, CountsType
  <2> QED
    BY <2>2, <2>3
<1>4. ASSUME NEW o \in Garbage(h) \cap Object PROVE \E z \in Garbage(h) \cap Zval : To(h, z, o)
  <2>1. PICK y \in Referrers(h, o) : TRUE
    BY <1>2
  <2>2. y \in Garbage(h) /\ y \in Node /\ o \in Counted(h, y)
    BY GarbageIsolated DEF Referrers
  <2>3. y \in Zval /\ To(h, y, o)
    BY <1>1, <2>2, CountedIs
  <2> QED
    BY <2>2, <2>3
<1> QED
  BY <1>3, <1>4

\* What zval_collect_white takes away from the count of an object.
Lost(h, x) == {z \in Garbage(h) : x \in Out(h, z)}
CollectedOf(g, h) ==
    /\ g \in Heaps
    /\ g.type = h.type /\ g.kids = h.kids /\ g.obj = h.obj /\ g.done = h.done /\ g.roots = {}
    /\ \A o \in Object : g.rc[o] = h.rc[o] - Cardinality(Lost(h, o))
    /\ \A z \in Zval : g.rc[z] = IF z \in Garbage(h) THEN h.rc[z] + 1 ELSE h.rc[z]
    /\ \A z \in Zval : \/ z \in Found(h) /\ g.col[z] = "black"
                       \/ z \notin Found(h) /\ g.col[z] = h.col[z]
    /\ \A x \in Node : g.addr[x] = IF x \in Garbage(h) \cap Zval THEN "list"
                                   ELSE IF x \in h.roots THEN "null" ELSE h.addr[x]

\* The zvals that condemn an object are finitely many.
LEMMA LostType ==
    ASSUME NEW h \in Heaps, Kinds(h), NEW x
    PROVE  Lost(h, x) \in SUBSET Node /\ IsFiniteSet(Lost(h, x)) /\ Cardinality(Lost(h, x)) \in Nat
<1>1. Lost(h, x) \in SUBSET Node
  BY FoundIs DEF Lost, Garbage
<1> QED
  BY <1>1, NodesFinite, PartCount

\* What a collection leaves.
LEMMA CollectedFields ==
    ASSUME NEW h \in Heaps, Kinds(h) PROVE CollectedOf(Collected(h), h)
<1> DEFINE g == Collected(h)  G == Garbage(h)  F == Found(h)
<1>1. \A x \in Node : h.rc[x] \in Int /\ h.rc[x] - Cardinality(Lost(h, x)) \in Int /\ h.rc[x] + 1 \in Int
  BY LostType DEF Heaps
<1> DEFINE rc == [x \in Node |-> IF x \in Object THEN h.rc[x] - Cardinality(Lost(h, x))
                                 ELSE IF x \in G THEN h.rc[x] + 1 ELSE h.rc[x]]
           col == [x \in Node |-> IF x \in G \cap Object THEN "purple"
                                  ELSE IF x \in F THEN "black" ELSE h.col[x]]
           addr == [x \in Node |-> IF x \in G \cap Zval THEN "list"
                                   ELSE IF x \in h.roots THEN "null" ELSE h.addr[x]]
<1>2. g = [h EXCEPT !.rc = rc, !.col = col, !.addr = addr, !.roots = {}]
  BY DEF Collected, Lost
<1>3. rc \in [Node -> Int] /\ col \in [Node -> {"black", "purple"}]
      /\ addr \in [Node -> {"null", "root", "list"}]
  BY <1>1 DEF Heaps
<1>4. \A o \in Object : rc[o] = h.rc[o] - Cardinality(Lost(h, o))
  BY Apartness
<1>5. \A z \in Zval : /\ rc[z] = IF z \in G THEN h.rc[z] + 1 ELSE h.rc[z]
                      /\ (z \in F /\ col[z] = "black") \/ (z \notin F /\ col[z] = h.col[z])
  <2> SUFFICES ASSUME NEW z \in Zval
               PROVE  /\ rc[z] = IF z \in G THEN h.rc[z] + 1 ELSE h.rc[z]
                      /\ (z \in F /\ col[z] = "black") \/ (z \notin F /\ col[z] = h.col[z])
    OBVIOUS
  <2>1. z \in Node /\ z \notin Object
    BY Apartness
  <2> HIDE DEF F, G
  <2>2. rc[z] = IF z \in G THEN h.rc[z] + 1 ELSE h.rc[z]
    BY <2>1
  <2>3. col[z] = IF z \in F THEN "black" ELSE h.col[z]
    BY <2>1
  <2> HIDE DEF rc, col
  <2> QED
    BY <2>2, <2>3
<1>6. \A x \in Node : addr[x] = IF x \in G \cap Zval THEN "list"
                                ELSE IF x \in h.roots THEN "null" ELSE h.addr[x]
  OBVIOUS
<1> HIDE DEF g, rc, col, addr
<1>7. /\ g \in Heaps /\ g.type = h.type /\ g.kids = h.kids /\ g.obj = h.obj /\ g.done = h.done
      /\ g.roots = {} /\ g.rc = rc /\ g.col = col /\ g.addr = addr
  BY <1>2, <1>3 DEF Heaps
<1>8. CollectedOf(g, h)
  BY <1>4, <1>5, <1>6, <1>7 DEF CollectedOf
<1> QED
  BY <1>8 DEF g

\* What is left of the references to a node.
LEMMA CollectedRefs ==
    ASSUME NEW h, NEW hd, NEW st, Good(h, hd, st), NEW g, CollectedOf(g, h)
    PROVE  /\ \A z \in Zval : Referrers(g, z) = Referrers(h, z)
           /\ \A o \in Object : /\ Referrers(g, o) = Referrers(h, o) \ Lost(h, o)
                                /\ Lost(h, o) \in SUBSET Referrers(h, o)
<1>1. h \in Heaps /\ Kinds(h) /\ Lists(h, st)
  BY DEF Good, AlmostGood, Shape
<1>2. /\ g.type = h.type /\ g.kids = h.kids /\ g.obj = h.obj
      /\ \A x \in Node : g.addr[x] = "list" <=> (h.addr[x] = "list" \/ x \in Garbage(h) \cap Zval)
  <2>1. \A x \in h.roots : h.addr[x] # "list"
    <3>1. Rooted(h) /\ h.roots \in SUBSET Node
      BY <1>1 DEF Good, AlmostGood, Heaps
    <3> QED
      BY <3>1 DEF Rooted
  <2> QED
    BY <2>1 DEF CollectedOf
<1>3. \A y \in Garbage(h) : y \in Node /\ h.addr[y] # "list"
  BY GarbageIsolated
<1>4. ASSUME NEW z \in Zval PROVE Referrers(g, z) = Referrers(h, z)
  <2>1. ASSUME NEW y \in Node PROVE z \in Counted(g, y) <=> z \in Counted(h, y)
    <3>1. CASE h.type[y] = "object"
      <4>1. y \in Zval
        BY <1>1, <3>1, Apartness DEF Kinds
      <4>2. h.obj[y] \in Object
        BY <1>1, <3>1, <4>1 DEF Kinds
      <4>3. z # h.obj[y]
        BY <4>2, Apartness
      <4> QED
        BY <1>2, <3>1, <4>3 DEF Counted, Out
    <3>2. CASE h.type[y] # "object"
      BY <1>2, <3>2 DEF Counted, Uncounted, Out
    <3> QED
      BY <3>1, <3>2
  <2> QED
    BY <2>1 DEF Referrers
<1>5. ASSUME NEW o \in Object
      PROVE  /\ Referrers(g, o) = Referrers(h, o) \ Lost(h, o)
             /\ Lost(h, o) \in SUBSET Referrers(h, o)
  <2>1. ASSUME NEW y \in Node
        PROVE  /\ o \in Counted(g, y) <=> o \in Counted(h, y) /\ y \notin Lost(h, o)
               /\ y \in Lost(h, o) => o \in Counted(h, y)
    <3>1. CASE h.type[y] = "object"
      <4>1. y \in Zval
        BY <1>1, <3>1, Apartness DEF Kinds
      <4> QED
        BY <1>2, <1>3, <3>1, <4>1 DEF Counted, Uncounted, Out, Lost
    <3>2. CASE h.type[y] # "object"
      <4>1. o \notin Out(h, y) /\ o \notin Out(g, y)
        <5>1. h.kids[y] \in SUBSET Zval
          BY <1>1 DEF Heaps
        <5> QED
          BY <1>2, <3>2, <5>1, Apartness DEF Out
      <4> QED
        BY <1>2, <3>2, <4>1 DEF Counted, Uncounted, Lost
    <3> QED
      BY <3>1, <3>2
  <2>2. Lost(h, o) \in SUBSET Node
    BY <1>3 DEF Lost
  <2> QED
    BY <2>1, <2>2 DEF Referrers
<1> QED
  BY <1>4, <1>5

\* How much the count of an object loses.
LEMMA CollectedCounts ==
    ASSUME NEW h, NEW hd, NEW st, Good(h, hd, st), NEW g, CollectedOf(g, h)
    PROVE  /\ \A o \in Object : g.rc[o] = RefsOf(g, hd, st, o)
           /\ \A z \in Zval : g.rc[z] = RefsOf(g, hd, st, z) + (IF z \in Garbage(h) THEN 1 ELSE 0)
<1>1. h \in Heaps /\ st \in Seq(Tasks) /\ Kinds(h) /\ Exact(h, hd, st)
  BY DEF Good, AlmostGood
<1>2. ASSUME NEW o \in Object PROVE g.rc[o] = RefsOf(g, hd, st, o)
  <2> DEFINE S == Referrers(h, o)  T == Lost(h, o)
             v == ByVariable(hd, o)  w == Cardinality(Holders(st, o))
  <2>1. S \in SUBSET Node /\ T \in SUBSET S /\ Referrers(g, o) = S \ T
    BY CollectedRefs DEF Referrers
  <2>2. IsFiniteSet(S) /\ S \cap T = T
    BY <2>1, NodesFinite
  <2>3. Cardinality(S \ T) = Cardinality(S) - Cardinality(T)
    BY <2>2, FS_Difference
  <2>4. h.rc[o] = RefsOf(h, hd, st, o) /\ g.rc[o] = h.rc[o] - Cardinality(T)
    BY <1>1, Apartness DEF Exact, CollectedOf
  <2>5. Cardinality(T) \in Nat /\ Cardinality(S) \in Nat /\ w \in Nat
    BY <1>1, LostType, RefsType
  <2>6. v \in {0, 1}
    BY DEF ByVariable
  <2>7. RefsOf(h, hd, st, o) = Cardinality(S) + v + w /\ RefsOf(g, hd, st, o) = Cardinality(S \ T) + v + w
    BY <2>1 DEF RefsOf
  <2> HIDE DEF S, T, v, w
  <2> QED
    BY <2>3, <2>4, <2>5, <2>6, <2>7
<1>3. ASSUME NEW z \in Zval
      PROVE  g.rc[z] = RefsOf(g, hd, st, z) + (IF z \in Garbage(h) THEN 1 ELSE 0)
  <2>1. Referrers(g, z) = Referrers(h, z)
    BY CollectedRefs
  <2>2. RefsOf(g, hd, st, z) = RefsOf(h, hd, st, z) /\ RefsOf(h, hd, st, z) \in Nat
    BY <1>1, <2>1, RefsType DEF RefsOf
  <2>3. h.rc[z] = RefsOf(h, hd, st, z)
    BY <1>1, Apartness DEF Exact
  <2>4. g.rc[z] = IF z \in Garbage(h) THEN h.rc[z] + 1 ELSE h.rc[z]
    BY DEF CollectedOf
  <2> QED
    BY <2>2, <2>3, <2>4
<1> QED
  BY <1>2, <1>3

\* An object without references has no zval among the garbage.
LEMMA LostNothing ==
    ASSUME NEW h, NEW hd, NEW st, Good(h, hd, st), NEW g, CollectedOf(g, h), NEW o \in Object, h.rc[o] = 0
    PROVE  /\ g.rc[o] = 0
           /\ \A z \in Zval : To(h, z, o) => z \notin Garbage(h)
<1>1. h \in Heaps /\ st \in Seq(Tasks) /\ Kinds(h) /\ Exact(h, hd, st)
  BY DEF Good, AlmostGood
<1>2. \A y \in Node : o \notin Counted(h, y)
  <2>1. RefsOf(h, hd, st, o) = 0
    BY <1>1, Apartness DEF Exact
  <2> QED
    BY <1>1, <2>1, NoRefs
<1>3. Lost(h, o) = {}
  BY <1>2, CollectedRefs DEF Referrers
<1>4. Cardinality(Lost(h, o)) = 0
  BY <1>3, FS_EmptySet
<1>5. g.rc[o] = 0
  BY <1>4 DEF CollectedOf
<1>6. ASSUME NEW z \in Zval, To(h, z, o), z \in Garbage(h) PROVE FALSE
  <2>1. o \in Out(h, z)
    BY <1>6 DEF To, Out
  <2> QED
    BY <1>3, <1>6, <2>1 DEF Lost
<1> QED
  BY <1>5, <1>6

\* The buffer is empty.
LEMMA CollectedRooted ==
    ASSUME NEW h, NEW hd, NEW st, Good(h, hd, st), NEW g, CollectedOf(g, h)
    PROVE  Kinds(g) /\ Rooted(g)
<1>1. h \in Heaps /\ st \in Seq(Tasks) /\ Kinds(h) /\ Rooted(h)
  BY DEF Good, AlmostGood
<1>2. /\ g.type = h.type /\ g.kids = h.kids /\ g.obj = h.obj /\ g.roots = {}
      /\ \A z \in Zval : g.rc[z] = IF z \in Garbage(h) THEN h.rc[z] + 1 ELSE h.rc[z]
      /\ \A x \in Node : g.addr[x] = IF x \in Garbage(h) \cap Zval THEN "list"
                                     ELSE IF x \in h.roots THEN "null" ELSE h.addr[x]
  BY DEF CollectedOf
<1>3. ASSUME NEW x \in Node, h.type[x] = "free" PROVE g.rc[x] = 0 /\ g.addr[x] = "null"
  <2>1. x \notin Garbage(h)
    BY <1>3, GarbageThere
  <2>2. h.rc[x] = 0 /\ h.addr[x] = "null"
    BY <1>1, <1>3 DEF Kinds
  <2>3. g.rc[x] = 0
    <3>1. CASE x \in Zval
      BY <1>2, <2>1, <2>2, <3>1
    <3>2. CASE x \in Object
      BY <2>2, <3>2, LostNothing
    <3> QED
      BY <3>1, <3>2, Apartness
  <2> QED
    BY <1>2, <2>1, <2>2, <2>3
<1>4. Kinds(g)
  BY <1>1, <1>2, <1>3 DEF Kinds
<1>5. Rooted(g)
  <2>1. Cardinality(g.roots) = 0 /\ MaxRoots \in Nat
    BY <1>2, FS_EmptySet, MaxRootsAssumption DEF MaxRootsAssumption
  <2>2. \A x \in Node : g.addr[x] # "root"
    BY <1>1, <1>2 DEF Rooted
  <2> QED
    BY <1>2, <2>1, <2>2 DEF Rooted
<1> QED
  BY <1>4, <1>5

\* Nothing is garbage but objects: then nothing is.
LEMMA CollectNone ==
    ASSUME NEW h, NEW hd, NEW st, Good(h, hd, st), NEW g, CollectedOf(g, h), Garbage(h) \cap Zval = {}
    PROVE  Good(g, hd, st)
<1>1. /\ h \in Heaps /\ hd \in SUBSET Zval /\ st \in Seq(Tasks) /\ Kinds(h) /\ Rooted(h)
      /\ Exact(h, hd, st) /\ Shape(h, hd, st, {})
  BY DEF Good, AlmostGood
<1>2. Garbage(h) = {}
  <2>1. Garbage(h) \cap Object = {}
    BY GarbageThere
  <2>2. Garbage(h) \in SUBSET Node
    BY <1>1, FoundIs DEF Garbage
  <2> QED
    BY <2>1, <2>2, Apartness
<1>3. Kinds(g) /\ Rooted(g)
  BY CollectedRooted
<1>4. Exact(g, hd, st)
  <2>1. /\ \A o \in Object : g.rc[o] = RefsOf(g, hd, st, o)
        /\ \A z \in Zval : g.rc[z] = RefsOf(g, hd, st, z) + 0
    BY <1>2, CollectedCounts
  <2>2. \A z \in Zval : RefsOf(g, hd, st, z) \in Nat
    BY <1>1, RefsType
  <2> QED
    BY <2>1, <2>2, Apartness DEF Exact
<1>5. Shape(g, hd, st, {})
  <2>1. Used(h, st)
    BY <1>1, UsedNow
  <2>2. \A o \in Object : g.rc[o] = h.rc[o]
    <3>1. \A o \in Object : Lost(h, o) = {}
      BY <1>2 DEF Lost
    <3>2. Cardinality({}) = 0
      BY FS_EmptySet
    <3>3. \A o \in Object : h.rc[o] \in Int
      BY <1>1, Apartness DEF Heaps
    <3> QED
      BY <3>1, <3>2, <3>3 DEF CollectedOf
  <2>3. \A x \in Node : g.addr[x] = IF x \in h.roots THEN "null" ELSE h.addr[x]
    BY <1>2 DEF CollectedOf
  <2>4. \A x \in h.roots : h.addr[x] # "list"
    BY <1>1 DEF Rooted, Heaps
  <2>5. \A o \in Object : g.addr[o] # "list"
    BY <1>1, <2>3, Apartness DEF Shape, Lists
  <2>6. \A z \in Zval : g.addr[z] = "list" <=> h.addr[z] = "list"
    BY <2>3, <2>4, Apartness
  <2>7. \A z \in Zval : h.addr[z] = "list" => g.col[z] = "black"
    BY <1>1 DEF CollectedOf, Shape, Lists
  <2>8. ASSUME NEW j \in 1 .. Len(st)
        PROVE  /\ st[j][1] = "gone" => g.addr[st[j][2]] # "root"
               /\ st[j][1] = "efree" => g.addr[st[j][2]] = "null"
    <3>1. st[j] \in Tasks
      BY <1>1
    <3>2. st[j][1] = "gone" => h.addr[st[j][2]] # "root" /\ st[j][2] \in Node
      BY <1>1, <3>1, TaskType, Apartness DEF Shape, Calls
    <3>3. st[j][1] = "efree" => h.addr[st[j][2]] = "null" /\ st[j][2] \in Node
      BY <1>1, <3>1, TaskType, Apartness DEF Shape, Dying
    <3> QED
      BY <2>3, <3>2, <3>3
  <2>9. /\ g \in Heaps /\ g.type = h.type /\ g.kids = h.kids /\ g.obj = h.obj /\ g.done = h.done
    BY DEF CollectedOf
  <2> QED
    BY <1>1, <2>1, <2>2, <2>5, <2>6, <2>7, <2>8, <2>9, SameShape
<1> QED
  BY <1>1, <1>3, <1>4, <1>5 DEF Good, AlmostGood, CollectedOf

\* The list of a collection, on top of the stack.
LEMMA OrderIs ==
    ASSUME NEW S \in SUBSET Zval, NEW l \in Orders(S)
    PROVE  /\ l \in Seq(Zval) /\ <<"dtors", l, l>> \in Tasks
           /\ InList(<<"dtors", l, l>>) = S /\ Rest(<<"dtors", l, l>>) = S
<1>1. l \in [1 .. Cardinality(S) -> S] /\ \A z \in S : \E i \in DOMAIN l : l[i] = z
  BY DEF Orders
<1>2. Cardinality(S) \in Nat
  <2>1. IsFiniteSet(S)
    BY FiniteAssumption, FS_Subset DEF FiniteAssumption
  <2> QED
    BY <2>1, FS_CardinalityType
<1>3. l \in Seq(Zval)
  BY <1>1, <1>2
<1>4. {l[i] : i \in DOMAIN l} = S
  BY <1>1
<1> QED
  BY <1>3, <1>4, MadeList DEF InList, Rest

\* The lists of collections that are interrupted stay as they were.
LEMMA CollectShape ==
    ASSUME NEW h, NEW hd, NEW st, Good(h, hd, st), NEW g, CollectedOf(g, h),
           NEW t \in Tasks, t[1] = "dtors", InList(t) = Garbage(h) \cap Zval, Rest(t) = Garbage(h) \cap Zval,
           NEW s2, Pushed(st, t, s2)
    PROVE  Shape(g, hd, s2, {})
<1> DEFINE n == Len(st)  G == Garbage(h)  L == G \cap Zval
<1>1. /\ h \in Heaps /\ hd \in SUBSET Zval /\ st \in Seq(Tasks) /\ Kinds(h) /\ Rooted(h)
      /\ Exact(h, hd, st) /\ Lists(h, st) /\ Apart(h, hd, st, {}) /\ Waits(h, st)
      /\ Calls(h, st) /\ Dying(h, hd, st)
  BY DEF Good, AlmostGood, Shape
<1>2. /\ n \in Nat /\ Len(s2) = n + 1 /\ s2[n + 1] = t /\ n + 1 \in 1 .. n + 1
      /\ \A i \in 1 .. n : i \in 1 .. n + 1 /\ s2[i] = st[i] /\ i < n + 1 /\ i # n + 1
      /\ \A i \in 1 .. n + 1 : i # n + 1 => i \in 1 .. n
  BY <1>1 DEF Pushed
<1>3. InList(t) = L /\ Rest(t) = L /\ Due(t) = L /\ IsList(t)
  BY DEF Due, IsList
<1>4. /\ g \in Heaps /\ g.type = h.type /\ g.kids = h.kids /\ g.obj = h.obj /\ g.done = h.done
      /\ \A z \in Zval : (z \in Found(h) /\ g.col[z] = "black") \/ (z \notin Found(h) /\ g.col[z] = h.col[z])
      /\ \A x \in Node : g.addr[x] = IF x \in L THEN "list"
                                     ELSE IF x \in h.roots THEN "null" ELSE h.addr[x]
  BY DEF CollectedOf
<1>5. \A z, o : To(g, z, o) <=> To(h, z, o)
  BY <1>4 DEF To
<1>6. \A z \in G : /\ z \in Node /\ z \in Found(h) /\ z \notin hd /\ h.addr[z] # "list"
                   /\ \A i \in 1 .. n : ~Holds(st[i], z)
                   /\ \A c \in Node : z \in Counted(h, c) => c \in G
  BY GarbageIsolated DEF Referrers
<1>7. \A z \in G : \A i \in 1 .. n : /\ z \notin InList(st[i])
                                     /\ st[i][1] = "drop" => z \notin st[i][2]
                                     /\ st[i][1] = "buffer" => z # st[i][3]
  BY <1>6 DEF Holds
<1>8. \A z \in Zval, c \in Node : z \in h.kids[c] => z \in Counted(h, c)
  BY <1>1, CountedIs
<1>9. \A z \in Zval : g.addr[z] = "list" <=> (z \in L \/ h.addr[z] = "list")
  <2>1. \A x \in h.roots : h.addr[x] # "list"
    BY <1>1 DEF Rooted, Heaps
  <2> QED
    BY <1>4, <2>1, Apartness
<1>10. \A i \in 1 .. n : \A z \in InList(st[i]) : z \in Zval
  <2>1. \A i \in 1 .. n : st[i] \in Tasks
    BY <1>1
  <2>2. ASSUME NEW i \in 1 .. n, NEW z \in InList(st[i]) PROVE z \in Zval
    <3>1. st[i][2] \in Seq(Zval) /\ IsList(st[i])
      BY <2>1, <2>2, TaskType DEF InList, IsList
    <3> QED
      BY <3>1 DEF InList, IsList
  <2> QED
    BY <2>2
<1> HIDE DEF n, G, L
<1>11. Lists(g, s2)
  <2>1. \A o \in Object : g.addr[o] # "list"
    BY <1>1, <1>4, Apartness DEF Lists, L
  <2>2. ASSUME NEW z \in Zval, g.addr[z] = "list"
        PROVE  g.col[z] = "black" /\ \E i \in 1 .. n + 1 : z \in InList(s2[i])
    <3>1. CASE z \in L
      BY <1>2, <1>3, <1>4, <1>6, <3>1 DEF L
    <3>2. CASE h.addr[z] = "list"
      <4>1. h.col[z] = "black" /\ \E i \in 1 .. n : z \in InList(st[i])
        BY <1>1, <3>2 DEF Lists, n
      <4> QED
        BY <1>2, <1>4, <4>1
    <3> QED
      BY <1>9, <2>2, <3>1, <3>2
  <2>3. ASSUME NEW i \in 1 .. n + 1, NEW z \in InList(s2[i])
        PROVE  g.addr[z] = "list" /\ \A j \in 1 .. n + 1 : z \in InList(s2[j]) => j = i
    <3>1. CASE i = n + 1
      <4>1. z \in L
        BY <1>2, <1>3, <2>3, <3>1
      <4>2. g.addr[z] = "list"
        BY <1>9, <4>1 DEF L
      <4>3. \A j \in 1 .. n + 1 : z \in InList(s2[j]) => j = i
        BY <1>2, <1>7, <3>1, <4>1 DEF L
      <4> QED
        BY <4>2, <4>3
    <3>2. CASE i # n + 1
      <4>1. i \in 1 .. n /\ z \in InList(st[i])
        BY <1>2, <2>3, <3>2
      <4>2. z \in Zval /\ h.addr[z] = "list" /\ \A j \in 1 .. n : z \in InList(st[j]) => j = i
        BY <1>1, <1>10, <4>1 DEF Lists, n
      <4>3. z \notin L
        BY <1>6, <4>2 DEF L
      <4>4. \A j \in 1 .. n + 1 : z \in InList(s2[j]) => j = i
        BY <1>2, <1>3, <4>2, <4>3
      <4> QED
        BY <1>9, <4>2, <4>4
    <3> QED
      BY <3>1, <3>2
  <2>4. ASSUME NEW i \in 1 .. n + 1, IsList(s2[i])
        PROVE  /\ Rest(s2[i]) \subseteq InList(s2[i])
               /\ s2[i][1] = "destroy" => \A z \in InList(s2[i]) \ Rest(s2[i]) : g.type[z] # "array"
    <3>1. CASE i = n + 1
      BY <1>2, <1>3, <3>1
    <3>2. CASE i # n + 1
      BY <1>1, <1>2, <1>4, <2>4, <3>2 DEF Lists, n
    <3> QED
      BY <3>1, <3>2
  <2> QED
    BY <1>2, <2>1, <2>2, <2>3, <2>4 DEF Lists
<1>12. ASSUME NEW o \in Object, h.rc[o] = 0, NEW i \in 1 .. n, Leads(h, st, o, i)
       PROVE  g.rc[o] = 0 /\ Leads(g, s2, o, i)
  <2>1. g.rc[o] = 0 /\ \A z \in Zval : To(h, z, o) => z \notin G
    BY <1>12, LostNothing DEF G
  <2>2. \E z \in Due(s2[i]) : To(g, z, o)
    BY <1>2, <1>5, <1>12 DEF Leads
  <2>3. \A z \in InList(s2[n + 1]) : ~To(g, z, o)
    BY <1>2, <1>3, <1>5, <2>1 DEF L
  <2>4. ASSUME NEW m \in i + 1 .. n + 1 PROVE \A z \in InList(s2[m]) : ~To(g, z, o)
    <3>1. m = n + 1 \/ (m \in i + 1 .. n /\ m \in 1 .. n)
      BY <1>2
    <3>2. CASE m \in i + 1 .. n /\ m \in 1 .. n
      BY <1>2, <1>5, <1>12, <3>2 DEF Leads, n
    <3> QED
      BY <2>3, <3>1, <3>2
  <2> QED
    BY <1>2, <2>1, <2>2, <2>4 DEF Leads
<1>13. Apart(g, hd, s2, {})
  <2> SUFFICES ASSUME NEW i \in 1 .. n + 1, NEW z \in InList(s2[i])
               PROVE  /\ z \notin hd
                      /\ \A j \in 1 .. n + 1 : /\ s2[j][1] = "drop" /\ z \in s2[j][2] => i < j
                                               /\ s2[j][1] = "buffer" => z # s2[j][3]
                      /\ \A c \in Node : z \in g.kids[c] => Doomed(g, s2, i, c)
    BY <1>2 DEF Apart
  <2>1. CASE i = n + 1
    <3>1. z \in L /\ z \in G /\ z \in Zval
      BY <1>2, <1>3, <2>1 DEF L
    <3>2. ASSUME NEW j \in 1 .. n + 1
          PROVE  /\ s2[j][1] = "drop" /\ z \in s2[j][2] => i < j
                 /\ s2[j][1] = "buffer" => z # s2[j][3]
      BY <1>2, <1>7, <3>1
    <3>3. ASSUME NEW c \in Node, z \in g.kids[c] PROVE Doomed(g, s2, i, c)
      <4>1. c \in G
        BY <1>4, <1>6, <1>8, <3>1, <3>3
      <4>2. CASE c \in Zval
        BY <1>2, <1>3, <2>1, <4>1, <4>2 DEF Doomed, L
      <4>3. CASE c \in Object
        <5>1. PICK y \in L : To(h, y, c)
          BY <4>1, <4>3, GarbageThere DEF G, L
        <5>2. g.rc[c] = 0
          <6>1. RefsOf(g, hd, st, c) = 0
            <7>1. Referrers(h, c) \subseteq Lost(h, c)
              <8>1. Referrers(h, c) = Inside(h, c)
                BY <4>1, GarbageIsolated DEF G
              <8> QED
                BY <1>6, <4>1, <8>1 DEF Lost, Inside, Referrers, G
            <7>2. Referrers(g, c) = {}
              BY <4>3, <7>1, CollectedRefs
            <7>3. Holders(st, c) = {} /\ ByVariable(hd, c) = 0
              BY <1>6, <4>1 DEF Holders, ByVariable, n
            <7>4. Cardinality({}) = 0
              BY FS_EmptySet
            <7> QED
              BY <7>2, <7>3, <7>4 DEF RefsOf
          <6> QED
            BY <4>3, <6>1, CollectedCounts
        <5>3. Leads(g, s2, c, i)
          <6>1. \E x \in Due(s2[i]) : To(g, x, c)
            BY <1>2, <1>3, <1>5, <2>1, <5>1
          <6>2. \A m \in i + 1 .. n + 1 : FALSE
            BY <1>2, <2>1
          <6> QED
            BY <1>2, <6>1, <6>2 DEF Leads
        <5> QED
          BY <4>3, <5>2, <5>3 DEF Doomed
      <4> QED
        BY <4>2, <4>3, Apartness
    <3> QED
      BY <1>6, <3>1, <3>2, <3>3
  <2>2. CASE i # n + 1
    <3>1. i \in 1 .. n /\ z \in InList(st[i]) /\ z \in Zval
      BY <1>2, <1>10, <2>2
    <3>2. /\ z \notin hd
          /\ \A j \in 1 .. n : /\ st[j][1] = "drop" /\ z \in st[j][2] => i < j
                               /\ st[j][1] = "buffer" => z # st[j][3]
      BY <1>1, <3>1 DEF Apart, n
    <3>3. ASSUME NEW j \in 1 .. n + 1
          PROVE  /\ s2[j][1] = "drop" /\ z \in s2[j][2] => i < j
                 /\ s2[j][1] = "buffer" => z # s2[j][3]
      BY <1>2, <3>2
    <3>4. ASSUME NEW c \in Node, z \in g.kids[c] PROVE Doomed(g, s2, i, c)
      <4>1. Doomed(h, st, i, c)
        BY <1>1, <1>4, <3>1, <3>4 DEF Apart, n
      <4>2. CASE c \in Due(st[i])
        BY <1>2, <3>1, <4>2 DEF Doomed
      <4>3. CASE c \in Object /\ h.rc[c] = 0 /\ Leads(h, st, c, i)
        <5>1. g.rc[c] = 0 /\ Leads(g, s2, c, i)
          BY <1>12, <3>1, <4>3
        <5> QED
          BY <4>3, <5>1 DEF Doomed
      <4>4. CASE i < n /\ st[i + 1] = <<"user", c>>
        <5>1. i + 1 \in 1 .. n /\ i < n + 1
          BY <1>2, <3>1, <4>4
        <5> QED
          BY <1>2, <4>4, <5>1 DEF Doomed
      <4> QED
        BY <4>1, <4>2, <4>3, <4>4 DEF Doomed, n
    <3> QED
      BY <3>2, <3>3, <3>4
  <2> QED
    BY <2>1, <2>2
<1>14. Waits(g, s2)
  <2> SUFFICES ASSUME NEW o \in Object, Rests(g, o) PROVE \E k \in 1 .. n + 1 : Owner(g, s2, o, k)
    BY <1>2 DEF Waits
  <2>0. \A j \in 1 .. n : About(g, s2[j], o) <=> About(h, st[j], o)
    BY <1>2, <1>4 DEF About
  <2>1. ~About(g, s2[n + 1], o)
    BY <1>2 DEF About
  <2>2. CASE h.rc[o] = 0
    <3>1. Rests(h, o)
      BY <1>4, <2>2 DEF Rests
    <3>2. PICK k \in 1 .. n : Owner(h, st, o, k)
      BY <1>1, <3>1 DEF Waits, n
    <3>3. Leads(g, s2, o, k)
      BY <1>12, <2>2, <3>2 DEF Owner
    <3>4. g.done[o] \/ (s2[k][1] = "dtors" /\ \E z \in Rest(s2[k]) : To(g, z, o))
      BY <1>2, <1>4, <1>5, <3>2 DEF Owner
    <3>5. \A j \in 1 .. n + 1 : About(g, s2[j], o) => j < k
      BY <1>2, <2>0, <2>1, <3>2 DEF Owner, n
    <3> QED
      BY <1>2, <3>2, <3>3, <3>4, <3>5 DEF Owner
  <2>3. CASE h.rc[o] # 0
    <3>1. PICK y \in Lost(h, o) : TRUE
      <4>1. Cardinality({}) = 0 /\ h.rc[o] \in Int
        BY <1>1, FS_EmptySet, Apartness DEF Heaps
      <4>2. g.rc[o] = h.rc[o] - Cardinality(Lost(h, o)) /\ g.rc[o] = 0
        BY DEF CollectedOf, Rests
      <4> SUFFICES ASSUME Lost(h, o) = {} PROVE FALSE
        OBVIOUS
      <4>3. Cardinality(Lost(h, o)) = 0
        BY <4>1
      <4> QED
        BY <2>3, <4>1, <4>2, <4>3
    <3>2. y \in G /\ y \in Node /\ o \in Counted(h, y)
      <4>1. y \in Referrers(h, o)
        BY CollectedRefs
      <4> QED
        BY <4>1 DEF Referrers, Lost, G
    <3>3. y \in L /\ To(h, y, o)
      BY <1>1, <3>2, CountedIs DEF L
    <3>4. Leads(g, s2, o, n + 1)
      <4>1. \A m \in n + 1 + 1 .. n + 1 : FALSE
        BY <1>2
      <4> QED
        BY <1>2, <1>3, <1>5, <3>3, <4>1 DEF Leads
    <3>5. \A j \in 1 .. n + 1 : About(g, s2[j], o) => j < n + 1
      BY <1>2, <2>1
    <3> QED
      BY <1>2, <1>3, <1>5, <3>3, <3>4, <3>5 DEF Owner
  <2> QED
    BY <2>2, <2>3
<1>15. Calls(g, s2)
  <2> SUFFICES ASSUME NEW j \in 1 .. n + 1
               PROVE  /\ s2[j][1] = "user" =>
                            /\ j > 1
                            /\ \/ s2[j - 1] = <<"delref", s2[j][2]>>
                               \/ /\ s2[j - 1][1] = "dtors" /\ g.done[s2[j][2]]
                                  /\ \E z \in InList(s2[j - 1]) : To(g, z, s2[j][2])
                      /\ s2[j][1] = "gone" =>
                            /\ g.type[s2[j][2]] = "valid" /\ g.kids[s2[j][2]] = {}
                            /\ g.rc[s2[j][2]] = 1 /\ g.addr[s2[j][2]] # "root"
                            /\ \A m \in 1 .. n + 1 : About(g, s2[m], s2[j][2]) => m < j
    BY <1>2 DEF Calls
  <2>0. CASE j = n + 1
    BY <1>2, <2>0
  <2>1. CASE j # n + 1
    <3>1. j \in 1 .. n /\ s2[j] = st[j] /\ st[j] \in Tasks
      BY <1>1, <1>2, <2>1 DEF n
    <3>2. ASSUME st[j][1] = "user"
          PROVE  /\ j > 1
                 /\ \/ s2[j - 1] = <<"delref", st[j][2]>>
                    \/ /\ s2[j - 1][1] = "dtors" /\ g.done[st[j][2]]
                       /\ \E z \in InList(s2[j - 1]) : To(g, z, st[j][2])
      <4>1. /\ j > 1
            /\ \/ st[j - 1] = <<"delref", st[j][2]>>
               \/ /\ st[j - 1][1] = "dtors" /\ h.done[st[j][2]]
                  /\ \E z \in InList(st[j - 1]) : To(h, z, st[j][2])
        BY <1>1, <3>1, <3>2 DEF Calls, n
      <4>2. j - 1 \in 1 .. n
        BY <1>2, <3>1, <4>1
      <4>3. s2[j - 1] = st[j - 1]
        BY <1>2, <4>2
      <4> QED
        BY <1>4, <1>5, <4>1, <4>3
    <3>3. ASSUME st[j][1] = "gone"
          PROVE  /\ g.type[st[j][2]] = "valid" /\ g.kids[st[j][2]] = {}
                 /\ g.rc[st[j][2]] = 1 /\ g.addr[st[j][2]] # "root"
                 /\ \A m \in 1 .. n + 1 : About(g, s2[m], st[j][2]) => m < j
      <4> DEFINE o == st[j][2]
      <4>1. o \in Object /\ o \in Node /\ o \notin Zval
        BY <3>1, <3>3, TaskType, Apartness
      <4>2. /\ h.type[o] = "valid" /\ h.kids[o] = {} /\ h.rc[o] = 1 /\ h.addr[o] # "root"
            /\ \A m \in 1 .. n : About(h, st[m], o) => m < j
        BY <1>1, <3>1, <3>3 DEF Calls, n
      <4>3. Holds(st[j], o)
        BY <3>3 DEF Holds
      <4> HIDE DEF o
      <4>4. \A y \in Node : o \notin Counted(h, y)
        BY <1>1, <3>1, <4>1, <4>2, <4>3, TwoRefs DEF n
      <4>5. Lost(h, o) = {}
        BY <4>1, <4>4, CollectedRefs DEF Referrers
      <4>6. g.rc[o] = 1
        <5>1. Cardinality({}) = 0
          BY FS_EmptySet
        <5>2. Cardinality(Lost(h, o)) = 0
          BY <4>5, <5>1
        <5>3. g.rc[o] = h.rc[o] - Cardinality(Lost(h, o))
          BY <4>1 DEF CollectedOf
        <5> QED
          BY <4>2, <5>2, <5>3
      <4>7. g.addr[o] # "root"
        BY <1>4, <4>1, <4>2
      <4>8. \A m \in 1 .. n + 1 : About(g, s2[m], o) => m < j
        <5>1. ~About(g, s2[n + 1], o)
          BY <1>2 DEF About
        <5>2. \A m \in 1 .. n : About(g, s2[m], o) <=> About(h, st[m], o)
          BY <1>2, <1>4 DEF About
        <5> QED
          BY <1>2, <4>2, <5>1, <5>2
      <4> QED
        BY <1>4, <4>2, <4>6, <4>7, <4>8 DEF o
    <3> QED
      BY <3>1, <3>2, <3>3
  <2> QED
    BY <2>0, <2>1
<1>16. Dying(g, hd, s2)
  <2> SUFFICES ASSUME NEW j \in 1 .. n + 1
               PROVE  /\ s2[j][1] = "efree" =>
                            /\ g.type[s2[j][2]] = "null" /\ g.addr[s2[j][2]] = "null" /\ s2[j][2] \notin hd
                            /\ \A c \in Node : s2[j][2] \notin g.kids[c]
                            /\ \A m \in 1 .. n + 1 :
                                  /\ s2[m][1] = "drop" => s2[j][2] \notin s2[m][2]
                                  /\ s2[m][1] = "buffer" /\ s2[m][3] = s2[j][2] => j < m
                                  /\ s2[m] = s2[j] => m = j
                      /\ s2[j][1] = "check" =>
                            j > 1 /\ s2[j - 1] = <<"efree", s2[j][2]>> /\ g.obj[s2[j][2]] \in Object
                      /\ s2[j][1] = "buffer" =>
                            \/ s2[j][2] = s2[j][3] /\ g.type[s2[j][3]] = "array"
                            \/ s2[j][2] \in Object /\ (To(g, s2[j][3], s2[j][2]) \/ g.type[s2[j][3]] = "null")
    BY <1>2 DEF Dying
  <2>0. CASE j = n + 1
    BY <1>2, <2>0
  <2>1. CASE j # n + 1
    <3>1. j \in 1 .. n /\ s2[j] = st[j] /\ st[j] \in Tasks
      BY <1>1, <1>2, <2>1 DEF n
    <3>2. ASSUME st[j][1] = "efree"
          PROVE  /\ g.type[st[j][2]] = "null" /\ g.addr[st[j][2]] = "null" /\ st[j][2] \notin hd
                 /\ \A c \in Node : st[j][2] \notin g.kids[c]
                 /\ \A m \in 1 .. n + 1 :
                       /\ s2[m][1] = "drop" => st[j][2] \notin s2[m][2]
                       /\ s2[m][1] = "buffer" /\ s2[m][3] = st[j][2] => j < m
                       /\ s2[m] = st[j] => m = j
      <4> DEFINE z == st[j][2]
      <4>1. z \in Zval /\ z \in Node
        BY <3>1, <3>2, TaskType, Apartness
      <4>2. /\ h.type[z] = "null" /\ h.addr[z] = "null" /\ z \notin hd
            /\ \A c \in Node : z \notin h.kids[c]
            /\ \A m \in 1 .. n :
                  /\ st[m][1] = "drop" => z \notin st[m][2]
                  /\ st[m][1] = "buffer" /\ st[m][3] = z => j < m
                  /\ st[m] = st[j] => m = j
        BY <1>1, <3>1, <3>2 DEF Dying, n
      <4>3. z \notin G
        <5> SUFFICES ASSUME z \in G PROVE FALSE
          OBVIOUS
        <5>1. z \notin h.roots
          BY <1>1, <4>1, <4>2 DEF Rooted
        <5>2. PICK y \in Found(h) : z \in Out(h, y)
          BY <1>1, <1>6, <5>1, FoundIs
        <5>3. y \in Node
          BY <1>1, <5>2, FoundIs
        <5>4. h.type[y] = "object" => h.obj[y] \in Object
          BY <1>1, <5>3, Apartness DEF Kinds
        <5> QED
          BY <4>1, <4>2, <5>2, <5>3, <5>4, Apartness DEF Out
      <4>4. g.addr[z] = "null"
        BY <1>4, <4>1, <4>2, <4>3 DEF L
      <4>5. ASSUME NEW m \in 1 .. n + 1
            PROVE  /\ s2[m][1] = "drop" => z \notin s2[m][2]
                   /\ s2[m][1] = "buffer" /\ s2[m][3] = z => j < m
                   /\ s2[m] = st[j] => m = j
        BY <1>2, <3>2, <4>2
      <4> QED
        BY <1>4, <4>2, <4>4, <4>5
    <3>3. ASSUME st[j][1] = "check"
          PROVE  j > 1 /\ s2[j - 1] = <<"efree", st[j][2]>> /\ g.obj[st[j][2]] \in Object
      <4>1. j > 1 /\ st[j - 1] = <<"efree", st[j][2]>> /\ h.obj[st[j][2]] \in Object
        BY <1>1, <3>1, <3>3 DEF Dying, n
      <4>2. j - 1 \in 1 .. n
        BY <1>2, <3>1, <4>1
      <4> QED
        BY <1>2, <1>4, <4>1, <4>2
    <3>4. ASSUME st[j][1] = "buffer"
          PROVE  \/ st[j][2] = st[j][3] /\ g.type[st[j][3]] = "array"
                 \/ st[j][2] \in Object /\ (To(g, st[j][3], st[j][2]) \/ g.type[st[j][3]] = "null")
      BY <1>1, <1>4, <1>5, <3>1, <3>4 DEF Dying, n
    <3> QED
      BY <3>1, <3>2, <3>3, <3>4
  <2> QED
    BY <2>0, <2>1
<1> QED
  BY <1>11, <1>13, <1>14, <1>15, <1>16 DEF Shape

\* The garbage becomes a list on top of the stack.
LEMMA CollectList ==
    ASSUME NEW h, NEW hd, NEW st, Good(h, hd, st), NEW g, CollectedOf(g, h),
           NEW l \in Orders(Garbage(h) \cap Zval)
    PROVE  Good(g, hd, Append(st, <<"dtors", l, l>>))
<1> DEFINE L == Garbage(h) \cap Zval  t == <<"dtors", l, l>>  s2 == Append(st, t)
<1>1. /\ h \in Heaps /\ hd \in SUBSET Zval /\ st \in Seq(Tasks) /\ Kinds(h)
  BY DEF Good, AlmostGood
<1>2. t \in Tasks /\ InList(t) = L /\ Rest(t) = L /\ t[1] = "dtors"
  BY OrderIs
<1>3. s2 \in Seq(Tasks) /\ Pushed(st, t, s2)
  BY <1>1, <1>2, PushedAppend
<1>4. \A x : Holds(t, x) <=> x \in L
  BY <1>2, HoldsList
<1> HIDE DEF t
<1>5. Kinds(g) /\ Rooted(g)
  BY CollectedRooted
<1>6. Exact(g, hd, s2)
  <2> SUFFICES ASSUME NEW x \in Node PROVE g.rc[x] = RefsOf(g, hd, s2, x)
    BY DEF Exact
  <2>1. RefsOf(g, hd, s2, x) = RefsOf(g, hd, st, x) + (IF Holds(t, x) THEN 1 ELSE 0)
    BY <1>1, <1>2, RefsPush
  <2>2. RefsOf(g, hd, st, x) \in Nat
    BY <1>1, RefsType
  <2> HIDE DEF s2
  <2>3. CASE x \in Zval
    <3>1. g.rc[x] = RefsOf(g, hd, st, x) + (IF x \in Garbage(h) THEN 1 ELSE 0)
      BY <2>3, CollectedCounts
    <3> QED
      BY <1>4, <2>1, <2>3, <3>1
  <2>4. CASE x \in Object
    <3>1. g.rc[x] = RefsOf(g, hd, st, x)
      BY <2>4, CollectedCounts
    <3> QED
      BY <1>4, <2>1, <2>2, <2>4, <3>1, Apartness
  <2> QED
    BY <2>3, <2>4, Apartness
<1>7. Shape(g, hd, s2, {})
  BY <1>2, <1>3, CollectShape
<1>8. g \in Heaps
  BY DEF CollectedOf
<1> QED
  BY <1>1, <1>3, <1>5, <1>6, <1>7, <1>8 DEF Good, AlmostGood, t

\* gc_collect_cycles keeps the invariant, with a list or without.
LEMMA CollectGood ==
    ASSUME NEW h, NEW hd, NEW st, Good(h, hd, st), Collect(h, st)
    PROVE  Good(heap', hd, stack')
<1>1. h \in Heaps /\ st \in Seq(Tasks) /\ Kinds(h)
  BY DEF Good, AlmostGood
<1>2. CollectedOf(Collected(h), h)
  BY <1>1, CollectedFields
<1>3. CASE Garbage(h) \cap Zval = {}
  <2>1. heap' = Collected(h) /\ stack' = st
    BY <1>3 DEF Collect
  <2> QED
    BY <1>2, <1>3, <2>1, CollectNone
<1>4. CASE Garbage(h) \cap Zval # {}
  <2>1. PICK l \in Orders(Garbage(h) \cap Zval) :
           heap' = Collected(h) /\ stack' = Append(st, <<"dtors", l, l>>)
    BY <1>4 DEF Collect
  <2> QED
    BY <1>2, <2>1, CollectList
<1> QED
  BY <1>3, <1>4

-----------------------------------------------------------------------------
(* The root buffer.                                                         *)

\* x can be buffered while z is what the caller holds.
Ready(h, st, x, z) ==
    /\ x \in Node /\ z \in Zval
    /\ h.type[z] # "free" /\ h.addr[z] # "list" /\ h.addr[x] # "list"
    /\ x \in Object => h.type[x] = "valid" /\ h.rc[x] > 0
    /\ \A j \in 1 .. Len(st) : st[j] # <<"gone", x>>
    /\ \/ x = z /\ h.type[z] = "array"
       \/ x \in Object /\ (To(h, z, x) \/ h.type[z] = "null")

\* A new root is purple.
LEMMA AsRootIs ==
    ASSUME NEW h \in Heaps, NEW x \in Node PROVE AsRoot(h, x) = AddRoot(Purple(h, x), x)
  BY DEF AsRoot, AddRoot, Purple, Heaps

\* A node that has no entry in the buffer gets one.
LEMMA AsRootGood ==
    ASSUME NEW h, NEW hd, NEW st, NEW x \in Node, Good(h, hd, st),
           h.addr[x] = "null", h.type[x] \in {"array", "valid"}, x \in Object => h.rc[x] > 0,
           Cardinality(h.roots) < MaxRoots, \A j \in 1 .. Len(st) : st[j] # <<"gone", x>>
    PROVE  Good(AsRoot(h, x), hd, st)
<1> DEFINE g == Purple(h, x)
<1>1. h \in Heaps
  BY DEF Good, AlmostGood
<1>2. Good(g, hd, st)
  BY ColourChange
<1>3. g.type = h.type /\ g.rc = h.rc /\ g.addr = h.addr /\ g.roots = h.roots
  BY <1>1, PurpleFields
<1>4. AsRoot(h, x) = AddRoot(g, x)
  BY <1>1, AsRootIs
<1> HIDE DEF g
<1> QED
  BY <1>2, <1>3, <1>4, RootAdd

\* gc_zobj_possible_root keeps it, as long as there is room.
LEMMA BufferedGood ==
    ASSUME NEW h, NEW hd, NEW st, NEW x \in Node, Good(h, hd, st), ~BufferFull(h, x),
           h.addr[x] # "list", h.type[x] \in {"array", "valid"}, x \in Object => h.rc[x] > 0,
           \A j \in 1 .. Len(st) : st[j] # <<"gone", x>>
    PROVE  Good(Buffered(h, x), hd, st)
<1>1. CASE h.col[x] = "purple"
  BY <1>1 DEF Buffered
<1>2. CASE h.col[x] # "purple" /\ h.addr[x] = "null"
  <2>1. Cardinality(h.roots) < MaxRoots
    BY <1>2 DEF BufferFull
  <2>2. Good(AsRoot(h, x), hd, st)
    BY <1>2, <2>1, AsRootGood
  <2> QED
    BY <1>2, <2>2 DEF Buffered
<1>3. CASE h.col[x] # "purple" /\ h.addr[x] # "null"
  BY <1>3, ColourChange DEF Buffered, Purple
<1> QED
  BY <1>1, <1>2, <1>3

\* gc_zobj_possible_root keeps it, and what it calls when the buffer is full.
LEMMA BufferGood ==
    ASSUME NEW h, NEW hd, NEW st, NEW x, NEW z, Good(h, hd, st), Ready(h, st, x, z), Buffer(h, x, z, st)
    PROVE  Good(heap', hd, stack')
<1>1. h \in Heaps /\ st \in Seq(Tasks) /\ st \o <<>> = st
  <2>1. h \in Heaps /\ st \in Seq(Tasks)
    BY DEF Good, AlmostGood
  <2> QED
    BY <2>1
<1>2. x \in Node /\ z \in Zval /\ h.addr[x] # "list" /\ h.addr[z] # "list" /\ h.type[z] # "free"
  BY DEF Ready
<1>3. CASE ~BufferFull(h, x)
  <2>1. heap' = Buffered(h, x) /\ stack' = st
    BY <1>1, <1>3 DEF Buffer, Continues
  <2>2. h.type[x] \in {"array", "valid"} /\ (x \in Object => h.rc[x] > 0)
        /\ \A j \in 1 .. Len(st) : st[j] # <<"gone", x>>
    BY DEF Ready
  <2>3. Good(Buffered(h, x), hd, st)
    BY <1>2, <1>3, <2>2, BufferedGood
  <2> QED
    BY <2>1, <2>3
<1>4. CASE BufferFull(h, x)
  <2> DEFINE g == Purple(h, x)
  <2>1. Good(g, hd, st)
    BY <1>2, ColourChange
  <2>2. /\ g \in Heaps /\ g.type = h.type /\ g.kids = h.kids /\ g.obj = h.obj /\ g.rc = h.rc
        /\ g.addr = h.addr /\ g.done = h.done /\ g.roots = h.roots
    BY <1>1, <1>2, PurpleFields
  <2> DEFINE t == <<"buffer", x, z>>
  <2>3. Collect([h EXCEPT !.col[x] = "purple", !.rc[z] = @ + 1], st \o <<t>>)
    BY <1>4 DEF Buffer
  <2>4. [h EXCEPT !.col[x] = "purple", !.rc[z] = @ + 1] = SetRc(g, z, g.rc[z] + 1)
    BY DEF SetRc, Purple
  <2> HIDE DEF g
  <2>5. t \in Tasks
    BY <1>2, MadeBuffer
  <2>6. st \o <<t>> = Append(st, t)
    BY <1>1, <2>5, Sequences
  <2>7. Fits(g, hd, st, t)
    BY <2>2 DEF Ready, Fits, IsList, Rests, To
  <2>8. Good(SetRc(g, z, g.rc[z] + 1), hd, Append(st, t))
    BY <1>2, <2>1, <2>2, <2>7, BufferPush
  <2>9. Collect(SetRc(g, z, g.rc[z] + 1), Append(st, t))
    BY <2>3, <2>4, <2>6
  <2> HIDE DEF t
  <2> QED
    BY <2>8, <2>9, CollectGood
<1> QED
  BY <1>3, <1>4

\* What a zval that lives on may make a root.
LEMMA RootReady ==
    ASSUME NEW h, NEW hd, NEW st, NEW z \in Zval, Good(h, hd, st), h.rc[z] > 0, h.addr[z] # "list"
    PROVE  /\ h.type[z] = "object" =>
                  h.obj[z] \in Object /\ h.type[h.obj[z]] = "valid" /\ Ready(h, st, h.obj[z], z)
           /\ h.type[z] = "array" => Ready(h, st, z, z)
<1>1. /\ h \in Heaps /\ st \in Seq(Tasks) /\ Kinds(h) /\ Exact(h, hd, st)
      /\ Lists(h, st) /\ Calls(h, st)
  BY DEF Good, AlmostGood, Shape
<1>2. z \in Node /\ h.type[z] # "free"
  BY <1>1, Apartness, CountsType
<1>3. ASSUME h.type[z] = "object"
      PROVE  h.obj[z] \in Object /\ h.type[h.obj[z]] = "valid" /\ Ready(h, st, h.obj[z], z)
  <2> DEFINE o == h.obj[z]
  <2>1. o \in Object /\ o \in Node /\ To(h, z, o)
    BY <1>1, <1>3, Apartness DEF Kinds, To
  <2> HIDE DEF o
  <2>2. o \in Counted(h, z)
    BY <1>1, <1>2, <2>1, CountedIs
  <2>3. h.rc[o] > 0 /\ h.type[o] # "free"
    BY <1>1, <1>2, <2>1, <2>2, CountsType
  <2>4. h.type[o] = "valid" /\ h.addr[o] # "list"
    BY <1>1, <2>1, <2>3 DEF Kinds, Lists
  <2>5. ASSUME NEW j \in 1 .. Len(st), st[j] = <<"gone", o>> PROVE FALSE
    <3>1. st[j][1] = "gone" /\ st[j][2] = o
      BY <2>5
    <3>2. h.rc[o] = 1 /\ Holds(st[j], o)
      BY <1>1, <3>1 DEF Calls, Holds
    <3> QED
      BY <1>1, <1>2, <2>1, <2>2, <3>2, TwoRefs
  <2>6. Ready(h, st, o, z)
    BY <1>2, <2>1, <2>3, <2>4, <2>5 DEF Ready
  <2> QED
    BY <2>1, <2>4, <2>6 DEF o
<1>4. ASSUME h.type[z] = "array" PROVE Ready(h, st, z, z)
  <2>1. z \notin Object
    BY Apartness
  <2>2. ASSUME NEW j \in 1 .. Len(st), st[j] = <<"gone", z>> PROVE FALSE
    <3>1. st[j] \in Tasks /\ st[j][1] = "gone" /\ st[j][2] = z
      BY <1>1, <2>2
    <3> QED
      BY <2>1, <3>1, TaskType
  <2> QED
    BY <1>2, <1>4, <2>1, <2>2 DEF Ready
<1> QED
  BY <1>3, <1>4

\* A reference was dropped, and it was not the last one.
LEMMA PossibleRootGood ==
    ASSUME NEW h, NEW hd, NEW st, NEW z \in Zval, Good(h, hd, st), h.rc[z] > 0,
           PossibleRoot(h, z, st), \A i \in 1 .. Len(st) : IsList(st[i]) => Listed
    PROVE  Good(heap', hd, stack')
<1>1. h \in Heaps /\ st \in Seq(Tasks) /\ Lists(h, st)
  BY DEF Good, AlmostGood, Shape
<1>2. st \o <<>> = st
  BY <1>1
<1>3. CASE Listed /\ h.addr[z] = "list" /\ h.col[z] = "black"
  <2>1. heap' = h /\ stack' = st
    BY <1>2, <1>3 DEF PossibleRoot, Continues
  <2> QED
    BY <2>1
<1>4. CASE ~(Listed /\ h.addr[z] = "list" /\ h.col[z] = "black")
  <2>1. h.addr[z] # "list"
    <3> SUFFICES ASSUME h.addr[z] = "list" PROVE FALSE
      OBVIOUS
    <3>1. h.col[z] = "black" /\ \E i \in 1 .. Len(st) : z \in InList(st[i])
      BY <1>1 DEF Lists
    <3>2. Listed
      BY <3>1 DEF InList, IsList
    <3> QED
      BY <1>4, <3>1, <3>2
  <2>2. CASE h.type[z] = "object"
    <3>1. h.type[h.obj[z]] = "valid" /\ Ready(h, st, h.obj[z], z)
      BY <2>1, <2>2, RootReady
    <3>2. Buffer(h, h.obj[z], z, st)
      BY <1>4, <2>2, <3>1 DEF PossibleRoot, BufferObject
    <3> QED
      BY <3>1, <3>2, BufferGood
  <2>3. CASE h.type[z] = "array"
    <3>1. Ready(h, st, z, z)
      BY <2>1, <2>3, RootReady
    <3>2. Buffer(h, z, z, st)
      BY <1>4, <2>3 DEF PossibleRoot
    <3> QED
      BY <3>1, <3>2, BufferGood
  <2>4. CASE h.type[z] \notin {"object", "array"}
    <3>1. heap' = h /\ stack' = st
      BY <1>2, <1>4, <2>4 DEF PossibleRoot, Continues
    <3> QED
      BY <3>1
  <2> QED
    BY <2>2, <2>3, <2>4
<1> QED
  BY <1>3, <1>4

\* _zval_ptr_dtor keeps it, when the reference it drops is its own.
LEMMA PtrDtorGood ==
    ASSUME NEW h, NEW hd, NEW st \in Seq(Tasks), NEW z \in Zval,
           Good(h, hd, Append(st, <<"drop", {z}>>)), PtrDtor(h, z, st),
           \A i \in 1 .. Len(st) : IsList(st[i]) => Listed
    PROVE  Good(heap', hd, stack')
<1>1. h \in Heaps /\ Kinds(h) /\ Rooted(h) /\ Exact(h, hd, Append(st, <<"drop", {z}>>))
  BY DEF Good, AlmostGood
<1>2. z \in Node /\ z \notin Object
  BY Apartness
<1>3. h.rc[z] \in Nat /\ h.rc[z] > 0
  <2> DEFINE t == <<"drop", {z}>>  s2 == Append(st, t)
  <2>1. s2 \in Seq(Tasks) /\ Len(st) + 1 \in 1 .. Len(s2) /\ s2[Len(st) + 1] = t
    BY DropTask, AppendAt
  <2>2. Holds(t, z)
    BY HoldsDrop
  <2> HIDE DEF s2, t
  <2>3. PICK k \in 1 .. Len(s2) : Holds(s2[k], z)
    BY <2>1, <2>2
  <2> QED
    BY <1>1, <1>2, <2>1, <2>3, CountsType DEF s2, t
<1> DEFINE f == [h EXCEPT !.rc[z] = @ - 1]  v == h.rc[z] - 1
<1>4. f = SetRc(h, z, v) /\ f.rc[z] = v /\ f.type = h.type /\ f.kids = h.kids /\ f.obj = h.obj
  BY <1>1, <1>2 DEF SetRc, Heaps
<1>5. CASE h.rc[z] > 1
  <2>1. Good(f, hd, st)
    <3>1. Good(SetRc(h, z, h.rc[z] - 1), hd, st)
      BY <1>5, DropDone
    <3> QED
      BY <1>4, <3>1
  <2>2. f.rc[z] > 0
    BY <1>3, <1>4, <1>5
  <2>3. PossibleRoot(f, z, st)
    BY <2>2 DEF PtrDtor
  <2> HIDE DEF f
  <2> QED
    BY <2>1, <2>2, <2>3, PossibleRootGood
<1>6. CASE h.rc[z] = 1
  <2>1. v = 0 /\ ~(f.rc[z] > 0)
    BY <1>4, <1>6
  <2> DEFINE g == [Unlist(f, z) EXCEPT !.type[z] = "null", !.kids[z] = {}]
  <2>2. DeadOf(g, h, z)
    <3>1. f = SetRc(h, z, 0)
      BY <1>4, <2>1
    <3>2. g = SetNull(Unlist(f, z), z)
      BY DEF SetNull
    <3>3. DeadOf(SetNull(Unlist(SetRc(h, z, 0), z), z), h, z)
      BY <1>1, <1>2, DeadFields
    <3> QED
      BY <3>1, <3>2, <3>3
  <2>3. IF f.type[z] = "object"
        THEN Continues(g, st, <<<<"efree", z>>, <<"check", z>>, <<"delref", f.obj[z]>>>>)
        ELSE Continues(g, st, <<<<"efree", z>>>> \o Drops(f.kids[z]))
    BY <2>1 DEF PtrDtor
  <2> HIDE DEF f, g
  <2>4. CASE h.type[z] = "object"
    <3>1. heap' = g /\ stack' = st \o <<<<"efree", z>>, <<"check", z>>, <<"delref", h.obj[z]>>>>
      BY <1>4, <2>3, <2>4 DEF Continues
    <3>2. Good(g, hd, st \o <<<<"efree", z>>, <<"check", z>>, <<"delref", h.obj[z]>>>>)
      BY <1>6, <2>2, <2>4, DeathObject
    <3> QED
      BY <3>1, <3>2
  <2>5. CASE h.type[z] # "object"
    <3>1. heap' = g /\ stack' = st \o (<<<<"efree", z>>>> \o Drops(h.kids[z]))
      BY <1>4, <2>3, <2>5 DEF Continues
    <3>2. Good(g, hd, st \o (<<<<"efree", z>>>> \o Drops(h.kids[z])))
      BY <1>6, <2>2, <2>5, DeathContainer
    <3> QED
      BY <3>1, <3>2
  <2> QED
    BY <2>4, <2>5
<1> QED
  BY <1>3, <1>5, <1>6

\* What is freed can be used again.
FreedOf(g, h, S) ==
    /\ g \in Heaps /\ g.roots = h.roots
    /\ \A x \in Node \cap S : /\ g.type[x] = "free" /\ g.rc[x] = 0 /\ g.kids[x] = {}
                              /\ g.col[x] = "black" /\ g.addr[x] = "null"
    /\ \A x \in Node \ S : /\ g.type[x] = h.type[x] /\ g.rc[x] = h.rc[x] /\ g.kids[x] = h.kids[x]
                           /\ g.col[x] = h.col[x] /\ g.addr[x] = h.addr[x]
    /\ \A z \in Zval \ S : g.obj[z] = h.obj[z]
    /\ \A o \in Object \ S : g.done[o] = h.done[o]

\* What zend_objects_store and efree give back.
LEMMA FreedFields ==
    ASSUME NEW h \in Heaps, NEW S PROVE FreedOf(Freed(h, S), h, S)
<1> DEFINE type == [x \in Node |-> IF x \in S THEN "free" ELSE h.type[x]]
           rc == [x \in Node |-> IF x \in S THEN 0 ELSE h.rc[x]]
           kids == [x \in Node |-> IF x \in S THEN {} ELSE h.kids[x]]
           obj == [z \in Zval |-> IF z \in S THEN NoObject ELSE h.obj[z]]
           col == [x \in Node |-> IF x \in S THEN "black" ELSE h.col[x]]
           addr == [x \in Node |-> IF x \in S THEN "null" ELSE h.addr[x]]
           done == [o \in Object |-> o \notin S /\ h.done[o]]
           g == Freed(h, S)
<1>1. g = [h EXCEPT !.type = type, !.rc = rc, !.kids = kids, !.obj = obj, !.col = col,
                    !.addr = addr, !.done = done]
  BY DEF Freed
<1>2. /\ type \in [Node -> {"free", "array", "object", "null", "valid"}]
      /\ rc \in [Node -> Int] /\ kids \in [Node -> SUBSET Zval]
      /\ obj \in [Zval -> Object \cup {NoObject}]
      /\ col \in [Node -> {"black", "purple"}] /\ addr \in [Node -> {"null", "root", "list"}]
  BY DEF Heaps
<1>3. done \in [Object -> BOOLEAN] /\ \A o \in Object \ S : done[o] = h.done[o]
  <2>1. \A o \in Object : h.done[o] \in BOOLEAN
    BY DEF Heaps
  <2> QED
    BY <2>1
<1>4. /\ \A x \in Node \cap S : /\ type[x] = "free" /\ rc[x] = 0 /\ kids[x] = {}
                                /\ col[x] = "black" /\ addr[x] = "null"
      /\ \A x \in Node \ S : /\ type[x] = h.type[x] /\ rc[x] = h.rc[x] /\ kids[x] = h.kids[x]
                             /\ col[x] = h.col[x] /\ addr[x] = h.addr[x]
      /\ \A z \in Zval \ S : obj[z] = h.obj[z]
  OBVIOUS
<1> HIDE DEF type, rc, kids, obj, col, addr, done, g
<1>5. /\ g \in Heaps /\ g.roots = h.roots /\ g.type = type /\ g.rc = rc /\ g.kids = kids
      /\ g.obj = obj /\ g.col = col /\ g.addr = addr /\ g.done = done
  BY <1>1, <1>2, <1>3 DEF Heaps
<1>6. FreedOf(g, h, S)
  BY <1>3, <1>4, <1>5 DEF FreedOf
<1> QED
  BY <1>6 DEF g

\* A node that nothing refers to is freed.
LEMMA FreedOne ==
    ASSUME NEW h \in Heaps, NEW g, NEW x \in Node, FreedOf(g, h, {x})
    PROVE  /\ g \in Heaps /\ g.roots = h.roots
           /\ g.type[x] = "free" /\ g.rc[x] = 0 /\ g.kids[x] = {} /\ g.addr[x] = "null"
           /\ OnlyAt(g, h, x)
  BY DEF FreedOf, OnlyAt

\* The end of _zval_ptr_dtor.
LEMMA EfreeGood ==
    ASSUME NEW h, NEW hd, NEW st \in Seq(Tasks), NEW z \in Zval, Good(h, hd, Append(st, <<"efree", z>>))
    PROVE  Good(Freed(h, {z}), hd, st)
<1> DEFINE t == <<"efree", z>>  s2 == Append(st, t)  g == Freed(h, {z})
<1>1. /\ h \in Heaps /\ hd \in SUBSET Zval /\ Kinds(h) /\ Rooted(h) /\ Exact(h, hd, s2)
      /\ Shape(h, hd, s2, {}) /\ s2 \in Seq(Tasks)
  BY DEF Good, AlmostGood
<1>2. t \in Tasks /\ ~IsList(t) /\ t[1] = "efree" /\ t[2] = z
  BY MadeZval DEF IsList
<1>3. \A x : ~Holds(t, x)
  BY HoldsZval
<1>4. /\ Pushed(st, t, s2) /\ Len(st) + 1 \in 1 .. Len(s2) /\ s2[Len(st) + 1] = t /\ Len(st) \in Nat
      /\ \A j \in 1 .. Len(st) : j \in 1 .. Len(s2) /\ s2[j] = st[j] /\ j # Len(st) + 1 /\ ~(Len(st) + 1 < j)
  BY <1>2, AppendAt, PushedAppend
<1>5. z \in Node /\ z \notin Object
  BY Apartness
<1>6. FreedOf(g, h, {z})
  BY <1>1, FreedFields
<1> HIDE DEF g, s2, t
<1>7. /\ g \in Heaps /\ g.roots = h.roots
      /\ g.type[z] = "free" /\ g.rc[z] = 0 /\ g.kids[z] = {} /\ g.addr[z] = "null"
      /\ OnlyAt(g, h, z)
  BY <1>1, <1>5, <1>6, FreedOne
<1>8. PICK k \in 1 .. Len(s2) : k = Len(st) + 1 /\ s2[k] = t
  BY <1>4
<1>9. /\ h.type[z] = "null" /\ h.addr[z] = "null" /\ z \notin hd
      /\ \A c \in Node : z \notin h.kids[c]
      /\ \A m \in 1 .. Len(s2) : /\ s2[m][1] = "drop" => z \notin s2[m][2]
                                 /\ s2[m][1] = "buffer" /\ s2[m][3] = z => k < m
                                 /\ s2[m] = t => m = k
  BY <1>1, <1>2, <1>8 DEF Shape, Dying
<1>10. \A j \in 1 .. Len(st) : /\ st[j][1] = "drop" => z \notin st[j][2]
                               /\ st[j][1] = "buffer" => st[j][3] # z
                               /\ st[j] # <<"efree", z>>
                               /\ z \notin InList(st[j])
  <2>1. \A j \in 1 .. Len(st) : j \in 1 .. Len(s2) /\ s2[j] = st[j] /\ j # k /\ ~(k < j)
    BY <1>4, <1>8
  <2>2. \A j \in 1 .. Len(s2) : z \notin InList(s2[j])
    BY <1>1, <1>9 DEF Shape, Lists
  <2> QED
    BY <1>9, <2>1, <2>2 DEF t
<1>11. \A j \in 1 .. Len(st) : ~Holds(st[j], z)
  <2>1. \A j \in 1 .. Len(st) : st[j] \in Tasks
    OBVIOUS
  <2>2. ASSUME NEW j \in 1 .. Len(st), st[j][1] \in {"user", "delref", "gone"} PROVE st[j][2] # z
    BY <1>5, <2>1, <2>2, TaskType
  <2> QED
    BY <1>10, <2>2 DEF Holds
<1>12. Kinds(g)
  <2>1. \A y \in Node : y # z => /\ g.type[y] = h.type[y] /\ g.kids[y] = h.kids[y]
                                 /\ g.rc[y] = h.rc[y] /\ g.addr[y] = h.addr[y]
    BY <1>7 DEF OnlyAt
  <2>2. \A y \in Zval : y # z => g.obj[y] = h.obj[y]
    BY <1>7 DEF OnlyAt
  <2> QED
    BY <1>1, <1>5, <1>7, <2>1, <2>2, Apartness DEF Kinds
<1>13. Rooted(g)
  <2>1. z \notin h.roots
    BY <1>1, <1>5, <1>9 DEF Rooted
  <2>2. g.roots = h.roots \ {z}
    BY <1>7, <2>1
  <2> QED
    BY <1>1, <1>5, <1>7, <2>2, UnlistRooted DEF OnlyAt
<1>14. Exact(g, hd, st)
  <2> SUFFICES ASSUME NEW y \in Node PROVE g.rc[y] = RefsOf(g, hd, st, y)
    BY DEF Exact
  <2>0. \A c \in Node : Counted(g, c) = Counted(h, c)
    <3>1. \A c \in Node \ {z} : Counted(g, c) = Counted(h, c)
      BY <1>1, <1>5, <1>7, OneCount
    <3>2. Counted(g, z) = {} /\ Counted(h, z) = {}
      BY <1>7, <1>9 DEF Counted, Uncounted, Out
    <3> QED
      BY <3>1, <3>2
  <2>1. RefsOf(g, hd, st, y) = RefsOf(h, hd, st, y)
    BY <2>0, RefsSame
  <2>2. RefsOf(h, hd, s2, y) = RefsOf(h, hd, st, y) + (IF Holds(t, y) THEN 1 ELSE 0)
    BY <1>2, RefsPush DEF s2
  <2>3. h.rc[y] = RefsOf(h, hd, s2, y) /\ RefsOf(h, hd, st, y) \in Nat
    BY <1>1, RefsType DEF Exact
  <2>4. h.rc[y] = RefsOf(h, hd, st, y)
    BY <1>3, <2>2, <2>3
  <2>5. CASE y = z
    <3>1. Holders(st, z) = {} /\ ByVariable(hd, z) = 0
      BY <1>9, <1>11 DEF Holders, ByVariable
    <3>2. Referrers(h, z) = {}
      BY <1>1, <1>9, CountedIs DEF Referrers
    <3>3. Cardinality({}) = 0
      BY FS_EmptySet
    <3>4. RefsOf(h, hd, st, z) = 0
      BY <3>1, <3>2, <3>3 DEF RefsOf
    <3> QED
      BY <1>7, <2>1, <2>5, <3>4
  <2>6. CASE y # z
    BY <1>7, <2>1, <2>4, <2>6 DEF OnlyAt
  <2> QED
    BY <2>5, <2>6
<1>15. Shape(g, hd, st, {})
  <2>1. Shape(h, hd, st, {})
    BY <1>1, <1>2, <1>4, PopKeeps
  <2>2. Used(h, st)
    <3>1. Used(h, s2)
      BY <1>1, UsedNow
    <3> QED
      BY <1>4, <3>1, UsedBelow
  <2>3. Bears(h, g, hd, hd, st, {}, z)
    BY <1>5, <1>7, <1>9, <1>10 DEF Bears
  <2> QED
    BY <1>1, <1>5, <1>7, <2>1, <2>2, <2>3, OneNode
<1> QED
  BY <1>1, <1>7, <1>12, <1>13, <1>14, <1>15 DEF Good, AlmostGood, g

\* The end of free_storage.
LEMMA GoneGood ==
    ASSUME NEW h, NEW hd, NEW st \in Seq(Tasks), NEW o \in Object, Good(h, hd, Append(st, <<"gone", o>>))
    PROVE  Good(Freed(h, {o}), hd, st)
<1> DEFINE t == <<"gone", o>>  s2 == Append(st, t)  g == Freed(h, {o})
<1>1. /\ h \in Heaps /\ hd \in SUBSET Zval /\ Kinds(h) /\ Rooted(h) /\ Exact(h, hd, s2)
      /\ Shape(h, hd, s2, {}) /\ s2 \in Seq(Tasks)
  BY DEF Good, AlmostGood
<1>2. t \in Tasks /\ ~IsList(t) /\ t[1] = "gone" /\ t[2] = o
  BY MadeObject DEF IsList
<1>3. \A x : Holds(t, x) <=> x = o
  BY HoldsObject
<1>4. /\ Pushed(st, t, s2) /\ Len(st) + 1 \in 1 .. Len(s2) /\ s2[Len(st) + 1] = t /\ Len(st) \in Nat
      /\ \A j \in 1 .. Len(st) : j \in 1 .. Len(s2) /\ s2[j] = st[j] /\ j # Len(st) + 1
  BY <1>2, AppendAt, PushedAppend
<1>5. o \in Node /\ o \notin Zval
  BY Apartness
<1>6. FreedOf(g, h, {o})
  BY <1>1, FreedFields
<1> HIDE DEF g, s2, t
<1>7. /\ g \in Heaps /\ g.roots = h.roots
      /\ g.type[o] = "free" /\ g.rc[o] = 0 /\ g.kids[o] = {} /\ g.addr[o] = "null"
      /\ OnlyAt(g, h, o)
  BY <1>1, <1>5, <1>6, FreedOne
<1>8. PICK k \in 1 .. Len(s2) : k = Len(st) + 1 /\ s2[k] = t
  BY <1>4
<1>9. h.type[o] = "valid" /\ h.kids[o] = {} /\ h.rc[o] = 1 /\ h.addr[o] # "root" /\ h.addr[o] # "list"
  BY <1>1, <1>2, <1>8 DEF Shape, Calls, Lists
<1>10. \A j \in 1 .. Len(st) : ~Holds(st[j], o)
  <2>1. Holds(s2[k], o)
    BY <1>3, <1>8
  <2>2. \A i \in 1 .. Len(s2) : Holds(s2[i], o) => i = k
    BY <1>1, <1>5, <1>9, <2>1, TwoRefs
  <2> QED
    BY <1>4, <1>8, <2>2
<1>11. \A j \in 1 .. Len(st) : st[j] # <<"user", o>> /\ st[j] # <<"gone", o>>
  <2>1. Holds(<<"user", o>>, o) /\ Holds(<<"gone", o>>, o)
    BY HoldsObject
  <2> QED
    BY <1>10, <2>1
<1>12. Kinds(g)
  <2>1. \A y \in Node : y # o => /\ g.type[y] = h.type[y] /\ g.kids[y] = h.kids[y]
                                 /\ g.rc[y] = h.rc[y] /\ g.addr[y] = h.addr[y]
    BY <1>7 DEF OnlyAt
  <2>2. \A y \in Zval : g.obj[y] = h.obj[y]
    BY <1>5, <1>7 DEF OnlyAt
  <2> QED
    BY SMTT(60), <1>1, <1>5, <1>7, <2>1, <2>2, Apartness DEF Kinds
<1>13. Rooted(g)
  <2>1. o \notin h.roots
    BY <1>1, <1>5, <1>9 DEF Rooted
  <2>2. g.roots = h.roots \ {o}
    BY <1>7, <2>1
  <2> QED
    BY <1>1, <1>5, <1>7, <2>2, UnlistRooted DEF OnlyAt
<1>14. Exact(g, hd, st)
  <2> SUFFICES ASSUME NEW y \in Node PROVE g.rc[y] = RefsOf(g, hd, st, y)
    BY DEF Exact
  <2>0. \A c \in Node : Counted(g, c) = Counted(h, c)
    <3>1. \A c \in Node \ {o} : Counted(g, c) = Counted(h, c)
      BY <1>1, <1>5, <1>7, OneCount
    <3>2. Counted(g, o) = {} /\ Counted(h, o) = {}
      BY <1>7, <1>9 DEF Counted, Uncounted, Out
    <3> QED
      BY <3>1, <3>2
  <2>1. RefsOf(g, hd, st, y) = RefsOf(h, hd, st, y)
    BY <2>0, RefsSame
  <2>2. RefsOf(h, hd, s2, y) = RefsOf(h, hd, st, y) + (IF Holds(t, y) THEN 1 ELSE 0)
    BY <1>2, RefsPush DEF s2
  <2>3. h.rc[y] = RefsOf(h, hd, s2, y) /\ RefsOf(h, hd, st, y) \in Nat
    BY <1>1, RefsType DEF Exact
  <2>4. h.rc[y] = RefsOf(h, hd, st, y) + (IF y = o THEN 1 ELSE 0)
    BY <1>3, <2>2, <2>3
  <2>5. g.rc[y] = IF y = o THEN 0 ELSE h.rc[y]
    BY <1>7 DEF OnlyAt
  <2> QED
    BY <1>9, <2>1, <2>3, <2>4, <2>5
<1>15. Shape(g, hd, st, {})
  <2>1. Shape(h, hd, st, {})
    BY <1>1, <1>2, <1>4, PopKeeps
  <2>2. Used(h, st)
    <3>1. Used(h, s2)
      BY <1>1, UsedNow
    <3> QED
      BY <1>4, <3>1, UsedBelow
  <2>3. Bears(h, g, hd, hd, st, {}, o)
    BY <1>5, <1>7, <1>9, <1>11 DEF Bears, Rests
  <2> QED
    BY <1>1, <1>5, <1>7, <2>1, <2>2, <2>3, OneNode
<1> QED
  BY <1>1, <1>7, <1>12, <1>13, <1>14, <1>15 DEF Good, AlmostGood, g

\* The object that is checked when the reference to it has been released.
LEMMA CheckReady ==
    ASSUME NEW h, NEW hd, NEW st \in Seq(Tasks), NEW z \in Zval,
           Good(h, hd, Append(st, <<"check", z>>))
    PROVE  /\ h.obj[z] \in Object /\ h.type[z] = "null"
           /\ h.type[h.obj[z]] = "valid" => Ready(h, st, h.obj[z], z)
<1> DEFINE t == <<"check", z>>  s2 == Append(st, t)  o == h.obj[z]
<1>1. /\ h \in Heaps /\ Kinds(h) /\ Exact(h, hd, s2) /\ Shape(h, hd, s2, {})
      /\ Lists(h, s2) /\ Dying(h, hd, s2) /\ s2 \in Seq(Tasks)
  BY DEF Good, AlmostGood, Shape
<1>3. t \in Tasks /\ t[1] = "check" /\ t[2] = z /\ z \in Node
  BY MadeZval, Apartness
<1>4. /\ Len(st) + 1 \in 1 .. Len(s2) /\ s2[Len(st) + 1] = t /\ Len(st) \in Nat
      /\ \A j \in 1 .. Len(st) : j \in 1 .. Len(s2) /\ s2[j] = st[j]
  BY <1>3, AppendAt
<1> HIDE DEF t, s2
<1>5. PICK k \in 1 .. Len(s2) : k = Len(st) + 1 /\ s2[k] = t
  BY <1>4
<1>6. k > 1 /\ s2[k - 1] = <<"efree", z>> /\ h.obj[z] \in Object
  BY <1>1, <1>3, <1>5 DEF Dying
<1>7. h.type[z] = "null" /\ h.addr[z] = "null"
  <2>1. PICK m \in 1 .. Len(s2) : m = k - 1
    BY <1>4, <1>5, <1>6
  <2>2. s2[m][1] = "efree" /\ s2[m][2] = z
    BY <1>6, <2>1
  <2> QED
    BY <1>1, <2>2 DEF Dying
<1>8. o \in Object /\ o \in Node
  BY <1>6, Apartness
<1> HIDE DEF o
<1>9. ASSUME h.type[o] = "valid" PROVE Ready(h, st, o, z)
  <2>1. About(h, t, o)
    BY <1>3 DEF About, o
  <2>2. ~Rests(h, o) /\ \A j \in 1 .. Len(st) : st[j] # <<"gone", o>>
    <3>1. Shape(h, hd, Append(st, t), {})
      BY <1>1 DEF s2
    <3> QED
      BY <1>3, <1>8, <2>1, <3>1, AboutTop
  <2>3. h.rc[o] > 0
    <3>1. h.rc[o] \in Nat
      BY <1>1, <1>8, CountsType
    <3> QED
      BY <1>9, <2>2, <3>1 DEF Rests
  <2>4. h.addr[o] # "list"
    BY <1>1, <1>8 DEF Lists
  <2> QED
    BY <1>3, <1>7, <1>8, <1>9, <2>2, <2>3, <2>4 DEF Ready
<1> QED
  BY <1>7, <1>8, <1>9 DEF o

\* The end of zend_objects_store_del_ref.
LEMMA CheckGood ==
    ASSUME NEW h, NEW hd, NEW st \in Seq(Tasks), NEW z \in Zval,
           Good(h, hd, Append(st, <<"check", z>>)), BufferObject(h, z, st)
    PROVE  Good(heap', hd, stack')
<1>1. Good(h, hd, st)
  BY PopCheck
<1>2. CASE h.type[h.obj[z]] = "valid"
  <2>1. Ready(h, st, h.obj[z], z)
    BY <1>2, CheckReady
  <2>2. Buffer(h, h.obj[z], z, st)
    BY <1>2 DEF BufferObject
  <2> QED
    BY <1>1, <2>1, <2>2, BufferGood
<1>3. CASE h.type[h.obj[z]] # "valid"
  <2>1. heap' = h /\ stack' = st \o <<>>
    BY <1>3 DEF BufferObject, Continues
  <2>2. stack' = st
    BY <2>1
  <2> QED
    BY <1>1, <2>1, <2>2
<1> QED
  BY <1>2, <1>3

\* The collection is over, and x is buffered.
LEMMA BufferAfterGood ==
    ASSUME NEW h, NEW hd, NEW st \in Seq(Tasks), NEW x \in Node, NEW z \in Zval,
           Good(h, hd, Append(st, <<"buffer", x, z>>)),
           Cardinality(h.roots) # MaxRoots, h.addr[x] = "null",
           h.rc[z] = 1 => h.type[z] = "null", h.type[x] # "free"
    PROVE  Good(AddRoot(Purple(SetRc(h, z, h.rc[z] - 1), x), x), hd, st)
<1> DEFINE t == <<"buffer", x, z>>  s2 == Append(st, t)  f == SetRc(h, z, h.rc[z] - 1)  g == Purple(f, x)
<1>1. /\ h \in Heaps /\ Kinds(h) /\ Rooted(h) /\ Exact(h, hd, s2) /\ Shape(h, hd, s2, {})
      /\ Dying(h, hd, s2) /\ s2 \in Seq(Tasks)
  BY DEF Good, AlmostGood, Shape
<1>2. t \in Tasks /\ t[1] = "buffer" /\ t[2] = x /\ t[3] = z /\ z \in Node
  BY MadeBuffer, Apartness
<1>3. Len(st) + 1 \in 1 .. Len(s2) /\ s2[Len(st) + 1] = t
  BY <1>2, AppendAt
<1>4. Good(f, hd, st)
  BY BufferDone
<1>5. RcOf(f, h, z, h.rc[z] - 1)
  <2>1. h.rc[z] - 1 \in Int
    BY <1>1, <1>2 DEF Heaps
  <2> QED
    BY <1>1, <1>2, <2>1, RcFields
<1> HIDE DEF t, s2, f
<1>6. Good(g, hd, st)
  <2>1. f.addr[x] # "list"
    BY <1>5 DEF RcOf
  <2> QED
    BY <1>4, <2>1, ColourChange
<1>7. g.type = h.type /\ g.rc = f.rc /\ g.addr = h.addr /\ g.roots = h.roots
  BY <1>5, PurpleFields DEF RcOf
<1> HIDE DEF g
<1>8. PICK k \in 1 .. Len(s2) : k = Len(st) + 1 /\ s2[k] = t
  BY <1>3
<1>9. \/ x = z /\ h.type[z] = "array"
      \/ x \in Object
  BY <1>1, <1>2, <1>8 DEF Dying
<1>10. CASE x \in Object
  <2>1. h.type[x] = "valid"
    BY <1>1, <1>10 DEF Kinds
  <2>2. About(h, t, x)
    BY <1>2 DEF About
  <2>3. ~Rests(h, x) /\ \A j \in 1 .. Len(st) : st[j] # <<"gone", x>>
    <3>1. Shape(h, hd, Append(st, t), {})
      BY <1>1 DEF s2
    <3> QED
      BY <1>2, <1>10, <2>2, <3>1, AboutTop
  <2>4. h.rc[x] > 0
    <3>1. h.rc[x] \in Nat
      BY <1>1, CountsType
    <3> QED
      BY <2>1, <2>3, <3>1 DEF Rests
  <2>5. x # z
    BY <1>10, Apartness
  <2>6. g.rc[x] > 0
    BY <1>5, <1>7, <2>4, <2>5 DEF RcOf
  <2>7. Cardinality(g.roots) < MaxRoots
    <3>1. Cardinality(h.roots) \in Nat
      BY <1>1, NodesFinite, FS_CardinalityType DEF Heaps
    <3> QED
      BY <1>1, <1>7, <3>1, MaxRootsAssumption DEF Rooted
  <2> QED
    BY <1>6, <1>7, <2>1, <2>3, <2>6, <2>7, RootAdd DEF g, f
<1>11. CASE x = z /\ h.type[z] = "array"
  <2>1. x \notin Object
    BY <1>11, Apartness
  <2>2. ASSUME NEW j \in 1 .. Len(st), st[j] = <<"gone", x>> PROVE FALSE
    <3>1. st[j] \in Tasks /\ st[j][1] = "gone" /\ st[j][2] = x
      BY <2>2, SMTT(30)
    <3> QED
      BY <2>1, <3>1, TaskType
  <2>3. Cardinality(g.roots) < MaxRoots
    <3>1. Cardinality(h.roots) \in Nat
      BY <1>1, NodesFinite, FS_CardinalityType DEF Heaps
    <3> QED
      BY <1>1, <1>7, <3>1, MaxRootsAssumption DEF Rooted
  <2> QED
    BY <1>6, <1>7, <1>11, <2>1, <2>2, <2>3, RootAdd DEF g, f
<1> QED
  BY <1>9, <1>10, <1>11

-----------------------------------------------------------------------------
(* The script.                                                              *)
\* A new zval, which a variable refers to.
NewOf(g, h, z) ==
    /\ g \in Heaps /\ OnlyAt(g, h, z) /\ g.roots = h.roots
    /\ g.kids[z] = h.kids[z] /\ g.addr[z] = h.addr[z] /\ g.rc[z] = 1
    /\ \/ g.type[z] = "array"
       \/ g.type[z] = "object" /\ g.obj[z] \in Object

\* A new zval is in no list and referred to by one variable.
LEMMA NewShape ==
    ASSUME NEW h \in Heaps, NEW g, NEW hd \in SUBSET Zval, NEW st \in Seq(Tasks), NEW z \in Zval,
           Kinds(h), Rooted(h), Shape(h, hd, st, {}), Used(h, st), h.type[z] = "free", NewOf(g, h, z),
           \A j \in 1 .. Len(st) : ~Holds(st[j], z)
    PROVE  /\ Kinds(g) /\ Rooted(g) /\ Shape(g, hd \cup {z}, st, {})
           /\ \A y \in Node \ {z} : Counted(g, y) = Counted(h, y)
           /\ Counted(h, z) = {}
           /\ Counted(g, z) = IF g.type[z] = "object" THEN {g.obj[z]} ELSE {}
<1>1. z \in Node /\ z \notin Object
  BY Apartness
<1>2. h.kids[z] = {} /\ h.addr[z] = "null" /\ h.rc[z] = 0
  BY <1>1 DEF Kinds
<1>3. g.kids[z] = {} /\ g.addr[z] = "null" /\ g \in Heaps /\ OnlyAt(g, h, z) /\ g.roots = h.roots
      /\ g.rc[z] = 1 /\ (g.type[z] = "array" \/ (g.type[z] = "object" /\ g.obj[z] \in Object))
  BY <1>2 DEF NewOf
<1>4. \A y \in Node : y # z => /\ g.type[y] = h.type[y] /\ g.kids[y] = h.kids[y]
                               /\ g.rc[y] = h.rc[y] /\ g.addr[y] = h.addr[y]
  BY <1>3 DEF OnlyAt
<1>5. Kinds(g)
  <2>1. \A y \in Zval : y # z => g.obj[y] = h.obj[y]
    BY <1>3 DEF OnlyAt
  <2> QED
    BY <1>1, <1>3, <1>4, <2>1, Apartness DEF Kinds
<1>6. Rooted(g)
  <2>1. z \notin h.roots
    BY <1>1, <1>2 DEF Rooted
  <2>2. g.roots = h.roots \ {z}
    BY <1>3, <2>1
  <2> QED
    BY <1>1, <1>3, <1>4, <2>2, UnlistRooted
<1>7. \A y \in Node \ {z} : Counted(g, y) = Counted(h, y)
  BY <1>1, <1>3, OneCount
<1>8. Counted(h, z) = {} /\ Counted(g, z) = IF g.type[z] = "object" THEN {g.obj[z]} ELSE {}
  BY <1>2, <1>3 DEF Counted, Uncounted, Out
<1>9. Shape(g, hd \cup {z}, st, {})
  <2>1. \A j \in 1 .. Len(st) : st[j] # <<"efree", z>>
    <3> SUFFICES ASSUME NEW j \in 1 .. Len(st), st[j] = <<"efree", z>> PROVE FALSE
      OBVIOUS
    <3>1. st[j][1] = "efree" /\ st[j][2] = z
      OBVIOUS
    <3> QED
      BY <3>1 DEF Shape, Dying
  <2>2. \A j \in 1 .. Len(st) : st[j][1] = "buffer" => st[j][3] # z
    BY DEF Holds
  <2>3. Bears(h, g, hd, hd \cup {z}, st, {}, z)
    BY <1>1, <1>2, <1>3, <2>1, <2>2 DEF Bears
  <2> QED
    BY <1>1, <1>3, <2>3, OneNode
<1> QED
  BY <1>5, <1>6, <1>7, <1>8, <1>9

\* Nobody has a reference to what is free.
LEMMA FreeHeld ==
    ASSUME NEW h, NEW hd, NEW st, Good(h, hd, st), NEW x \in Node, h.type[x] = "free"
    PROVE  h.rc[x] = 0 /\ x \notin hd /\ \A j \in 1 .. Len(st) : ~Holds(st[j], x)
<1>1. h \in Heaps /\ st \in Seq(Tasks) /\ Kinds(h) /\ Exact(h, hd, st)
  BY DEF Good, AlmostGood
<1>2. h.rc[x] = 0
  BY <1>1 DEF Kinds
<1>3. (x \in hd => h.rc[x] > 0) /\ \A j \in 1 .. Len(st) : Holds(st[j], x) => h.rc[x] > 0
  BY <1>1, CountsType
<1> QED
  BY <1>2, <1>3

\* A new array.
LEMMA NewArrayGood ==
    ASSUME NEW h, NEW hd, NEW st, NEW z \in Zval, Good(h, hd, st), h.type[z] = "free",
           NEW g, NewOf(g, h, z), g.type[z] = "array"
    PROVE  Good(g, hd \cup {z}, st)
<1>1. /\ h \in Heaps /\ hd \in SUBSET Zval /\ st \in Seq(Tasks)
      /\ Kinds(h) /\ Rooted(h) /\ Exact(h, hd, st) /\ Shape(h, hd, st, {})
  BY DEF Good, AlmostGood
<1>2. z \in Node
  BY Apartness
<1>3. h.rc[z] = 0 /\ z \notin hd /\ \A j \in 1 .. Len(st) : ~Holds(st[j], z)
  BY <1>2, FreeHeld
<1>4. Used(h, st)
  BY <1>1, UsedNow
<1>5. Kinds(g) /\ Rooted(g) /\ Shape(g, hd \cup {z}, st, {})
  <2>1. Kinds(g) /\ Rooted(g)
    BY <1>1, <1>3, <1>4, NewShape
  <2>2. Shape(g, hd \cup {z}, st, {})
    BY <1>1, <1>3, <1>4, NewShape
  <2> QED
    BY <2>1, <2>2
<1>8. \A y \in Node \ {z} : Counted(g, y) = Counted(h, y)
  BY <1>1, <1>2, OneCount DEF NewOf
<1>7. Counted(h, z) = {} /\ Counted(g, z) = {}
  <2>1. h.kids[z] = {} /\ g.kids[z] = {}
    BY <1>1, <1>2 DEF Kinds, NewOf
  <2> QED
    BY <2>1 DEF Counted, Uncounted, Out
<1>6. Exact(g, hd \cup {z}, st)
  <2> SUFFICES ASSUME NEW x \in Node PROVE g.rc[x] = RefsOf(g, hd \cup {z}, st, x)
    BY DEF Exact
  <2>1. RefsOf(g, hd, st, x) = RefsOf(h, hd, st, x)
    <3>1. \A y \in Node : Counted(g, y) = Counted(h, y)
      BY <1>7, <1>8
    <3> QED
      BY <3>1, RefsSame
  <2>2. RefsOf(g, hd \cup {z}, st, x) = RefsOf(g, hd, st, x) + (IF x = z THEN 1 ELSE 0)
    BY <1>1, <1>3, RefsSet
  <2>3. h.rc[x] = RefsOf(h, hd, st, x) /\ RefsOf(h, hd, st, x) \in Nat
    BY <1>1, RefsType DEF Exact
  <2>4. g.rc[x] = IF x = z THEN 1 ELSE h.rc[x]
    BY DEF NewOf, OnlyAt
  <2> QED
    BY <1>3, <2>1, <2>2, <2>3, <2>4
<1> QED
  BY <1>1, <1>5, <1>6 DEF Good, AlmostGood, NewOf

\* The zval refers to an object, which is new, or gets one more reference.
LEMMA NewReference ==
    ASSUME NEW h, NEW hd, NEW st, NEW z \in Zval, NEW o \in Object, Good(h, hd, st), h.type[z] = "free",
           NEW f \in Heaps, OnlyAt(f, h, o), f.roots = h.roots, f.type[o] = "valid", f.rc[o] = h.rc[o] + 1,
           f.kids[o] = h.kids[o], f.addr[o] = h.addr[o], f.done[o] = h.done[o],
           \/ h.type[o] = "free"
           \/ h.type[o] = "valid" /\ h.rc[o] > 0 /\ \A j \in 1 .. Len(st) : st[j] # <<"gone", o>>,
           NEW g, NewOf(g, f, z), g.type[z] = "object", g.obj[z] = o
    PROVE  Good(g, hd \cup {z}, st)
<1>1. /\ h \in Heaps /\ hd \in SUBSET Zval /\ st \in Seq(Tasks)
      /\ Kinds(h) /\ Rooted(h) /\ Exact(h, hd, st) /\ Shape(h, hd, st, {}) /\ Lists(h, st)
  BY DEF Good, AlmostGood, Shape
<1>2. z \in Node /\ o \in Node /\ o # z /\ o \notin Zval
  BY Apartness
<1>3. h.rc[z] = 0 /\ z \notin hd /\ \A j \in 1 .. Len(st) : ~Holds(st[j], z)
  BY <1>2, FreeHeld
<1>4. Used(h, st)
  BY <1>1, UsedNow
<1>5. \A y \in Node : y # o => /\ f.type[y] = h.type[y] /\ f.kids[y] = h.kids[y]
                               /\ f.rc[y] = h.rc[y] /\ f.addr[y] = h.addr[y]
  BY DEF OnlyAt
<1>6. \A y \in Zval : f.obj[y] = h.obj[y]
  BY <1>2 DEF OnlyAt
<1>7. h.rc[o] \in Nat
  BY <1>1, <1>2, CountsType
<1>8. f.rc[o] > 0 /\ \A j \in 1 .. Len(st) : st[j] # <<"gone", o>>
  <2>1. CASE h.type[o] = "free"
    <3>1. h.rc[o] = 0 /\ \A j \in 1 .. Len(st) : ~Holds(st[j], o)
      BY <1>2, <2>1, FreeHeld
    <3>2. Holds(<<"gone", o>>, o)
      BY HoldsObject
    <3> QED
      BY <3>1, <3>2
  <2> QED
    BY <1>7, <2>1
<1>9. Kinds(f)
  BY <1>1, <1>2, <1>5, <1>6, Apartness DEF Kinds
<1>10. Rooted(f)
  <2>1. o \in h.roots => h.type[o] \in {"array", "valid"}
    BY <1>1, <1>2 DEF Rooted
  <2> QED
    BY <1>1, <1>2, <1>5, <1>8 DEF Rooted
<1>11. \A y \in Node : Counted(f, y) = Counted(h, y)
  <2>1. \A y \in Node \ {o} : Counted(f, y) = Counted(h, y)
    BY <1>1, <1>2, OneCount
  <2>2. Counted(f, o) = Counted(h, o)
    <3>1. CASE h.type[o] = "free"
      <4>1. h.kids[o] = {}
        BY <1>1, <1>2, <3>1 DEF Kinds
      <4> QED
        BY <3>1, <4>1 DEF Counted, Uncounted, Out
    <3>2. CASE h.type[o] = "valid"
      BY <3>2 DEF Counted, Uncounted, Out
    <3> QED
      BY <3>1, <3>2
  <2> QED
    BY <2>1, <2>2
<1>12. Shape(f, hd, st, {})
  <2>1. h.addr[o] # "list"
    BY <1>1 DEF Lists
  <2>2. h.rc[o] = 0 => f.kids[o] = {}
    <3>1. h.rc[o] = 0 => h.type[o] = "free"
      BY <1>7
    <3>2. h.type[o] = "free" => h.kids[o] = {}
      BY <1>1, <1>2 DEF Kinds
    <3> QED
      BY <3>1, <3>2
  <2>3. Bears(h, f, hd, hd, st, {}, o)
    BY <1>2, <1>7, <1>8, <2>1, <2>2 DEF Bears, Rests
  <2> QED
    BY <1>1, <1>2, <1>4, <2>3, OneNode
<1>13. Used(f, st)
  BY <1>4, <1>5, <1>8, Apartness DEF Used
<1>14. f.type[z] = "free"
  BY <1>2, <1>5
<1>15. /\ Kinds(g) /\ Rooted(g) /\ Shape(g, hd \cup {z}, st, {})
       /\ \A y \in Node \ {z} : Counted(g, y) = Counted(f, y)
       /\ Counted(f, z) = {}
       /\ Counted(g, z) = IF g.type[z] = "object" THEN {g.obj[z]} ELSE {}
  BY <1>1, <1>3, <1>9, <1>10, <1>12, <1>13, <1>14, NewShape
<1>16. Exact(g, hd \cup {z}, st)
  <2> SUFFICES ASSUME NEW x \in Node PROVE g.rc[x] = RefsOf(g, hd \cup {z}, st, x)
    BY DEF Exact
  <2>1. \A y \in Node \ {z} : Counted(g, y) = Counted(h, y)
    BY <1>11, <1>15
  <2>2. Counted(h, z) = {} /\ Counted(g, z) = {o}
    BY <1>2, <1>11, <1>15
  <2>3. RefsOf(g, hd, st, x) = RefsOf(h, hd, st, x) - (IF x \in Counted(h, z) THEN 1 ELSE 0)
                                  + (IF x \in Counted(g, z) THEN 1 ELSE 0)
    BY <1>1, <1>2, <2>1, RefsNode
  <2>4. RefsOf(g, hd \cup {z}, st, x) = RefsOf(g, hd, st, x) + (IF x = z THEN 1 ELSE 0)
    BY <1>1, <1>3, RefsSet
  <2>5. h.rc[x] = RefsOf(h, hd, st, x) /\ RefsOf(h, hd, st, x) \in Nat
    BY <1>1, RefsType DEF Exact
  <2>6. g.rc[x] = IF x = z THEN 1 ELSE f.rc[x]
    BY DEF NewOf, OnlyAt
  <2>7. f.rc[x] = IF x = o THEN h.rc[x] + 1 ELSE h.rc[x]
    BY <1>5
  <2> QED
    BY <1>2, <1>3, <2>2, <2>3, <2>4, <2>5, <2>6, <2>7
<1> QED
  BY <1>1, <1>15, <1>16 DEF Good, AlmostGood, NewOf

\* What the script can reach.
AccessibleOf(h, hd, st) == Reach(Followed(h), hd \cup ThisOf(st))

\* What a destructor follows: counted references, and those from a list to an
\* object that waits with it.
LEMMA FollowedIs ==
    ASSUME NEW h \in Heaps, Kinds(h)
    PROVE  /\ Followed(h) \in [Node -> SUBSET Node]
           /\ \A x \in Node : \A y \in Followed(h)[x] :
                 \/ y \in Counted(h, x)
                 \/ x \in Zval /\ y \in Object /\ To(h, x, y) /\ h.type[y] = "valid" /\ h.rc[y] <= 0
<1>1. \A x \in Node : Followed(h)[x] = IF Uncounted(h, x) THEN {h.obj[x]} \cap Waiting(h) ELSE Out(h, x)
  BY DEF Followed
<1>2. \A x \in Node : Uncounted(h, x) => x \in Zval /\ h.type[x] = "object"
  BY Apartness DEF Uncounted, Kinds
<1>3. \A x \in Node : Out(h, x) \in SUBSET Node
  <2>1. Links(h) \in [Node -> SUBSET Node] /\ \A x \in Node : Links(h)[x] = Out(h, x)
    BY LinksType
  <2> QED
    BY <2>1
<1>4. Waiting(h) \in SUBSET Node /\ \A o \in Waiting(h) : o \in Object /\ h.type[o] = "valid" /\ h.rc[o] <= 0
  BY Apartness DEF Waiting
<1>5. Followed(h) \in [Node -> SUBSET Node]
  <2>1. \A x \in Node : Followed(h)[x] \in SUBSET Node
    BY <1>1, <1>3, <1>4
  <2> QED
    BY <2>1 DEF Followed
<1>6. ASSUME NEW x \in Node, NEW y \in Followed(h)[x]
      PROVE  \/ y \in Counted(h, x)
             \/ x \in Zval /\ y \in Object /\ To(h, x, y) /\ h.type[y] = "valid" /\ h.rc[y] <= 0
  <2>1. CASE Uncounted(h, x)
    BY <1>1, <1>2, <1>4, <1>6, <2>1 DEF To
  <2>2. CASE ~Uncounted(h, x)
    BY <1>1, <1>6, <2>2 DEF Counted
  <2> QED
    BY <2>1, <2>2
<1> QED
  BY <1>5, <1>6

\* What the script can reach is counted for, or waits in a list.
LEMMA Reached ==
    ASSUME NEW h, NEW hd, NEW st, Good(h, hd, st), NEW x \in AccessibleOf(h, hd, st)
    PROVE  /\ x \in Node
           /\ \/ x \in hd
              \/ \E j \in 1 .. Len(st) : st[j] = <<"user", x>> /\ x \in Object
              \/ \E y \in Node : x \in Counted(h, y)
              \/ x \in Object /\ Rests(h, x)
<1>1. /\ h \in Heaps /\ hd \in SUBSET Zval /\ st \in Seq(Tasks) /\ Kinds(h) /\ Exact(h, hd, st)
  BY DEF Good, AlmostGood
<1>2. Followed(h) \in [Node -> SUBSET Node]
  BY <1>1, FollowedIs
<1>3. \A y \in ThisOf(st) : y \in Object /\ \E j \in 1 .. Len(st) : st[j] = <<"user", y>>
  <2>1. \A j \in 1 .. Len(st) : st[j] \in Tasks
    BY <1>1
  <2>2. DOMAIN st = 1 .. Len(st)
    BY <1>1
  <2> QED
    BY <2>1, <2>2, TaskType DEF ThisOf
<1>4. hd \cup ThisOf(st) \in SUBSET Node
  BY <1>1, <1>3, Apartness
<1>5. x \in Node
  BY <1>2, <1>4, ReachContains DEF AccessibleOf
<1>6. CASE x \in hd \cup ThisOf(st)
  BY <1>3, <1>5, <1>6
<1>7. CASE x \notin hd \cup ThisOf(st)
  <2>1. \E y \in AccessibleOf(h, hd, st) : x \in Followed(h)[y]
    BY <1>2, <1>4, <1>7, ReachFrom DEF AccessibleOf
  <2>2. AccessibleOf(h, hd, st) \subseteq Node
    BY <1>2, <1>4, ReachContains DEF AccessibleOf
  <2>3. PICK y \in Node : x \in Followed(h)[y]
    BY <2>1, <2>2
  <2>4. \/ x \in Counted(h, y)
        \/ x \in Object /\ h.type[x] = "valid" /\ h.rc[x] <= 0
    BY <1>1, <2>3, FollowedIs
  <2>5. h.rc[x] \in Nat
    BY <1>1, <1>5, CountsType
  <2> QED
    BY <1>5, <2>4, <2>5 DEF Rests
<1> QED
  BY <1>6, <1>7

\* It is there, and nobody is about to free it.
LEMMA ReachedThere ==
    ASSUME NEW h, NEW hd, NEW st, Good(h, hd, st), NEW x \in AccessibleOf(h, hd, st)
    PROVE  /\ x \in Node /\ h.type[x] # "free"
           /\ \A j \in 1 .. Len(st) : st[j] # <<"gone", x>> /\ st[j] # <<"efree", x>>
<1>1. /\ h \in Heaps /\ hd \in SUBSET Zval /\ st \in Seq(Tasks) /\ Kinds(h) /\ Exact(h, hd, st)
      /\ Calls(h, st) /\ Dying(h, hd, st)
  BY DEF Good, AlmostGood, Shape
<1>2. /\ x \in Node
      /\ \/ x \in hd
         \/ \E j \in 1 .. Len(st) : st[j] = <<"user", x>> /\ x \in Object
         \/ \E y \in Node : x \in Counted(h, y)
         \/ x \in Object /\ Rests(h, x)
  BY Reached
<1>3. /\ h.rc[x] \in Nat
      /\ h.rc[x] > 0 => h.type[x] # "free"
      /\ x \in hd => h.rc[x] > 0
      /\ \A y \in Node : x \in Counted(h, y) => h.rc[x] > 0
      /\ \A i \in 1 .. Len(st) : Holds(st[i], x) => h.rc[x] > 0
  BY <1>1, <1>2, CountsType
<1>4. h.type[x] # "free"
  <2>1. Holds(<<"user", x>>, x)
    BY HoldsObject
  <2>2. (\E j \in 1 .. Len(st) : st[j] = <<"user", x>>) => h.rc[x] > 0
    BY <1>3, <2>1
  <2> QED
    BY <1>2, <1>3, <2>2 DEF Rests
<1>5. ASSUME NEW j \in 1 .. Len(st), st[j] = <<"gone", x>> PROVE FALSE
  <2>1. st[j][1] = "gone" /\ st[j][2] = x /\ Holds(st[j], x)
    <3>1. Holds(<<"gone", x>>, x)
      BY HoldsObject
    <3> QED
      BY <1>5, <3>1
  <2>2. h.rc[x] = 1
    BY <1>1, <2>1 DEF Calls
  <2>3. /\ x \notin hd
        /\ \A y \in Node : x \notin Counted(h, y)
        /\ \A i \in 1 .. Len(st) : Holds(st[i], x) => i = j
    BY <1>1, <1>2, <2>1, <2>2, TwoRefs
  <2>4. ~Rests(h, x)
    BY <2>2 DEF Rests
  <2>5. PICK i \in 1 .. Len(st) : st[i] = <<"user", x>>
    BY <1>2, <2>3, <2>4
  <2>6. Holds(st[i], x) /\ st[i][1] = "user"
    <3>1. Holds(<<"user", x>>, x)
      BY HoldsObject
    <3> QED
      BY <2>5, <3>1
  <2> QED
    BY <2>1, <2>3, <2>6
<1>6. ASSUME NEW j \in 1 .. Len(st), st[j] = <<"efree", x>> PROVE FALSE
  <2>1. st[j] \in Tasks /\ st[j][1] = "efree" /\ st[j][2] = x
    BY <1>1, <1>6
  <2>2. x \in Zval /\ x \notin Object
    BY <2>1, TaskType, Apartness
  <2>3. x \notin hd /\ \A c \in Node : x \notin h.kids[c]
    BY <1>1, <2>1 DEF Dying
  <2>4. \A y \in Node : x \notin Counted(h, y)
    BY <1>1, <2>2, <2>3, CountedIs
  <2> QED
    BY <1>2, <2>2, <2>3, <2>4
<1> QED
  BY <1>2, <1>4, <1>5, <1>6

-----------------------------------------------------------------------------
(* A destructor returns.                                                    *)

\* The stack without the destructor that returns.
LEMMA PopUser ==
    ASSUME NEW h, NEW hd, NEW st \in Seq(Tasks), NEW o \in Object, NEW s2, NEW but,
           Pushed(st, <<"user", o>>, s2), Shape(h, hd, s2, but), Len(st) > 0,
           o \in but \/ ~IsList(st[Len(st)])
    PROVE  Shape(h, hd, st, but)
<1> DEFINE t == <<"user", o>>
<1>1. Lists(h, s2) /\ Apart(h, hd, s2, but) /\ Waits(h, s2) /\ Calls(h, s2) /\ Dying(h, hd, s2)
  BY DEF Shape
<1>2. ~IsList(t) /\ InList(t) = {} /\ Due(t) = {}
  BY DEF IsList, InList, Due
<1> HIDE DEF t
<1>3. PICK n \in Nat : n = Len(st)
  OBVIOUS
<1>4. /\ Len(s2) = n + 1 /\ s2[n + 1] = t /\ n + 1 \in 1 .. Len(s2)
      /\ \A i \in 1 .. n : s2[i] = st[i] /\ i \in 1 .. Len(s2) /\ i # n + 1
      /\ \A i \in 1 .. Len(s2) : i \in 1 .. n \/ i = n + 1
  BY <1>3 DEF Pushed, t
<1>5. Lists(h, st)
  BY <1>1, <1>2, <1>3, <1>4 DEF Lists
<1>6. ASSUME NEW o2 \in Object, NEW i \in 1 .. n, Leads(h, s2, o2, i) PROVE Leads(h, st, o2, i)
  <2>1. \A m \in i + 1 .. n : m \in i + 1 .. Len(s2) /\ s2[m] = st[m]
    BY <1>4
  <2> QED
    BY <1>3, <1>4, <1>6, <2>1 DEF Leads
<1>7. Apart(h, hd, st, but)
  <2> SUFFICES ASSUME NEW i \in 1 .. n, NEW z \in InList(st[i])
               PROVE  /\ z \notin hd
                      /\ \A j \in 1 .. n : /\ st[j][1] = "drop" /\ z \in st[j][2] => i < j
                                           /\ st[j][1] = "buffer" => z # st[j][3]
                      /\ \A c \in Node \ but : z \in h.kids[c] => Doomed(h, st, i, c)
    BY <1>3 DEF Apart
  <2>1. i \in 1 .. Len(s2) /\ z \in InList(s2[i]) /\ IsList(st[i])
    BY <1>4 DEF InList, IsList
  <2>2. z \notin hd /\ \A j \in 1 .. n : /\ st[j][1] = "drop" /\ z \in st[j][2] => i < j
                                         /\ st[j][1] = "buffer" => z # st[j][3]
    BY <1>1, <1>4, <2>1 DEF Apart
  <2>3. ASSUME NEW c \in Node \ but, z \in h.kids[c] PROVE Doomed(h, st, i, c)
    <3>1. Doomed(h, s2, i, c)
      BY <1>1, <2>1, <2>3 DEF Apart
    <3>2. CASE i = n
      <4>1. s2[i + 1] = <<"user", o>> /\ o \in but /\ c # o
        BY <1>3, <1>4, <2>1, <3>2 DEF t
      <4>2. s2[i + 1] # <<"user", c>>
        BY <4>1
      <4> QED
        BY <1>4, <1>6, <3>1, <4>2 DEF Doomed
    <3>3. CASE i # n
      <4>1. i + 1 \in 1 .. n /\ i < n /\ i < Len(st)
        BY <1>3, <3>3
      <4>2. s2[i + 1] = st[i + 1] /\ s2[i] = st[i]
        BY <1>4, <4>1
      <4> QED
        BY <1>6, <3>1, <4>1, <4>2 DEF Doomed
    <3> QED
      BY <3>2, <3>3
  <2> QED
    BY <2>2, <2>3
<1>8. Waits(h, st)
  <2> SUFFICES ASSUME NEW o2 \in Object, Rests(h, o2) PROVE \E k \in 1 .. n : Owner(h, st, o2, k)
    BY <1>3 DEF Waits
  <2>1. PICK k \in 1 .. Len(s2) : Owner(h, s2, o2, k)
    BY <1>1 DEF Waits
  <2>2. k \in 1 .. n
    BY <1>2, <1>4, <2>1 DEF Owner, Leads
  <2>3. Leads(h, st, o2, k)
    BY <1>6, <2>1, <2>2 DEF Owner
  <2> QED
    BY <1>3, <1>4, <2>1, <2>2, <2>3 DEF Owner
<1>9. Calls(h, st)
  <2>1. \A j \in 1 .. n : j > 1 => s2[j - 1] = st[j - 1]
    BY <1>4
  <2>2. ASSUME NEW j \in 1 .. n, st[j][1] = "user"
        PROVE  /\ j > 1
               /\ \/ st[j - 1] = <<"delref", st[j][2]>>
                  \/ /\ st[j - 1][1] = "dtors" /\ h.done[st[j][2]]
                     /\ \E z \in InList(st[j - 1]) : To(h, z, st[j][2])
    BY <1>1, <1>4, <2>1, <2>2 DEF Calls
  <2>3. ASSUME NEW j \in 1 .. n, st[j][1] = "gone"
        PROVE  /\ h.type[st[j][2]] = "valid" /\ h.kids[st[j][2]] = {}
               /\ h.rc[st[j][2]] = 1 /\ h.addr[st[j][2]] # "root"
    <3>1. Calls(h, s2) /\ s2[j] = st[j] /\ j \in 1 .. Len(s2)
      BY <1>1, <1>4
    <3>2. s2[j][1] = "gone"
      BY <2>3, <3>1
    <3>3. /\ h.type[s2[j][2]] = "valid" /\ h.kids[s2[j][2]] = {}
          /\ h.rc[s2[j][2]] = 1 /\ h.addr[s2[j][2]] # "root"
      BY <3>1, <3>2 DEF Calls
    <3> QED
      BY <3>1, <3>3
  <2>4. ASSUME NEW j \in 1 .. n, st[j][1] = "gone", NEW m \in 1 .. n, About(h, st[m], st[j][2])
        PROVE  m < j
    <3>1. /\ s2[j] = st[j] /\ s2[m] = st[m] /\ j \in 1 .. Len(s2) /\ m \in 1 .. Len(s2)
      BY <1>4
    <3> QED
      BY <1>1, <2>4, <3>1 DEF Calls
  <2> QED
    BY <1>3, <2>2, <2>3, <2>4 DEF Calls
<1>10. Dying(h, hd, st)
  <2> SUFFICES ASSUME NEW j \in 1 .. n
               PROVE  /\ st[j][1] = "efree" =>
                            /\ h.type[st[j][2]] = "null" /\ h.addr[st[j][2]] = "null" /\ st[j][2] \notin hd
                            /\ \A c \in Node : st[j][2] \notin h.kids[c]
                            /\ \A m \in 1 .. n :
                                  /\ st[m][1] = "drop" => st[j][2] \notin st[m][2]
                                  /\ st[m][1] = "buffer" /\ st[m][3] = st[j][2] => j < m
                                  /\ st[m] = st[j] => m = j
                      /\ st[j][1] = "check" =>
                            j > 1 /\ st[j - 1] = <<"efree", st[j][2]>> /\ h.obj[st[j][2]] \in Object
                      /\ st[j][1] = "buffer" =>
                            \/ st[j][2] = st[j][3] /\ h.type[st[j][3]] = "array"
                            \/ st[j][2] \in Object /\ (To(h, st[j][3], st[j][2]) \/ h.type[st[j][3]] = "null")
    BY <1>3 DEF Dying
  <2>1. s2[j] = st[j] /\ j \in 1 .. Len(s2) /\ (j > 1 => s2[j - 1] = st[j - 1])
        /\ \A m \in 1 .. n : s2[m] = st[m] /\ m \in 1 .. Len(s2)
    BY <1>4
  <2>2. st[j][1] = "efree" => /\ h.type[st[j][2]] = "null" /\ h.addr[st[j][2]] = "null" /\ st[j][2] \notin hd
                              /\ \A c \in Node : st[j][2] \notin h.kids[c]
                              /\ \A m \in 1 .. Len(s2) :
                                    /\ s2[m][1] = "drop" => st[j][2] \notin s2[m][2]
                                    /\ s2[m][1] = "buffer" /\ s2[m][3] = st[j][2] => j < m
                                    /\ s2[m] = st[j] => m = j
    BY <1>1, <2>1 DEF Dying
  <2>3. st[j][1] = "check" => j > 1 /\ st[j - 1] = <<"efree", st[j][2]>> /\ h.obj[st[j][2]] \in Object
    BY <1>1, <2>1 DEF Dying
  <2>4. st[j][1] = "buffer" =>
           \/ st[j][2] = st[j][3] /\ h.type[st[j][3]] = "array"
           \/ st[j][2] \in Object /\ (To(h, st[j][3], st[j][2]) \/ h.type[st[j][3]] = "null")
    BY <1>1, <2>1 DEF Dying
  <2> QED
    BY <2>1, <2>2, <2>3, <2>4
<1> QED
  BY <1>5, <1>7, <1>8, <1>9, <1>10 DEF Shape

\* The object is condemned again, as the list had it.
LEMMA Condemn ==
    ASSUME NEW h \in Heaps, NEW g, NEW hd, NEW st \in Seq(Tasks), NEW o \in Object,
           Shape(h, hd, st, {o}), RcOf(g, h, o, 0), h.rc[o] # 0, h.done[o], Len(st) > 0,
           st[Len(st)][1] = "dtors", \E z \in InList(st[Len(st)]) : To(h, z, o),
           \A j \in 1 .. Len(st) : st[j] # <<"gone", o>>,
           \A i \in 1 .. Len(st) : \A z \in InList(st[i]) : z \in h.kids[o] => i = Len(st)
    PROVE  Shape(g, hd, st, {})
<1>1. Lists(h, st) /\ Apart(h, hd, st, {o}) /\ Waits(h, st) /\ Calls(h, st) /\ Dying(h, hd, st)
  BY DEF Shape
<1>2. /\ g.type = h.type /\ g.kids = h.kids /\ g.obj = h.obj /\ g.col = h.col
      /\ g.addr = h.addr /\ g.done = h.done /\ g.rc[o] = 0
      /\ \A y \in Object : y # o => g.rc[y] = h.rc[y]
  BY Apartness DEF RcOf
<1>3. \A z, y : To(g, z, y) <=> To(h, z, y)
  BY <1>2 DEF To
<1>4. PICK n \in 1 .. Len(st) : n = Len(st)
  OBVIOUS
<1>5. st[n][1] = "dtors" /\ Due(st[n]) = InList(st[n]) /\ \E z \in Due(st[n]) : To(h, z, o)
  BY <1>4 DEF Due
<1>6. ASSUME NEW y \in Object, NEW i \in 1 .. Len(st), Leads(h, st, y, i) PROVE Leads(g, st, y, i)
  BY <1>3, <1>6 DEF Leads
<1>7. Leads(g, st, o, n)
  BY <1>3, <1>4, <1>5 DEF Leads
<1>8. Lists(g, st)
  BY SMTT(60), <1>1, <1>2 DEF Lists
<1>9. Apart(g, hd, st, {})
  <2>1. ASSUME NEW i \in 1 .. Len(st), NEW z \in InList(st[i]) PROVE z \notin hd
    BY <1>1 DEF Apart
  <2>2. ASSUME NEW i \in 1 .. Len(st), NEW z \in InList(st[i]), NEW j \in 1 .. Len(st)
        PROVE  /\ st[j][1] = "drop" /\ z \in st[j][2] => i < j
               /\ st[j][1] = "buffer" => z # st[j][3]
    BY <1>1, <2>2 DEF Apart
  <2>3. ASSUME NEW i \in 1 .. Len(st), NEW z \in InList(st[i]), NEW c \in Node, z \in g.kids[c]
        PROVE  Doomed(g, st, i, c)
    <3>1. z \in h.kids[c]
      BY <1>2, <2>3
    <3>2. CASE c = o
      <4>1. i = n
        BY <1>4, <3>1, <3>2
      <4> QED
        BY <1>2, <1>7, <3>2, <4>1 DEF Doomed
    <3>3. CASE c # o
      <4>1. Doomed(h, st, i, c)
        BY <1>1, <3>1, <3>3 DEF Apart
      <4> QED
        BY <1>2, <1>6, <3>3, <4>1 DEF Doomed
    <3> QED
      BY <3>2, <3>3
  <2> QED
    BY <2>1, <2>2, <2>3 DEF Apart
<1>10. Waits(g, st)
  <2> SUFFICES ASSUME NEW y \in Object, Rests(g, y) PROVE \E k \in 1 .. Len(st) : Owner(g, st, y, k)
    BY DEF Waits
  <2>1. CASE y = o
    <3>1. ASSUME NEW j \in 1 .. Len(st), About(g, st[j], o) PROVE j < n
      <4>1. j # n
        BY <1>5, <3>1 DEF About
      <4> QED
        BY <1>4, <4>1
    <3> QED
      BY <1>2, <1>7, <2>1, <3>1 DEF Owner
  <2>2. CASE y # o
    <3>1. Rests(h, y)
      BY <1>2, <2>2 DEF Rests
    <3>2. PICK k \in 1 .. Len(st) : Owner(h, st, y, k)
      BY <1>1, <3>1 DEF Waits
    <3>3. Leads(g, st, y, k)
      BY <1>6, <3>2 DEF Owner
    <3>4. \A j \in 1 .. Len(st) : About(g, st[j], y) => About(h, st[j], y)
      BY <1>2 DEF About
    <3> QED
      BY <1>2, <1>3, <3>2, <3>3, <3>4 DEF Owner
  <2> QED
    BY <2>1, <2>2
<1>11. Calls(g, st)
  <2>1. \A j \in 1 .. Len(st) : st[j][1] = "gone" => st[j][2] # o /\ st[j][2] \in Object
    <3> SUFFICES ASSUME NEW j \in 1 .. Len(st), st[j][1] = "gone" PROVE st[j][2] # o /\ st[j][2] \in Object
      OBVIOUS
    <3>1. st[j] \in Tasks
      OBVIOUS
    <3>2. st[j][2] \in Object /\ st[j] = <<st[j][1], st[j][2]>>
      BY <3>1, TaskType
    <3> QED
      BY <3>2
  <2>2. \A j \in 1 .. Len(st) : \A y : About(g, st[j], y) => About(h, st[j], y)
    BY <1>2 DEF About
  <2> SUFFICES ASSUME NEW j \in 1 .. Len(st)
               PROVE  /\ st[j][1] = "user" =>
                            /\ j > 1
                            /\ \/ st[j - 1] = <<"delref", st[j][2]>>
                               \/ /\ st[j - 1][1] = "dtors" /\ g.done[st[j][2]]
                                  /\ \E z \in InList(st[j - 1]) : To(g, z, st[j][2])
                      /\ st[j][1] = "gone" =>
                            /\ g.type[st[j][2]] = "valid" /\ g.kids[st[j][2]] = {}
                            /\ g.rc[st[j][2]] = 1 /\ g.addr[st[j][2]] # "root"
                            /\ \A m \in 1 .. Len(st) : About(g, st[m], st[j][2]) => m < j
    BY DEF Calls
  <2>3. st[j][1] = "user" =>
           /\ j > 1
           /\ \/ st[j - 1] = <<"delref", st[j][2]>>
              \/ /\ st[j - 1][1] = "dtors" /\ h.done[st[j][2]]
                 /\ \E z \in InList(st[j - 1]) : To(h, z, st[j][2])
    BY <1>1 DEF Calls
  <2>4. st[j][1] = "gone" =>
           /\ h.type[st[j][2]] = "valid" /\ h.kids[st[j][2]] = {}
           /\ h.rc[st[j][2]] = 1 /\ h.addr[st[j][2]] # "root"
           /\ \A m \in 1 .. Len(st) : About(h, st[m], st[j][2]) => m < j
    BY <1>1 DEF Calls
  <2>5. st[j][1] = "user" =>
           /\ j > 1
           /\ \/ st[j - 1] = <<"delref", st[j][2]>>
              \/ /\ st[j - 1][1] = "dtors" /\ g.done[st[j][2]]
                 /\ \E z \in InList(st[j - 1]) : To(g, z, st[j][2])
    BY <1>2, <1>3, <2>3
  <2>6. st[j][1] = "gone" =>
           /\ g.type[st[j][2]] = "valid" /\ g.kids[st[j][2]] = {}
           /\ g.rc[st[j][2]] = 1 /\ g.addr[st[j][2]] # "root"
           /\ \A m \in 1 .. Len(st) : About(g, st[m], st[j][2]) => m < j
    BY <1>2, <2>1, <2>2, <2>4
  <2> QED
    BY <2>5, <2>6
<1>12. Dying(g, hd, st)
  BY <1>1, <1>2, <1>3, SMTT(30) DEF Dying
<1> QED
  BY <1>8, <1>9, <1>10, <1>11, <1>12 DEF Shape

\* A destructor returns.
LEMMA UserReturns ==
    ASSUME NEW h, NEW hd, NEW st \in Seq(Tasks), NEW o \in Object,
           Good(h, hd, Append(st, <<"user", o>>)),
           Len(st) > 0 /\ st[Len(st)][1] = "dtors" => ~(h.rc[o] > 1) /\ h.addr[o] # "root"
    PROVE  Good(SetRc(h, o, h.rc[o] - 1), hd, st)
<1> DEFINE t == <<"user", o>>  s2 == Append(st, t)  g == SetRc(h, o, h.rc[o] - 1)
<1>1. /\ h \in Heaps /\ hd \in SUBSET Zval /\ Kinds(h) /\ Rooted(h) /\ Exact(h, hd, s2)
      /\ Shape(h, hd, s2, {}) /\ s2 \in Seq(Tasks) /\ Apart(h, hd, s2, {}) /\ Calls(h, s2) /\ Lists(h, s2)
  BY DEF Good, AlmostGood, Shape
<1>2. t \in Tasks /\ t[1] = "user" /\ t[2] = o /\ o \in Node
  BY MadeObject, Apartness
<1>3. \A x : Holds(t, x) <=> x = o
  BY HoldsObject
<1>4. /\ Pushed(st, t, s2) /\ Len(st) + 1 \in 1 .. Len(s2) /\ s2[Len(st) + 1] = t /\ Len(st) \in Nat
      /\ \A j \in 1 .. Len(st) : j \in 1 .. Len(s2) /\ s2[j] = st[j] /\ j # Len(st) + 1
  BY <1>2, AppendAt, PushedAppend
<1>5. RcOf(g, h, o, h.rc[o] - 1)
  <2>1. h.rc[o] - 1 \in Int
    BY <1>1, <1>2 DEF Heaps
  <2> QED
    BY <1>1, <1>2, <2>1, RcFields
<1> HIDE DEF g, s2, t
<1>6. PICK k \in 1 .. Len(s2) : k = Len(st) + 1 /\ s2[k] = t
  BY <1>4
<1>7. h.type[o] = "valid" /\ h.rc[o] \in Nat /\ h.rc[o] > 0
  BY <1>1, <1>3, <1>6, ObjectHeld
<1>8. /\ k > 1
      /\ \/ s2[k - 1] = <<"delref", o>>
         \/ /\ s2[k - 1][1] = "dtors" /\ h.done[o]
            /\ \E z \in InList(s2[k - 1]) : To(h, z, o)
  BY <1>1, <1>2, <1>6 DEF Calls
<1>9. PICK n \in 1 .. Len(st) : n = Len(st) /\ n = k - 1 /\ s2[n] = st[n]
  BY <1>4, <1>6, <1>8
<1>10. Kinds(g)
  BY <1>1, <1>2, <1>5, <1>7, Apartness DEF Kinds, RcOf
<1>11. Exact(g, hd, st)
  <2> SUFFICES ASSUME NEW y \in Node PROVE g.rc[y] = RefsOf(g, hd, st, y)
    BY DEF Exact
  <2>1. RefsOf(g, hd, st, y) = RefsOf(h, hd, st, y)
    <3>1. \A c \in Node : Counted(g, c) = Counted(h, c)
      BY <1>5, CountedSame DEF RcOf
    <3> QED
      BY SMTT(60), <3>1, RefsSame
  <2>2. RefsOf(h, hd, s2, y) = RefsOf(h, hd, st, y) + (IF Holds(t, y) THEN 1 ELSE 0)
    BY <1>2, RefsPush DEF s2
  <2>3. h.rc[y] = RefsOf(h, hd, s2, y) /\ RefsOf(h, hd, st, y) \in Nat
    BY <1>1, RefsType DEF Exact
  <2>4. g.rc[y] = IF y = o THEN h.rc[y] - 1 ELSE h.rc[y]
    BY <1>5 DEF RcOf
  <2> QED
    BY <1>3, <2>1, <2>2, <2>3, <2>4
<1>12. CASE st[n] = <<"delref", o>>
  <2>1. h.rc[o] # 1
    <3>1. Holds(s2[n], o) /\ Holds(s2[k], o) /\ n \in 1 .. Len(s2) /\ n # k
      <4>1. Holds(<<"delref", o>>, o)
        BY HoldsObject
      <4> QED
        BY <1>3, <1>4, <1>6, <1>9, <1>12, <4>1
    <3> QED
      BY <1>1, <1>2, <3>1, TwoRefs
  <2>2. g.rc[o] > 0
    BY <1>5, <1>7, <2>1 DEF RcOf
  <2>3. Rooted(g)
    BY <1>1, <1>5, <2>2 DEF Rooted, RcOf
  <2>4. ASSUME NEW j \in 1 .. Len(s2), s2[j] = <<"gone", o>> PROVE FALSE
    <3>1. s2[j][1] = "gone" /\ s2[j][2] = o
      BY <2>4
    <3> QED
      BY <1>1, <2>1, <3>1 DEF Calls
  <2>5. Shape(g, hd, s2, {})
    <3>1. OnlyAt(g, h, o)
      BY <1>5 DEF OnlyAt, RcOf
    <3>2. Bears(h, g, hd, hd, s2, {}, o)
      BY <1>1, <1>2, <1>5, <1>7, <2>2, <2>4, Apartness DEF Bears, Rests, RcOf, Lists
    <3>3. Used(h, s2)
      BY <1>1, UsedNow
    <3>4. g \in Heaps
      BY <1>5 DEF RcOf
    <3> QED
      BY <1>1, <1>2, <3>1, <3>2, <3>3, <3>4, OneNode
  <2>6. ~IsList(st[Len(st)])
    BY <1>9, <1>12 DEF IsList
  <2>7. Shape(g, hd, st, {})
    <3>1. Pushed(st, <<"user", o>>, s2) /\ Len(st) > 0
      BY <1>4, <1>9 DEF t
    <3> QED
      BY <2>5, <2>6, <3>1, PopUser
  <2> QED
    BY <1>1, <1>5, <1>10, <1>11, <2>3, <2>7 DEF Good, AlmostGood, g, RcOf
<1>13. CASE st[n] # <<"delref", o>>
  <2>1. st[n][1] = "dtors" /\ h.done[o] /\ \E z \in InList(st[n]) : To(h, z, o)
    BY <1>8, <1>9, <1>13
  <2>2. h.rc[o] = 1 /\ h.addr[o] # "root"
    BY <1>7, <1>9, <2>1
  <2>3. Rooted(g)
    BY <1>1, <1>2, <1>5, <2>2 DEF Rooted, RcOf
  <2>4. \A i \in 1 .. Len(s2) : Holds(s2[i], o) => i = k
    BY <1>1, <1>2, <1>3, <1>6, <2>2, TwoRefs
  <2>5. \A j \in 1 .. Len(st) : st[j] # <<"gone", o>> /\ st[j] # <<"user", o>>
    <3>1. Holds(<<"gone", o>>, o) /\ Holds(<<"user", o>>, o)
      BY HoldsObject
    <3> QED
      BY <1>4, <1>6, <2>4, <3>1
  <2>6. Shape(h, hd, st, {o})
    <3>1. Good(h, hd, s2)
      BY DEF s2, t
    <3>2. Shape(h, hd, s2, {o})
      BY <3>1, ButMore DEF AlmostGood
    <3>3. Pushed(st, <<"user", o>>, s2) /\ Len(st) > 0 /\ o \in {o}
      BY <1>4, <1>9 DEF t
    <3> QED
      BY <3>2, <3>3, PopUser
  <2>7. ASSUME NEW i \in 1 .. Len(st), NEW z \in InList(st[i]), z \in h.kids[o] PROVE i = Len(st)
    <3>1. Doomed(h, s2, i, o)
      BY <1>1, <1>2, <1>4, <2>7 DEF Apart
    <3>2. o \notin Due(s2[i])
      <4>1. s2[i] \in Tasks /\ i \in 1 .. Len(s2)
        BY <1>1, <1>4
      <4>2. Due(s2[i]) \subseteq Zval
        <5>1. CASE s2[i][1] \in {"dtors", "destroy"}
          BY <4>1, <5>1, TaskType DEF Due, InList, Rest
        <5>2. CASE s2[i][1] \notin {"dtors", "destroy"}
          BY <5>2 DEF Due
        <5> QED
          BY <5>1, <5>2
      <4> QED
        BY <4>2, Apartness
    <3>3. i < Len(s2) /\ s2[i + 1] = <<"user", o>>
      BY <2>2, <3>1, <3>2 DEF Doomed
    <3>4. Holds(s2[i + 1], o)
      <4>1. Holds(<<"user", o>>, o)
        BY HoldsObject
      <4> QED
        BY <3>3, <4>1
    <3>5. i + 1 \in 1 .. Len(s2)
      BY <1>4, <3>3
    <3>6. i + 1 = k
      BY <2>4, <3>4, <3>5
    <3> QED
      BY <1>4, <1>6, <3>6
  <2>8. RcOf(g, h, o, 0) /\ h.rc[o] # 0
    <3>1. h.rc[o] - 1 = 0
      BY <2>2
    <3> QED
      BY <1>5, <2>2, <3>1
  <2>9. st[Len(st)][1] = "dtors" /\ Len(st) > 0 /\ \E z \in InList(st[Len(st)]) : To(h, z, o)
    BY <1>9, <2>1
  <2>10. Shape(g, hd, st, {})
    BY <1>1, <2>1, <2>5, <2>6, <2>7, <2>8, <2>9, Condemn
  <2> QED
    BY <1>1, <1>5, <1>10, <1>11, <2>3, <2>10 DEF Good, AlmostGood, g, RcOf
<1> QED
  BY <1>12, <1>13

-----------------------------------------------------------------------------
(* The loops over the list of a collection.                                 *)

\* The tasks of a list and what they have still to visit.
LEMMA ListTask ==
    ASSUME NEW l \in Seq(Zval), NEW r \in Seq(Zval)
    PROVE  /\ <<"dtors", l, r>> \in Tasks /\ <<"destroy", l, r>> \in Tasks
           /\ IsList(<<"dtors", l, r>>) /\ IsList(<<"destroy", l, r>>)
           /\ InList(<<"dtors", l, r>>) = {l[i] : i \in 1 .. Len(l)}
           /\ InList(<<"destroy", l, r>>) = {l[i] : i \in 1 .. Len(l)}
           /\ Rest(<<"dtors", l, r>>) = {r[i] : i \in 1 .. Len(r)}
           /\ Rest(<<"destroy", l, r>>) = {r[i] : i \in 1 .. Len(r)}
           /\ Due(<<"dtors", l, r>>) = {l[i] : i \in 1 .. Len(l)}
           /\ Due(<<"destroy", l, r>>) = {r[i] : i \in 1 .. Len(r)}
<1>1. <<"dtors", l, r>> \in Tasks /\ <<"destroy", l, r>> \in Tasks
  BY MadeList
<1>2. DOMAIN l = 1 .. Len(l) /\ DOMAIN r = 1 .. Len(r)
  OBVIOUS
<1>3. /\ IsList(<<"dtors", l, r>>) /\ IsList(<<"destroy", l, r>>)
      /\ InList(<<"dtors", l, r>>) = {l[i] : i \in 1 .. Len(l)}
      /\ InList(<<"destroy", l, r>>) = {l[i] : i \in 1 .. Len(l)}
      /\ Rest(<<"dtors", l, r>>) = {r[i] : i \in 1 .. Len(r)}
      /\ Rest(<<"destroy", l, r>>) = {r[i] : i \in 1 .. Len(r)}
  BY <1>2 DEF IsList, InList, Rest
<1>4. /\ Due(<<"dtors", l, r>>) = InList(<<"dtors", l, r>>)
      /\ Due(<<"destroy", l, r>>) = Rest(<<"destroy", l, r>>)
  BY DEF Due
<1> QED
  BY <1>1, <1>3, <1>4

\* What is left of the list after its element at i.
LEMMA AfterIs ==
    ASSUME NEW r \in Seq(Zval), NEW i \in 1 .. Len(r)
    PROVE  /\ After(r, i) \in Seq(Zval)
           /\ {After(r, i)[k] : k \in 1 .. Len(After(r, i))} = {r[j] : j \in i + 1 .. Len(r)}
<1>1. i + 1 \in Int /\ Len(r) \in Int /\ i + 1 >= 1
  OBVIOUS
<1>2. \A j \in i + 1 .. Len(r) : r[j] \in Zval
  OBVIOUS
<1>3. /\ SubSeq(r, i + 1, Len(r)) \in Seq(Zval)
      /\ Len(SubSeq(r, i + 1, Len(r))) = IF i + 1 <= Len(r) THEN Len(r) - (i + 1) + 1 ELSE 0
      /\ \A k \in 1 .. Len(r) - (i + 1) + 1 : SubSeq(r, i + 1, Len(r))[k] = r[i + 1 + k - 1]
  BY <1>1, <1>2, SubSeqProperties
<1> DEFINE a == SubSeq(r, i + 1, Len(r))
<1>4. PICK n \in Nat : n = Len(r)
  OBVIOUS
<1>5. a \in Seq(Zval) /\ Len(a) = n - i /\ \A k \in 1 .. n - i : a[k] = r[i + k]
  <2>1. n - (i + 1) + 1 = n - i /\ i <= n /\ \A k \in 1 .. n - i : i + 1 + k - 1 = i + k
    BY <1>4
  <2>2. Len(a) = n - i
    BY <1>3, <1>4, <2>1
  <2> QED
    BY <1>3, <1>4, <2>1, <2>2
<1> HIDE DEF a
<1>6. ASSUME NEW k \in 1 .. Len(a) PROVE a[k] \in {r[j] : j \in i + 1 .. n}
  <2>1. i + k \in i + 1 .. n /\ a[k] = r[i + k]
    BY <1>4, <1>5
  <2> QED
    BY <2>1
<1>7. ASSUME NEW j \in i + 1 .. n PROVE r[j] \in {a[k] : k \in 1 .. Len(a)}
  <2>1. j - i \in 1 .. Len(a) /\ a[j - i] = r[i + (j - i)] /\ i + (j - i) = j
    BY <1>4, <1>5
  <2> QED
    BY <2>1
<1>8. {a[k] : k \in 1 .. Len(a)} = {r[j] : j \in i + 1 .. n}
  BY <1>6, <1>7
<1> QED
  BY <1>4, <1>5, <1>8 DEF a, After

\* The list goes on: who has references stays the same.
LEMMA RefsSwap ==
    ASSUME NEW h, NEW hd, NEW st \in Seq(Tasks), NEW t \in Tasks, NEW u \in Tasks,
           IsList(t), IsList(u), InList(u) = InList(t), NEW x
    PROVE  RefsOf(h, hd, Append(st, u), x) = RefsOf(h, hd, Append(st, t), x)
<1>1. Holds(t, x) <=> Holds(u, x)
  BY DEF Holds, IsList
<1> QED
  BY <1>1, RefsPush

\* The first loop is over.
LEMMA DtorsEnd ==
    ASSUME NEW h, NEW hd, NEW st \in Seq(Tasks), NEW l \in Seq(Zval), NEW r \in Seq(Zval),
           Good(h, hd, Append(st, <<"dtors", l, r>>)),
           None(r, RefersTo(h, {o \in Waiting(h) : ~h.done[o]}))
    PROVE  Good(h, hd, Append(st, <<"destroy", l, l>>))
<1> DEFINE t == <<"dtors", l, r>>  u == <<"destroy", l, l>>  s1 == Append(st, t)  s2 == Append(st, u)
<1>1. /\ h \in Heaps /\ hd \in SUBSET Zval /\ Kinds(h) /\ Rooted(h) /\ Exact(h, hd, s1)
      /\ Shape(h, hd, s1, {})
  BY DEF Good, AlmostGood
<1>2. /\ t \in Tasks /\ u \in Tasks /\ IsList(t) /\ IsList(u) /\ InList(u) = InList(t) /\ Rest(u) = InList(u)
      /\ Due(t) = InList(t) /\ Due(u) = InList(t) /\ Rest(t) = {r[i] : i \in 1 .. Len(r)}
  BY ListTask
<1>3. Pushed(st, t, s1) /\ Pushed(st, u, s2) /\ s2 \in Seq(Tasks) /\ s1[Len(st) + 1] = t /\ Len(s1) = Len(st) + 1
  BY <1>2, PushedAppend
<1>4. ASSUME NEW o \in Object, Rests(h, o), Owner(h, s1, o, Len(st) + 1)
      PROVE  (\E z \in Due(u) : To(h, z, o)) /\ h.done[o]
  <2>1. \E z \in Due(t) : To(h, z, o)
    BY <1>3, <1>4 DEF Owner, Leads
  <2>2. h.done[o]
    <3> SUFFICES ASSUME ~h.done[o] PROVE FALSE
      OBVIOUS
    <3>1. PICK z \in Rest(t) : To(h, z, o)
      BY <1>3, <1>4 DEF Owner
    <3>2. PICK i \in 1 .. Len(r) : z = r[i]
      BY <1>2, <3>1
    <3>3. z \in Zval /\ i \in DOMAIN r
      BY <3>2
    <3>4. o \in {y \in Waiting(h) : ~h.done[y]}
      BY <1>4 DEF Rests, Waiting
    <3>5. z \in RefersTo(h, {y \in Waiting(h) : ~h.done[y]})
      BY <3>1, <3>3, <3>4 DEF RefersTo, To
    <3> QED
      BY <3>2, <3>3, <3>5 DEF None
  <2> QED
    BY <1>2, <2>1, <2>2
<1>5. ASSUME NEW c \in Node, Doomed(h, s1, Len(st) + 1, c)
      PROVE  c \in Due(u) \/ (c \in Object /\ h.rc[c] = 0 /\ \E z \in Due(u) : To(h, z, c))
  <2>1. ~(Len(st) + 1 < Len(s1))
    <3>1. Len(st) \in Nat
      OBVIOUS
    <3> QED
      BY <1>3, <3>1
  <2>2. Due(s1[Len(st) + 1]) = Due(u)
    BY <1>2, <1>3
  <2> HIDE DEF t, u, s1, s2
  <2> QED
    BY <1>5, <2>1, <2>2 DEF Doomed, Leads
<1> HIDE DEF t, u, s1, s2
<1>6. Shape(h, hd, s2, {})
  <2>1. u[1] = "destroy" => \A z \in InList(u) \ Rest(u) : h.type[z] # "array"
    BY <1>2
  <2>2. Rest(u) \subseteq InList(u)
    BY <1>2
  <2> QED
    BY <1>1, <1>2, <1>3, <1>4, <1>5, <2>1, <2>2, ListTop
<1>7. Exact(h, hd, s2)
  BY <1>1, <1>2, RefsSwap DEF Exact, s1, s2
<1> QED
  BY <1>1, <1>3, <1>6, <1>7 DEF Good, AlmostGood, s2, u

\* It calls the destructor of an object.
IsDtors(t) == t[1] = "dtors"

\* The first loop over free_list calls a destructor.
LEMMA Called ==
    ASSUME NEW h, NEW hd, NEW st \in Seq(Tasks), NEW t \in Tasks, NEW u \in Tasks, NEW o \in Object,
           Good(h, hd, Append(st, t)), IsDtors(t), IsDtors(u), InList(u) = InList(t),
           Rest(u) \subseteq Rest(t), Rests(h, o), \E z \in InList(t) : To(h, z, o),
           \A z \in Rest(t) \ Rest(u) : \A y \in Object : To(h, z, y) /\ Rests(h, y) => h.done[y] \/ y = o,
           NEW s2, s2 = Append(Append(st, u), <<"user", o>>)
    PROVE  Good(SetRc(SetDone(h, o), o, 1), hd, s2)
<1> DEFINE s1 == Append(st, t)  sm == Append(st, u)  v == <<"user", o>>  f == SetDone(h, o)  g == SetRc(f, o, 1)
<1>1. /\ h \in Heaps /\ hd \in SUBSET Zval /\ Kinds(h) /\ Rooted(h) /\ Exact(h, hd, s1)
      /\ Shape(h, hd, s1, {}) /\ Lists(h, s1) /\ Calls(h, s1)
  BY DEF Good, AlmostGood, Shape
<1>2. /\ IsList(t) /\ IsList(u) /\ InList(u) = InList(t) /\ Due(t) = InList(t) /\ Due(u) = InList(t)
      /\ Rest(t) \subseteq InList(t)
  <2>1. IsList(t) /\ IsList(u) /\ InList(u) = InList(t) /\ Due(t) = InList(t) /\ Due(u) = InList(t)
    BY DEF IsList, Due, IsDtors
  <2>2. Len(st) + 1 \in 1 .. Len(s1) /\ s1[Len(st) + 1] = t
    BY AppendAt
  <2> HIDE DEF s1
  <2>3. PICK k \in 1 .. Len(s1) : s1[k] = t
    BY <2>2
  <2> QED
    BY <1>1, <2>1, <2>3 DEF Lists
<1>3. /\ Pushed(st, t, s1) /\ Pushed(st, u, sm) /\ s1 \in Seq(Tasks) /\ sm \in Seq(Tasks)
      /\ sm[Len(st) + 1] = u /\ Len(sm) = Len(st) + 1 /\ Len(st) \in Nat
      /\ s1[Len(st) + 1] = t /\ Len(s1) = Len(st) + 1
      /\ \A i \in 1 .. Len(st) : sm[i] = st[i] /\ s1[i] = st[i]
  BY PushedAppend
<1>4. v \in Tasks /\ v[1] = "user" /\ v[2] = o /\ o \in Node /\ ~IsList(v) /\ Due(v) = {} /\ InList(v) = {}
  BY MadeObject, Apartness DEF IsList, Due, InList
<1>5. /\ Pushed(sm, v, s2) /\ s2 \in Seq(Tasks) /\ Len(s2) = Len(st) + 2 /\ s2[Len(st) + 2] = v
      /\ s2[Len(st) + 1] = u /\ s2 = Append(sm, v)
  BY <1>3, <1>4, PushedAppend DEF Pushed
<1>6. /\ f \in Heaps /\ f.type = h.type /\ f.kids = h.kids /\ f.obj = h.obj /\ f.rc = h.rc
      /\ f.addr = h.addr /\ f.col = h.col /\ f.roots = h.roots /\ f.done[o] = TRUE
      /\ \A y \in Object : y # o => f.done[y] = h.done[y]
  BY <1>1, DoneFields
<1>7. RcOf(g, f, o, 1)
  BY <1>4, <1>6, RcFields
<1>8. h.type[o] = "valid" /\ h.rc[o] = 0
  BY DEF Rests
<1> HIDE DEF s1, sm, v, f, g
<1>9. \A j \in 1 .. Len(s1) : s1[j] # <<"gone", o>> /\ s1[j] # <<"user", o>>
  <2>1. Holds(<<"gone", o>>, o) /\ Holds(<<"user", o>>, o)
    BY HoldsObject
  <2>2. \A j \in 1 .. Len(s1) : Holds(s1[j], o) => h.rc[o] > 0
    BY <1>1, <1>3, <1>4, CountsType
  <2>3. ASSUME NEW j \in 1 .. Len(s1), s1[j] = <<"gone", o>> \/ s1[j] = <<"user", o>> PROVE FALSE
    <3>1. Holds(s1[j], o)
      BY <2>1, <2>3
    <3> QED
      BY <1>8, <2>2, <3>1
  <2> QED
    BY <2>3
<1>10. \A z, y : To(f, z, y) <=> To(h, z, y)
  BY <1>6 DEF To
<1>11. \A y : Rests(f, y) <=> Rests(h, y)
  BY <1>6 DEF Rests
<1>12. Shape(f, hd, s1, {})
  <2>1. OnlyAt(f, h, o)
    BY <1>4, <1>6 DEF OnlyAt
  <2>2. Bears(h, f, hd, hd, s1, {}, o)
    BY <1>1, <1>4, <1>6, <1>8, <1>9, <1>11, Apartness DEF Bears, Lists
  <2>3. Used(h, s1)
    BY <1>1, <1>3, UsedNow
  <2> QED
    BY <1>1, <1>3, <1>4, <1>6, <2>1, <2>2, <2>3, OneNode
<1>13. Shape(f, hd, sm, {})
  <2>1. ASSUME NEW y \in Object, Rests(f, y), Owner(f, s1, y, Len(st) + 1)
        PROVE  /\ \E z \in Due(u) : To(f, z, y)
               /\ f.done[y] \/ (u[1] = "dtors" /\ \E z \in Rest(u) : To(f, z, y))
    <3>1. \E z \in Due(u) : To(f, z, y)
      BY <1>2, <1>3, <2>1 DEF Owner, Leads
    <3>2. CASE f.done[y]
      BY <3>1, <3>2
    <3>3. CASE ~f.done[y]
      <4>1. PICK z \in Rest(t) : To(f, z, y)
        BY <1>3, <2>1, <3>3 DEF Owner, IsDtors
      <4>2. y # o /\ ~h.done[y] /\ To(h, z, y) /\ Rests(h, y)
        BY <1>6, <1>10, <1>11, <2>1, <3>3, <4>1
      <4>3. z \in Rest(u)
        BY <4>1, <4>2
      <4> QED
        BY <3>1, <4>1, <4>3 DEF IsDtors
    <3> QED
      BY <3>2, <3>3
  <2>2. ASSUME NEW c \in Node, Doomed(f, s1, Len(st) + 1, c)
        PROVE  c \in Due(u) \/ (c \in Object /\ f.rc[c] = 0 /\ \E z \in Due(u) : To(f, z, c))
    <3>1. ~(Len(st) + 1 < Len(s1))
      BY <1>3
    <3>2. Due(s1[Len(st) + 1]) = Due(u)
      BY <1>2, <1>3
    <3> QED
      BY <2>2, <3>1, <3>2 DEF Doomed, Leads
  <2>3. Rest(u) \subseteq InList(u)
    BY <1>2
  <2>4. u[1] = "destroy" => \A z \in InList(u) \ Rest(u) : f.type[z] # "array"
    BY DEF IsDtors
  <2>5. ASSUME NEW no, no = {} PROVE Shape(f, hd, sm, no)
    <3>1. Shape(f, hd, s1, no)
      BY <1>12, <2>5
    <3>2. \A c \in Node \ no : Doomed(f, s1, Len(st) + 1, c) /\ f.kids[c] # {} =>
             c \in Due(u) \/ (c \in Object /\ f.rc[c] = 0 /\ \E z \in Due(u) : To(f, z, c))
      BY <2>2
    <3>3. \A y \in Object : Rests(f, y) /\ Owner(f, s1, y, Len(st) + 1) =>
             /\ \E z \in Due(u) : To(f, z, y)
             /\ f.done[y] \/ (u[1] = "dtors" /\ \E z \in Rest(u) : To(f, z, y))
      BY <2>1
    <3>4. f \in Heaps /\ Pushed(st, t, s1) /\ Pushed(st, u, sm) /\ IsList(t) /\ IsList(u) /\ InList(u) = InList(t)
      BY <1>2, <1>3, <1>6
    <3> QED
      BY <2>3, <2>4, <3>1, <3>2, <3>3, <3>4, ListTop
  <2> QED
    BY <2>5
<1>14. Shape(f, hd, s2, {})
  <2>1. Len(sm) > 0 /\ sm[Len(sm)] = u
    BY <1>3
  <2>2. sm[Len(sm)][1] = "dtors" /\ f.done[v[2]] /\ \E z \in InList(sm[Len(sm)]) : To(f, z, v[2])
    BY <1>2, <1>4, <1>6, <1>10, <2>1 DEF IsDtors
  <2>3. Fits(f, hd, sm, v)
    BY <1>4, <2>1, <2>2 DEF Fits
  <2> QED
    BY <1>3, <1>4, <1>5, <1>13, <2>3, PushKeeps
<1>15. Shape(g, hd, s2, {})
  <2>1. /\ g \in Heaps /\ g.type = h.type /\ g.kids = h.kids /\ g.obj = h.obj /\ g.col = h.col
        /\ g.addr = h.addr /\ g.done = f.done /\ g.rc[o] = 1 /\ g.kids = f.kids
        /\ \A y \in Object : y # o => g.rc[y] = h.rc[y]
    BY <1>6, <1>7, Apartness DEF RcOf
  <2>2. Lists(f, s2) /\ Calls(f, s2) /\ Dying(f, hd, s2)
    BY <1>14 DEF Shape
  <2>3. AlikeLists(f, g, hd, hd, s2, {})
    <3>1. \A z, y : To(g, z, y) <=> To(f, z, y)
      BY <1>6, <2>1 DEF To
    <3> QED
      BY <1>6, <2>1, <2>2, <3>1 DEF AlikeLists, Lists
  <2>4. AlikeKids(f, g, s2)
    BY <1>14, <2>1, KidsSame
  <2>5. AlikeObjects(f, g, s2, {})
    <3> SUFFICES ASSUME NEW y \in Object
                 PROVE  /\ Rests(g, y) => Rests(f, y)
                        /\ f.rc[y] = 0 =>
                              \/ g.rc[y] = 0
                              \/ \A i \in 1 .. Len(s2) :
                                    Leads(f, s2, y, i) => i < Len(s2) /\ s2[i + 1] = <<"user", y>>
                        /\ f.done[y] => g.done[y]
      BY DEF AlikeObjects
    <3>1. CASE y # o
      BY <1>6, <2>1, <3>1 DEF Rests
    <3>2. CASE y = o
      <4>1. ~Rests(g, y)
        BY <2>1, <3>2 DEF Rests
      <4>2. ASSUME NEW i \in 1 .. Len(s2), Leads(f, s2, o, i) PROVE i < Len(s2) /\ s2[i + 1] = <<"user", o>>
        <5>1. PICK z \in InList(u) : To(f, z, o)
          BY <1>2, <1>10
        <5>2. PICK m \in 1 .. Len(s2) : m = Len(st) + 1
          BY <1>3, <1>5
        <5>3. ~(i < m)
          <6> SUFFICES ASSUME i < m PROVE FALSE
            OBVIOUS
          <6>1. m \in i + 1 .. Len(s2)
            OBVIOUS
          <6> QED
            BY <1>5, <4>2, <5>1, <5>2, <6>1 DEF Leads
        <5>4. i # Len(st) + 2
          BY <1>4, <1>5, <4>2 DEF Leads
        <5>5. i = Len(st) + 1
          BY <1>3, <1>5, <5>2, <5>3, <5>4
        <5>6. i < Len(s2) /\ i + 1 = Len(st) + 2
          BY <1>3, <1>5, <5>5
        <5> QED
          BY <1>5, <5>6 DEF v
      <4> QED
        BY <2>1, <3>2, <4>1, <4>2
    <3> QED
      BY <3>1, <3>2
  <2>6. AlikeTasks(f, g, hd, s2)
    <3>1. \A j \in 1 .. Len(s2) : s2[j] \in Tasks
      BY <1>5
    <3>2. ASSUME NEW j \in 1 .. Len(s2), s2[j][1] = "user" PROVE g.type[s2[j][2]] = "valid"
      <4>1. CASE j = Len(st) + 2
        BY <1>4, <1>5, <1>8, <2>1, <4>1
      <4>2. CASE j # Len(st) + 2
        <5>1. Used(h, s1)
          BY <1>1, <1>3, UsedNow
        <5>2. j # Len(st) + 1
          BY <1>5, <3>2 DEF IsDtors
        <5>3. j \in 1 .. Len(st) /\ j \in 1 .. Len(s1)
          BY <1>3, <1>5, <4>2, <5>2
        <5>4. j \in 1 .. Len(sm)
          BY <1>3, <5>3
        <5>5. s2[j] = sm[j]
          BY <1>5, <5>4 DEF Pushed
        <5>6. s2[j] = s1[j]
          BY <1>3, <5>3, <5>5
        <5> QED
          BY <2>1, <3>2, <5>1, <5>3, <5>6 DEF Used
      <4> QED
        BY <4>1, <4>2
    <3>3. ASSUME NEW j \in 1 .. Len(s2), s2[j][1] = "gone"
          PROVE  /\ g.type[s2[j][2]] = "valid" /\ g.kids[s2[j][2]] = {}
                 /\ g.rc[s2[j][2]] = 1 /\ g.addr[s2[j][2]] # "root"
      <4>1. s2[j][2] \in Object
        BY <3>1, <3>3, TaskType
      <4>2. /\ f.type[s2[j][2]] = "valid" /\ f.kids[s2[j][2]] = {}
            /\ f.rc[s2[j][2]] = 1 /\ f.addr[s2[j][2]] # "root"
        BY <2>2, <3>3 DEF Calls
      <4>3. s2[j][2] # o
        BY <1>6, <1>8, <4>2
      <4> QED
        BY <1>6, <2>1, <4>1, <4>2, <4>3
    <3>4. ASSUME NEW j \in 1 .. Len(s2), s2[j][1] = "efree"
          PROVE  /\ g.type[s2[j][2]] = "null" /\ g.addr[s2[j][2]] = "null"
                 /\ s2[j][2] \notin hd /\ g.obj[s2[j][2]] = f.obj[s2[j][2]]
      BY <1>6, <2>1, <2>2, <3>4 DEF Dying
    <3>5. g.type = f.type /\ g.obj = f.obj
      BY <1>6, <2>1
    <3> QED
      BY ZenonT(60), <3>2, <3>3, <3>4, <3>5 DEF AlikeTasks
  <2>7. ASSUME NEW no, no = {} PROVE Shape(g, hd, s2, no)
    <3>1. \A c \in Node : c \in no => c \in no \/ g.kids[c] = {}
      OBVIOUS
    <3>2. Shape(f, hd, s2, no) /\ AlikeLists(f, g, hd, hd, s2, no) /\ AlikeObjects(f, g, s2, no)
      BY <1>14, <2>3, <2>5, <2>7
    <3> QED
      BY <1>5, <1>6, <2>1, <2>4, <2>6, <3>1, <3>2, HeapKeeps
  <2> QED
    BY <2>7
<1>16. Exact(g, hd, s2)
  <2> SUFFICES ASSUME NEW x \in Node PROVE g.rc[x] = RefsOf(g, hd, s2, x)
    BY DEF Exact
  <2>1. RefsOf(g, hd, s2, x) = RefsOf(h, hd, s2, x)
    <3>1. \A y \in Node : Counted(g, y) = Counted(h, y)
      BY <1>6, <1>7, CountedSame DEF RcOf
    <3> QED
      BY <3>1, RefsSame
  <2>2. RefsOf(h, hd, s2, x) = RefsOf(h, hd, sm, x) + (IF Holds(v, x) THEN 1 ELSE 0)
    <3>1. RefsOf(h, hd, Append(sm, v), x) = RefsOf(h, hd, sm, x) + (IF Holds(v, x) THEN 1 ELSE 0)
      BY <1>3, <1>4, RefsPush
    <3> QED
      BY <1>5, <3>1
  <2>3. RefsOf(h, hd, sm, x) = RefsOf(h, hd, s1, x)
    BY <1>2, RefsSwap DEF s1, sm
  <2>4. h.rc[x] = RefsOf(h, hd, s1, x)
    BY <1>1 DEF Exact
  <2>5. Holds(v, x) <=> x = o
    BY HoldsObject DEF v
  <2>6. g.rc[x] = IF x = o THEN 1 ELSE h.rc[x]
    BY <1>6, <1>7 DEF RcOf
  <2>7. h.rc[x] \in Int
    BY <1>1 DEF Heaps
  <2> QED
    BY <1>8, <2>1, <2>2, <2>3, <2>4, <2>5, <2>6, <2>7
<1>17. Kinds(g) /\ Rooted(g)
  BY <1>1, <1>4, <1>6, <1>7, <1>8, Apartness DEF Kinds, Rooted, RcOf
<1> QED
  BY <1>1, <1>5, <1>7, <1>15, <1>16, <1>17 DEF Good, AlmostGood, g, f, RcOf

\* The next object of the first loop.
LEMMA DtorsCall ==
    ASSUME NEW h, NEW hd, NEW st \in Seq(Tasks), NEW l \in Seq(Zval), NEW r \in Seq(Zval),
           Good(h, hd, Append(st, <<"dtors", l, r>>)), NEW i \in 1 .. Len(r),
           IsNext(r, i, RefersTo(h, {o \in Waiting(h) : ~h.done[o]}))
    PROVE  Good([h EXCEPT !.done[h.obj[r[i]]] = TRUE, !.rc[h.obj[r[i]]] = @ + 1], hd,
                st \o <<<<"dtors", l, After(r, i)>>, <<"user", h.obj[r[i]]>>>>)
<1> DEFINE t == <<"dtors", l, r>>  a == After(r, i)  u == <<"dtors", l, a>>  s1 == Append(st, t)
           o == h.obj[r[i]]  s2 == Append(Append(st, u), <<"user", o>>)
           due == RefersTo(h, {y \in Waiting(h) : ~h.done[y]})
<1>1. /\ h \in Heaps /\ Kinds(h) /\ Exact(h, hd, s1) /\ Lists(h, s1)
  BY DEF Good, AlmostGood, Shape
<1>2. a \in Seq(Zval) /\ {a[k] : k \in 1 .. Len(a)} = {r[j] : j \in i + 1 .. Len(r)}
  BY AfterIs
<1> HIDE DEF a
<1>3. /\ t \in Tasks /\ u \in Tasks /\ IsDtors(t) /\ IsDtors(u) /\ InList(u) = InList(t)
      /\ Rest(t) = {r[j] : j \in 1 .. Len(r)} /\ Rest(u) = {r[j] : j \in i + 1 .. Len(r)} /\ IsList(t)
  <2>1. t[1] = "dtors" /\ u[1] = "dtors" /\ a \in Seq(Zval)
    BY <1>2
  <2>2. /\ t \in Tasks /\ IsList(t) /\ InList(t) = {l[j] : j \in 1 .. Len(l)}
        /\ Rest(t) = {r[j] : j \in 1 .. Len(r)}
    BY ListTask
  <2>3. /\ u \in Tasks /\ InList(u) = {l[j] : j \in 1 .. Len(l)}
        /\ Rest(u) = {a[j] : j \in 1 .. Len(a)}
    BY <2>1, ListTask
  <2> HIDE DEF t, u
  <2> QED
    BY <1>2, <2>1, <2>2, <2>3 DEF IsDtors
<1>4. r[i] \in Zval /\ r[i] \in due /\ \A j \in 1 .. i - 1 : r[j] \notin due
  BY DEF IsNext
<1>5. o \in Object /\ o \in Waiting(h) /\ To(h, r[i], o) /\ ~h.done[o]
  BY <1>4 DEF RefersTo, Waiting, To
<1>6. Rests(h, o)
  <2>1. h.rc[o] \in Nat /\ h.type[o] = "valid" /\ h.rc[o] <= 0
    <3>1. s1 \in Seq(Tasks)
      BY <1>3, AppendAt
    <3>2. o \in Node
      BY <1>5, Apartness
    <3>3. h.rc[o] \in Nat
      BY <1>1, <3>1, <3>2, CountsType
    <3> QED
      BY <1>5, <3>3 DEF Waiting
  <2> QED
    BY <2>1 DEF Rests
<1>7. Rest(t) \subseteq InList(t)
  <2>1. Len(st) + 1 \in 1 .. Len(s1) /\ s1[Len(st) + 1] = t
    BY <1>3, AppendAt
  <2> HIDE DEF s1, t
  <2>2. PICK k \in 1 .. Len(s1) : s1[k] = t
    BY <2>1
  <2> QED
    BY <1>1, <1>3, <2>2 DEF Lists
<1>8. \E z \in InList(t) : To(h, z, o)
  BY <1>3, <1>5, <1>7
<1>9. ASSUME NEW z \in Rest(t) \ Rest(u), NEW y \in Object, To(h, z, y), Rests(h, y)
      PROVE  h.done[y] \/ y = o
  <2>1. PICK j \in 1 .. Len(r) : z = r[j]
    BY <1>3, <1>9
  <2>2. j \in 1 .. i - 1 \/ j = i \/ j \in i + 1 .. Len(r)
    OBVIOUS
  <2>3. j \notin i + 1 .. Len(r)
    BY <1>3, <1>9, <2>1
  <2>4. CASE j = i
    BY <1>9, <2>1, <2>4 DEF To
  <2>5. CASE j \in 1 .. i - 1
    <3>1. z \notin due /\ z \in Zval
      BY <1>4, <2>1, <2>5
    <3>2. y \in Waiting(h)
      BY <1>9 DEF Rests, Waiting
    <3>3. h.done[y]
      BY <1>9, <3>1, <3>2 DEF RefersTo, To
    <3> QED
      BY <3>3
  <2> QED
    BY <2>2, <2>3, <2>4, <2>5
<1>10. Rest(u) \subseteq Rest(t)
  <2>1. \A j \in i + 1 .. Len(r) : j \in 1 .. Len(r)
    OBVIOUS
  <2> HIDE DEF t, u
  <2> QED
    BY <1>3, <2>1
<1>11. Good(SetRc(SetDone(h, o), o, 1), hd, s2)
  <2> HIDE DEF t, u, o
  <2> QED
    BY <1>3, <1>5, <1>6, <1>8, <1>9, <1>10, Called DEF t
<1>12. [h EXCEPT !.done[o] = TRUE, !.rc[o] = @ + 1] = SetRc(SetDone(h, o), o, 1)
  <2>1. h.rc[o] + 1 = 1
    BY <1>6 DEF Rests
  <2>2. SetDone(h, o) = [h EXCEPT !.done[o] = TRUE]
    BY DEF SetDone
  <2>3. SetRc(SetDone(h, o), o, 1) = [h EXCEPT !.done[o] = TRUE, !.rc[o] = 1]
    BY <2>2 DEF SetRc
  <2>4. [h EXCEPT !.done[o] = TRUE, !.rc[o] = @ + 1] = [h EXCEPT !.done[o] = TRUE, !.rc[o] = h.rc[o] + 1]
    BY <1>1, <1>5, Apartness DEF Heaps
  <2> QED
    BY <2>1, <2>3, <2>4
<1>13. st \o <<u, <<"user", o>>>> = s2
  BY <1>3, <1>5, MadeObject, TwoTasks
<1> QED
  BY <1>11, <1>12, <1>13 DEF a

\* What the second loop has work for.
DestroyDue(h) == {z \in Zval : h.type[z] = "array"} \cup RefersTo(h, Waiting(h))

\* What the second loop has work for.
LEMMA DueHas ==
    ASSUME NEW h, NEW z \in Zval
    PROVE  /\ h.type[z] = "array" => z \in DestroyDue(h)
           /\ \A o \in Object : To(h, z, o) /\ h.type[o] = "valid" /\ h.rc[o] <= 0 => z \in DestroyDue(h)
           /\ z \in DestroyDue(h) =>
                 \/ h.type[z] = "array"
                 \/ h.type[z] = "object" /\ h.obj[z] \in Object /\ h.type[h.obj[z]] = "valid" /\ h.rc[h.obj[z]] <= 0
  BY DEF DestroyDue, RefersTo, Waiting, To

\* It has dealt with the element at i.
LEMMA DestroyNext ==
    ASSUME NEW g \in Heaps, NEW hd, NEW st \in Seq(Tasks), NEW l \in Seq(Zval), NEW r \in Seq(Zval), NEW but,
           Kinds(g), Shape(g, hd, Append(st, <<"destroy", l, r>>), but), NEW i \in 1 .. Len(r),
           g.type[r[i]] = "null", \A j \in 1 .. i - 1 : r[j] \notin DestroyDue(g)
    PROVE  Shape(g, hd, Append(st, <<"destroy", l, After(r, i)>>), but)
<1> DEFINE t == <<"destroy", l, r>>  a == After(r, i)  u == <<"destroy", l, a>>  s1 == Append(st, t)
           s2 == Append(st, u)
<1>1. Lists(g, s1)
  BY DEF Shape
<1>2. a \in Seq(Zval) /\ {a[k] : k \in 1 .. Len(a)} = {r[j] : j \in i + 1 .. Len(r)}
  BY AfterIs
<1> HIDE DEF a
<1>3. /\ t \in Tasks /\ u \in Tasks /\ InList(u) = InList(t) /\ IsList(t) /\ IsList(u)
      /\ Rest(t) = {r[j] : j \in 1 .. Len(r)} /\ Rest(u) = {r[j] : j \in i + 1 .. Len(r)}
      /\ Due(t) = Rest(t) /\ Due(u) = Rest(u)
  <2>1. /\ t \in Tasks /\ IsList(t) /\ InList(t) = {l[j] : j \in 1 .. Len(l)}
        /\ Rest(t) = {r[j] : j \in 1 .. Len(r)} /\ Due(t) = {r[j] : j \in 1 .. Len(r)}
    BY ListTask
  <2>2. /\ u \in Tasks /\ IsList(u) /\ InList(u) = {l[j] : j \in 1 .. Len(l)}
        /\ Rest(u) = {a[j] : j \in 1 .. Len(a)} /\ Due(u) = {a[j] : j \in 1 .. Len(a)}
    BY <1>2, ListTask
  <2> HIDE DEF t, u
  <2> QED
    BY <1>2, <2>1, <2>2
<1>4. t[1] = "destroy" /\ u[1] = "destroy"
  OBVIOUS
<1>5. /\ Pushed(st, t, s1) /\ Pushed(st, u, s2) /\ s1[Len(st) + 1] = t /\ Len(s1) = Len(st) + 1
      /\ Len(st) + 1 \in 1 .. Len(s1) /\ Len(st) \in Nat
  BY <1>3, PushedAppend
<1> HIDE DEF t, u, s1, s2
<1>6. Rest(t) \subseteq InList(t) /\ \A z \in InList(t) \ Rest(t) : g.type[z] # "array"
  <2>1. PICK k \in 1 .. Len(s1) : s1[k] = t
    BY <1>5
  <2> QED
    BY <1>1, <1>3, <1>4, <2>1 DEF Lists
<1>7. ASSUME NEW z \in Rest(t)
      PROVE  z \in Zval /\ (z \in Rest(u) \/ (z \notin DestroyDue(g) /\ g.type[z] # "array"))
  <2>1. PICK j \in 1 .. Len(r) : z = r[j]
    BY <1>3, <1>7
  <2>2. j \in 1 .. i - 1 \/ j = i \/ j \in i + 1 .. Len(r)
    OBVIOUS
  <2>3. z \in Zval
    BY <2>1
  <2>4. CASE j \in 1 .. i - 1
    BY <2>1, <2>3, <2>4, DueHas
  <2>5. CASE j = i
    <3>1. g.type[z] = "null"
      BY <2>1, <2>5
    <3> QED
      BY <2>3, <3>1, DueHas
  <2>6. CASE j \in i + 1 .. Len(r)
    BY <1>3, <2>1, <2>3, <2>6
  <2> QED
    BY <2>2, <2>4, <2>5, <2>6
<1>8. Rest(u) \subseteq InList(u)
  BY <1>3, <1>6
<1>9. u[1] = "destroy" => \A z \in InList(u) \ Rest(u) : g.type[z] # "array"
  BY <1>3, <1>6, <1>7
<1>10. \A o \in Object : Rests(g, o) /\ Owner(g, s1, o, Len(st) + 1) =>
          /\ \E z \in Due(u) : To(g, z, o)
          /\ g.done[o] \/ (u[1] = "dtors" /\ \E z \in Rest(u) : To(g, z, o))
  <2> SUFFICES ASSUME NEW o \in Object, Rests(g, o), Owner(g, s1, o, Len(st) + 1)
               PROVE  (\E z \in Rest(u) : To(g, z, o)) /\ g.done[o]
    BY <1>3
  <2>1. PICK z \in Rest(t) : To(g, z, o)
    BY <1>3, <1>5 DEF Owner, Leads
  <2>2. z \in DestroyDue(g)
    BY <1>7, <2>1, DueHas DEF Rests
  <2>3. z \in Rest(u)
    BY <1>7, <2>2
  <2>4. g.done[o]
    BY <1>4, <1>5 DEF Owner
  <2> QED
    BY <2>1, <2>3, <2>4
<1>11. \A c \in Node \ but : Doomed(g, s1, Len(st) + 1, c) /\ g.kids[c] # {} =>
          c \in Due(u) \/ (c \in Object /\ g.rc[c] = 0 /\ \E z \in Due(u) : To(g, z, c))
  <2> SUFFICES ASSUME NEW c \in Node, Doomed(g, s1, Len(st) + 1, c), g.kids[c] # {}
               PROVE  c \in Rest(u) \/ (c \in Object /\ g.rc[c] = 0 /\ \E z \in Rest(u) : To(g, z, c))
    BY <1>3
  <2>1. g.type[c] \in {"array", "valid"}
    BY DEF Kinds
  <2>2. CASE c \in Rest(t)
    <3>1. c \in Zval /\ g.type[c] # "valid"
      BY <1>7, <2>2 DEF Kinds
    <3> QED
      BY <1>7, <2>1, <2>2, <3>1
  <2>3. CASE c \in Object /\ g.rc[c] = 0 /\ Leads(g, s1, c, Len(st) + 1)
    <3>1. PICK z \in Rest(t) : To(g, z, c)
      BY <1>3, <1>5, <2>3 DEF Leads
    <3>2. g.type[c] = "valid"
      BY <2>1, <2>3 DEF Kinds
    <3>3. z \in DestroyDue(g)
      BY <1>7, <2>3, <3>1, <3>2, DueHas
    <3> QED
      BY <1>7, <2>3, <3>1, <3>3
  <2>4. ~(Len(st) + 1 < Len(s1))
    BY <1>5
  <2> QED
    BY <1>3, <1>5, <2>2, <2>3, <2>4 DEF Doomed
<1>12. Shape(g, hd, s2, but)
  <2>1. Shape(g, hd, s1, but)
    BY DEF s1, t
  <2> QED
    BY <1>3, <1>5, <1>8, <1>9, <1>10, <1>11, <2>1, ListTop
<1> QED
  BY <1>12 DEF s2, u, a

\* A zval of a list is known to nobody but the list.
Unnamed(st, z) ==
    /\ \A j \in 1 .. Len(st) : st[j][1] = "buffer" => st[j][3] # z
    /\ \A j \in 1 .. Len(st) : st[j][1] = "efree" => st[j][2] # z

ListZval(h, hd, st, z) ==
    z \in Zval /\ h.addr[z] = "list" /\ z \notin hd /\ h.type[z] # "free" /\ Unnamed(st, z)

\* What a zval of a list is, and who refers to it.
LEMMA ListHas ==
    ASSUME NEW h, NEW hd, NEW st \in Seq(Tasks), Good(h, hd, st), NEW k \in 1 .. Len(st), NEW z \in InList(st[k])
    PROVE  ListZval(h, hd, st, z)
<1>1. h \in Heaps /\ Kinds(h) /\ Lists(h, st) /\ Apart(h, hd, st, {}) /\ Dying(h, hd, st)
  BY DEF Good, AlmostGood, Shape
<1>2. z \in Zval
  <2>1. st[k] \in Tasks
    OBVIOUS
  <2>2. st[k][2] \in Seq(Zval) /\ IsList(st[k])
    BY <2>1, TaskType DEF InList, IsList
  <2> QED
    BY <2>2 DEF InList, IsList
<1>3. h.addr[z] = "list"
  BY <1>1 DEF Lists
<1>4. z \notin hd /\ \A j \in 1 .. Len(st) : st[j][1] = "buffer" => st[j][3] # z
  BY <1>1 DEF Apart
<1>5. \A j \in 1 .. Len(st) : st[j][1] = "efree" => st[j][2] # z
  BY <1>1, <1>3 DEF Dying
<1>6. h.type[z] # "free"
  BY <1>1, <1>2, <1>3, Apartness DEF Kinds
<1> QED
  BY <1>2, <1>3, <1>4, <1>5, <1>6 DEF Unnamed, ListZval

\* An array of the list is destroyed.
LEMMA DestroyArray ==
    ASSUME NEW h, NEW hd, NEW st \in Seq(Tasks), NEW l \in Seq(Zval), NEW r \in Seq(Zval),
           Good(h, hd, Append(st, <<"destroy", l, r>>)), NEW i \in 1 .. Len(r),
           IsNext(r, i, DestroyDue(h)), h.type[r[i]] # "object"
    PROVE  Good(SetNull(h, r[i]), hd, Append(st, <<"destroy", l, After(r, i)>>) \o Drops(h.kids[r[i]]))
<1> DEFINE t == <<"destroy", l, r>>  u == <<"destroy", l, After(r, i)>>  s1 == Append(st, t)
           s2 == Append(st, u)  z == r[i]  g == SetNull(h, z)  K == h.kids[z]
<1>1. /\ h \in Heaps /\ hd \in SUBSET Zval /\ Kinds(h) /\ Rooted(h) /\ Exact(h, hd, s1)
      /\ Shape(h, hd, s1, {}) /\ Lists(h, s1) /\ Calls(h, s1) /\ Dying(h, hd, s1)
  BY DEF Good, AlmostGood, Shape
<1>2. /\ After(r, i) \in Seq(Zval) /\ t \in Tasks /\ u \in Tasks /\ IsList(t) /\ IsList(u)
      /\ InList(u) = InList(t) /\ Rest(t) = {r[j] : j \in 1 .. Len(r)}
  <2>1. After(r, i) \in Seq(Zval)
    BY AfterIs
  <2> QED
    BY ZenonT(60), <2>1, ListTask
<1>3. z \in Zval /\ z \in Node /\ z \notin Object /\ z \in Rest(t)
  <2>1. z \in Zval
    OBVIOUS
  <2>2. z \in Rest(t)
    <3> HIDE DEF t
    <3> QED
      BY <1>2
  <2> QED
    BY <2>1, <2>2, Apartness
<1>4. h.type[z] = "array" /\ \A j \in 1 .. i - 1 : r[j] \in Zval /\ r[j] \notin DestroyDue(h)
  <2>1. z \in DestroyDue(h) /\ \A j \in 1 .. i - 1 : r[j] \in Zval /\ r[j] \notin DestroyDue(h)
    BY DEF IsNext
  <2> QED
    BY <1>3, <2>1, DueHas
<1>5. /\ s1 \in Seq(Tasks) /\ s2 \in Seq(Tasks) /\ Len(st) + 1 \in 1 .. Len(s1) /\ s1[Len(st) + 1] = t
  BY <1>2, AppendAt
<1>0. Good(h, hd, s1)
  OBVIOUS
<1>6. NullOf(g, h, z)
  BY <1>1, <1>3, NullFields
<1> HIDE DEF t, u, s1, s2, g, z
<1>7. PICK k \in 1 .. Len(s1) : s1[k] = t
  BY <1>5
<1>8. z \in InList(s1[k])
  BY <1>1, <1>2, <1>3, <1>7 DEF Lists
<1>9. h.addr[z] = "list" /\ z \notin hd /\ Unnamed(s1, z)
  <2>1. ListZval(h, hd, s1, z)
    BY <1>0, <1>5, <1>8, ListHas
  <2> QED
    BY <2>1 DEF ListZval
<1>10. /\ g \in Heaps /\ g.obj = h.obj /\ g.done = h.done /\ g.roots = h.roots
       /\ g.rc = h.rc /\ g.addr = h.addr /\ g.col = h.col /\ g.type[z] = "null" /\ g.kids[z] = {}
       /\ \A y \in Node : y # z => g.type[y] = h.type[y] /\ g.kids[y] = h.kids[y]
  BY <1>6 DEF NullOf
<1>11. \A o \in Object : g.type[o] = h.type[o] /\ g.kids[o] = h.kids[o] /\ g.rc[o] = h.rc[o]
  BY <1>3, <1>10, Apartness
<1>12. Shape(g, hd, s1, {})
  <2>1. AlikeLists(h, g, hd, hd, s1, {})
    <3>1. \A y \in Zval : /\ g.type[y] = "array" => h.type[y] = "array"
                          /\ \A o : To(g, y, o) <=> To(h, y, o)
      BY <1>4, <1>10, Apartness DEF To
    <3> QED
      BY <1>1, <1>10, <3>1 DEF AlikeLists, Lists
  <2>2. AlikeKids(h, g, s1)
    BY <1>3, <1>10 DEF AlikeKids
  <2>3. AlikeObjects(h, g, s1, {})
    BY <1>10, <1>11 DEF AlikeObjects, Rests
  <2>4. AlikeTasks(h, g, hd, s1)
    <3>0. \A j \in 1 .. Len(s1) : s1[j] \in Tasks
      BY <1>5
    <3>1. ASSUME NEW j \in 1 .. Len(s1), s1[j][1] = "user" PROVE g.type[s1[j][2]] = "valid"
      <4>1. Used(h, s1)
        BY <1>1, <1>5, UsedNow
      <4> QED
        BY <1>11, <3>1, <4>1 DEF Used
    <3>2. ASSUME NEW j \in 1 .. Len(s1), s1[j][1] = "gone"
          PROVE  /\ g.type[s1[j][2]] = "valid" /\ g.kids[s1[j][2]] = {}
                 /\ g.rc[s1[j][2]] = 1 /\ g.addr[s1[j][2]] # "root"
      <4>1. s1[j][2] \in Object
        BY <3>0, <3>2, TaskType
      <4>2. /\ h.type[s1[j][2]] = "valid" /\ h.kids[s1[j][2]] = {}
            /\ h.rc[s1[j][2]] = 1 /\ h.addr[s1[j][2]] # "root"
        BY <1>1, <3>2 DEF Calls
      <4> QED
        BY <1>10, <1>11, <4>1, <4>2
    <3>3. ASSUME NEW j \in 1 .. Len(s1), s1[j][1] = "efree"
          PROVE  /\ g.type[s1[j][2]] = "null" /\ g.addr[s1[j][2]] = "null"
                 /\ s1[j][2] \notin hd /\ g.obj[s1[j][2]] = h.obj[s1[j][2]]
      <4>1. s1[j][2] \in Zval /\ s1[j][2] \in Node /\ s1[j][2] # z
        BY <1>9, <3>0, <3>3, TaskType, Apartness DEF Unnamed
      <4>2. /\ h.type[s1[j][2]] = "null" /\ h.addr[s1[j][2]] = "null" /\ s1[j][2] \notin hd
        BY <1>1, <3>3 DEF Dying
      <4> QED
        BY <1>10, <4>1, <4>2
    <3>4. ASSUME NEW j \in 1 .. Len(s1), s1[j][1] = "buffer"
          PROVE  g.type[s1[j][3]] = h.type[s1[j][3]] /\ g.obj[s1[j][3]] = h.obj[s1[j][3]]
      <4>1. s1[j][3] \in Zval /\ s1[j][3] \in Node /\ s1[j][3] # z
        BY <1>9, <3>0, <3>4, TaskType, Apartness DEF Unnamed
      <4> QED
        BY <1>10, <4>1
    <3> QED
      BY <3>1, <3>2, <3>3, <3>4 DEF AlikeTasks
  <2>5. ASSUME NEW no, no = {} PROVE Shape(g, hd, s1, no)
    <3>1. \A c \in Node : c \in no => c \in no \/ g.kids[c] = {}
      OBVIOUS
    <3>2. Shape(h, hd, s1, no) /\ AlikeLists(h, g, hd, hd, s1, no) /\ AlikeObjects(h, g, s1, no)
      BY <1>1, <2>1, <2>3, <2>5
    <3> QED
      BY <1>1, <1>5, <1>10, <2>2, <2>4, <3>1, <3>2, HeapKeeps
  <2> QED
    BY <2>5
<1>13. Kinds(g)
  <2>1. ASSUME NEW y \in Zval
        PROVE  /\ g.type[y] \in {"free", "array", "object", "null"}
               /\ g.type[y] = "object" => g.obj[y] \in Object
    BY <1>1, <1>10, Apartness DEF Kinds
  <2>2. \A o \in Object : g.type[o] \in {"free", "valid"}
    BY <1>1, <1>11 DEF Kinds
  <2>3. ASSUME NEW x \in Node
        PROVE  /\ g.kids[x] # {} => g.type[x] \in {"array", "valid"}
               /\ g.type[x] = "free" => g.rc[x] = 0 /\ g.addr[x] = "null"
    BY <1>1, <1>10 DEF Kinds
  <2> QED
    BY <2>1, <2>2, <2>3 DEF Kinds
<1>14. Rooted(g)
  <2>1. z \notin h.roots
    BY <1>1, <1>3, <1>9 DEF Rooted
  <2>0. h.roots \subseteq Node
    BY <1>1 DEF Heaps
  <2>2. \A y \in h.roots : y \in Node /\ g.type[y] = h.type[y]
    BY <1>10, <2>0, <2>1
  <2> QED
    BY <1>1, <1>10, <2>2 DEF Rooted
<1>15. Shape(g, hd, s2, {})
  <2>1. \A j \in 1 .. i - 1 : r[j] \notin DestroyDue(g)
    <3> SUFFICES ASSUME NEW j \in 1 .. i - 1, r[j] \in DestroyDue(g) PROVE FALSE
      OBVIOUS
    <3> DEFINE y == r[j]
    <3>1. y \in Zval /\ y \in Node /\ y \notin DestroyDue(h) /\ y # z
      BY <1>3, <1>4, Apartness, DueHas
    <3>2. y \in DestroyDue(g)
      OBVIOUS
    <3> HIDE DEF y
    <3>3. g.type[y] = h.type[y] /\ g.obj[y] = h.obj[y]
      BY <1>10, <3>1
    <3>4. \/ g.type[y] = "array"
          \/ g.type[y] = "object" /\ g.obj[y] \in Object /\ g.type[g.obj[y]] = "valid" /\ g.rc[g.obj[y]] <= 0
      BY <3>1, <3>2, DueHas
    <3>5. h.type[y] # "array"
      BY <3>1, DueHas
    <3>6. PICK o \in Object : To(h, y, o) /\ h.type[o] = "valid" /\ h.rc[o] <= 0
      BY <1>11, <3>3, <3>4, <3>5 DEF To
    <3> QED
      BY <3>1, <3>6, DueHas
  <2>2. Shape(g, hd, Append(st, <<"destroy", l, r>>), {})
    BY <1>12 DEF s1, t
  <2>3. g.type[r[i]] = "null"
    BY <1>10 DEF z
  <2> QED
    BY <1>10, <1>13, <2>1, <2>2, <2>3, DestroyNext DEF s2, u
<1>16. Owing(g, hd, s2, K)
  <2>1. K \in SUBSET Zval
    BY <1>1, <1>3 DEF Heaps
  <2>2. \A j \in 1 .. Len(s2) : s2[j][1] = "efree" => s2[j][2] \notin K
    <3>1. \A j \in 1 .. Len(s1) : s1[j][1] = "efree" => s1[j][2] \notin K
      BY <1>1, <1>3 DEF Dying
    <3>2. \A j \in 1 .. Len(s2) : j \in 1 .. Len(s1) /\ (s2[j] = s1[j] \/ s2[j] = u)
      BY <1>2 DEF s1, s2
    <3>3. u[1] # "efree"
      BY <1>2 DEF IsList
    <3> QED
      BY <3>1, <3>2, <3>3
  <2>3. ASSUME NEW x \in Node PROVE g.rc[x] = RefsOf(g, hd, s2, x) + (IF x \in K THEN 1 ELSE 0)
    <3>1. RefsOf(g, hd, s2, x) = RefsOf(g, hd, s1, x)
      BY <1>2, RefsSwap DEF s1, s2
    <3>2. \A y \in Node \ {z} : Counted(g, y) = Counted(h, y)
      BY SMTT(60), <1>10, CountedSame
    <3>3. Counted(h, z) = K /\ Counted(g, z) = {}
      BY <1>4, <1>10 DEF Counted, Uncounted, Out
    <3>4. RefsOf(g, hd, s1, x) = RefsOf(h, hd, s1, x) - (IF x \in Counted(h, z) THEN 1 ELSE 0)
                                     + (IF x \in Counted(g, z) THEN 1 ELSE 0)
      BY <1>3, <1>5, <3>2, RefsNode
    <3>5. h.rc[x] = RefsOf(h, hd, s1, x) /\ RefsOf(h, hd, s1, x) \in Nat
      BY <1>1, <1>5, RefsType DEF Exact
    <3> HIDE DEF K
    <3> QED
      BY <1>10, <3>1, <3>3, <3>4, <3>5
  <2> QED
    BY <1>1, <1>5, <1>10, <1>13, <1>14, <1>15, <2>1, <2>2, <2>3 DEF Owing
<1>17. Good(g, hd, s2 \o Drops(K))
  BY <1>16, PushDrops
<1> QED
  BY <1>17 DEF g, s2, u, z

\* A zval of the list lets go of the object, which is put to its end.
Emptied(h, z, o) == [h EXCEPT !.rc[o] = 1, !.type[z] = "null"]
EmptiedOf(g, h, z, o) ==
    /\ g \in Heaps
    /\ g.kids = h.kids /\ g.obj = h.obj /\ g.col = h.col
    /\ g.addr = h.addr /\ g.done = h.done /\ g.roots = h.roots
    /\ g.rc[o] = 1 /\ \A y \in Node : y # o => g.rc[y] = h.rc[y]
    /\ g.type[z] = "null" /\ \A y \in Node : y # z => g.type[y] = h.type[y]

\* The second loop empties a zval and sets the count of its object.
LEMMA EmptiedFields ==
    ASSUME NEW h \in Heaps, NEW z \in Node, NEW o \in Node PROVE EmptiedOf(Emptied(h, z, o), h, z, o)
<1> DEFINE g == Emptied(h, z, o)
<1>1. /\ g.kids = h.kids /\ g.obj = h.obj /\ g.col = h.col /\ g.addr = h.addr /\ g.done = h.done
      /\ g.roots = h.roots /\ g.rc = [h.rc EXCEPT ![o] = 1] /\ g.type = [h.type EXCEPT ![z] = "null"]
  BY DEF Emptied, Heaps
<1>2. g \in Heaps
  <2>1. /\ [h.rc EXCEPT ![o] = 1] \in [Node -> Int]
        /\ [h.type EXCEPT ![z] = "null"] \in [Node -> {"free", "array", "object", "null", "valid"}]
    BY DEF Heaps
  <2>2. g = [h EXCEPT !.rc = [h.rc EXCEPT ![o] = 1], !.type = [h.type EXCEPT ![z] = "null"]]
    BY DEF Emptied, Heaps
  <2> HIDE DEF g
  <2> QED
    BY <2>1, <2>2 DEF Heaps
<1>3. /\ g.rc[o] = 1 /\ \A y \in Node : y # o => g.rc[y] = h.rc[y]
      /\ g.type[z] = "null" /\ \A y \in Node : y # z => g.type[y] = h.type[y]
  <2> HIDE DEF g
  <2> QED
    BY <1>1 DEF Heaps
<1> HIDE DEF g
<1>4. EmptiedOf(g, h, z, o)
  BY <1>1, <1>2, <1>3 DEF EmptiedOf
<1> QED
  BY <1>4 DEF g

\* No task of its own holds the object.
Unused(st, o) == \A j \in 1 .. Len(st) : st[j] # <<"user", o>> /\ st[j] # <<"gone", o>>

\* The top list owns the object.
LEMMA TopOwns ==
    ASSUME NEW h, NEW hd, NEW st \in Seq(Tasks), NEW t \in Tasks, Good(h, hd, Append(st, t)),
           t[1] = "destroy", NEW z \in Rest(t), NEW o \in Object, To(h, z, o), h.type[o] = "valid", h.rc[o] <= 0
    PROVE  /\ h.rc[o] = 0 /\ h.done[o]
           /\ Unused(Append(st, t), o)
<1> DEFINE s1 == Append(st, t)
<1>1. h \in Heaps /\ Kinds(h) /\ Exact(h, hd, s1) /\ Lists(h, s1) /\ Waits(h, s1)
  BY DEF Good, AlmostGood, Shape
<1>2. /\ s1 \in Seq(Tasks) /\ Len(st) + 1 \in 1 .. Len(s1) /\ s1[Len(st) + 1] = t
      /\ Len(st) \in Nat /\ Len(s1) = Len(st) + 1
  BY AppendAt
<1> HIDE DEF s1
<1>3. h.rc[o] = 0
  <2>1. h.rc[o] \in Nat
    BY <1>1, <1>2, CountsType, Apartness
  <2> QED
    BY <2>1
<1>4. z \in InList(t)
  <2>1. IsList(s1[Len(st) + 1])
    BY <1>2 DEF IsList
  <2>2. Rest(s1[Len(st) + 1]) \subseteq InList(s1[Len(st) + 1])
    BY <1>1, <1>2, <2>1 DEF Lists
  <2> QED
    BY <1>2, <2>2
<1>5. PICK k \in 1 .. Len(s1) : Owner(h, s1, o, k)
  BY <1>1, <1>3 DEF Waits, Rests
<1>6. k = Len(st) + 1
  <2>1. \A m \in k + 1 .. Len(s1) : \A y \in InList(s1[m]) : ~To(h, y, o)
    BY <1>5 DEF Owner, Leads
  <2> QED
    BY <1>2, <1>4, <2>1
<1>7. h.done[o]
  BY <1>2, <1>5, <1>6 DEF Owner
<1>8. ASSUME NEW j \in 1 .. Len(s1), s1[j] = <<"user", o>> \/ s1[j] = <<"gone", o>> PROVE FALSE
  <2>1. Holds(<<"user", o>>, o) /\ Holds(<<"gone", o>>, o)
    BY HoldsObject
  <2>2. Holds(s1[j], o)
    BY <1>8, <2>1
  <2>3. h.rc[o] > 0
    BY <1>1, <1>2, <2>2, CountsType, Apartness
  <2> QED
    BY <1>3, <2>3
<1> QED
  BY <1>3, <1>7, <1>8 DEF s1, Unused

ToEnd(g, hd, st, o) ==
    /\ o \in Object /\ g.type[o] = "valid" /\ g.rc[o] = 1 /\ g.done[o]
    /\ AlmostGood(g, hd, Append(st, <<"delref", o>>), {o})

\* The second loop releases an object.
LEMMA DestroyObject ==
    ASSUME NEW h, NEW hd, NEW st \in Seq(Tasks), NEW l \in Seq(Zval), NEW r \in Seq(Zval),
           Good(h, hd, Append(st, <<"destroy", l, r>>)), NEW i \in 1 .. Len(r),
           IsNext(r, i, DestroyDue(h)), h.type[r[i]] = "object",
           NEW g, g = Emptied(h, r[i], h.obj[r[i]])
    PROVE  ToEnd(g, hd, Append(st, <<"destroy", l, After(r, i)>>), h.obj[r[i]])
<1> DEFINE t == <<"destroy", l, r>>  u == <<"destroy", l, After(r, i)>>  s1 == Append(st, t)
           s2 == Append(st, u)  z == r[i]  o == h.obj[z]  d == <<"delref", o>>
<1>1. /\ h \in Heaps /\ hd \in SUBSET Zval /\ Kinds(h) /\ Rooted(h) /\ Exact(h, hd, s1)
      /\ Shape(h, hd, s1, {}) /\ Lists(h, s1) /\ Calls(h, s1) /\ Dying(h, hd, s1)
  BY DEF Good, AlmostGood, Shape
<1>2. /\ After(r, i) \in Seq(Zval) /\ t \in Tasks /\ u \in Tasks /\ IsList(t) /\ IsList(u)
      /\ InList(u) = InList(t) /\ Rest(t) = {r[j] : j \in 1 .. Len(r)}
  <2>1. After(r, i) \in Seq(Zval)
    BY AfterIs
  <2> QED
    BY ZenonT(60), <2>1, ListTask
<1>3. z \in Zval /\ z \in Node /\ z \notin Object /\ z \in Rest(t)
  <2>1. z \in Zval
    OBVIOUS
  <2>2. z \in Rest(t)
    <3> HIDE DEF t
    <3> QED
      BY <1>2
  <2> QED
    BY <2>1, <2>2, Apartness
<1>4. /\ o \in Object /\ h.type[o] = "valid" /\ h.rc[o] <= 0
      /\ \A j \in 1 .. i - 1 : r[j] \in Zval /\ r[j] \notin DestroyDue(h)
  <2>1. z \in DestroyDue(h) /\ \A j \in 1 .. i - 1 : r[j] \in Zval /\ r[j] \notin DestroyDue(h)
    BY DEF IsNext
  <2>2. h.type[z] = "object"
    OBVIOUS
  <2>3. h.type[z] # "array"
    BY <2>2
  <2> HIDE DEF z
  <2>4. h.obj[z] \in Object /\ h.type[h.obj[z]] = "valid" /\ h.rc[h.obj[z]] <= 0
    BY <1>3, <2>1, <2>3, DueHas
  <2> QED
    BY <2>1, <2>4
<1>5. /\ s1 \in Seq(Tasks) /\ s2 \in Seq(Tasks) /\ Len(st) + 1 \in 1 .. Len(s1) /\ s1[Len(st) + 1] = t
  BY <1>2, AppendAt
<1>0. Good(h, hd, s1) /\ h.type[z] = "object" /\ t[1] = "destroy" /\ To(h, z, o)
  BY DEF To
<1>6. o \in Node /\ o # z /\ EmptiedOf(g, h, z, o)
  BY <1>1, <1>3, <1>4, EmptiedFields, Apartness
<1>a. d \in Tasks /\ d[1] = "delref" /\ (\A x : Holds(d, x) <=> x = o)
  BY <1>4, MadeObject, HoldsObject
<1> HIDE DEF t, u, s1, s2, z, d, o
<1>7. PICK k \in 1 .. Len(s1) : s1[k] = t
  BY <1>5
<1>8. z \in InList(s1[k])
  BY <1>1, <1>2, <1>3, <1>7 DEF Lists
<1>9. h.addr[z] = "list" /\ z \notin hd /\ Unnamed(s1, z)
  <2>1. ListZval(h, hd, s1, z)
    BY <1>0, <1>5, <1>8, ListHas
  <2> QED
    BY <2>1 DEF ListZval
<1>10. /\ h.rc[o] = 0 /\ h.done[o]
       /\ \A j \in 1 .. Len(s1) : s1[j] # <<"user", o>> /\ s1[j] # <<"gone", o>>
  <2>1. Good(h, hd, Append(st, t))
    BY <1>0 DEF s1
  <2>2. h.rc[o] = 0 /\ h.done[o] /\ Unused(Append(st, t), o)
    BY <2>1, <1>0, <1>2, <1>3, <1>4, TopOwns
  <2> QED
    BY <2>2 DEF s1, Unused
<1>11. /\ g \in Heaps /\ g.kids = h.kids /\ g.obj = h.obj /\ g.col = h.col
       /\ g.addr = h.addr /\ g.done = h.done /\ g.roots = h.roots /\ g.rc[o] = 1 /\ g.type[z] = "null"
       /\ (\A y \in Node : y # o => g.rc[y] = h.rc[y]) /\ (\A y \in Node : y # z => g.type[y] = h.type[y])
  BY <1>6 DEF EmptiedOf
<1>12. \A p \in Object : g.type[p] = h.type[p] /\ p \in Node
  BY <1>3, <1>11, Apartness
<1>13. h.kids[z] = {}
  BY <1>0, <1>1, <1>3 DEF Kinds
<1>14. Shape(g, hd, s1, {o})
  <2>1. ASSUME NEW no, no = {o} PROVE Shape(g, hd, s1, no)
    <3>1. AlikeLists(h, g, hd, hd, s1, no)
      <4>1. \A p : To(h, z, p) => p = o
        BY <1>0 DEF To
      <4>2. Settled(g, s1, o, no)
        BY <1>10, <1>11, <2>1 DEF Settled, Rests
      <4>3. \A y \in Zval : /\ g.type[y] = "array" => h.type[y] = "array"
                            /\ \A p : To(g, y, p) => To(h, y, p)
                            /\ \A p : To(h, y, p) => To(g, y, p) \/ (y = z /\ p = o)
        BY <4>1, <1>11, Apartness DEF To
      <4> QED
        BY <1>1, <1>11, <4>2, <4>3 DEF AlikeLists, Lists
    <3>2. AlikeKids(h, g, s1)
      BY <1>11 DEF AlikeKids
    <3>3. AlikeObjects(h, g, s1, no)
      <4>1. \A p \in Object : Rests(g, p) => Rests(h, p)
        BY <1>11, <1>12 DEF Rests
      <4>2. \A p \in Object : h.rc[p] = 0 => g.rc[p] = 0 \/ p \in no
        BY SMTT(60), <1>11, <1>12, <2>1
      <4> QED
        BY <1>11, <4>1, <4>2 DEF AlikeObjects
    <3>4. AlikeTasks(h, g, hd, s1)
      <4>0. \A j \in 1 .. Len(s1) : s1[j] \in Tasks
        BY <1>5
      <4>1. ASSUME NEW j \in 1 .. Len(s1), s1[j][1] = "user" PROVE g.type[s1[j][2]] = "valid"
        <5>1. Used(h, s1)
          BY <1>1, <1>5, UsedNow
        <5> QED
          BY <1>12, <4>1, <5>1 DEF Used
      <4>2. ASSUME NEW j \in 1 .. Len(s1), s1[j][1] = "gone"
            PROVE  /\ g.type[s1[j][2]] = "valid" /\ g.kids[s1[j][2]] = {}
                   /\ g.rc[s1[j][2]] = 1 /\ g.addr[s1[j][2]] # "root"
        <5>1. s1[j][2] \in Object /\ s1[j] = <<"gone", s1[j][2]>>
          BY <4>0, <4>2, TaskType
        <5>2. /\ h.type[s1[j][2]] = "valid" /\ h.kids[s1[j][2]] = {}
              /\ h.rc[s1[j][2]] = 1 /\ h.addr[s1[j][2]] # "root"
          BY <1>1, <4>2 DEF Calls
        <5>3. s1[j][2] # o
          BY <1>10, <5>1
        <5> QED
          BY <1>11, <1>12, <5>1, <5>2, <5>3
      <4>3. ASSUME NEW j \in 1 .. Len(s1), s1[j][1] = "efree"
            PROVE  /\ g.type[s1[j][2]] = "null" /\ g.addr[s1[j][2]] = "null"
                   /\ s1[j][2] \notin hd /\ g.obj[s1[j][2]] = h.obj[s1[j][2]]
        <5>1. s1[j][2] \in Zval /\ s1[j][2] \in Node /\ s1[j][2] # z
          BY <1>9, <4>0, <4>3, TaskType, Apartness DEF Unnamed
        <5>2. /\ h.type[s1[j][2]] = "null" /\ h.addr[s1[j][2]] = "null" /\ s1[j][2] \notin hd
          BY <1>1, <4>3 DEF Dying
        <5> QED
          BY <1>11, <5>1, <5>2
      <4>4. ASSUME NEW j \in 1 .. Len(s1), s1[j][1] = "buffer"
            PROVE  g.type[s1[j][3]] = h.type[s1[j][3]] /\ g.obj[s1[j][3]] = h.obj[s1[j][3]]
        <5>1. s1[j][3] \in Zval /\ s1[j][3] \in Node /\ s1[j][3] # z
          BY <1>9, <4>0, <4>4, TaskType, Apartness DEF Unnamed
        <5> QED
          BY <1>11, <5>1
      <4> QED
        BY <4>1, <4>2, <4>3, <4>4 DEF AlikeTasks
    <3>5. ASSUME NEW was, was = {}
          PROVE  Shape(h, hd, s1, was) /\ \A c \in Node : c \in was => c \in no \/ g.kids[c] = {}
      BY <1>1, <3>5
    <3> QED
      BY SMTT(60), <1>1, <1>5, <1>11, <3>1, <3>2, <3>3, <3>4, <3>5, HeapKeeps
  <2> QED
    BY <2>1
<1>15. Kinds(g)
  <2>1. ASSUME NEW y \in Zval
        PROVE  /\ g.type[y] \in {"free", "array", "object", "null"}
               /\ g.type[y] = "object" => g.obj[y] \in Object
    BY <1>1, <1>11, Apartness DEF Kinds
  <2>2. \A p \in Object : g.type[p] \in {"free", "valid"}
    BY <1>1, <1>12 DEF Kinds
  <2>3. ASSUME NEW x \in Node
        PROVE  /\ g.kids[x] # {} => g.type[x] \in {"array", "valid"}
               /\ g.type[x] = "free" => g.rc[x] = 0 /\ g.addr[x] = "null"
    <3>1. g.type[x] = "free" => x # z /\ x # o
      BY SMTT(60), <1>4, <1>11, <1>12
    <3> QED
      BY <1>1, <1>11, <1>13, <3>1 DEF Kinds
  <2> QED
    BY <2>1, <2>2, <2>3 DEF Kinds
<1>16. Rooted(g)
  <2>1. z \notin h.roots
    BY <1>1, <1>3, <1>9 DEF Rooted
  <2>0. h.roots \subseteq Node
    BY <1>1 DEF Heaps
  <2>2. \A y \in h.roots : y \in Node /\ g.type[y] = h.type[y]
    BY <1>11, <2>0, <2>1
  <2>3. \A y \in Node : y \in h.roots /\ y \in Object => g.rc[y] > 0
    BY <1>1, <1>11 DEF Rooted
  <2> QED
    BY <1>1, <1>11, <2>2, <2>3 DEF Rooted
<1>17. Shape(g, hd, s2, {o})
  <2>1. \A j \in 1 .. i - 1 : r[j] \notin DestroyDue(g)
    <3> SUFFICES ASSUME NEW j \in 1 .. i - 1, r[j] \in DestroyDue(g) PROVE FALSE
      OBVIOUS
    <3> DEFINE y == r[j]
    <3>1. y \in Zval /\ y \in Node /\ y \notin DestroyDue(h)
      BY <1>4, Apartness
    <3>2. y \in DestroyDue(g)
      OBVIOUS
    <3> HIDE DEF y
    <3>3. g.obj[y] = h.obj[y] /\ (g.type[y] # "null" => g.type[y] = h.type[y])
      BY <1>11, <3>1
    <3>4. \/ g.type[y] = "array"
          \/ g.type[y] = "object" /\ g.obj[y] \in Object /\ g.type[g.obj[y]] = "valid" /\ g.rc[g.obj[y]] <= 0
      BY <3>1, <3>2, DueHas
    <3>5. h.type[y] # "array"
      BY <3>1, DueHas
    <3>6. PICK p \in Object : To(h, y, p) /\ g.type[p] = "valid" /\ g.rc[p] <= 0
      BY <3>3, <3>4, <3>5 DEF To
    <3>7. h.type[p] = "valid" /\ h.rc[p] <= 0
      BY SMTT(60), <1>11, <1>12, <3>6
    <3> QED
      BY <3>1, <3>6, <3>7, DueHas
  <2>2. Shape(g, hd, Append(st, <<"destroy", l, r>>), {o})
    BY <1>14 DEF s1, t
  <2>3. g.type[r[i]] = "null"
    BY <1>11 DEF z
  <2> QED
    BY <1>11, <1>15, <2>1, <2>2, <2>3, DestroyNext DEF s2, u
<1>18. Append(s2, d) \in Seq(Tasks) /\ Shape(g, hd, Append(s2, d), {o})
  <2>1. Fits(g, hd, s2, d)
    BY <1>a DEF Fits, IsList
  <2> QED
    BY <1>a, <1>5, <1>17, <2>1, TaskPush
<1>19. Exact(g, hd, Append(s2, d))
  <2> SUFFICES ASSUME NEW x \in Node PROVE g.rc[x] = RefsOf(g, hd, Append(s2, d), x)
    BY DEF Exact
  <2>1. RefsOf(g, hd, Append(s2, d), x) = RefsOf(g, hd, s2, x) + (IF Holds(d, x) THEN 1 ELSE 0)
    BY <1>a, <1>5, RefsPush
  <2>2. RefsOf(g, hd, s2, x) = RefsOf(g, hd, s1, x)
    BY <1>2, RefsSwap DEF s1, s2
  <2>3. \A y \in Node : Counted(g, y) = Counted(h, y)
    <3>1. \A y \in Node : y # z => Counted(g, y) = Counted(h, y)
      BY <1>11, CountedSame
    <3>2. Counted(h, z) = {} /\ Counted(g, z) = {}
      BY <1>0, <1>9, <1>11 DEF Counted, Uncounted, Out
    <3> QED
      BY <3>1, <3>2
  <2>4. RefsOf(g, hd, s1, x) = RefsOf(h, hd, s1, x)
    BY <2>3, RefsSame
  <2>5. h.rc[x] = RefsOf(h, hd, s1, x) /\ RefsOf(h, hd, s1, x) \in Nat
    BY <1>1, <1>5, RefsType DEF Exact
  <2>6. CASE x = o
    BY <1>a, <1>10, <1>11, <2>1, <2>2, <2>4, <2>5, <2>6
  <2>7. CASE x # o
    BY <1>a, <1>11, <2>1, <2>2, <2>4, <2>5, <2>7
  <2> QED
    BY <2>6, <2>7
<1>20. AlmostGood(g, hd, Append(s2, d), {o})
  BY <1>1, <1>11, <1>15, <1>16, <1>18, <1>19 DEF AlmostGood
<1>21. o \in Object /\ g.type[o] = "valid" /\ g.rc[o] = 1 /\ g.done[o]
  BY <1>4, <1>10, <1>11, <1>12
<1> QED
  BY <1>20, <1>21 DEF s2, u, z, d, o, ToEnd

(* The zvals of the list are freed, and the collection is over.             *)
\* What is known of them, once the second loop has nothing to do any more.
ListOver(h, hd, st, t) ==
    /\ InList(t) \in SUBSET Zval
    /\ \A z \in InList(t) : /\ h.addr[z] = "list" /\ z \notin hd /\ Unnamed(Append(st, t), z)
                            /\ h.type[z] # "array" /\ Counted(h, z) = {}
                            /\ \A c \in Node : z \notin h.kids[c]
                            /\ \A i \in 1 .. Len(st) : z \notin InList(st[i]) /\ ~Holds(st[i], z)
    /\ \A o \in Object : Rests(h, o) => ~Leads(h, Append(st, t), o, Len(st) + 1)

\* The loops are over: nothing refers to the zvals of the list.
LEMMA ListDone ==
    ASSUME NEW h, NEW hd, NEW st \in Seq(Tasks), NEW t \in Tasks, Good(h, hd, Append(st, t)),
           t[1] = "destroy", \A z \in Rest(t) : z \notin DestroyDue(h)
    PROVE  ListOver(h, hd, st, t)
<1> DEFINE s1 == Append(st, t)
<1>1. /\ h \in Heaps /\ Kinds(h) /\ Exact(h, hd, s1) /\ Lists(h, s1) /\ Apart(h, hd, s1, {})
      /\ Good(h, hd, s1)
  BY DEF Good, AlmostGood, Shape
<1>2. /\ s1 \in Seq(Tasks) /\ Len(st) + 1 \in 1 .. Len(s1) /\ s1[Len(st) + 1] = t
      /\ Len(st) \in Nat /\ Len(s1) = Len(st) + 1
      /\ \A j \in 1 .. Len(st) : j \in 1 .. Len(s1) /\ s1[j] = st[j] /\ j # Len(st) + 1
  BY AppendAt
<1>3. InList(t) \in SUBSET Zval /\ IsList(t) /\ Due(t) = Rest(t) /\ Rest(t) \subseteq InList(t)
  <2>1. t[2] \in Seq(Zval) /\ IsList(t)
    BY TaskType DEF IsList
  <2>2. Due(t) = Rest(t)
    BY DEF Due
  <2>3. IsList(s1[Len(st) + 1]) => Rest(s1[Len(st) + 1]) \subseteq InList(s1[Len(st) + 1])
    BY <1>1, <1>2 DEF Lists
  <2>4. Rest(t) \subseteq InList(t)
    <3> HIDE DEF s1
    <3> QED
      BY <1>2, <2>1, <2>3
  <2>5. InList(t) \in SUBSET Zval
    BY <2>1 DEF InList, IsList
  <2> QED
    BY <2>1, <2>2, <2>4, <2>5
<1> HIDE DEF s1
<1>4. ASSUME NEW o \in Object, h.type[o] = "valid", h.rc[o] = 0, Leads(h, s1, o, Len(st) + 1) PROVE FALSE
  <2>1. PICK z \in Rest(t) : To(h, z, o)
    BY <1>2, <1>3, <1>4 DEF Leads
  <2> QED
    BY <1>3, <1>4, <2>1, DueHas
<1>5. ASSUME NEW z \in InList(t)
      PROVE  /\ h.addr[z] = "list" /\ z \notin hd /\ Unnamed(s1, z)
             /\ h.type[z] # "array" /\ Counted(h, z) = {}
             /\ \A c \in Node : z \notin h.kids[c]
             /\ \A i \in 1 .. Len(st) : z \notin InList(st[i]) /\ ~Holds(st[i], z)
  <2>0. z \in Zval /\ z \in Node /\ z \notin Object /\ z \in InList(s1[Len(st) + 1])
    BY <1>2, <1>3, Apartness
  <2>1. h.addr[z] = "list" /\ z \notin hd /\ Unnamed(s1, z)
    <3>1. ListZval(h, hd, s1, z)
      BY <1>1, <1>2, <2>0, ListHas
    <3> QED
      BY <3>1 DEF ListZval
  <2>2. h.type[z] # "array"
    <3>1. CASE z \in Rest(t)
      BY <2>0, <3>1, DueHas
    <3>2. CASE z \notin Rest(t)
      <4>1. \A y \in InList(s1[Len(st) + 1]) \ Rest(s1[Len(st) + 1]) : h.type[y] # "array"
        BY <1>1, <1>2, <1>3 DEF Lists
      <4> QED
        BY <1>2, <2>0, <3>2, <4>1
    <3> QED
      BY <3>1, <3>2
  <2>3. Counted(h, z) = {}
    <3>1. h.type[z] \in {"free", "array", "object", "null"}
      BY <1>1, <2>0 DEF Kinds
    <3> QED
      BY <2>1, <2>2, <3>1 DEF Counted, Uncounted, Out
  <2>4. ASSUME NEW c \in Node, z \in h.kids[c] PROVE FALSE
    <3>1. Doomed(h, s1, Len(st) + 1, c)
      BY <1>1, <1>2, <2>0, <2>4 DEF Apart
    <3>2. h.type[c] \in {"array", "valid"}
      BY <1>1, <2>4 DEF Kinds
    <3>3. CASE c \in Rest(t)
      <4>1. c \in Zval /\ h.type[c] = "array"
        BY <1>1, <1>3, <3>2, <3>3 DEF Kinds
      <4> QED
        BY <3>3, <4>1, DueHas
    <3>4. CASE c \in Object /\ h.rc[c] = 0 /\ Leads(h, s1, c, Len(st) + 1)
      <4>1. h.type[c] = "valid"
        BY <1>1, <3>2, <3>4 DEF Kinds
      <4> QED
        BY <1>4, <3>4, <4>1
    <3>5. \/ c \in Due(s1[Len(st) + 1])
          \/ c \in Object /\ h.rc[c] = 0 /\ Leads(h, s1, c, Len(st) + 1)
      BY <1>2, <3>1 DEF Doomed
    <3> QED
      BY <1>2, <1>3, <3>3, <3>4, <3>5
  <2>5. ASSUME NEW i \in 1 .. Len(st) PROVE z \notin InList(st[i]) /\ ~Holds(st[i], z)
    <3>1. z \notin InList(st[i])
      <4>1. \A j \in 1 .. Len(s1) : z \in InList(s1[j]) => j = Len(st) + 1
        BY <1>1, <1>2, <2>0 DEF Lists
      <4> QED
        BY <1>2, <4>1
    <3>2. st[i][1] = "drop" => z \notin st[i][2]
      <4>1. s1[i][1] = "drop" /\ z \in s1[i][2] => Len(st) + 1 < i
        BY <1>1, <1>2, <2>0 DEF Apart
      <4> QED
        BY <1>2, <4>1
    <3>3. st[i][1] = "buffer" => z # st[i][3]
      BY <1>2, <2>1 DEF Unnamed
    <3>4. st[i] \in Tasks
      OBVIOUS
    <3>5. st[i][1] \in {"user", "delref", "gone"} => st[i][2] \in Object
      BY <3>4, TaskType
    <3> QED
      BY <2>0, <3>1, <3>2, <3>3, <3>5 DEF Holds
  <2> QED
    BY <2>1, <2>2, <2>3, <2>4, <2>5
<1> QED
  BY <1>3, <1>4, <1>5 DEF Rests, s1, ListOver

\* Nobody knew them but the list.
LEMMA FreedShape ==
    ASSUME NEW h, NEW g, NEW hd, NEW st \in Seq(Tasks), NEW t \in Tasks, Good(h, hd, Append(st, t)),
           t[1] = "destroy", \A z \in Rest(t) : z \notin DestroyDue(h), FreedOf(g, h, InList(t))
    PROVE  Shape(g, hd, st, {})
<1> DEFINE s1 == Append(st, t)  L == InList(t)
<1>1. /\ h \in Heaps /\ Kinds(h) /\ Lists(h, s1) /\ Apart(h, hd, s1, {}) /\ Waits(h, s1)
      /\ Calls(h, s1) /\ Dying(h, hd, s1)
  BY DEF Good, AlmostGood, Shape
<1>2. /\ s1 \in Seq(Tasks) /\ Len(st) + 1 \in 1 .. Len(s1) /\ s1[Len(st) + 1] = t
      /\ Len(st) \in Nat /\ Len(s1) = Len(st) + 1
      /\ \A j \in 1 .. Len(st) : j \in 1 .. Len(s1) /\ s1[j] = st[j] /\ j # Len(st) + 1
  BY AppendAt
<1>3. /\ L \in SUBSET Zval
      /\ \A z \in L : /\ h.addr[z] = "list" /\ Unnamed(s1, z) /\ \A i \in 1 .. Len(st) : z \notin InList(st[i])
      /\ \A o \in Object : Rests(h, o) => ~Leads(h, s1, o, Len(st) + 1)
  <2>1. ListOver(h, hd, st, t)
    BY ListDone
  <2> QED
    BY <2>1 DEF ListOver
<1>4. /\ \A x \in Node \cap L : g.type[x] = "free" /\ g.kids[x] = {} /\ g.addr[x] = "null"
      /\ \A x \in Node \ L : /\ g.type[x] = h.type[x] /\ g.rc[x] = h.rc[x] /\ g.kids[x] = h.kids[x]
                             /\ g.col[x] = h.col[x] /\ g.addr[x] = h.addr[x]
      /\ \A z \in Zval \ L : g.obj[z] = h.obj[z]
      /\ \A o \in Object \ L : g.done[o] = h.done[o]
  BY DEF FreedOf
<1> HIDE DEF s1, L
<1>5. \A o \in Object : /\ o \in Node \ L /\ g.type[o] = h.type[o] /\ g.rc[o] = h.rc[o]
                        /\ g.kids[o] = h.kids[o] /\ g.addr[o] = h.addr[o] /\ g.done[o] = h.done[o]
  BY <1>3, <1>4, Apartness
<1>6. \A c \in Node : g.kids[c] \subseteq h.kids[c]
  BY <1>4
<1>7. \A z \in Zval \ L : /\ z \in Node \ L /\ g.type[z] = h.type[z] /\ g.col[z] = h.col[z]
                          /\ g.addr[z] = h.addr[z] /\ g.obj[z] = h.obj[z]
                          /\ \A o : To(g, z, o) <=> To(h, z, o)
  BY <1>4, Apartness DEF To
<1>8. ASSUME NEW i \in 1 .. Len(st)
      PROVE  /\ InList(st[i]) \subseteq Zval \ L
             /\ IsList(st[i]) => Rest(st[i]) \subseteq InList(st[i])
             /\ Due(st[i]) \subseteq InList(st[i])
  <2>0. st[i] \in Tasks /\ s1[i] = st[i] /\ i \in 1 .. Len(s1)
    BY <1>2
  <2>1. InList(st[i]) \subseteq Zval
    <3>1. IsList(st[i]) => st[i][2] \in Seq(Zval)
      BY <2>0, TaskType DEF IsList
    <3> QED
      BY <3>1 DEF InList, IsList
  <2>2. IsList(st[i]) => Rest(st[i]) \subseteq InList(st[i])
    BY <1>1, <2>0 DEF Lists
  <2>3. Due(st[i]) \subseteq InList(st[i])
    BY <2>2 DEF Due, IsList
  <2> QED
    BY <1>3, <2>1, <2>2, <2>3
<1>9. ASSUME NEW i \in 1 .. Len(st)
      PROVE  /\ st[i][1] = "efree" => st[i][2] \in Zval \ L
             /\ st[i][1] = "buffer" => st[i][3] \in Zval \ L
  <2>1. st[i] \in Tasks /\ s1[i] = st[i] /\ i \in 1 .. Len(s1)
    BY <1>2
  <2> QED
    BY <1>3, <2>1, TaskType DEF Unnamed
<1>10. ASSUME NEW i \in 1 .. Len(st), st[i][1] = "check" PROVE st[i][2] \in Zval \ L
  <2>1. s1[i] = st[i] /\ i \in 1 .. Len(s1)
    BY <1>2
  <2>2. i > 1 /\ s1[i - 1] = <<"efree", st[i][2]>>
    BY <1>1, <1>10, <2>1 DEF Dying
  <2>3. i - 1 \in 1 .. Len(st) /\ s1[i - 1] = st[i - 1]
    BY <1>2, <2>2
  <2> QED
    BY <1>9, <2>2, <2>3
<1>11. \A i \in 1 .. Len(st) : \A o : About(g, st[i], o) <=> About(h, st[i], o)
  BY <1>7, <1>10 DEF About
<1>12. ASSUME NEW i \in 1 .. Len(st), NEW o \in Object, Leads(h, s1, o, i) PROVE Leads(g, st, o, i)
  <2>1. \E z \in Due(st[i]) : To(g, z, o)
    <3>1. PICK z \in Due(s1[i]) : To(h, z, o)
      BY <1>12 DEF Leads
    <3> QED
      BY <1>2, <1>7, <1>8, <3>1
  <2>2. ASSUME NEW m \in i + 1 .. Len(st), NEW z \in InList(st[m]) PROVE ~To(g, z, o)
    <3>1. m \in 1 .. Len(st) /\ m \in i + 1 .. Len(s1) /\ s1[m] = st[m]
      BY <1>2
    <3>2. ~To(h, z, o)
      BY <1>12, <3>1 DEF Leads
    <3> QED
      BY <1>7, <1>8, <3>1, <3>2
  <2> QED
    BY <2>1, <2>2 DEF Leads
<1>13. Lists(g, st)
  <2>1. \A o \in Object : g.addr[o] # "list"
    BY <1>1, <1>5 DEF Lists
  <2>2. ASSUME NEW z \in Zval, g.addr[z] = "list"
        PROVE  g.col[z] = "black" /\ \E i \in 1 .. Len(st) : z \in InList(st[i])
    <3>1. z \notin L
      BY <1>4, <2>2, Apartness
    <3>2. h.addr[z] = "list" /\ g.col[z] = h.col[z]
      BY <1>7, <2>2, <3>1
    <3>3. h.col[z] = "black" /\ \E i \in 1 .. Len(s1) : z \in InList(s1[i])
      BY <1>1, <3>2 DEF Lists
    <3>4. PICK i \in 1 .. Len(s1) : z \in InList(s1[i])
      BY <3>3
    <3>5. i # Len(st) + 1
      BY <1>2, <3>1, <3>4 DEF L
    <3>6. i \in 1 .. Len(st) /\ s1[i] = st[i]
      BY <1>2, <3>5
    <3> QED
      BY <3>2, <3>3, <3>4, <3>6
  <2>3. ASSUME NEW i \in 1 .. Len(st), NEW z \in InList(st[i])
        PROVE  g.addr[z] = "list" /\ \A j \in 1 .. Len(st) : z \in InList(st[j]) => j = i
    <3>1. h.addr[z] = "list" /\ \A j \in 1 .. Len(s1) : z \in InList(s1[j]) => j = i
      BY <1>1, <1>2 DEF Lists
    <3> QED
      BY <1>2, <1>7, <1>8, <3>1
  <2>4. ASSUME NEW i \in 1 .. Len(st), IsList(st[i])
        PROVE  /\ Rest(st[i]) \subseteq InList(st[i])
               /\ st[i][1] = "destroy" => \A z \in InList(st[i]) \ Rest(st[i]) : g.type[z] # "array"
    <3>1. st[i][1] = "destroy" => \A z \in InList(st[i]) \ Rest(st[i]) : h.type[z] # "array"
      BY <1>1, <1>2, <2>4 DEF Lists
    <3> QED
      BY <1>7, <1>8, <2>4, <3>1
  <2> QED
    BY <2>1, <2>2, <2>3, <2>4 DEF Lists
<1>14. ASSUME NEW no, no = {} PROVE Apart(g, hd, st, no)
  <2>1. ASSUME NEW i \in 1 .. Len(st), NEW z \in InList(st[i]) PROVE z \notin hd
    BY <1>1, <1>2 DEF Apart
  <2>2. ASSUME NEW i \in 1 .. Len(st), NEW z \in InList(st[i]), NEW j \in 1 .. Len(st)
        PROVE  /\ st[j][1] = "drop" /\ z \in st[j][2] => i < j
               /\ st[j][1] = "buffer" => z # st[j][3]
    BY <1>1, <1>2 DEF Apart
  <2>3. ASSUME NEW i \in 1 .. Len(st), NEW z \in InList(st[i]), NEW c \in Node, z \in g.kids[c]
        PROVE  Doomed(g, st, i, c)
    <3>1. z \in h.kids[c]
      BY <1>6, <2>3
    <3>2. Doomed(h, s1, i, c)
      BY <1>1, <1>2, <3>1 DEF Apart
    <3>3. CASE c \in Due(s1[i])
      BY <1>2, <3>3 DEF Doomed
    <3>4. CASE c \in Object /\ h.rc[c] = 0 /\ Leads(h, s1, c, i)
      BY <1>5, <1>12, <3>4 DEF Doomed
    <3>5. CASE i < Len(s1) /\ s1[i + 1] = <<"user", c>>
      <4>1. i + 1 # Len(st) + 1
        BY <1>2, <3>5
      <4>2. i < Len(st) /\ i + 1 \in 1 .. Len(st)
        BY <1>2, <4>1
      <4>3. st[i + 1] = <<"user", c>>
        BY <1>2, <3>5, <4>2
      <4> QED
        BY <4>2, <4>3 DEF Doomed
    <3> QED
      BY <3>2, <3>3, <3>4, <3>5 DEF Doomed
  <2> QED
    BY <2>1, <2>2, <2>3 DEF Apart
<1>15. Waits(g, st)
  <2> SUFFICES ASSUME NEW o \in Object, Rests(g, o) PROVE \E k \in 1 .. Len(st) : Owner(g, st, o, k)
    BY DEF Waits
  <2>1. Rests(h, o)
    BY <1>5 DEF Rests
  <2>2. PICK k \in 1 .. Len(s1) : Owner(h, s1, o, k)
    BY <1>1, <2>1 DEF Waits
  <2>3. Leads(h, s1, o, k) /\ (h.done[o] \/ (s1[k][1] = "dtors" /\ \E z \in Rest(s1[k]) : To(h, z, o)))
        /\ \A j \in 1 .. Len(s1) : About(h, s1[j], o) => j < k
    BY <2>2 DEF Owner
  <2>4. k # Len(st) + 1
    BY <1>3, <2>1, <2>3
  <2>5. k \in 1 .. Len(st) /\ s1[k] = st[k]
    BY <1>2, <2>4
  <2>6. Leads(g, st, o, k)
    BY <1>12, <2>3, <2>5
  <2>7. g.done[o] \/ (st[k][1] = "dtors" /\ \E z \in Rest(st[k]) : To(g, z, o))
    <3>1. CASE h.done[o]
      BY <1>5, <3>1
    <3>2. CASE ~h.done[o]
      <4>1. st[k][1] = "dtors" /\ \E z \in Rest(st[k]) : To(h, z, o)
        BY <2>3, <2>5, <3>2
      <4>2. Rest(st[k]) \subseteq Zval \ L
        BY <1>8, <2>5, <4>1 DEF IsList
      <4> QED
        BY <1>7, <4>1, <4>2
    <3> QED
      BY <3>1, <3>2
  <2>8. \A j \in 1 .. Len(st) : About(g, st[j], o) => j < k
    BY <1>2, <1>11, <2>3
  <2> QED
    BY <2>5, <2>6, <2>7, <2>8 DEF Owner
<1>16. Calls(g, st)
  <2>0. \A j \in 1 .. Len(st) : st[j] \in Tasks
    OBVIOUS
  <2>1. ASSUME NEW j \in 1 .. Len(st), st[j][1] = "user"
        PROVE  /\ j > 1
               /\ \/ st[j - 1] = <<"delref", st[j][2]>>
                  \/ /\ st[j - 1][1] = "dtors" /\ g.done[st[j][2]]
                     /\ \E z \in InList(st[j - 1]) : To(g, z, st[j][2])
    <3>1. s1[j] = st[j] /\ j \in 1 .. Len(s1) /\ st[j][2] \in Object
      BY <1>2, <2>0, <2>1, TaskType
    <3>2. /\ j > 1
          /\ \/ s1[j - 1] = <<"delref", st[j][2]>>
             \/ /\ s1[j - 1][1] = "dtors" /\ h.done[st[j][2]]
                /\ \E z \in InList(s1[j - 1]) : To(h, z, st[j][2])
      BY <1>1, <2>1, <3>1 DEF Calls
    <3>3. j - 1 \in 1 .. Len(st) /\ s1[j - 1] = st[j - 1]
      BY <1>2, <3>2
    <3> QED
      BY <1>5, <1>7, <1>8, <3>1, <3>2, <3>3
  <2>2. ASSUME NEW j \in 1 .. Len(st), st[j][1] = "gone"
        PROVE  /\ g.type[st[j][2]] = "valid" /\ g.kids[st[j][2]] = {}
               /\ g.rc[st[j][2]] = 1 /\ g.addr[st[j][2]] # "root"
               /\ \A m \in 1 .. Len(st) : About(g, st[m], st[j][2]) => m < j
    <3>1. s1[j] = st[j] /\ j \in 1 .. Len(s1) /\ st[j][2] \in Object
      BY <1>2, <2>0, <2>2, TaskType
    <3>2. /\ h.type[st[j][2]] = "valid" /\ h.kids[st[j][2]] = {}
          /\ h.rc[st[j][2]] = 1 /\ h.addr[st[j][2]] # "root"
          /\ \A m \in 1 .. Len(s1) : About(h, s1[m], st[j][2]) => m < j
      BY <1>1, <2>2, <3>1 DEF Calls
    <3>3. \A m \in 1 .. Len(st) : About(g, st[m], st[j][2]) => m < j
      BY <1>2, <1>11, <3>2
    <3> QED
      BY <1>5, <3>1, <3>2, <3>3
  <2> QED
    BY <2>1, <2>2 DEF Calls
<1>17. Dying(g, hd, st)
  <2>1. ASSUME NEW j \in 1 .. Len(st), st[j][1] = "efree"
        PROVE  /\ g.type[st[j][2]] = "null" /\ g.addr[st[j][2]] = "null" /\ st[j][2] \notin hd
               /\ \A c \in Node : st[j][2] \notin g.kids[c]
               /\ \A m \in 1 .. Len(st) :
                     /\ st[m][1] = "drop" => st[j][2] \notin st[m][2]
                     /\ st[m][1] = "buffer" /\ st[m][3] = st[j][2] => j < m
                     /\ st[m] = st[j] => m = j
    <3>1. s1[j] = st[j] /\ j \in 1 .. Len(s1)
      BY <1>2
    <3>2. /\ h.type[st[j][2]] = "null" /\ h.addr[st[j][2]] = "null" /\ st[j][2] \notin hd
          /\ \A c \in Node : st[j][2] \notin h.kids[c]
      BY <1>1, <2>1, <3>1 DEF Dying
    <3>3. \A m \in 1 .. Len(s1) :
              /\ s1[m][1] = "drop" => st[j][2] \notin s1[m][2]
              /\ s1[m][1] = "buffer" /\ s1[m][3] = st[j][2] => j < m
              /\ s1[m] = st[j] => m = j
      BY <1>1, <2>1, <3>1 DEF Dying
    <3>4. \A m \in 1 .. Len(st) :
              /\ st[m][1] = "drop" => st[j][2] \notin st[m][2]
              /\ st[m][1] = "buffer" /\ st[m][3] = st[j][2] => j < m
              /\ st[m] = st[j] => m = j
      BY <1>2, <3>3
    <3> QED
      BY <1>6, <1>7, <1>9, <2>1, <3>2, <3>4
  <2>2. ASSUME NEW j \in 1 .. Len(st), st[j][1] = "check"
        PROVE  j > 1 /\ st[j - 1] = <<"efree", st[j][2]>> /\ g.obj[st[j][2]] \in Object
    <3>1. s1[j] = st[j] /\ j \in 1 .. Len(s1)
      BY <1>2
    <3>2. j > 1 /\ s1[j - 1] = <<"efree", st[j][2]>> /\ h.obj[st[j][2]] \in Object
      BY <1>1, <2>2, <3>1 DEF Dying
    <3>3. j - 1 \in 1 .. Len(st) /\ s1[j - 1] = st[j - 1]
      BY <1>2, <3>2
    <3> QED
      BY <1>7, <1>10, <2>2, <3>2, <3>3
  <2>3. ASSUME NEW j \in 1 .. Len(st), st[j][1] = "buffer"
        PROVE  \/ st[j][2] = st[j][3] /\ g.type[st[j][3]] = "array"
               \/ st[j][2] \in Object /\ (To(g, st[j][3], st[j][2]) \/ g.type[st[j][3]] = "null")
    <3>1. s1[j] = st[j] /\ j \in 1 .. Len(s1)
      BY <1>2
    <3>2. \/ st[j][2] = st[j][3] /\ h.type[st[j][3]] = "array"
          \/ st[j][2] \in Object /\ (To(h, st[j][3], st[j][2]) \/ h.type[st[j][3]] = "null")
      BY <1>1, <2>3, <3>1 DEF Dying
    <3>3. st[j][3] \in Zval \ L
      BY <1>9, <2>3
    <3> QED
      BY <1>7, <3>2, <3>3
  <2> QED
    BY <2>1, <2>2, <2>3 DEF Dying
<1> QED
  BY <1>13, <1>14, <1>15, <1>16, <1>17 DEF Shape

\* The third loop frees the zvals of the list.
LEMMA DestroyEnd ==
    ASSUME NEW h, NEW hd, NEW st \in Seq(Tasks), NEW t \in Tasks, Good(h, hd, Append(st, t)),
           t[1] = "destroy", \A z \in Rest(t) : z \notin DestroyDue(h)
    PROVE  Good(Freed(h, InList(t)), hd, st)
<1> DEFINE s1 == Append(st, t)  L == InList(t)  g == Freed(h, L)
<1>1. h \in Heaps /\ hd \in SUBSET Zval /\ Kinds(h) /\ Rooted(h) /\ Exact(h, hd, s1)
  BY DEF Good, AlmostGood
<1>2. FreedOf(g, h, L)
  BY <1>1, FreedFields
<1>3. Shape(g, hd, st, {})
  BY <1>2, FreedShape
<1>4. ListOver(h, hd, st, t)
  BY ListDone
<1>5. /\ L \in SUBSET Zval
      /\ \A z \in L : /\ h.addr[z] = "list" /\ z \notin hd /\ Counted(h, z) = {}
                      /\ \A c \in Node : z \notin h.kids[c]
                      /\ \A i \in 1 .. Len(st) : ~Holds(st[i], z)
  BY <1>4 DEF ListOver
<1>6. \A x : Holds(t, x) <=> x \in L
  BY DEF Holds, InList
<1> HIDE DEF s1, L, g
<1>7. /\ g \in Heaps /\ g.roots = h.roots
      /\ \A x \in Node \cap L : /\ g.type[x] = "free" /\ g.rc[x] = 0 /\ g.kids[x] = {} /\ g.addr[x] = "null"
      /\ \A x \in Node \ L : /\ g.type[x] = h.type[x] /\ g.rc[x] = h.rc[x] /\ g.kids[x] = h.kids[x]
                             /\ g.addr[x] = h.addr[x]
      /\ \A z \in Zval \ L : g.obj[z] = h.obj[z]
  BY <1>2 DEF FreedOf
<1>8. \A y \in Node : Counted(g, y) = Counted(h, y)
  <2>1. ASSUME NEW y \in Node, y \in L PROVE Counted(g, y) = {} /\ Counted(h, y) = {}
    BY <1>5, <1>7, <2>1 DEF Counted, Uncounted, Out
  <2>2. ASSUME NEW y \in Zval, y \notin L PROVE Counted(g, y) = Counted(h, y)
    BY <1>7, <2>2, CountedSame, Apartness
  <2>3. ASSUME NEW y \in Object PROVE Counted(g, y) = Counted(h, y)
    <3>1. y \in Node \ L
      BY <1>5, Apartness
    <3>2. h.type[y] \in {"free", "valid"} /\ g.type[y] = h.type[y] /\ g.kids[y] = h.kids[y]
      BY <1>1, <1>7, <3>1 DEF Kinds
    <3> QED
      BY <3>2 DEF Counted, Uncounted, Out
  <2> QED
    BY <2>1, <2>2, <2>3, Apartness
<1>9. Exact(g, hd, st)
  <2> SUFFICES ASSUME NEW x \in Node PROVE g.rc[x] = RefsOf(g, hd, st, x)
    BY DEF Exact
  <2>1. CASE x \in L
    <3>1. Referrers(g, x) = {}
      <4>1. x \in Zval
        BY <1>5, <2>1
      <4>2. \A y \in Node : x \notin Counted(h, y)
        BY <1>1, <1>5, <2>1, <4>1, CountedIs
      <4> QED
        BY <1>8, <4>2 DEF Referrers
    <3>2. Holders(st, x) = {}
      BY <1>5, <2>1 DEF Holders
    <3>3. ByVariable(hd, x) = 0
      BY <1>5, <2>1 DEF ByVariable
    <3>4. Cardinality({}) = 0
      BY FS_EmptySet
    <3>5. RefsOf(g, hd, st, x) = 0
      BY <3>1, <3>2, <3>3, <3>4 DEF RefsOf
    <3> QED
      BY <1>7, <2>1, <3>5
  <2>2. CASE x \notin L
    <3>1. RefsOf(h, hd, s1, x) = RefsOf(h, hd, st, x) + 0
      BY <1>6, <2>2, RefsPush DEF s1
    <3>2. RefsOf(g, hd, st, x) = RefsOf(h, hd, st, x) /\ RefsOf(h, hd, st, x) \in Nat
      BY <1>8, RefsSame, RefsType
    <3>3. h.rc[x] = RefsOf(h, hd, s1, x)
      BY <1>1 DEF Exact
    <3> QED
      BY <1>7, <2>2, <3>1, <3>2, <3>3
  <2> QED
    BY <2>1, <2>2
<1>10. Kinds(g)
  <2>1. ASSUME NEW y \in Zval
        PROVE  /\ g.type[y] \in {"free", "array", "object", "null"}
               /\ g.type[y] = "object" => g.obj[y] \in Object
    BY <1>1, <1>7, Apartness DEF Kinds
  <2>2. \A o \in Object : g.type[o] \in {"free", "valid"}
    BY <1>1, <1>7, Apartness DEF Kinds
  <2>3. ASSUME NEW x \in Node
        PROVE  /\ g.kids[x] # {} => g.type[x] \in {"array", "valid"}
               /\ g.type[x] = "free" => g.rc[x] = 0 /\ g.addr[x] = "null"
    BY <1>1, <1>7 DEF Kinds
  <2> QED
    BY <2>1, <2>2, <2>3 DEF Kinds
<1>11. Rooted(g)
  <2>1. \A x \in Node : x \in L => x \notin h.roots
    BY <1>1, <1>5 DEF Rooted
  <2>2. Cardinality(g.roots) <= MaxRoots
    BY <1>1, <1>7 DEF Rooted
  <2>3. ASSUME NEW x \in Node
        PROVE  /\ x \in g.roots <=> g.addr[x] = "root"
               /\ x \in g.roots => g.type[x] \in {"array", "valid"}
               /\ x \in g.roots /\ x \in Object => g.rc[x] > 0
    <3>1. CASE x \in L
      BY <1>7, <2>1, <3>1
    <3>2. CASE x \notin L
      BY <1>1, <1>7, <3>2 DEF Rooted
    <3> QED
      BY <3>1, <3>2
  <2> QED
    BY <2>2, <2>3 DEF Rooted
<1> QED
  BY <1>1, <1>3, <1>7, <1>9, <1>10, <1>11 DEF Good, AlmostGood, g, L

\* The second loop, as a whole.
LEMMA DestroyGood ==
    ASSUME NEW h, NEW hd, NEW st \in Seq(Tasks), NEW l \in Seq(Zval), NEW r \in Seq(Zval),
           Good(h, hd, Append(st, <<"destroy", l, r>>))
    PROVE  /\ None(r, DestroyDue(h)) => Good(Freed(h, {l[i] : i \in DOMAIN l}), hd, st)
           /\ \A i \in DOMAIN r : IsNext(r, i, DestroyDue(h)) =>
                 LET z == r[i]  next == Append(st, <<"destroy", l, After(r, i)>>)
                 IN  IF h.type[z] = "object"
                     THEN Release([h EXCEPT !.rc[h.obj[z]] = 1, !.type[z] = "null"], h.obj[z], next)
                             => Good(heap', hd, stack')
                     ELSE Good([h EXCEPT !.type[z] = "null", !.kids[z] = {}], hd, next \o Drops(h.kids[z]))
<1> DEFINE t == <<"destroy", l, r>>
<1>1. t \in Tasks /\ InList(t) = {l[i] : i \in 1 .. Len(l)} /\ Rest(t) = {r[j] : j \in 1 .. Len(r)}
      /\ t[1] = "destroy"
  BY ListTask
<1>2. DOMAIN l = 1 .. Len(l) /\ DOMAIN r = 1 .. Len(r)
  OBVIOUS
<1>3. ASSUME None(r, DestroyDue(h)) PROVE Good(Freed(h, {l[i] : i \in DOMAIN l}), hd, st)
  <2>1. \A z \in Rest(t) : z \notin DestroyDue(h)
    <3> HIDE DEF t
    <3> QED
      BY <1>1, <1>2, <1>3 DEF None
  <2>2. Good(h, hd, Append(st, t))
    OBVIOUS
  <2> HIDE DEF t
  <2>3. Good(Freed(h, InList(t)), hd, st)
    BY <1>1, <2>1, <2>2, DestroyEnd
  <2> QED
    BY <1>1, <1>2, <2>3
<1>4. ASSUME NEW i \in DOMAIN r, IsNext(r, i, DestroyDue(h)), h.type[r[i]] # "object"
      PROVE  Good([h EXCEPT !.type[r[i]] = "null", !.kids[r[i]] = {}], hd,
                  Append(st, <<"destroy", l, After(r, i)>>) \o Drops(h.kids[r[i]]))
  BY <1>2, <1>4, DestroyArray DEF SetNull
<1>5. ASSUME NEW i \in DOMAIN r, IsNext(r, i, DestroyDue(h)), h.type[r[i]] = "object",
             Release([h EXCEPT !.rc[h.obj[r[i]]] = 1, !.type[r[i]] = "null"], h.obj[r[i]],
                     Append(st, <<"destroy", l, After(r, i)>>))
      PROVE  Good(heap', hd, stack')
  <2> DEFINE z == r[i]  o == h.obj[z]  g == Emptied(h, z, o)  next == Append(st, <<"destroy", l, After(r, i)>>)
  <2>1. /\ o \in Object /\ g.type[o] = "valid" /\ g.rc[o] = 1 /\ g.done[o]
        /\ AlmostGood(g, hd, Append(next, <<"delref", o>>), {o})
    <3>1. i \in 1 .. Len(r) /\ IsNext(r, i, DestroyDue(h)) /\ h.type[r[i]] = "object"
      BY <1>2, <1>5
    <3>2. ToEnd(g, hd, next, o)
      BY <3>1, DestroyObject
    <3> QED
      BY <3>2 DEF ToEnd
  <2>2. Release(g, o, next)
    BY <1>5 DEF Emptied
  <2>3. next \in Seq(Tasks)
    <3>1. After(r, i) \in Seq(Zval)
      BY <1>2, AfterIs
    <3>2. <<"destroy", l, After(r, i)>> \in Tasks
      BY <3>1, ListTask
    <3> QED
      BY <3>2
  <2> HIDE DEF g, next, o
  <2>4. heap' = [Unlist(g, o) EXCEPT !.kids[o] = {}]
        /\ stack' = next \o (<<<<"gone", o>>>> \o Drops(g.kids[o]))
    BY <2>1, <2>2 DEF Release, Continues
  <2>5. Good(SetKids(Unlist(g, o), o, {}), hd, next \o (<<<<"gone", o>>>> \o Drops(g.kids[o])))
    BY <2>1, <2>3, Last
  <2> QED
    BY <2>4, <2>5 DEF SetKids
<1> QED
  BY <1>3, <1>4, <1>5

(***************************************************************************)
(* The actions.                                                            *)
(***************************************************************************)
IsGood == Good(heap, held, stack)

\* The task on top and the stack below it.
LEMMA TopTask ==
    ASSUME stack \in Seq(Tasks), Top # "none"
    PROVE  /\ Below \in Seq(Tasks) /\ Task \in Tasks /\ stack = Append(Below, Task)
           /\ Task[1] = Top
<1>1. stack # <<>> /\ Task[1] = Top
  BY DEF Top
<1>2. /\ SubSeq(stack, 1, Len(stack) - 1) \in Seq(Tasks) /\ stack[Len(stack)] \in Tasks
      /\ stack = Append(SubSeq(stack, 1, Len(stack) - 1), stack[Len(stack)])
  BY <1>1, PushedTop
<1> QED
  BY <1>1, <1>2 DEF Below, Task

\* A list below the top of the stack is one of the stack.
LEMMA ListBelow ==
    ASSUME stack \in Seq(Tasks), Top # "none", NEW S \in SUBSET Zval,
           NEW i \in 1 .. Len(Below \o Drops(S)), IsList((Below \o Drops(S))[i])
    PROVE  Listed
<1>1. Below \in Seq(Tasks) /\ Task \in Tasks /\ stack = Append(Below, Task)
  BY TopTask
<1> DEFINE b == Below
<1>2. b \in Seq(Tasks) /\ stack \in Seq(Tasks) /\ Len(stack) = Len(b) + 1
      /\ \A j \in 1 .. Len(b) : stack[j] = b[j]
  BY <1>1
<1> HIDE DEF b
<1>3. ASSUME NEW j \in 1 .. Len(b), IsList(b[j]) PROVE Listed
  <2>1. j \in DOMAIN stack /\ stack[j] = b[j]
    BY <1>2
  <2> QED
    BY <1>3, <2>1 DEF Listed, IsList
<1>4. CASE S = {}
  <2>1. b \o Drops(S) = b
    BY <1>2, <1>4 DEF Drops
  <2> QED
    BY <1>3, <2>1 DEF b
<1>5. CASE S # {}
  <2>1. Drops(S) = <<<<"drop", S>>>> /\ <<"drop", S>> \in Tasks /\ ~IsList(<<"drop", S>>)
    BY <1>5, MadeDrop DEF Drops, IsList
  <2>2. b \o Drops(S) = Append(b, <<"drop", S>>)
    BY <1>2, <2>1, Sequences
  <2>3. \A j \in 1 .. Len(Append(b, <<"drop", S>>)) :
            (j \in 1 .. Len(b) /\ Append(b, <<"drop", S>>)[j] = b[j])
            \/ Append(b, <<"drop", S>>)[j] = <<"drop", S>>
    BY <1>2, <2>1
  <2>4. i \in 1 .. Len(b) /\ IsList(b[i])
    BY <2>1, <2>2, <2>3 DEF b
  <2> QED
    BY <1>3, <2>4
<1> QED
  BY <1>4, <1>5

\* A zval of a task drop is decremented.
LEMMA DropStep ==
    ASSUME IsGood, NEW z \in Zval, Drop(z) PROVE Good(heap', held', stack')
<1>1. stack \in Seq(Tasks) /\ Top # "none" /\ Top = "drop" /\ z \in Task[2] /\ held' = held
      /\ PtrDtor(heap, z, Below \o Drops(Task[2] \ {z}))
  BY DEF IsGood, Good, AlmostGood, Drop
<1>2. Below \in Seq(Tasks) /\ Task \in Tasks /\ stack = Append(Below, Task) /\ Task[1] = "drop"
  BY <1>1, TopTask
<1>3. Task[2] \in SUBSET Zval /\ Task = <<"drop", Task[2]>>
  BY <1>2, TaskType
<1> DEFINE S == Task[2]  b == Below  rest == b \o Drops(S \ {z})
<1>4. Good(heap, held, Append(b, <<"drop", S>>))
  BY <1>2, <1>3 DEF IsGood
<1>5. \A i \in 1 .. Len(rest) : IsList(rest[i]) => Listed
  BY <1>1, <1>3, ListBelow
<1>6. S \in SUBSET Zval /\ z \in S /\ b \in Seq(Tasks)
  BY <1>1, <1>2, <1>3
<1> HIDE DEF S, b
<1>7. rest \in Seq(Tasks) /\ Good(heap, held, Append(rest, <<"drop", {z}>>))
  BY <1>4, <1>6, SplitDrop
<1>8. PtrDtor(heap, z, rest)
  BY <1>1 DEF S, b
<1> HIDE DEF rest
<1>9. Good(heap', held, stack')
  BY <1>5, <1>7, <1>8, PtrDtorGood
<1> QED
  BY <1>1, <1>9

\* The end of zend_objects_store_del_ref is done.
LEMMA CheckStep ==
    ASSUME IsGood, NEW z \in Zval, Check(z) PROVE Good(heap', held', stack')
<1>1. stack \in Seq(Tasks) /\ Top # "none" /\ Top = "check" /\ z = Task[2] /\ held' = held
      /\ BufferObject(heap, z, Below)
  BY DEF IsGood, Good, AlmostGood, Check
<1>2. Below \in Seq(Tasks) /\ Task \in Tasks /\ stack = Append(Below, Task) /\ Task[1] = "check"
  BY <1>1, TopTask
<1>3. Task = <<"check", z>>
  BY <1>1, <1>2, TaskType
<1>4. Good(heap, held, Append(Below, <<"check", z>>))
  BY <1>2, <1>3 DEF IsGood
<1>5. Good(heap', held, stack')
  BY <1>1, <1>2, <1>4, CheckGood
<1> QED
  BY <1>1, <1>5

\* A zval is freed.
LEMMA EfreeStep ==
    ASSUME IsGood, NEW z \in Zval, Efree(z) PROVE Good(heap', held', stack')
<1>1. stack \in Seq(Tasks) /\ Top # "none" /\ Top = "efree" /\ z = Task[2] /\ held' = held
      /\ heap' = Freed(heap, {z}) /\ stack' = Below \o <<>>
  BY DEF IsGood, Good, AlmostGood, Efree, Becomes, Continues
<1>2. Below \in Seq(Tasks) /\ Task \in Tasks /\ stack = Append(Below, Task) /\ Task[1] = "efree"
  BY <1>1, TopTask
<1>3. Task = <<"efree", z>>
  BY <1>1, <1>2, TaskType
<1>4. Good(Freed(heap, {z}), held, Below)
  BY <1>2, <1>3, EfreeGood DEF IsGood
<1>5. Below \o <<>> = Below
  BY <1>2
<1> QED
  BY <1>1, <1>4, <1>5

\* An object is freed.
LEMMA GoneStep ==
    ASSUME IsGood, NEW o \in Object, Gone(o) PROVE Good(heap', held', stack')
<1>1. stack \in Seq(Tasks) /\ Top # "none" /\ Top = "gone" /\ o = Task[2] /\ held' = held
      /\ heap' = Freed(heap, {o}) /\ stack' = Below \o <<>>
  BY DEF IsGood, Good, AlmostGood, Gone, Becomes, Continues
<1>2. Below \in Seq(Tasks) /\ Task \in Tasks /\ stack = Append(Below, Task) /\ Task[1] = "gone"
  BY <1>1, TopTask
<1>3. Task = <<"gone", o>>
  BY <1>1, <1>2, TaskType
<1>4. Good(Freed(heap, {o}), held, Below)
  BY <1>2, <1>3, GoneGood DEF IsGood
<1>5. Below \o <<>> = Below
  BY <1>2
<1> QED
  BY <1>1, <1>4, <1>5

\* An object is released.
LEMMA DelRefStep ==
    ASSUME IsGood, NEW o \in Object, DelRef(o) PROVE Good(heap', held', stack')
<1>1. stack \in Seq(Tasks) /\ Top # "none" /\ Top = "delref" /\ o = Task[2] /\ held' = held
      /\ Release(heap, o, Below)
  BY DEF IsGood, Good, AlmostGood, DelRef
<1>2. Below \in Seq(Tasks) /\ Task \in Tasks /\ stack = Append(Below, Task) /\ Task[1] = "delref"
  BY <1>1, TopTask
<1>3. Task = <<"delref", o>>
  BY <1>1, <1>2, TaskType
<1>4. Good(heap', held, stack')
  BY <1>1, <1>2, <1>3, ReleaseGood DEF IsGood
<1> QED
  BY <1>1, <1>4

\* Back in gc_zval_possible_root after a collection.
LEMMA BufferStep ==
    ASSUME IsGood, NEW x \in Node, NEW z \in Zval, BufferAfterCollect(x, z), ~spoilt'
    PROVE  Good(heap', held', stack')
<1> DEFINE h == [heap EXCEPT !.rc[z] = @ - 1]  b == Below  g == AsRoot(h, x)
<1>0. heap \in Heaps /\ stack \in Seq(Tasks)
  BY DEF IsGood, Good, AlmostGood
<1>1. Top # "none" /\ Top = "buffer" /\ x = Task[2] /\ z = Task[3] /\ held' = held
  BY DEF BufferAfterCollect
<1>2. /\ heap' = (IF Cardinality(h.roots) = MaxRoots THEN h ELSE g) /\ stack' = b \o <<>>
      /\ spoilt' = (spoilt \/ Cardinality(h.roots) = MaxRoots \/ h.addr[x] # "null"
                           \/ (h.rc[z] = 0 /\ h.type[z] # "null") \/ h.type[x] = "free")
  BY DEF BufferAfterCollect, Becomes, Continues
<1>3. b \in Seq(Tasks) /\ Task \in Tasks /\ stack = Append(b, Task) /\ Task[1] = "buffer"
  BY <1>0, <1>1, TopTask
<1>4. Task = <<"buffer", x, z>>
  BY <1>1, <1>3, TaskType
<1>5. /\ h.roots = heap.roots /\ h.addr = heap.addr /\ h.type = heap.type /\ h.rc[z] = heap.rc[z] - 1
      /\ heap.rc[z] \in Int
  BY <1>0 DEF Heaps, Node
<1>6. /\ Cardinality(h.roots) # MaxRoots /\ h.addr[x] = "null" /\ h.type[x] # "free"
      /\ h.rc[z] = 0 => h.type[z] = "null"
  <2> HIDE DEF h, g
  <2> QED
    BY <1>2
<1>7. /\ Cardinality(heap.roots) # MaxRoots /\ heap.addr[x] = "null" /\ heap.type[x] # "free"
      /\ heap.rc[z] = 1 => heap.type[z] = "null"
  <2> HIDE DEF h, g
  <2> QED
    BY <1>5, <1>6
<1>8. g = AddRoot(Purple(SetRc(heap, z, heap.rc[z] - 1), x), x)
  <2>1. heap.rc[z] - 1 \in Int /\ z \in Node /\ h = SetRc(heap, z, heap.rc[z] - 1)
    BY <1>0, Apartness DEF SetRc, Heaps
  <2>2. h \in Heaps
    BY <1>0, <2>1, RcFields DEF RcOf
  <2> HIDE DEF h
  <2> QED
    BY <2>1, <2>2, AsRootIs
<1>9. Good(AddRoot(Purple(SetRc(heap, z, heap.rc[z] - 1), x), x), held, b)
  <2>1. Good(heap, held, Append(b, <<"buffer", x, z>>))
    BY <1>3, <1>4 DEF IsGood
  <2> HIDE DEF b
  <2> QED
    BY <1>3, <1>7, <2>1, BufferAfterGood
<1>10. b \o <<>> = b
  BY <1>3
<1> HIDE DEF g, h, b
<1>11. heap' = g
  BY <1>2, <1>6
<1> QED
  BY <1>1, <1>2, <1>8, <1>9, <1>10, <1>11

\* The first loop over free_list takes a step.
LEMMA DestructorsStep ==
    ASSUME IsGood, CallDestructors PROVE Good(heap', held', stack')
<1> DEFINE l == Task[2]  r == Task[3]  b == Below
           due == RefersTo(heap, {o \in Waiting(heap) : ~heap.done[o]})
<1>1. stack \in Seq(Tasks) /\ Top # "none" /\ Top = "dtors" /\ held' = held
  BY ZenonT(60) DEF IsGood, Good, AlmostGood, CallDestructors
<1>2. \/ None(r, due) /\ heap' = heap /\ stack' = b \o <<<<"destroy", l, l>>>>
      \/ \E i \in DOMAIN r :
            /\ IsNext(r, i, due)
            /\ heap' = [heap EXCEPT !.done[heap.obj[r[i]]] = TRUE, !.rc[heap.obj[r[i]]] = @ + 1]
            /\ stack' = b \o <<<<"dtors", l, After(r, i)>>, <<"user", heap.obj[r[i]]>>>>
  BY Zenon DEF CallDestructors, Becomes, Continues
<1>3. b \in Seq(Tasks) /\ Task \in Tasks /\ stack = Append(b, Task) /\ Task[1] = "dtors"
  BY <1>1, TopTask
<1>4. l \in Seq(Zval) /\ r \in Seq(Zval) /\ Task = <<"dtors", l, r>>
  BY <1>3, TaskType
<1>5. Good(heap, held, Append(b, <<"dtors", l, r>>))
  BY <1>3, <1>4 DEF IsGood
<1> HIDE DEF l, r, b
<1>6. CASE None(r, due) /\ heap' = heap /\ stack' = b \o <<<<"destroy", l, l>>>>
  <2>1. Good(heap, held, Append(b, <<"destroy", l, l>>))
    BY <1>3, <1>4, <1>5, <1>6, DtorsEnd
  <2>2. b \o <<<<"destroy", l, l>>>> = Append(b, <<"destroy", l, l>>)
    <3>1. <<"destroy", l, l>> \in Tasks
      BY <1>4, MadeList
    <3> QED
      BY <1>3, <3>1
  <2> QED
    BY <1>1, <1>6, <2>1, <2>2
<1>7. ASSUME NEW i \in DOMAIN r, IsNext(r, i, due),
             heap' = [heap EXCEPT !.done[heap.obj[r[i]]] = TRUE, !.rc[heap.obj[r[i]]] = @ + 1],
             stack' = b \o <<<<"dtors", l, After(r, i)>>, <<"user", heap.obj[r[i]]>>>>
      PROVE  Good(heap', held', stack')
  <2>1. i \in 1 .. Len(r)
    BY <1>4
  <2>2. Good([heap EXCEPT !.done[heap.obj[r[i]]] = TRUE, !.rc[heap.obj[r[i]]] = @ + 1], held,
             b \o <<<<"dtors", l, After(r, i)>>, <<"user", heap.obj[r[i]]>>>>)
    BY <1>3, <1>4, <1>5, <1>7, <2>1, DtorsCall
  <2> QED
    BY <1>1, <1>7, <2>2
<1> QED
  BY ZenonT(60), <1>2, <1>6, <1>7

\* So do the second and the third.
LEMMA DestroyStep ==
    ASSUME IsGood, Destroy PROVE Good(heap', held', stack')
<1> DEFINE l == Task[2]  r == Task[3]  b == Below
           next(i) == Append(b, <<"destroy", l, After(r, i)>>)
<1>1. stack \in Seq(Tasks) /\ Top # "none" /\ Top = "destroy" /\ held' = held
  BY ZenonT(60) DEF IsGood, Good, AlmostGood, Destroy
<1>2. \/ None(r, DestroyDue(heap)) /\ heap' = Freed(heap, {l[i] : i \in DOMAIN l}) /\ stack' = b \o <<>>
      \/ \E i \in DOMAIN r :
            /\ IsNext(r, i, DestroyDue(heap))
            /\ IF heap.type[r[i]] = "object"
               THEN Release([heap EXCEPT !.rc[heap.obj[r[i]]] = 1, !.type[r[i]] = "null"],
                            heap.obj[r[i]], next(i))
               ELSE /\ heap' = [heap EXCEPT !.type[r[i]] = "null", !.kids[r[i]] = {}]
                    /\ stack' = next(i) \o Drops(heap.kids[r[i]])
  BY Zenon DEF Destroy, Becomes, Continues, DestroyDue
<1>3. b \in Seq(Tasks) /\ Task \in Tasks /\ stack = Append(b, Task) /\ Task[1] = "destroy"
  BY <1>1, TopTask
<1>4. l \in Seq(Zval) /\ r \in Seq(Zval) /\ Task = <<"destroy", l, r>>
  BY <1>3, TaskType
<1>5. Good(heap, held, Append(b, <<"destroy", l, r>>))
  BY <1>3, <1>4 DEF IsGood
<1> HIDE DEF l, r, b
<1>6. CASE None(r, DestroyDue(heap)) /\ heap' = Freed(heap, {l[i] : i \in DOMAIN l}) /\ stack' = b \o <<>>
  <2>1. Good(Freed(heap, {l[i] : i \in DOMAIN l}), held, b)
    BY <1>3, <1>4, <1>5, <1>6, DestroyGood
  <2>2. b \o <<>> = b
    BY <1>3
  <2> QED
    BY <1>1, <1>6, <2>1, <2>2
<1>7. ASSUME NEW i \in DOMAIN r, IsNext(r, i, DestroyDue(heap)), heap.type[r[i]] = "object",
             Release([heap EXCEPT !.rc[heap.obj[r[i]]] = 1, !.type[r[i]] = "null"], heap.obj[r[i]], next(i))
      PROVE  Good(heap', held', stack')
  <2>1. Good(heap', held, stack')
    BY <1>3, <1>4, <1>5, <1>7, DestroyGood
  <2> QED
    BY <1>1, <2>1
<1>8. ASSUME NEW i \in DOMAIN r, IsNext(r, i, DestroyDue(heap)), heap.type[r[i]] # "object",
             heap' = [heap EXCEPT !.type[r[i]] = "null", !.kids[r[i]] = {}],
             stack' = next(i) \o Drops(heap.kids[r[i]])
      PROVE  Good(heap', held', stack')
  <2>1. Good([heap EXCEPT !.type[r[i]] = "null", !.kids[r[i]] = {}], held, next(i) \o Drops(heap.kids[r[i]]))
    BY <1>3, <1>4, <1>5, <1>8, DestroyGood
  <2> QED
    BY <1>1, <1>8, <2>1
<1> QED
  BY <1>2, <1>6, <1>7, <1>8

\* What goes well has the type.
LEMMA GoodType ==
    ASSUME NEW h, NEW hd, NEW st, Good(h, hd, st)
    PROVE  h \in Heaps /\ hd \subseteq Zval /\ st \in Seq(Tasks) /\ Cardinality(h.roots) <= MaxRoots
BY DEF Good, AlmostGood, Rooted

\* What $this is while the destructor runs.
LEMMA ThisLives ==
    ASSUME NEW h, NEW hd, NEW st, NEW o \in Object, Good(h, hd, st),
           NEW i \in 1 .. Len(st), st[i] = <<"user", o>>
    PROVE  /\ o \in Node /\ h.type[o] = "valid" /\ h.rc[o] > 0 /\ h.addr[o] # "list"
           /\ \A j \in 1 .. Len(st) : st[j] # <<"gone", o>>
<1>1. /\ h \in Heaps /\ st \in Seq(Tasks) /\ Kinds(h) /\ Exact(h, hd, st) /\ Lists(h, st)
      /\ Calls(h, st) /\ o \in Node
  BY Apartness DEF Good, AlmostGood, Shape
<1>2. Holds(st[i], o)
  BY HoldsObject
<1>3. h.rc[o] > 0 /\ h.type[o] # "free"
  BY <1>1, <1>2, CountsType
<1>4. h.type[o] = "valid" /\ h.addr[o] # "list"
  BY <1>1, <1>3 DEF Kinds, Lists
<1>5. ASSUME NEW j \in 1 .. Len(st), st[j] = <<"gone", o>> PROVE FALSE
  <2>1. st[j][1] = "gone" /\ st[j][2] = o /\ j # i
    BY <1>5
  <2>2. h.rc[o] = 1 /\ Holds(st[j], o)
    BY <1>1, <2>1 DEF Calls, Holds
  <2> QED
    BY <1>1, <1>2, <2>1, <2>2, TwoRefs
<1> QED
  BY <1>1, <1>3, <1>4, <1>5

\* Letting go of $this waits for a collection, which holds nothing.
LEMMA ReturnPush ==
    ASSUME NEW h, NEW hd, NEW st, NEW o \in Object, Good(h, hd, st)
    PROVE  Good(h, hd, Append(st, <<"return", o>>))
<1> DEFINE t == <<"return", o>>  s2 == Append(st, t)
<1>1. /\ h \in Heaps /\ hd \in SUBSET Zval /\ st \in Seq(Tasks) /\ Kinds(h) /\ Rooted(h)
      /\ Exact(h, hd, st) /\ Shape(h, hd, st, {}) /\ t \in Tasks
  BY MadeObject DEF Good, AlmostGood
<1>2. Fits(h, hd, st, t)
  BY DEF Fits, IsList
<1>3. s2 \in Seq(Tasks) /\ Shape(h, hd, s2, {})
  BY <1>1, <1>2, TaskPush
<1>4. Exact(h, hd, s2)
  <2> SUFFICES ASSUME NEW x \in Node PROVE h.rc[x] = RefsOf(h, hd, s2, x)
    BY DEF Exact
  <2>1. ~Holds(t, x)
    BY HoldsObject
  <2> HIDE DEF t
  <2>2. RefsOf(h, hd, s2, x) = RefsOf(h, hd, st, x) + 0
    BY <1>1, <2>1, RefsPush
  <2>3. RefsOf(h, hd, st, x) \in Nat /\ h.rc[x] = RefsOf(h, hd, st, x)
    BY <1>1, RefsType DEF Exact
  <2> HIDE DEF s2
  <2> QED
    BY <2>2, <2>3
<1> QED
  BY <1>1, <1>3, <1>4 DEF Good, AlmostGood

\* That collection is over.
LEMMA ReturnPop ==
    ASSUME NEW h, NEW hd, NEW st \in Seq(Tasks), NEW o \in Object, Good(h, hd, Append(st, <<"return", o>>))
    PROVE  Good(h, hd, st)
<1> DEFINE t == <<"return", o>>  s2 == Append(st, t)
<1>1. /\ h \in Heaps /\ hd \in SUBSET Zval /\ Kinds(h) /\ Rooted(h) /\ s2 \in Seq(Tasks)
      /\ Exact(h, hd, s2) /\ Shape(h, hd, s2, {}) /\ t \in Tasks
  BY MadeObject DEF Good, AlmostGood
<1>2. ~IsList(t) /\ t[1] # "user"
  BY DEF IsList
<1>3. Pushed(st, t, s2)
  BY <1>1, PushedAppend
<1>4. Shape(h, hd, st, {})
  <2> HIDE DEF t, s2
  <2> QED
    BY <1>1, <1>2, <1>3, PopKeeps
<1>5. Exact(h, hd, st)
  <2> SUFFICES ASSUME NEW x \in Node PROVE h.rc[x] = RefsOf(h, hd, st, x)
    BY DEF Exact
  <2>1. ~Holds(t, x)
    BY HoldsObject
  <2> HIDE DEF t
  <2>2. RefsOf(h, hd, s2, x) = RefsOf(h, hd, st, x) + 0
    BY <1>1, <2>1, RefsPush
  <2>3. RefsOf(h, hd, st, x) \in Nat /\ h.rc[x] = RefsOf(h, hd, s2, x)
    BY <1>1, RefsType DEF Exact
  <2> HIDE DEF s2
  <2> QED
    BY <2>2, <2>3
<1> QED
  BY <1>1, <1>4, <1>5 DEF Good, AlmostGood

\* A destructor returns.
LEMMA ReturnStep ==
    ASSUME IsGood, DestructorReturns, ~spoilt' PROVE Good(heap', held', stack')
<1> DEFINE o == Task[2]  b == Below
<1>1. stack \in Seq(Tasks) /\ Top # "none" /\ Top = "user" /\ held' = held
  BY DEF IsGood, Good, AlmostGood, DestructorReturns
<1>2. b \in Seq(Tasks) /\ Task \in Tasks /\ stack = Append(b, Task) /\ Task[1] = "user"
  BY <1>1, TopTask
<1>3. o \in Object /\ Task = <<"user", o>>
  BY <1>2, TaskType
<1>4. Good(heap, held, Append(b, <<"user", o>>)) /\ Good(heap, held, stack)
  BY <1>2, <1>3 DEF IsGood
<1>5. \/ BufferFull(heap, o) /\ Collect([heap EXCEPT !.col[o] = "purple"], Append(stack, <<"return", o>>))
      \/ /\ ~BufferFull(heap, o) /\ ~Revived(Buffered(heap, o), o, b)
         /\ heap' = [Buffered(heap, o) EXCEPT !.rc[o] = @ - 1] /\ stack' = b \o <<>>
  BY DEF DestructorReturns, Leaves, Continues
<1> HIDE DEF b, o
<1>6. /\ o \in Node /\ heap.type[o] = "valid" /\ heap.rc[o] > 0 /\ heap.addr[o] # "list"
      /\ \A j \in 1 .. Len(stack) : stack[j] # <<"gone", o>>
  <2>1. Len(stack) \in 1 .. Len(stack) /\ stack[Len(stack)] = <<"user", o>>
    BY <1>2, <1>3
  <2> QED
    BY <1>3, <1>4, <2>1, ThisLives
<1>7. CASE BufferFull(heap, o) /\ Collect([heap EXCEPT !.col[o] = "purple"], Append(stack, <<"return", o>>))
  <2>1. Good(Purple(heap, o), held, stack)
    BY <1>4, <1>6, ColourChange
  <2>2. Good(Purple(heap, o), held, Append(stack, <<"return", o>>))
    BY <1>3, <2>1, ReturnPush
  <2>3. Collect(Purple(heap, o), Append(stack, <<"return", o>>))
    BY <1>7 DEF Purple
  <2> QED
    BY <1>1, <2>2, <2>3, CollectGood
<1>8. CASE /\ ~BufferFull(heap, o) /\ ~Revived(Buffered(heap, o), o, b)
           /\ heap' = [Buffered(heap, o) EXCEPT !.rc[o] = @ - 1] /\ stack' = b \o <<>>
  <2>1. Good(Buffered(heap, o), held, Append(b, <<"user", o>>))
    <3>1. Good(Buffered(heap, o), held, stack)
      BY <1>4, <1>6, <1>8, BufferedGood
    <3> QED
      BY <1>2, <1>3, <3>1
  <2>2. Good(SetRc(Buffered(heap, o), o, Buffered(heap, o).rc[o] - 1), held, b)
    BY <1>2, <1>3, <1>8, <2>1, UserReturns DEF Revived
  <2>3. b \o <<>> = b /\ heap' = SetRc(Buffered(heap, o), o, Buffered(heap, o).rc[o] - 1)
    BY <1>2, <1>8 DEF SetRc
  <2> QED
    BY <1>1, <1>8, <2>2, <2>3
<1> QED
  BY <1>5, <1>7, <1>8

\* What is on top when ReturnAfterCollect goes on.
LEMMA ReturnTop ==
    ASSUME stack \in Seq(Tasks), NEW o \in Object, ReturnAfterCollect(o)
    PROVE  /\ SubSeq(Below, 1, Len(Below) - 1) \in Seq(Tasks) /\ Below \in Seq(Tasks)
           /\ Below = Append(SubSeq(Below, 1, Len(Below) - 1), <<"user", o>>)
           /\ stack = Append(Below, <<"return", o>>)
<1>1. Len(stack) > 1 /\ Task = <<"return", o>> /\ Below[Len(Below)] = <<"user", o>>
  BY DEF ReturnAfterCollect
<1>2. stack # <<>>
  BY <1>1
<1>3. Below \in Seq(Tasks) /\ stack = Append(Below, Task)
  BY <1>2, PushedTop DEF Below, Task
<1>4. Below # <<>>
  <2>1. Len(stack) = Len(Below) + 1
    BY <1>3
  <2> HIDE DEF Below
  <2> QED
    BY <1>1, <1>3, <2>1
<1> HIDE DEF Below
<1> QED
  BY <1>1, <1>3, <1>4, PushedTop

\* A destructor whose return has called the collector.
LEMMA ReturnAfterStep ==
    ASSUME IsGood, NEW o \in Object, ReturnAfterCollect(o), ~spoilt' PROVE Good(heap', held', stack')
<1> DEFINE b == SubSeq(Below, 1, Len(Below) - 1)  full == Cardinality(heap.roots) = MaxRoots
           g == IF full THEN heap ELSE AsRoot(heap, o)
<1>1. stack \in Seq(Tasks) /\ heap \in Heaps /\ Good(heap, held, stack)
  BY DEF IsGood, Good, AlmostGood
<1>2. /\ heap' = [g EXCEPT !.rc[o] = @ - 1] /\ stack' = b \o <<>> /\ held' = held
      /\ ~full /\ heap.addr[o] = "null" /\ ~Revived(g, o, b)
  BY Zenon DEF ReturnAfterCollect, Leaves, Continues
<1>3. b \in Seq(Tasks) /\ Below = Append(b, <<"user", o>>) /\ stack = Append(Below, <<"return", o>>)
      /\ Below \in Seq(Tasks)
  BY <1>1, ReturnTop
<1>4. Good(heap, held, Below)
  BY <1>1, <1>3, ReturnPop
<1>5. g = AsRoot(heap, o)
  BY <1>2
<1> HIDE DEF b, g
<1>6. /\ o \in Node /\ heap.type[o] = "valid" /\ heap.rc[o] > 0
      /\ \A j \in 1 .. Len(Below) : Below[j] # <<"gone", o>>
  <2>1. Len(Below) \in 1 .. Len(Below) /\ Below[Len(Below)] = <<"user", o>>
    BY <1>3
  <2> QED
    BY <1>4, <2>1, ThisLives
<1>7. Cardinality(heap.roots) < MaxRoots
  <2>1. heap.roots \in SUBSET Node /\ Cardinality(heap.roots) <= MaxRoots
    BY <1>1, GoodType DEF Heaps
  <2>2. Cardinality(heap.roots) \in Nat
    BY <2>1, NodesFinite, FS_Subset, FS_CardinalityType
  <2> QED
    BY <1>2, <2>1, <2>2, MaxRootsAssumption
<1>8. Good(g, held, Append(b, <<"user", o>>))
  BY <1>2, <1>3, <1>4, <1>5, <1>6, <1>7, AsRootGood
<1>9. Good(SetRc(g, o, g.rc[o] - 1), held, b)
  BY <1>2, <1>3, <1>8, UserReturns DEF Revived
<1>10. b \o <<>> = b /\ heap' = SetRc(g, o, g.rc[o] - 1)
  BY <1>2, <1>3 DEF SetRc
<1> QED
  BY <1>2, <1>9, <1>10

\* gc_collect_cycles is called.
LEMMA CollectStep ==
    ASSUME IsGood, CollectCycles PROVE Good(heap', held', stack')
<1>1. held' = held /\ Collect(heap, stack) /\ Good(heap, held, stack)
  BY DEF CollectCycles, IsGood
<1>2. Good(heap', held, stack')
  BY <1>1, CollectGood
<1> QED
  BY <1>1, <1>2

\* Listed is true of a stack with a list.
LEMMA ListHere ==
    ASSUME stack \in Seq(Tasks), NEW i \in 1 .. Len(stack), IsList(stack[i]) PROVE Listed
BY DEF Listed, IsList

\* A variable lets go of a zval.
LEMMA UnsetStep ==
    ASSUME IsGood, NEW z \in Zval, Unset(z) PROVE Good(heap', held', stack')
<1>1. z \in held /\ held' = held \ {z} /\ PtrDtor(heap, z, stack) /\ stack \in Seq(Tasks)
      /\ Good(heap, held, stack)
  BY DEF IsGood, Good, AlmostGood, Unset
<1>2. Good(heap, held \ {z}, Append(stack, <<"drop", {z}>>))
  BY <1>1, UnsetHold
<1>3. \A i \in 1 .. Len(stack) : IsList(stack[i]) => Listed
  BY <1>1, ListHere
<1>4. Good(heap', held \ {z}, stack')
  BY <1>1, <1>2, <1>3, PtrDtorGood
<1> QED
  BY <1>1, <1>4

\* An element or a property is removed.
LEMMA UnlinkStep ==
    ASSUME IsGood, NEW c \in Node, NEW z \in Zval, Unlink(c, z) PROVE Good(heap', held', stack')
<1>1. /\ z \in heap.kids[c] /\ held' = held /\ stack \in Seq(Tasks) /\ heap \in Heaps
      /\ PtrDtor([heap EXCEPT !.kids[c] = @ \ {z}], z, stack) /\ Good(heap, held, stack)
  BY DEF IsGood, Good, AlmostGood, Unlink
<1>2. [heap EXCEPT !.kids[c] = @ \ {z}] = SetKids(heap, c, heap.kids[c] \ {z})
  BY DEF SetKids
<1>3. Good(SetKids(heap, c, heap.kids[c] \ {z}), held, Append(stack, <<"drop", {z}>>))
  BY <1>1, UnlinkHold
<1>4. \A i \in 1 .. Len(stack) : IsList(stack[i]) => Listed
  BY <1>1, ListHere
<1>5. PtrDtor(SetKids(heap, c, heap.kids[c] \ {z}), z, stack)
  BY <1>1, <1>2
<1>6. Good(heap', held, stack')
  BY <1>1, <1>3, <1>4, <1>5, PtrDtorGood
<1> QED
  BY <1>1, <1>6

\* An element or a property is added.
LEMMA LinkStep ==
    ASSUME IsGood, NEW c \in Node, NEW z \in Zval, Link(c, z), ~spoilt' PROVE Good(heap', held', stack')
<1>1. /\ heap.type[c] \in {"array", "valid"} /\ z \notin heap.kids[c] /\ heap.type[z] # "free"
      /\ heap.addr[z] # "list" /\ held' = held /\ stack' = stack
      /\ heap' = [heap EXCEPT !.kids[c] = @ \cup {z}, !.rc[z] = @ + 1]
      /\ c \in AccessibleOf(heap, held, stack) /\ z \in AccessibleOf(heap, held, stack)
  BY DEF Link, Accessible, AccessibleOf, This, ThisOf
<1>2. heap \in Heaps /\ Good(heap, held, stack)
  BY DEF IsGood, Good, AlmostGood
<1>3. (\A j \in 1 .. Len(stack) : stack[j] # <<"gone", c>> /\ stack[j] # <<"efree", c>>)
      /\ (\A j \in 1 .. Len(stack) : stack[j] # <<"gone", z>> /\ stack[j] # <<"efree", z>>)
  BY <1>1, <1>2, ReachedThere
<1>4. Good(SetRc(SetKids(heap, c, heap.kids[c] \cup {z}), z, heap.rc[z] + 1), held, stack)
  BY <1>1, <1>2, <1>3, LinkGood
<1>5. heap' = SetRc(SetKids(heap, c, heap.kids[c] \cup {z}), z, heap.rc[z] + 1)
  BY <1>1, <1>2 DEF SetRc, SetKids, Heaps
<1> QED
  BY <1>1, <1>4, <1>5

\* The zval z, taken from the memory manager.
NewZval(h, z, t, o) == [h EXCEPT !.type[z] = t, !.rc[z] = 1, !.obj[z] = o]
IsNew(g, h, z, t, o) == NewOf(g, h, z) /\ g.type[z] = t /\ g.obj[z] = o /\ g.col = h.col

\* A zval that was free.
LEMMA NewFields ==
    ASSUME NEW h \in Heaps, NEW z \in Zval, NEW t, NEW o,
           (t = "array" /\ o = NoObject) \/ (t = "object" /\ o \in Object)
    PROVE  IsNew(NewZval(h, z, t, o), h, z, t, o)
<1> DEFINE g == NewZval(h, z, t, o)
<1>0. z \in Node /\ z \notin Object
  BY Apartness
<1>1. /\ g.kids = h.kids /\ g.col = h.col /\ g.addr = h.addr /\ g.done = h.done /\ g.roots = h.roots
      /\ g.type = [h.type EXCEPT ![z] = t] /\ g.rc = [h.rc EXCEPT ![z] = 1] /\ g.obj = [h.obj EXCEPT ![z] = o]
  BY DEF Heaps, NewZval
<1>2. /\ h.type \in [Node -> {"free", "array", "object", "null", "valid"}] /\ h.rc \in [Node -> Int]
      /\ h.obj \in [Zval -> Object \cup {NoObject}]
  BY DEF Heaps
<1>3. /\ [h.type EXCEPT ![z] = t] \in [Node -> {"free", "array", "object", "null", "valid"}]
      /\ [h.rc EXCEPT ![z] = 1] \in [Node -> Int]
      /\ [h.obj EXCEPT ![z] = o] \in [Zval -> Object \cup {NoObject}]
  BY <1>0, <1>2
<1>4. g \in Heaps
  <2>1. g = [h EXCEPT !.type = [h.type EXCEPT ![z] = t], !.rc = [h.rc EXCEPT ![z] = 1],
                      !.obj = [h.obj EXCEPT ![z] = o]]
    BY DEF Heaps, NewZval
  <2> HIDE DEF g
  <2> QED
    BY <1>3, <2>1 DEF Heaps
<1> HIDE DEF g
<1>5. /\ g.type[z] = t /\ g.rc[z] = 1 /\ g.obj[z] = o
      /\ \A y \in Node : y # z => g.type[y] = h.type[y] /\ g.rc[y] = h.rc[y]
      /\ \A y \in Zval : y # z => g.obj[y] = h.obj[y]
  BY <1>0, <1>1, <1>2
<1>6. OnlyAt(g, h, z)
  BY <1>1, <1>5 DEF OnlyAt
<1> QED
  BY <1>1, <1>4, <1>5, <1>6 DEF NewOf, IsNew, g

\* An array is made.
LEMMA NewArrayStep ==
    ASSUME IsGood, NEW z \in Zval, NewArray(z) PROVE Good(heap', held', stack')
<1>1. /\ heap.type[z] = "free" /\ held' = held \cup {z} /\ stack' = stack
      /\ heap' = [heap EXCEPT !.type[z] = "array", !.rc[z] = 1, !.obj[z] = NoObject]
      /\ heap \in Heaps /\ Good(heap, held, stack)
  BY DEF NewArray, New, IsGood, Good, AlmostGood
<1> DEFINE g == NewZval(heap, z, "array", NoObject)
<1>2. IsNew(g, heap, z, "array", NoObject)
  BY <1>1, NewFields
<1>3. heap' = g
  BY <1>1 DEF NewZval
<1> HIDE DEF g
<1>4. Good(g, held \cup {z}, stack)
  BY <1>1, <1>2, NewArrayGood DEF IsNew
<1> QED
  BY <1>1, <1>3, <1>4

\* What zend_objects_store_put does to the object.
PutOf(f, h, o) ==
    /\ f \in Heaps /\ f.kids = h.kids /\ f.col = h.col /\ f.addr = h.addr /\ f.done = h.done
    /\ f.roots = h.roots /\ f.obj = h.obj /\ f.type[o] = "valid" /\ f.rc[o] = 1
    /\ \A y \in Node : y # o => f.type[y] = h.type[y] /\ f.rc[y] = h.rc[y]

\* The fields of NewObject can be set one node after the other.
LEMMA PutIs ==
    ASSUME heap \in Heaps, NEW z \in Zval, NEW o \in Object, NewObject(z, o)
    PROVE  \E f : PutOf(f, heap, o) /\ heap' = NewZval(f, z, "object", o)
<1> DEFINE f == [heap EXCEPT !.type[o] = "valid", !.rc[o] = 1]
           g == NewZval(f, z, "object", o)
<1>0. heap \in Heaps /\ z \in Node /\ o \in Node /\ z # o
  BY Apartness
<1>1. heap' = [[heap EXCEPT !.type[z] = "object", !.rc[z] = 1, !.obj[z] = o]
                  EXCEPT !.type[o] = "valid", !.rc[o] = 1]
  BY DEF NewObject, New
<1>2. heap' = g
  <2> DEFINE T == heap.type  R == heap.rc
  <2>1. /\ [[T EXCEPT ![z] = "object"] EXCEPT ![o] = "valid"] = [[T EXCEPT ![o] = "valid"] EXCEPT ![z] = "object"]
        /\ [[R EXCEPT ![z] = 1] EXCEPT ![o] = 1] = [[R EXCEPT ![o] = 1] EXCEPT ![z] = 1]
    <3>1. T \in [Node -> {"free", "array", "object", "null", "valid"}] /\ R \in [Node -> Int]
      BY <1>0 DEF Heaps
    <3> HIDE DEF T, R
    <3> QED
      BY <1>0, <3>1
  <2>2. heap' = [heap EXCEPT !.type = [[T EXCEPT ![z] = "object"] EXCEPT ![o] = "valid"],
                             !.rc = [[R EXCEPT ![z] = 1] EXCEPT ![o] = 1],
                             !.obj = [heap.obj EXCEPT ![z] = o]]
    BY <1>0, <1>1 DEF Heaps
  <2>3. g = [heap EXCEPT !.type = [[T EXCEPT ![o] = "valid"] EXCEPT ![z] = "object"],
                         !.rc = [[R EXCEPT ![o] = 1] EXCEPT ![z] = 1],
                         !.obj = [heap.obj EXCEPT ![z] = o]]
    BY <1>0 DEF Heaps, NewZval
  <2> HIDE DEF T, R, g
  <2> QED
    BY <2>1, <2>2, <2>3
<1>3. /\ f.kids = heap.kids /\ f.col = heap.col /\ f.addr = heap.addr /\ f.done = heap.done
      /\ f.roots = heap.roots /\ f.obj = heap.obj
      /\ f.type = [heap.type EXCEPT ![o] = "valid"] /\ f.rc = [heap.rc EXCEPT ![o] = 1]
  BY <1>0 DEF Heaps
<1>4. f \in Heaps
  <2>1. /\ [heap.rc EXCEPT ![o] = 1] \in [Node -> Int]
        /\ [heap.type EXCEPT ![o] = "valid"] \in [Node -> {"free", "array", "object", "null", "valid"}]
    BY <1>0 DEF Heaps
  <2>2. f = [heap EXCEPT !.rc = [heap.rc EXCEPT ![o] = 1], !.type = [heap.type EXCEPT ![o] = "valid"]]
    BY <1>0 DEF Heaps
  <2> HIDE DEF f
  <2> QED
    BY <1>0, <2>1, <2>2 DEF Heaps
<1>5. /\ f.type[o] = "valid" /\ f.rc[o] = 1
      /\ \A y \in Node : y # o => f.type[y] = heap.type[y] /\ f.rc[y] = heap.rc[y]
  <2>1. heap.type \in [Node -> {"free", "array", "object", "null", "valid"}] /\ heap.rc \in [Node -> Int]
    BY <1>0 DEF Heaps
  <2> HIDE DEF f
  <2> QED
    BY <1>0, <1>3, <2>1
<1>6. PutOf(f, heap, o)
  BY <1>3, <1>4, <1>5 DEF PutOf
<1> QED
  BY <1>2, <1>6

\* An object is made.
LEMMA NewObjectStep ==
    ASSUME IsGood, NEW z \in Zval, NEW o \in Object, NewObject(z, o) PROVE Good(heap', held', stack')
<1>1. heap \in Heaps /\ Kinds(heap) /\ Good(heap, held, stack) /\ o \in Node
  BY Apartness DEF IsGood, Good, AlmostGood
<1>2. heap.type[z] = "free" /\ heap.type[o] = "free" /\ held' = held \cup {z} /\ stack' = stack
  BY DEF NewObject
<1>3. PICK f : PutOf(f, heap, o) /\ heap' = NewZval(f, z, "object", o)
  BY <1>1, PutIs
<1>4. PICK g : g = NewZval(f, z, "object", o)
  OBVIOUS
<1>5. NewOf(g, f, z) /\ g.type[z] = "object" /\ g.obj[z] = o
  <2>1. IsNew(g, f, z, "object", o)
    BY <1>3, <1>4, NewFields DEF PutOf
  <2> QED
    BY <2>1 DEF IsNew
<1>6. /\ f \in Heaps /\ OnlyAt(f, heap, o)
      /\ f.roots = heap.roots /\ f.type[o] = "valid" /\ f.rc[o] = heap.rc[o] + 1
      /\ f.kids[o] = heap.kids[o] /\ f.addr[o] = heap.addr[o] /\ f.done[o] = heap.done[o]
  <2>1. heap.rc[o] = 0
    BY <1>1, <1>2 DEF Kinds
  <2> QED
    BY <1>3, <2>1 DEF OnlyAt, PutOf
<1>7. Good(g, held \cup {z}, stack)
  BY <1>1, <1>2, <1>5, <1>6, NewReference
<1> QED
  BY <1>2, <1>3, <1>4, <1>7

\* What zend_objects_store_add_ref does.
LEMMA CopyIs ==
    ASSUME heap \in Heaps, NEW z \in Zval, NEW o \in Object, Copy(z, o)
    PROVE  \E f : RcOf(f, heap, o, heap.rc[o] + 1) /\ heap' = NewZval(f, z, "object", o)
<1> DEFINE f == [heap EXCEPT !.rc[o] = @ + 1]
           g == NewZval(f, z, "object", o)
<1>0. heap \in Heaps /\ z \in Node /\ o \in Node /\ z # o
  BY Apartness
<1>1. heap' = [[heap EXCEPT !.type[z] = "object", !.rc[z] = 1, !.obj[z] = o] EXCEPT !.rc[o] = @ + 1]
  BY DEF Copy, New
<1>2. heap' = g
  <2> DEFINE R == heap.rc
  <2>1. [[R EXCEPT ![z] = 1] EXCEPT ![o] = @ + 1] = [[R EXCEPT ![o] = @ + 1] EXCEPT ![z] = 1]
    <3>1. R \in [Node -> Int]
      BY <1>0 DEF Heaps
    <3> HIDE DEF R
    <3> QED
      BY <1>0, <3>1
  <2>2. heap' = [heap EXCEPT !.type = [heap.type EXCEPT ![z] = "object"],
                             !.rc = [[R EXCEPT ![z] = 1] EXCEPT ![o] = @ + 1],
                             !.obj = [heap.obj EXCEPT ![z] = o]]
    BY <1>0, <1>1 DEF Heaps
  <2>3. g = [heap EXCEPT !.type = [heap.type EXCEPT ![z] = "object"],
                         !.rc = [[R EXCEPT ![o] = @ + 1] EXCEPT ![z] = 1],
                         !.obj = [heap.obj EXCEPT ![z] = o]]
    BY <1>0 DEF Heaps, NewZval
  <2> HIDE DEF R, g
  <2> QED
    BY <2>1, <2>2, <2>3
<1>3. RcOf(f, heap, o, heap.rc[o] + 1)
  <2> DEFINE v == heap.rc[o] + 1
  <2>1. v \in Int /\ f = SetRc(heap, o, v)
    BY <1>0 DEF Heaps, SetRc
  <2> HIDE DEF v, f
  <2>2. RcOf(SetRc(heap, o, v), heap, o, v)
    BY <1>0, <2>1, RcFields
  <2> QED
    BY <2>1, <2>2 DEF v
<1> QED
  BY <1>2, <1>3

\* A zval is copied.
LEMMA CopyStep ==
    ASSUME IsGood, NEW z \in Zval, NEW o \in Object, Copy(z, o), ~spoilt' PROVE Good(heap', held', stack')
<1>1. heap \in Heaps /\ Kinds(heap) /\ Good(heap, held, stack) /\ o \in Node
  BY Apartness DEF IsGood, Good, AlmostGood
<1>2. /\ heap.type[z] = "free" /\ heap.type[o] # "free" /\ ~(heap.rc[o] <= 0)
      /\ held' = held \cup {z} /\ stack' = stack /\ o \in AccessibleOf(heap, held, stack)
  BY DEF Copy, Accessible, AccessibleOf, This, ThisOf
<1>3. PICK f : RcOf(f, heap, o, heap.rc[o] + 1) /\ heap' = NewZval(f, z, "object", o)
  BY <1>1, CopyIs
<1>4. PICK g : g = NewZval(f, z, "object", o)
  OBVIOUS
<1>5. NewOf(g, f, z) /\ g.type[z] = "object" /\ g.obj[z] = o
  <2>1. IsNew(g, f, z, "object", o)
    BY <1>3, <1>4, NewFields DEF RcOf
  <2> QED
    BY <2>1 DEF IsNew
<1>6. heap.rc[o] \in Int /\ heap.rc[o] > 0 /\ heap.type[o] = "valid"
  <2>1. heap.rc[o] \in Int
    BY <1>1 DEF Heaps
  <2> QED
    BY <1>1, <1>2, <2>1 DEF Kinds
<1>7. /\ f \in Heaps /\ OnlyAt(f, heap, o)
      /\ f.roots = heap.roots /\ f.type[o] = "valid" /\ f.rc[o] = heap.rc[o] + 1
      /\ f.kids[o] = heap.kids[o] /\ f.addr[o] = heap.addr[o] /\ f.done[o] = heap.done[o]
  BY <1>3, <1>6 DEF OnlyAt, RcOf
<1>8. \A j \in 1 .. Len(stack) : stack[j] # <<"gone", o>>
  <2>1. \A j \in 1 .. Len(stack) : stack[j] # <<"gone", o>> /\ stack[j] # <<"efree", o>>
    BY <1>1, <1>2, ReachedThere
  <2> QED
    BY <2>1
<1>9. Good(g, held \cup {z}, stack)
  <2>1. \/ heap.type[o] = "free"
        \/ heap.type[o] = "valid" /\ heap.rc[o] > 0 /\ \A j \in 1 .. Len(stack) : stack[j] # <<"gone", o>>
    BY <1>6, <1>8
  <2> QED
    BY <1>1, <1>2, <1>5, <1>7, <2>1, NewReference
<1> QED
  BY <1>2, <1>3, <1>4, <1>9

(***************************************************************************)
(* The inductive invariant.                                                *)
(***************************************************************************)
IInv == TypeOK /\ (spoilt \/ IsGood)

\* The invariant holds at the start.
LEMMA InitGood == Init => IInv
<1> SUFFICES ASSUME Init PROVE IInv
  OBVIOUS
<1>1. /\ heap.type = [x \in Node |-> "free"] /\ heap.rc = [x \in Node |-> 0]
      /\ heap.kids = [x \in Node |-> {}] /\ heap.addr = [x \in Node |-> "null"] /\ heap.roots = {}
      /\ held = {} /\ stack = <<>> /\ spoilt = FALSE /\ missed = FALSE
  BY DEF Init
<1>2. heap \in Heaps
  BY DEF Init, Heaps
<1>3. Cardinality({}) = 0 /\ MaxRoots \in Nat
  BY FS_EmptySet, MaxRootsAssumption
<1>4. Kinds(heap)
  BY <1>1, Apartness DEF Kinds
<1>5. Rooted(heap)
  BY <1>1, <1>3 DEF Rooted
<1>6. Exact(heap, held, stack)
  <2> SUFFICES ASSUME NEW x \in Node PROVE heap.rc[x] = RefsOf(heap, held, stack, x)
    BY DEF Exact
  <2>1. Referrers(heap, x) = {}
    BY <1>1 DEF Referrers, Counted, Uncounted, Out
  <2>2. Holders(stack, x) = {}
    BY <1>1 DEF Holders
  <2>3. ByVariable(held, x) = 0
    BY <1>1 DEF ByVariable
  <2> QED
    <3>1. RefsOf(heap, held, stack, x) = 0
      BY <1>3, <2>1, <2>2, <2>3 DEF RefsOf
    <3>2. heap.rc[x] = 0
      BY <1>1
    <3> QED
      BY <3>1, <3>2
<1>7. Shape(heap, held, stack, {})
  <2>1. 1 .. Len(stack) = {}
    BY <1>1
  <2>2. Lists(heap, stack)
    BY <1>1, <2>1, Apartness DEF Lists
  <2>3. Waits(heap, stack)
    BY <1>1, Apartness DEF Waits, Rests
  <2>4. Apart(heap, held, stack, {}) /\ Calls(heap, stack) /\ Dying(heap, held, stack)
    BY <2>1 DEF Apart, Calls, Dying
  <2> QED
    BY <2>2, <2>3, <2>4 DEF Shape
<1>8. IsGood
  BY <1>1, <1>2, <1>4, <1>5, <1>6, <1>7 DEF IsGood, Good, AlmostGood
<1> QED
  <2>1. TypeOK
    BY <1>1, <1>8, GoodType DEF IsGood, TypeOK
  <2> QED
    BY <1>8, <2>1 DEF IInv

(* The cases that the collector does not provide for keep the type.         *)
LEMMA CopyType ==
    ASSUME IInv, IsGood, NEW z \in Zval, NEW o \in Object, Copy(z, o) PROVE TypeOK'
<1> DEFINE g == NewZval(heap, z, "object", o)
<1>1. TypeOK /\ z \in Node /\ o \in Node
  BY Apartness DEF IInv
<1>2. IsNew(g, heap, z, "object", o)
  BY <1>1, NewFields DEF TypeOK
<1>3. g \in Heaps /\ g.roots = heap.roots
  BY <1>2 DEF IsNew, NewOf
<1>4. heap' = [g EXCEPT !.rc[o] = @ + 1] /\ held' = held \cup {z} /\ stack' = stack
      /\ spoilt' = (spoilt \/ heap.rc[o] <= 0) /\ missed' = missed
  BY DEF Copy, New, NewZval
<1> HIDE DEF g
<1>5. heap' \in Heaps /\ heap'.roots = g.roots
  BY SMTT(60), <1>1, <1>3, <1>4 DEF Heaps
<1> QED
  BY <1>1, <1>3, <1>4, <1>5 DEF TypeOK

\* In the case a step spoils, types and the size of the buffer stay.
LEMMA LinkType ==
    ASSUME IInv, IsGood, NEW c \in Node, NEW z \in Zval, Link(c, z) PROVE TypeOK'
<1>1. TypeOK /\ z \in Node
  BY Apartness DEF IInv
<1>2. heap' = [heap EXCEPT !.kids[c] = @ \cup {z}, !.rc[z] = @ + 1] /\ held' = held /\ stack' = stack
      /\ spoilt' = (spoilt \/ heap.addr[z] = "list") /\ missed' = missed
  BY DEF Link
<1>3. heap' \in Heaps /\ heap'.roots = heap.roots
  <2> DEFINE S == heap.kids[c] \cup {z}  k == SetKids(heap, c, S)  v == heap.rc[z] + 1
  <2>1. heap \in Heaps /\ S \in SUBSET Zval /\ v \in Int
    BY <1>1 DEF TypeOK, Heaps
  <2>2. heap' = SetRc(k, z, v)
    BY <1>2, <2>1 DEF SetRc, SetKids, Heaps
  <2> HIDE DEF S, v
  <2>3. k \in Heaps /\ k.roots = heap.roots
    BY <2>1, KidsFields DEF KidsOf
  <2> HIDE DEF k
  <2>4. SetRc(k, z, v) \in Heaps /\ SetRc(k, z, v).roots = k.roots
    BY <1>1, <2>1, <2>3, RcFields DEF RcOf
  <2> QED
    BY <2>2, <2>3, <2>4
<1> QED
  BY <1>1, <1>2, <1>3 DEF TypeOK

\* One more root, as long as there is room.
LEMMA RootType ==
    ASSUME NEW h \in Heaps, NEW x \in Node, Cardinality(h.roots) <= MaxRoots,
           Cardinality(h.roots) # MaxRoots
    PROVE  AsRoot(h, x) \in Heaps /\ Cardinality(AsRoot(h, x).roots) <= MaxRoots
<1> DEFINE g == AsRoot(h, x)
<1>1. g \in Heaps /\ g.roots = h.roots \cup {x}
  BY DEF Heaps, AsRoot
<1> HIDE DEF g
<1>2. h.roots \in SUBSET Node /\ IsFiniteSet(Node)
  BY NodesFinite DEF Heaps
<1>3. Cardinality(h.roots) \in Nat
      /\ Cardinality(h.roots \cup {x}) = IF x \in h.roots THEN Cardinality(h.roots) ELSE Cardinality(h.roots) + 1
  BY <1>2, FS_Subset, FS_AddElement, FS_CardinalityType
<1>4. Cardinality(h.roots \cup {x}) <= MaxRoots
  BY <1>3, MaxRootsAssumption
<1> QED
  BY <1>1, <1>4 DEF g

\* One reference less.
LEMMA LessType ==
    ASSUME NEW h \in Heaps, NEW x \in Node
    PROVE  [h EXCEPT !.rc[x] = @ - 1] \in Heaps /\ [h EXCEPT !.rc[x] = @ - 1].roots = h.roots
<1> DEFINE v == h.rc[x] - 1
<1>1. v \in Int /\ [h EXCEPT !.rc[x] = @ - 1] = SetRc(h, x, v)
  BY DEF Heaps, SetRc
<1> HIDE DEF v
<1>2. SetRc(h, x, v) \in Heaps /\ SetRc(h, x, v).roots = h.roots
  BY <1>1, RcFields DEF RcOf
<1> QED
  BY <1>1, <1>2

\* A destructor that returns, whatever it has done.
LEMMA ReturnType ==
    ASSUME IInv, IsGood, DestructorReturns, ~spoilt, spoilt', missed' \in BOOLEAN PROVE TypeOK'
<1> DEFINE o == Task[2]  b == Below  g == Buffered(heap, o)
<1>1. stack \in Seq(Tasks) /\ Top = "user" /\ Top # "none" /\ held' = held
  BY DEF IInv, TypeOK, DestructorReturns
<1>2. b \in Seq(Tasks) /\ Task \in Tasks /\ Task[1] = "user" /\ stack = Append(b, Task)
  BY <1>1, TopTask
<1>3. o \in Object /\ Task = <<"user", o>>
  BY <1>2, TaskType
<1>4. ~BufferFull(heap, o) /\ heap' = [g EXCEPT !.rc[o] = @ - 1] /\ stack' = b \o <<>>
      /\ spoilt' = (spoilt \/ Revived(g, o, b))
  BY DEF DestructorReturns, Leaves, Continues
<1> HIDE DEF o, b, g
<1>5. /\ o \in Node /\ heap.type[o] = "valid" /\ heap.rc[o] > 0 /\ heap.addr[o] # "list"
      /\ \A j \in 1 .. Len(stack) : stack[j] # <<"gone", o>>
  <2>1. Len(stack) \in 1 .. Len(stack) /\ stack[Len(stack)] = <<"user", o>>
    BY <1>2, <1>3
  <2> QED
    BY <1>3, <2>1, ThisLives DEF IsGood
<1>6. g \in Heaps /\ Cardinality(g.roots) <= MaxRoots /\ held \subseteq Zval
  <2>1. Good(g, held, stack)
    BY <1>4, <1>5, BufferedGood DEF IsGood, g
  <2> QED
    BY <2>1, GoodType
<1>7. heap' \in Heaps /\ heap'.roots = g.roots
  BY <1>4, <1>5, <1>6, LessType
<1>8. stack' \in Seq(Tasks)
  BY <1>2, <1>4
<1> QED
  BY <1>1, <1>4, <1>6, <1>7, <1>8 DEF TypeOK

\* The same after the collection that its return has called.
LEMMA ReturnAfterType ==
    ASSUME IInv, IsGood, NEW o \in Object, ReturnAfterCollect(o), missed' \in BOOLEAN PROVE TypeOK'
<1> DEFINE b == SubSeq(Below, 1, Len(Below) - 1)  full == Cardinality(heap.roots) = MaxRoots
           g == IF full THEN heap ELSE AsRoot(heap, o)
<1>1. TypeOK /\ o \in Node
  BY Apartness DEF IInv
<1>2. /\ heap' = [g EXCEPT !.rc[o] = @ - 1] /\ stack' = b \o <<>> /\ held' = held
      /\ spoilt' = (spoilt \/ full \/ heap.addr[o] # "null" \/ Revived(g, o, b))
  BY Zenon DEF ReturnAfterCollect, Leaves, Continues
<1>3. b \in Seq(Tasks)
  BY <1>1, ReturnTop DEF TypeOK
<1>4. g \in Heaps /\ Cardinality(g.roots) <= MaxRoots
  BY <1>1, RootType DEF TypeOK
<1> HIDE DEF g, b
<1>5. heap' \in Heaps /\ heap'.roots = g.roots
  BY <1>1, <1>2, <1>4, LessType
<1>6. stack' \in Seq(Tasks) /\ spoilt' \in BOOLEAN
  BY <1>1, <1>2, <1>3
<1> QED
  BY <1>1, <1>2, <1>4, <1>5, <1>6 DEF TypeOK

\* A collection that has filled the buffer again.
LEMMA BufferType ==
    ASSUME IInv, IsGood, NEW x \in Node, NEW z \in Zval, BufferAfterCollect(x, z) PROVE TypeOK'
<1> DEFINE h == [heap EXCEPT !.rc[z] = @ - 1]  full == Cardinality(h.roots) = MaxRoots
           g == IF full THEN h ELSE AsRoot(h, x)
<1>1. TypeOK /\ stack \in Seq(Tasks) /\ Top = "buffer" /\ Top # "none" /\ z \in Node
  BY Apartness DEF IInv, TypeOK, BufferAfterCollect
<1>2. Below \in Seq(Tasks)
  BY <1>1, TopTask
<1>3. /\ heap' = g /\ stack' = Below \o <<>> /\ held' = held
      /\ spoilt' = (spoilt \/ full \/ h.addr[x] # "null"
                           \/ (h.rc[z] = 0 /\ h.type[z] # "null") \/ h.type[x] = "free")
      /\ missed' = missed
  BY DEF BufferAfterCollect, Becomes, Continues
<1>4. h \in Heaps /\ h.roots = heap.roots
  BY <1>1, LessType DEF TypeOK
<1> HIDE DEF h
<1>5. g \in Heaps /\ Cardinality(g.roots) <= MaxRoots
  BY <1>1, <1>4, RootType DEF TypeOK
<1> HIDE DEF g
<1>6. stack' \in Seq(Tasks)
  <2> HIDE DEF Below
  <2> QED
    BY <1>2, <1>3
<1> QED
  BY <1>1, <1>3, <1>5, <1>6 DEF TypeOK

\* A step that leaves the heap in order.
LEMMA GoodStep ==
    ASSUME IInv, Good(heap', held', stack'), spoilt' \in BOOLEAN, missed' \in BOOLEAN PROVE IInv'
BY GoodType DEF IInv, TypeOK, IsGood

\* What a collection has missed stays so.
StaysMissed == missed' \in BOOLEAN /\ (missed => missed')

\* Buffering a node, directly or after a collection.
LEMMA BufferMissed ==
    ASSUME missed \in BOOLEAN, NEW h, NEW x, NEW z, NEW st, Buffer(h, x, z, st) PROVE StaysMissed
BY DEF Buffer, Continues, Collect, StaysMissed

\* Dropping a reference.
LEMMA PtrDtorMissed ==
    ASSUME missed \in BOOLEAN, NEW h, NEW z, NEW st, PtrDtor(h, z, st) PROVE StaysMissed
<1> DEFINE f == [h EXCEPT !.rc[z] = @ - 1]
           g == [Unlist(f, z) EXCEPT !.type[z] = "null", !.kids[z] = {}]
<1>1. \/ PossibleRoot(f, z, st)
      \/ Continues(g, st, <<<<"efree", z>>, <<"check", z>>, <<"delref", f.obj[z]>>>>)
      \/ Continues(g, st, <<<<"efree", z>>>> \o Drops(f.kids[z]))
  BY DEF PtrDtor
<1> HIDE DEF f, g
<1> QED
  BY <1>1, BufferMissed DEF PossibleRoot, BufferObject, Continues, StaysMissed

\* Every action.
LEMMA StepMissed ==
    ASSUME missed \in BOOLEAN, Next PROVE StaysMissed
<1>1. ASSUME NEW z \in Zval, Drop(z) \/ Check(z) \/ Efree(z) PROVE StaysMissed
  BY <1>1, PtrDtorMissed, BufferMissed DEF Drop, Check, BufferObject, Efree, Becomes, Continues, StaysMissed
<1>2. ASSUME NEW o \in Object, DelRef(o) \/ Gone(o) \/ ReturnAfterCollect(o) PROVE StaysMissed
  BY <1>2 DEF DelRef, Release, Gone, ReturnAfterCollect, Leaves, Becomes, Continues, StaysMissed
<1>3. ASSUME NEW x \in Node, NEW z \in Zval, BufferAfterCollect(x, z) PROVE StaysMissed
  BY SMTT(60), <1>3 DEF BufferAfterCollect, Becomes, Continues, StaysMissed
<1>4. ASSUME CallDestructors PROVE StaysMissed
  BY ZenonT(60), <1>4 DEF CallDestructors, Becomes, Continues, StaysMissed
<1>5. ASSUME Destroy PROVE StaysMissed
  BY ZenonT(60), <1>5 DEF Destroy, Release, Becomes, Continues, StaysMissed
<1>6. ASSUME NEW z \in Zval, NewArray(z) \/ Unset(z) PROVE StaysMissed
  BY <1>6, PtrDtorMissed DEF NewArray, Unset, StaysMissed
<1>7. ASSUME NEW z \in Zval, NEW o \in Object, NewObject(z, o) \/ Copy(z, o) PROVE StaysMissed
  BY <1>7 DEF NewObject, Copy, StaysMissed
<1>8. ASSUME NEW c \in Node, NEW z \in Zval, Link(c, z) \/ Unlink(c, z) PROVE StaysMissed
  BY <1>8, PtrDtorMissed DEF Link, Unlink, StaysMissed
<1>9. ASSUME CollectCycles \/ DestructorReturns PROVE StaysMissed
  BY <1>9 DEF CollectCycles, Collect, DestructorReturns, Leaves, Continues, StaysMissed
<1> QED
  BY <1>1, <1>2, <1>3, <1>4, <1>5, <1>6, <1>7, <1>8, <1>9 DEF Next, Work, Script

\* Every action keeps the invariant.
LEMMA StepGood ==
    ASSUME IInv, [Next]_vars PROVE IInv'
<1>1. CASE UNCHANGED vars
  BY <1>1 DEF vars, IInv, TypeOK, IsGood, Good, AlmostGood
<1>2. CASE Next
  <2>0. ~spoilt /\ IsGood
    BY <1>2 DEF Next, IInv
  <2>00. missed' \in BOOLEAN
    BY <1>2, StepMissed DEF StaysMissed, IInv, TypeOK
  <2> USE <2>0, <2>00
  <2>1. ASSUME NEW z \in Zval, Drop(z) PROVE IInv'
    BY <2>1, DropStep, GoodStep DEF Drop, IInv, TypeOK
  <2>2. ASSUME NEW z \in Zval, Check(z) PROVE IInv'
    BY <2>2, CheckStep, GoodStep DEF Check, IInv, TypeOK
  <2>3. ASSUME NEW z \in Zval, Efree(z) PROVE IInv'
    BY <2>3, EfreeStep, GoodStep DEF Efree, IInv, TypeOK
  <2>4. ASSUME NEW o \in Object, DelRef(o) PROVE IInv'
    BY <2>4, DelRefStep, GoodStep DEF DelRef, IInv, TypeOK
  <2>5. ASSUME NEW o \in Object, Gone(o) PROVE IInv'
    BY <2>5, GoneStep, GoodStep DEF Gone, IInv, TypeOK
  <2>6. ASSUME NEW x \in Node, NEW z \in Zval, BufferAfterCollect(x, z) PROVE IInv'
    <3>1. TypeOK'
      BY <2>6, BufferType
    <3>2. CASE spoilt'
      BY <3>1, <3>2 DEF IInv
    <3>3. CASE ~spoilt'
      <4>1. Good(heap', held', stack')
        BY SMTT(60), <2>6, <3>3, BufferStep
      <4> QED
        BY <3>1, <4>1 DEF IInv, IsGood
    <3> QED
      BY <3>2, <3>3
  <2>7. ASSUME CallDestructors PROVE IInv'
    BY ZenonT(60), <2>7, DestructorsStep, GoodStep DEF CallDestructors, IInv, TypeOK
  <2>8. ASSUME Destroy PROVE IInv'
    BY <2>8, DestroyStep, GoodStep DEF Destroy, IInv, TypeOK
  <2>9. ASSUME NEW z \in Zval, NewArray(z) PROVE IInv'
    BY <2>9, NewArrayStep, GoodStep DEF NewArray, IInv, TypeOK
  <2>10. ASSUME NEW z \in Zval, Unset(z) PROVE IInv'
    BY <2>10, UnsetStep, GoodStep DEF Unset, IInv, TypeOK
  <2>11. ASSUME NEW z \in Zval, NEW o \in Object, NewObject(z, o) PROVE IInv'
    BY <2>11, NewObjectStep, GoodStep DEF NewObject, IInv, TypeOK
  <2>12. ASSUME NEW z \in Zval, NEW o \in Object, Copy(z, o) PROVE IInv'
    <3>1. TypeOK'
      BY <2>12, CopyType
    <3>2. CASE spoilt'
      BY <3>1, <3>2 DEF IInv
    <3>3. CASE ~spoilt'
      <4>1. Good(heap', held', stack')
        BY <2>12, <3>3, CopyStep
      <4> QED
        BY <3>1, <4>1 DEF IInv, IsGood
    <3> QED
      BY <3>2, <3>3
  <2>13. ASSUME NEW c \in Node, NEW z \in Zval, Link(c, z) PROVE IInv'
    <3>1. TypeOK'
      BY <2>13, LinkType
    <3>2. CASE spoilt'
      BY <3>1, <3>2 DEF IInv
    <3>3. CASE ~spoilt'
      <4>1. Good(heap', held', stack')
        BY <2>13, <3>3, LinkStep
      <4> QED
        BY <3>1, <4>1 DEF IInv, IsGood
    <3> QED
      BY <3>2, <3>3
  <2>14. ASSUME NEW c \in Node, NEW z \in Zval, Unlink(c, z) PROVE IInv'
    BY <2>14, UnlinkStep, GoodStep DEF Unlink, IInv, TypeOK
  <2>15. ASSUME CollectCycles PROVE IInv'
    BY <2>15, CollectStep, GoodStep DEF CollectCycles, IInv, TypeOK
  <2>16. ASSUME DestructorReturns PROVE IInv'
    <3>1. CASE spoilt'
      BY <2>16, <3>1, ReturnType DEF IInv
    <3>2. CASE ~spoilt'
      <4>1. spoilt' \in BOOLEAN
        BY <2>16 DEF DestructorReturns, IInv, TypeOK
      <4>2. Good(heap', held', stack')
        BY <2>16, <3>2, ReturnStep
      <4> QED
        BY <4>1, <4>2, GoodStep
    <3> QED
      BY <3>1, <3>2
  <2>17. ASSUME NEW o \in Object, ReturnAfterCollect(o) PROVE IInv'
    <3>1. TypeOK'
      BY <2>17, ReturnAfterType
    <3>2. CASE spoilt'
      BY <3>1, <3>2 DEF IInv
    <3>3. CASE ~spoilt'
      <4>1. Good(heap', held', stack')
        BY <2>17, <3>3, ReturnAfterStep
      <4> QED
        BY <3>1, <4>1 DEF IInv, IsGood
    <3> QED
      BY <3>2, <3>3
  <2> QED
    BY <1>2, <2>1, <2>2, <2>3, <2>4, <2>5, <2>6, <2>7, <2>8, <2>9, <2>10, <2>11, <2>12, <2>13,
       <2>14, <2>15, <2>16, <2>17 DEF Next, Work, Script
<1> QED
  BY <1>1, <1>2

\* IInv, the inductive invariant, holds in every behaviour: through calls of
\* _zval_ptr_dtor, destructors, and collections inside of them.
THEOREM AlwaysGood == Spec => []IInv
<1> QED
  BY InitGood, StepGood, PTL DEF Spec

\* In every behaviour the heap, the buffer and the tasks have their types, and
\* gc_zval_possible_root never puts more roots into the buffer than fit.
THEOREM TypeCorrect == Spec => []TypeOK
<1> QED
  BY AlwaysGood, PTL DEF IInv

\* The invariant has no reference to what is freed.
LEMMA GoodDangles ==
    ASSUME IInv PROVE NothingDangles
<1> SUFFICES ASSUME ~spoilt
             PROVE  /\ \A x \in held \cup heap.roots \cup Condemned : Allocated(x)
                    /\ \A x \in Node : Allocated(x) => \A y \in heap.kids[x] : Allocated(y)
                    /\ \A i \in In("delref") : Allocated(stack[i][2])
                    /\ \A i \in In("drop") : \A z \in stack[i][2] : Allocated(z)
                    /\ \A x \in Accessible : Allocated(x)
  BY DEF IInv, NothingDangles
<1>1. /\ heap \in Heaps /\ held \in SUBSET Zval /\ stack \in Seq(Tasks) /\ Kinds(heap) /\ Rooted(heap)
      /\ Exact(heap, held, stack) /\ Good(heap, held, stack) /\ Lists(heap, stack)
  BY DEF IInv, IsGood, Good, AlmostGood, Shape
<1>2. \A x \in Node : heap.rc[x] > 0 => Allocated(x)
  BY <1>1, CountsType DEF Allocated
<1>3. ASSUME NEW x \in Node, NEW i \in 1 .. Len(stack), Holds(stack[i], x) PROVE Allocated(x)
  <2>1. heap.rc[x] > 0
    BY <1>1, <1>3, CountsType
  <2> QED
    BY <1>2, <2>1
<1>4. ASSUME NEW x \in held PROVE Allocated(x)
  <2>1. x \in Node
    BY <1>1, Apartness
  <2>2. heap.rc[x] > 0
    BY <1>1, <2>1, CountsType
  <2> QED
    BY <1>2, <2>1, <2>2
<1>5. ASSUME NEW x \in heap.roots PROVE Allocated(x)
  <2>1. x \in Node
    BY <1>1 DEF Heaps
  <2> QED
    BY <1>1, <2>1 DEF Rooted, Allocated
<1>6. ASSUME NEW x \in Condemned PROVE Allocated(x)
  <2>1. PICK i \in 1 .. Len(stack) : x \in InList(stack[i])
    BY <1>1 DEF Condemned
  <2>2. heap.type[x] # "free"
    BY <1>1, <2>1, ListHas DEF ListZval
  <2> QED
    BY <2>2 DEF Allocated
<1>7. ASSUME NEW x \in Node, NEW y \in heap.kids[x] PROVE Allocated(y)
  <2>1. y \in Zval /\ y \in Node
    BY <1>1, Apartness DEF Heaps
  <2>2. y \in Counted(heap, x)
    BY <1>1, <2>1, CountedIs
  <2>3. heap.rc[y] > 0
    BY <1>1, <2>1, <2>2, CountsType
  <2> QED
    BY <1>2, <2>1, <2>3
<1>8. ASSUME NEW i \in In("delref") PROVE Allocated(stack[i][2])
  <2>1. i \in 1 .. Len(stack) /\ stack[i][1] = "delref" /\ stack[i] \in Tasks
    BY <1>1 DEF In
  <2>2. stack[i][2] \in Node /\ Holds(stack[i], stack[i][2])
    BY <2>1, TaskType, Apartness DEF Holds
  <2> QED
    BY <1>3, <2>1, <2>2
<1>9. ASSUME NEW i \in In("drop"), NEW z \in stack[i][2] PROVE Allocated(z)
  <2>1. i \in 1 .. Len(stack) /\ stack[i][1] = "drop" /\ stack[i] \in Tasks
    BY <1>1 DEF In
  <2>2. z \in Node /\ Holds(stack[i], z)
    BY <2>1, TaskType, Apartness DEF Holds
  <2> QED
    BY <1>3, <2>1, <2>2
<1>10. ASSUME NEW x \in Accessible PROVE Allocated(x)
  <2>1. x \in AccessibleOf(heap, held, stack)
    BY DEF Accessible, AccessibleOf, This, ThisOf
  <2>2. heap.type[x] # "free"
    BY <1>1, <2>1, ReachedThere
  <2> QED
    BY <2>2 DEF Allocated
<1> QED
  BY <1>4, <1>5, <1>6, <1>7, <1>8, <1>9, <1>10

\* Whatever _zval_ptr_dtor, destructors and collections do, and however they
\* interrupt each other, no variable, array, object, root or task refers to a
\* node that efree or the object store has taken back.
THEOREM NeverDangles == Spec => []NothingDangles
<1> QED
  BY AlwaysGood, GoodDangles, PTL

\* The invariant has exact counts.
LEMMA GoodCounts == ASSUME IInv PROVE CountsExact
<1> SUFFICES ASSUME ~spoilt, NEW x \in Node PROVE heap.rc[x] = Refs(x)
  BY DEF CountsExact
<1>1. stack \in Seq(Tasks) /\ Exact(heap, held, stack)
  BY DEF IInv, IsGood, Good, AlmostGood
<1>2. Refs(x) = RefsOf(heap, held, stack, x)
  BY <1>1, RefsNow
<1> QED
  BY <1>1, <1>2 DEF Exact

\* refcount__gc and the refcount of an object are at all times the number of
\* references there are, though gc_mark_roots takes references away,
\* gc_scan_roots and gc_collect_roots give some back, and destructors run in
\* between.
THEOREM AlwaysExact == Spec => []CountsExact
<1> QED
  BY AlwaysGood, GoodCounts, PTL

(* What a collection condemns.                                              *)
\* What counts that nothing inside explains is for somebody outside, and the
\* other way round.
LEMMA OutsideKept ==
    ASSUME IsGood PROVE Outside(heap) \subseteq Kept /\ Kept \subseteq Live(heap)
<1>1. /\ heap \in Heaps /\ Kinds(heap) /\ Exact(heap, held, stack) /\ Good(heap, held, stack)
      /\ stack \in Seq(Tasks) /\ Found(heap) \in SUBSET Node
  BY FoundIs DEF IsGood, Good, AlmostGood
<1>2. ASSUME NEW x \in Outside(heap), x \notin Kept PROVE FALSE
  <2>1. x \in Found(heap) /\ x \in Node /\ heap.rc[x] > Cardinality(Inside(heap, x))
    BY <1>1 DEF Outside
  <2>2. /\ x \notin held /\ \A i \in 1 .. Len(stack) : ~Holds(stack[i], x)
        /\ \A y \in Node \ Found(heap) : x \notin Counted(heap, y)
    BY <1>1, <1>2, <2>1 DEF Kept
  <2>3. Referrers(heap, x) \subseteq Inside(heap, x)
    <3>1. ASSUME NEW y \in Referrers(heap, x) PROVE y \in Found(heap) /\ x \in Out(heap, y)
      BY <2>2 DEF Referrers, Counted
    <3> QED
      BY <3>1 DEF Inside
  <2>4. Cardinality(Referrers(heap, x)) <= Cardinality(Inside(heap, x))
        /\ Cardinality(Referrers(heap, x)) \in Nat /\ Cardinality(Inside(heap, x)) \in Nat
    <3>1. Inside(heap, x) \in SUBSET Node
      BY <1>1 DEF Inside
    <3>2. IsFiniteSet(Inside(heap, x))
      BY <3>1, NodesFinite
    <3> QED
      BY <2>3, <3>2, FS_Subset, FS_CardinalityType
  <2>5. Holders(stack, x) = {} /\ ByVariable(held, x) = 0
    BY <2>2 DEF Holders, ByVariable
  <2>6. RefsOf(heap, held, stack, x) = Cardinality(Referrers(heap, x))
    <3>1. Cardinality(Holders(stack, x)) = 0
      BY <2>5, FS_EmptySet
    <3> QED
      BY <2>4, <2>5, <3>1 DEF RefsOf
  <2>7. heap.rc[x] = RefsOf(heap, held, stack, x)
    BY <1>1, <2>1 DEF Exact
  <2> QED
    BY <2>1, <2>4, <2>6, <2>7
<1>3. ASSUME NEW x \in Kept, x \notin Live(heap) PROVE FALSE
  <2>1. x \in Found(heap) /\ x \in Garbage(heap)
    BY <1>3 DEF Kept, Garbage
  <2>2. /\ x \notin held /\ (\A i \in 1 .. Len(stack) : ~Holds(stack[i], x))
        /\ Referrers(heap, x) = Inside(heap, x)
    BY <1>1, <2>1, GarbageIsolated
  <2>3. PICK y \in Node \ Found(heap) : x \in Counted(heap, y)
    BY <1>1, <1>3, <2>2 DEF Kept
  <2>4. y \in Inside(heap, x)
    BY <2>2, <2>3 DEF Referrers
  <2> QED
    BY <2>3, <2>4 DEF Inside
<1> QED
  BY <1>2, <1>3

\* What the scan finds to be alive is what Kept leads to.
LEMMA LiveKept ==
    ASSUME IsGood PROVE Reach(Links(heap), Kept) = Live(heap)
<1>1. heap \in Heaps /\ Kinds(heap)
  BY DEF IsGood, Good, AlmostGood
<1>2. Links(heap) \in [Node -> SUBSET Node] /\ \A x \in Node : Links(heap)[x] = Out(heap, x)
  BY <1>1, LinksType
<1>3. /\ Found(heap) \in SUBSET Node /\ Live(heap) \in SUBSET Node
      /\ \A x \in Live(heap) : Out(heap, x) \subseteq Live(heap)
  BY <1>1, FoundIs, LiveIs
<1>4. Outside(heap) \subseteq Kept /\ Kept \subseteq Live(heap)
  BY OutsideKept
<1>5. Kept \in SUBSET Node /\ Outside(heap) \in SUBSET Node
  BY <1>3 DEF Kept, Outside
<1>6. Reach(Links(heap), Kept) \subseteq Live(heap)
  <2>1. \A x \in Live(heap) \cap Node : Links(heap)[x] \subseteq Live(heap)
    BY <1>2, <1>3
  <2> QED
    BY <1>2, <1>4, <1>5, <2>1, ReachLeast
<1>7. Live(heap) \subseteq Reach(Links(heap), Kept)
  <2>1. Live(heap) = Reach(Links(heap), Outside(heap))
    BY LiveOutside
  <2> DEFINE R == Reach(Links(heap), Kept)
  <2>2. Kept \subseteq R
    BY <1>2, <1>5, ReachContains
  <2>3. \A x \in R \cap Node : Links(heap)[x] \subseteq R
    BY <1>2, <1>5, ReachClosed
  <2> HIDE DEF R
  <2>4. Reach(Links(heap), Outside(heap)) \subseteq R
    BY <1>2, <1>4, <1>5, <2>2, <2>3, ReachLeast
  <2> QED
    BY <2>1, <2>4 DEF R
<1> QED
  BY <1>6, <1>7

\* The invariant has the collector condemn garbage, and nothing else.
LEMMA GoodCollects == ASSUME IInv PROVE CollectsGarbage
<1> SUFFICES ASSUME ~spoilt
             PROVE  /\ Garbage(heap) = Found(heap) \ Reach(Links(heap), Kept)
                    /\ Garbage(heap) \cap Condemned = {}
                    /\ \A x \in Garbage(heap) \cap Object : Collected(heap).rc[x] = 0
  BY DEF CollectsGarbage
<1>0. IsGood
  BY DEF IInv
<1>1. /\ heap \in Heaps /\ Kinds(heap) /\ Exact(heap, held, stack) /\ Good(heap, held, stack)
      /\ stack \in Seq(Tasks)
  BY <1>0 DEF IsGood, Good, AlmostGood
<1>2. Garbage(heap) = Found(heap) \ Reach(Links(heap), Kept)
  BY <1>0, LiveKept DEF Garbage
<1>3. ASSUME NEW x \in Garbage(heap), x \in Condemned PROVE FALSE
  <2>1. PICK i \in 1 .. Len(stack) : x \in InList(stack[i])
    BY <1>1, <1>3 DEF Condemned
  <2>2. \A j \in 1 .. Len(stack) : ~Holds(stack[j], x)
    BY <1>1, <1>3, GarbageIsolated
  <2>3. Holds(stack[i], x)
    BY <2>1 DEF Holds
  <2> QED
    BY <2>2, <2>3
<1>4. ASSUME NEW x \in Garbage(heap) \cap Object PROVE Collected(heap).rc[x] = 0
  <2>1. /\ x \in Node /\ x \notin held /\ (\A i \in 1 .. Len(stack) : ~Holds(stack[i], x))
        /\ Referrers(heap, x) = Inside(heap, x) /\ \A y \in Referrers(heap, x) : y \in Garbage(heap)
    BY <1>1, GarbageIsolated
  <2>2. Lost(heap, x) = Referrers(heap, x)
    <3>1. Garbage(heap) \subseteq Found(heap)
      BY DEF Garbage
    <3> QED
      BY <2>1, <3>1 DEF Lost, Inside
  <2>3. RefsOf(heap, held, stack, x) = Cardinality(Referrers(heap, x)) /\ Cardinality(Referrers(heap, x)) \in Nat
    <3>1. Holders(stack, x) = {} /\ ByVariable(held, x) = 0
      BY <2>1 DEF Holders, ByVariable
    <3>2. Cardinality(Holders(stack, x)) = 0
      BY <3>1, FS_EmptySet
    <3>3. Cardinality(Referrers(heap, x)) \in Nat
      BY <1>1, RefsType
    <3> QED
      BY <3>1, <3>2, <3>3 DEF RefsOf
  <2>4. heap.rc[x] = RefsOf(heap, held, stack, x)
    BY <1>1, <2>1 DEF Exact
  <2>5. CollectedOf(Collected(heap), heap)
    BY <1>1, CollectedFields
  <2>6. Collected(heap).rc[x] = heap.rc[x] - Cardinality(Lost(heap, x))
    BY <2>5 DEF CollectedOf
  <2> QED
    BY <2>2, <2>3, <2>4, <2>6
<1> QED
  BY <1>2, <1>3, <1>4

\* In every state in which it may be called, gc_collect_cycles condemns what
\* the roots lead to and nothing keeps, nothing that an interrupted collection
\* is working on, and leaves a condemned object without references.
THEOREM CollectionsRight == Spec => []CollectsGarbage
<1> QED
  BY AlwaysGood, GoodCollects, PTL

===============================================================================
