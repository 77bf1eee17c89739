------------------------- MODULE ZendGcPhases_proofs --------------------------
(***************************************************************************)
(* What a collection has to find, and how its phases find it.  First, that *)
(* garbage can be found: an invariant of its own, over all sets of nodes   *)
(* that refer to each other, which every action keeps.  Then the three     *)
(* traversals: what holds from one call to the next while a phase is under *)
(* way, how much it has still to do, and what it leaves when it is done.   *)
(* Last, that the roots are purple, as the traversals rely on.             *)
(***************************************************************************)
EXTENDS ZendGc_proofs, ZendGcPhases

-----------------------------------------------------------------------------
(* That garbage can be found.  A node that has references, but none of a    *)
(* variable or a task, is astray when neither the root buffer nor a task    *)
(* nor a step that is under way (X) knows it.                               *)
Unheld(h, hd, st, x) ==
    h.rc[x] > 0 /\ x \notin hd /\ \A j \in 1 .. Len(st) : ~Holds(st[j], x)

\* The root buffer, or a task that is going to buffer it, knows x.
Noted(h, st, x) == x \in h.roots \/ \E j \in 1 .. Len(st) : About(h, st[j], x)

\* Nothing but other nodes, and what a step is doing, leads to x.
Astray(h, hd, st, X, x) == x \notin X /\ Unheld(h, hd, st, x) /\ ~Noted(h, st, x)

\* No nodes are astray that nothing but themselves refers to.
Findable(h, hd, st, X) ==
    \A S \in SUBSET Node :
        (\A x \in S : Astray(h, hd, st, X, x) /\ Referrers(h, x) \subseteq S) => S = {}

\* A zval without references, or emptied, is about to be freed.
Ends(st, z) == \E j \in 1 .. Len(st) : st[j] = <<"efree", z>>

\* Nothing will free the zval but a task that is on its way.
Spent(h, z) == (h.type[z] # "free" /\ h.rc[z] = 0) \/ (h.type[z] = "null" /\ h.addr[z] # "list")

\* Every such zval has that task.
Idle(h, st) == \A z \in Zval : Spent(h, z) => Ends(st, z)

\* The destructor of x has returned, and a collection runs before $this is let go.
Leaving(st, x) == \E j \in 2 .. Len(st) : st[j] = <<"return", x>> /\ st[j - 1] = <<"user", x>>

\* Why a node may be purple: it is to be buffered after a collection.
Bought(st, x) == (\E j \in 1 .. Len(st) : st[j][1] = "buffer" /\ st[j][2] = x) \/ Leaving(st, x)

\* free_storage is at work on x.
Going(st, x) == \E j \in 1 .. Len(st) : st[j] = <<"gone", x>>

\* A collection has called the destructor of x.
Destructs(st, x) == \E j \in 2 .. Len(st) : st[j] = <<"user", x>> /\ st[j - 1][1] = "dtors"

\* The five ways for a node to be purple.
Purpled(h, st, x) ==
    \/ x \in h.roots \/ Bought(st, x)
    \/ x \in Object /\ ((h.rc[x] = 0 /\ h.type[x] # "free") \/ Going(st, x) \/ Destructs(st, x))

\* There is no other: gc_zobj_possible_root trusts the colour.
PurpleNoted(h, st) == \A x \in Node : h.col[x] = "purple" => Purpled(h, st, x)

\* An object that a zval lets go of is checked afterwards.
CheckAt(h, st, j) ==
    st[j][1] = "delref" => j > 1 /\ st[j - 1][1] = "check" /\ h.obj[st[j - 1][2]] = st[j][2]

\* Every release of an object is one of those.
Checked(h, st) == \A j \in 1 .. Len(st) : CheckAt(h, st, j)

\* All that can be found, unless a collection has missed something (m).
Fine(h, hd, st, X, m) ==
    Idle(h, st) /\ PurpleNoted(h, st) /\ (m \/ Findable(h, hd, st, X))

\* A step after which nothing is astray, spent or purple that was not before.
Carries(h, hd, st, X, g, hd2, s2, X2) ==
    /\ \A x \in Node : Astray(g, hd2, s2, X2, x) =>
          /\ Astray(h, hd, st, X, x)
          /\ \A y \in Node : x \in Counted(h, y) => x \in Counted(g, y)
    /\ \A z \in Zval : Spent(g, z) /\ ~Ends(s2, z) => Spent(h, z) /\ ~Ends(st, z)
    /\ \A x \in Node : g.col[x] = "purple" /\ ~Purpled(g, s2, x)
                          => h.col[x] = "purple" /\ ~Purpled(h, st, x)

\* Such a step leaves what can be found findable: a set of nodes that is astray
\* after it was astray before it.
LEMMA Carry ==
    ASSUME NEW h, NEW hd, NEW st, NEW X, NEW g, NEW hd2, NEW s2, NEW X2, NEW m,
           Carries(h, hd, st, X, g, hd2, s2, X2), Fine(h, hd, st, X, m)
    PROVE  Fine(g, hd2, s2, X2, m)
<1>1. Idle(g, s2)
  BY DEF Fine, Carries, Idle
<1>2. PurpleNoted(g, s2)
  BY DEF Fine, Carries, PurpleNoted
<1>3. ASSUME Findable(h, hd, st, X), NEW S \in SUBSET Node,
             \A x \in S : Astray(g, hd2, s2, X2, x) /\ Referrers(g, x) \subseteq S
      PROVE  S = {}
  <2>1. ASSUME NEW x \in S PROVE Astray(h, hd, st, X, x) /\ Referrers(h, x) \subseteq S
    <3>1. /\ Astray(h, hd, st, X, x)
          /\ \A y \in Node : x \in Counted(h, y) => x \in Counted(g, y)
      BY <1>3 DEF Carries
    <3> QED
      BY <1>3, <3>1 DEF Referrers
  <2> QED
    BY <1>3, <2>1 DEF Findable
<1>4. Findable(h, hd, st, X) => Findable(g, hd2, s2, X2)
  BY <1>3 DEF Findable
<1> QED
  BY <1>1, <1>2, <1>4 DEF Fine

\* More that a step knows.
LEMMA FineMore ==
    ASSUME NEW h, NEW hd, NEW st, NEW X, NEW Y, NEW m, X \subseteq Y, Fine(h, hd, st, X, m)
    PROVE  Fine(h, hd, st, Y, m)
BY DEF Findable, Astray, Fine

\* What nothing holds has the count of what refers to it.
LEMMA UnheldCount ==
    ASSUME NEW h, NEW hd, NEW st, Good(h, hd, st), NEW x \in Node, Unheld(h, hd, st, x)
    PROVE  h.rc[x] = Cardinality(Referrers(h, x)) /\ Referrers(h, x) # {}
<1>1. h.rc[x] = RefsOf(h, hd, st, x) /\ st \in Seq(Tasks)
  BY DEF Good, AlmostGood, Exact
<1>2. Holders(st, x) = {} /\ ByVariable(hd, x) = 0
  BY DEF Unheld, Holders, ByVariable
<1>3. Cardinality({}) = 0
  BY FS_EmptySet
<1>4. Cardinality(Referrers(h, x)) \in Nat
  BY <1>1, RefsType
<1>5. h.rc[x] = Cardinality(Referrers(h, x))
  BY <1>1, <1>2, <1>3, <1>4 DEF RefsOf
<1>6. h.rc[x] > 0
  BY DEF Unheld
<1>7. ASSUME Referrers(h, x) = {} PROVE FALSE
  <2>1. h.rc[x] = 0
    BY <1>3, <1>5, <1>7
  <2> QED
    BY <1>6, <2>1
<1> QED
  BY <1>5, <1>7

\* A node need not be known that refers to what is known only.
LEMMA Unknow ==
    ASSUME NEW h, NEW hd, NEW st, Good(h, hd, st), NEW X, NEW z \in Node,
           Counted(h, z) \subseteq X, NEW m, Fine(h, hd, st, X \cup {z}, m)
    PROVE  Fine(h, hd, st, X, m)
<1> SUFFICES ASSUME Findable(h, hd, st, X \cup {z}), NEW S \in SUBSET Node,
                    \A x \in S : Astray(h, hd, st, X, x) /\ Referrers(h, x) \subseteq S
             PROVE  S = {}
  BY DEF Findable, Fine
<1>1. \A x \in S : x \notin X /\ z \notin Referrers(h, x)
  BY DEF Referrers, Astray
<1>2. S \ {z} = {}
  <2> DEFINE T == S \ {z}
  <2>1. \A x \in T : Astray(h, hd, st, X \cup {z}, x) /\ Referrers(h, x) \subseteq T
    BY <1>1 DEF Astray
  <2>2. T \in SUBSET Node
    OBVIOUS
  <2> HIDE DEF T
  <2>3. T = {}
    BY <2>1, <2>2 DEF Findable
  <2> QED
    BY <2>3 DEF T
<1>3. ASSUME z \in S PROVE FALSE
  <2>1. Referrers(h, z) = {}
    BY <1>1, <1>2, <1>3
  <2> QED
    BY <1>3, <2>1, UnheldCount DEF Astray
<1> QED
  BY <1>2, <1>3

\* Nor one that something refers to that is not astray.
LEMMA Referred ==
    ASSUME NEW h, NEW hd, NEW st, NEW X, NEW o, NEW z \in Node, o \in Counted(h, z),
           ~Astray(h, hd, st, X, z), NEW m, Fine(h, hd, st, X \cup {o}, m)
    PROVE  Fine(h, hd, st, X, m)
<1> SUFFICES ASSUME Findable(h, hd, st, X \cup {o}), NEW S \in SUBSET Node,
                    \A x \in S : Astray(h, hd, st, X, x) /\ Referrers(h, x) \subseteq S
             PROVE  S = {}
  BY DEF Findable, Fine
<1>1. z \in Referrers(h, o) /\ z \notin S
  BY DEF Referrers
<1>2. o \notin S
  BY <1>1
<1>3. \A x \in S : Astray(h, hd, st, X \cup {o}, x) /\ Referrers(h, x) \subseteq S
  BY <1>2 DEF Astray
<1> QED
  BY <1>3 DEF Findable

\* Nor one that is noted, or held.
LEMMA Known ==
    ASSUME NEW h, NEW hd, NEW st, NEW X, NEW x, Noted(h, st, x) \/ ~Unheld(h, hd, st, x),
           NEW m, Fine(h, hd, st, X \cup {x}, m)
    PROVE  Fine(h, hd, st, X, m)
<1> SUFFICES ASSUME Findable(h, hd, st, X \cup {x}), NEW S \in SUBSET Node,
                    \A y \in S : Astray(h, hd, st, X, y) /\ Referrers(h, y) \subseteq S
             PROVE  S = {}
  BY DEF Findable, Fine
<1>1. \A y \in S : Astray(h, hd, st, X \cup {x}, y) /\ Referrers(h, y) \subseteq S
  BY DEF Astray
<1> QED
  BY <1>1 DEF Findable

(* What a task more says. *)
LEMMA PushHolds ==
    ASSUME NEW st \in Seq(Tasks), NEW t \in Tasks, NEW h, NEW hd, NEW x
    PROVE  Unheld(h, hd, Append(st, t), x) <=> Unheld(h, hd, st, x) /\ ~Holds(t, x)
<1> DEFINE s2 == Append(st, t)  n == Len(st)
<1>1. /\ n \in Nat /\ Len(s2) = n + 1 /\ s2[n + 1] = t /\ n + 1 \in 1 .. n + 1
      /\ \A j \in 1 .. n : s2[j] = st[j] /\ j \in 1 .. n + 1
      /\ \A j \in 1 .. n + 1 : j = n + 1 \/ j \in 1 .. n
  OBVIOUS
<1> HIDE DEF s2, n
<1>2. (\A j \in 1 .. Len(s2) : ~Holds(s2[j], x)) <=> (\A j \in 1 .. n : ~Holds(st[j], x)) /\ ~Holds(t, x)
  BY <1>1
<1> QED
  BY <1>2 DEF s2, n, Unheld

\* The task may be going to buffer x.
LEMMA PushNotes ==
    ASSUME NEW st \in Seq(Tasks), NEW t \in Tasks, NEW h, NEW x
    PROVE  Noted(h, Append(st, t), x) <=> Noted(h, st, x) \/ About(h, t, x)
<1> DEFINE s2 == Append(st, t)  n == Len(st)
<1>1. /\ n \in Nat /\ Len(s2) = n + 1 /\ s2[n + 1] = t /\ n + 1 \in 1 .. n + 1
      /\ \A j \in 1 .. n : s2[j] = st[j] /\ j \in 1 .. n + 1
      /\ \A j \in 1 .. n + 1 : j = n + 1 \/ j \in 1 .. n
  OBVIOUS
<1> HIDE DEF s2, n
<1>2. (\E j \in 1 .. Len(s2) : About(h, s2[j], x)) <=> (\E j \in 1 .. n : About(h, st[j], x)) \/ About(h, t, x)
  BY <1>1
<1> QED
  BY <1>2 DEF s2, n, Noted

\* It may be the return of the destructor below it.
LEMMA PushLeaving ==
    ASSUME NEW st \in Seq(Tasks), NEW t \in Tasks, NEW x
    PROVE  Leaving(Append(st, t), x) <=>
               Leaving(st, x) \/ (t = <<"return", x>> /\ Len(st) > 0 /\ st[Len(st)] = <<"user", x>>)
<1> DEFINE s2 == Append(st, t)  n == Len(st)
<1>1. /\ n \in Nat /\ Len(s2) = n + 1 /\ s2[n + 1] = t
      /\ \A j \in 1 .. n : s2[j] = st[j]
      /\ \A j \in 2 .. n + 1 : (j = n + 1 /\ n > 0 /\ j - 1 = n /\ j - 1 \in 1 .. n)
                               \/ (j \in 2 .. n /\ j \in 1 .. n /\ j - 1 \in 1 .. n)
      /\ \A j \in 2 .. n : j \in 2 .. n + 1 /\ j \in 1 .. n /\ j - 1 \in 1 .. n
      /\ n > 0 => n + 1 \in 2 .. n + 1 /\ n \in 1 .. n /\ (n + 1) - 1 = n
  OBVIOUS
<1> HIDE DEF s2, n
<1>2. ASSUME Leaving(s2, x) PROVE Leaving(st, x) \/ (t = <<"return", x>> /\ n > 0 /\ st[n] = <<"user", x>>)
  <2>1. PICK j \in 2 .. n + 1 : s2[j] = <<"return", x>> /\ s2[j - 1] = <<"user", x>>
    BY <1>1, <1>2 DEF Leaving
  <2>2. CASE j = n + 1 /\ n > 0 /\ j - 1 = n /\ j - 1 \in 1 .. n
    BY <1>1, <2>1, <2>2
  <2>3. CASE j \in 2 .. n /\ j \in 1 .. n /\ j - 1 \in 1 .. n
    <3>1. st[j] = <<"return", x>> /\ st[j - 1] = <<"user", x>>
      BY <1>1, <2>1, <2>3
    <3> QED
      BY <2>3, <3>1 DEF Leaving, n
  <2> QED
    BY <1>1, <2>2, <2>3
<1>3. ASSUME Leaving(st, x) PROVE Leaving(s2, x)
  <2>1. PICK j \in 2 .. n : st[j] = <<"return", x>> /\ st[j - 1] = <<"user", x>>
    BY <1>3 DEF Leaving, n
  <2>2. j \in 2 .. Len(s2) /\ s2[j] = <<"return", x>> /\ s2[j - 1] = <<"user", x>>
    BY <1>1, <2>1
  <2> QED
    BY <2>2 DEF Leaving
<1>4. ASSUME t = <<"return", x>>, n > 0, st[n] = <<"user", x>> PROVE Leaving(s2, x)
  <2>1. n + 1 \in 2 .. Len(s2) /\ s2[n + 1] = <<"return", x>> /\ s2[(n + 1) - 1] = <<"user", x>>
    BY <1>1, <1>4
  <2> QED
    BY <2>1 DEF Leaving
<1> QED
  BY <1>2, <1>3, <1>4 DEF s2, n

\* It may free x, have x buffered, or be the end of free_storage.
LEMMA PushEnds ==
    ASSUME NEW st \in Seq(Tasks), NEW t \in Tasks, NEW x
    PROVE  /\ Ends(Append(st, t), x) <=> Ends(st, x) \/ t = <<"efree", x>>
           /\ Bought(Append(st, t), x) <=>
                  \/ Bought(st, x) \/ (t[1] = "buffer" /\ t[2] = x)
                  \/ (t = <<"return", x>> /\ Len(st) > 0 /\ st[Len(st)] = <<"user", x>>)
           /\ Going(Append(st, t), x) <=> Going(st, x) \/ t = <<"gone", x>>
<1> DEFINE s2 == Append(st, t)  n == Len(st)
<1>1. /\ n \in Nat /\ Len(s2) = n + 1 /\ s2[n + 1] = t /\ n + 1 \in 1 .. n + 1
      /\ \A j \in 1 .. n : s2[j] = st[j] /\ j \in 1 .. n + 1
      /\ \A j \in 1 .. n + 1 : j = n + 1 \/ j \in 1 .. n
  OBVIOUS
<1> HIDE DEF s2, n
<1>2. Ends(s2, x) <=> Ends(st, x) \/ t = <<"efree", x>>
  BY <1>1 DEF Ends, n
<1>3. (\E j \in 1 .. Len(s2) : s2[j][1] = "buffer" /\ s2[j][2] = x)
         <=> (\E j \in 1 .. Len(st) : st[j][1] = "buffer" /\ st[j][2] = x) \/ (t[1] = "buffer" /\ t[2] = x)
  BY <1>1 DEF n
<1>4. Going(s2, x) <=> Going(st, x) \/ t = <<"gone", x>>
  BY <1>1 DEF Going, n
<1> QED
  BY <1>2, <1>3, <1>4, PushLeaving DEF s2, Bought

\* It may be a destructor that a collection has called.
LEMMA PushDestructs ==
    ASSUME NEW st \in Seq(Tasks), NEW t \in Tasks, NEW x
    PROVE  Destructs(Append(st, t), x) <=>
               Destructs(st, x) \/ (t = <<"user", x>> /\ Len(st) > 0 /\ st[Len(st)][1] = "dtors")
<1> DEFINE s2 == Append(st, t)  n == Len(st)
<1>1. /\ n \in Nat /\ Len(s2) = n + 1 /\ s2[n + 1] = t
      /\ \A j \in 1 .. n : s2[j] = st[j]
      /\ \A j \in 2 .. n + 1 : (j = n + 1 /\ n > 0 /\ j - 1 = n /\ j - 1 \in 1 .. n)
                               \/ (j \in 2 .. n /\ j \in 1 .. n /\ j - 1 \in 1 .. n)
      /\ \A j \in 2 .. n : j \in 2 .. n + 1 /\ j \in 1 .. n /\ j - 1 \in 1 .. n
      /\ n > 0 => n + 1 \in 2 .. n + 1 /\ n \in 1 .. n /\ (n + 1) - 1 = n
  OBVIOUS
<1> HIDE DEF s2, n
<1>2. ASSUME Destructs(s2, x) PROVE Destructs(st, x) \/ (t = <<"user", x>> /\ n > 0 /\ st[n][1] = "dtors")
  <2>1. PICK j \in 2 .. n + 1 : s2[j] = <<"user", x>> /\ s2[j - 1][1] = "dtors"
    BY <1>1, <1>2 DEF Destructs
  <2>2. CASE j = n + 1 /\ n > 0 /\ j - 1 = n /\ j - 1 \in 1 .. n
    BY <1>1, <2>1, <2>2
  <2>3. CASE j \in 2 .. n /\ j \in 1 .. n /\ j - 1 \in 1 .. n
    <3>1. st[j] = <<"user", x>> /\ st[j - 1][1] = "dtors"
      BY <1>1, <2>1, <2>3
    <3> QED
      BY <2>3, <3>1 DEF Destructs, n
  <2> QED
    BY <1>1, <2>2, <2>3
<1>3. ASSUME Destructs(st, x) PROVE Destructs(s2, x)
  <2>1. PICK j \in 2 .. n : st[j] = <<"user", x>> /\ st[j - 1][1] = "dtors"
    BY <1>3 DEF Destructs, n
  <2>2. j \in 2 .. Len(s2) /\ s2[j] = <<"user", x>> /\ s2[j - 1][1] = "dtors"
    BY <1>1, <2>1
  <2> QED
    BY <2>2 DEF Destructs
<1>4. ASSUME t = <<"user", x>>, n > 0, st[n][1] = "dtors" PROVE Destructs(s2, x)
  <2>1. n + 1 \in 2 .. Len(s2) /\ s2[n + 1] = <<"user", x>> /\ s2[(n + 1) - 1][1] = "dtors"
    BY <1>1, <1>4
  <2> QED
    BY <2>1 DEF Destructs
<1> QED
  BY <1>2, <1>3, <1>4 DEF s2, n

\* It may release an object, after which a task below checks that object.
LEMMA PushChecked ==
    ASSUME NEW st \in Seq(Tasks), NEW t \in Tasks, NEW h
    PROVE  Checked(h, Append(st, t)) <=>
               /\ Checked(h, st)
               /\ t[1] = "delref" => /\ Len(st) > 0 /\ st[Len(st)][1] = "check"
                                     /\ h.obj[st[Len(st)][2]] = t[2]
<1> DEFINE s2 == Append(st, t)  n == Len(st)
<1>1. /\ n \in Nat /\ Len(s2) = n + 1 /\ s2[n + 1] = t /\ n + 1 \in 1 .. n + 1
      /\ \A j \in 1 .. n : s2[j] = st[j] /\ j \in 1 .. n + 1
      /\ \A j \in 1 .. n : j > 1 => j - 1 \in 1 .. n
      /\ \A j \in 1 .. n + 1 : j = n + 1 \/ j \in 1 .. n
      /\ (n + 1 > 1 <=> n > 0) /\ (n + 1) - 1 = n /\ (n > 0 => n \in 1 .. n)
  OBVIOUS
<1> HIDE DEF s2, n
<1>2. \A j \in 1 .. n : CheckAt(h, s2, j) <=> CheckAt(h, st, j)
  BY <1>1 DEF CheckAt
<1>3. CheckAt(h, s2, n + 1) <=>
         (t[1] = "delref" => n > 0 /\ st[n][1] = "check" /\ h.obj[st[n][2]] = t[2])
  BY <1>1 DEF CheckAt
<1>4. Checked(h, s2) <=> (\A j \in 1 .. n : CheckAt(h, s2, j)) /\ CheckAt(h, s2, n + 1)
  BY <1>1 DEF Checked
<1> QED
  BY <1>2, <1>3, <1>4 DEF s2, n, Checked

\* Nothing is astray for it that a task more is pushed.
LEMMA PushCarries ==
    ASSUME NEW h, NEW hd, NEW st \in Seq(Tasks), NEW t \in Tasks, NEW X, NEW Y,
           \A x \in X : x \in Y \/ Holds(t, x) \/ About(h, t, x)
    PROVE  Carries(h, hd, st, X, h, hd, Append(st, t), Y)
<1>1. ASSUME NEW x \in Node, Astray(h, hd, Append(st, t), Y, x) PROVE Astray(h, hd, st, X, x)
  BY <1>1, PushHolds, PushNotes DEF Astray
<1>2. ASSUME NEW z \in Zval, Ends(st, z) PROVE Ends(Append(st, t), z)
  BY <1>2, PushEnds
<1>3. ASSUME NEW x \in Node, Purpled(h, st, x) PROVE Purpled(h, Append(st, t), x)
  BY <1>3, PushEnds, PushDestructs DEF Purpled
<1> QED
  BY <1>1, <1>2, <1>3 DEF Carries

\* Tasks that buffer nothing, free nothing and have no destructor running.
Quiet(t) == t[1] \in {"drop", "check", "delref", "dtors", "destroy"}

\* A task that says nothing of zvals that end or nodes that are purple.
LEMMA PushQuiet ==
    ASSUME NEW st \in Seq(Tasks), NEW t \in Tasks, Quiet(t), NEW h, NEW x
    PROVE  /\ Ends(Append(st, t), x) <=> Ends(st, x)
           /\ Purpled(h, Append(st, t), x) <=> Purpled(h, st, x)
<1>1. /\ t # <<"efree", x>> /\ t[1] # "buffer" /\ t # <<"gone", x>> /\ t # <<"user", x>>
      /\ t # <<"return", x>>
  BY DEF Quiet
<1> QED
  BY <1>1, PushEnds, PushDestructs DEF Purpled

\* Such a task is done.
LEMMA PopCarries ==
    ASSUME NEW h, NEW hd, NEW st \in Seq(Tasks), NEW t \in Tasks, NEW X, NEW Y,
           Quiet(t) \/ (t[1] \in {"buffer", "return"} /\ t[2] \in h.roots),
           \A x \in Node : x \in X \/ Holds(t, x) \/ About(h, t, x) => x \in Y
    PROVE  Carries(h, hd, Append(st, t), X, h, hd, st, Y)
<1>1. ASSUME NEW x \in Node, Astray(h, hd, st, Y, x) PROVE Astray(h, hd, Append(st, t), X, x)
  BY <1>1, PushHolds, PushNotes DEF Astray
<1>2. ASSUME NEW z \in Zval, Ends(Append(st, t), z) PROVE Ends(st, z)
  BY <1>2, PushEnds DEF Quiet
<1>3. ASSUME NEW x \in Node, Purpled(h, Append(st, t), x) PROVE Purpled(h, st, x)
  BY <1>3, PushEnds, PushDestructs DEF Purpled, Quiet
<1> QED
  BY <1>1, <1>2, <1>3 DEF Carries

\* Who is noted depends on the buffer, the tasks and what zvals refer to.
LEMMA NotedSame ==
    ASSUME NEW h, NEW g, NEW st, g.roots = h.roots, g.obj = h.obj, NEW x
    PROVE  Noted(g, st, x) <=> Noted(h, st, x)
BY DEF Noted, About

\* A count is set.
LEMMA RcCarries ==
    ASSUME NEW h \in Heaps, NEW hd, NEW st, NEW X, NEW z \in Node, NEW v, NEW g, RcOf(g, h, z, v),
           z \in X \/ h.rc[z] > 0 \/ ~Unheld(g, hd, st, z),
           z \in Zval => v # 0 \/ (h.type[z] = "null" /\ h.addr[z] # "list"),
           z \in Object => (v = 0 /\ h.type[z] # "free") \/ h.rc[z] # 0 \/ Destructs(st, z) \/ Going(st, z)
    PROVE  Carries(h, hd, st, X, g, hd, st, X)
<1>1. ASSUME NEW x \in Node PROVE Noted(g, st, x) <=> Noted(h, st, x)
  BY NotedSame DEF RcOf
<1>2. ASSUME NEW x \in Node, Astray(g, hd, st, X, x) PROVE Astray(h, hd, st, X, x)
  BY <1>1, <1>2 DEF Astray, Unheld, RcOf
<1>3. ASSUME NEW y \in Node PROVE Counted(g, y) = Counted(h, y)
  BY CountedSame DEF RcOf
<1>4. ASSUME NEW y \in Zval, Spent(g, y) PROVE Spent(h, y)
  BY <1>4, Apartness DEF Spent, RcOf
<1>5. ASSUME NEW x \in Node, ~Purpled(g, st, x) PROVE ~Purpled(h, st, x)
  BY <1>5 DEF Purpled, RcOf
<1> QED
  BY <1>2, <1>3, <1>4, <1>5 DEF Carries, RcOf

\* A node becomes purple that is noted as such.
LEMMA PurpleCarries ==
    ASSUME NEW h \in Heaps, NEW hd, NEW st, NEW X, NEW x \in Node, Purpled(h, st, x)
    PROVE  Carries(h, hd, st, X, Purple(h, x), hd, st, X)
<1> DEFINE g == Purple(h, x)
<1>1. /\ g.type = h.type /\ g.kids = h.kids /\ g.obj = h.obj
      /\ g.rc = h.rc /\ g.addr = h.addr /\ g.roots = h.roots
      /\ \A y \in Node : y # x => g.col[y] = h.col[y]
  BY PurpleFields
<1> HIDE DEF g
<1>2. ASSUME NEW y \in Node PROVE Noted(g, st, y) <=> Noted(h, st, y)
  BY <1>1, NotedSame
<1>3. ASSUME NEW y \in Node, Astray(g, hd, st, X, y) PROVE Astray(h, hd, st, X, y)
  BY <1>1, <1>2, <1>3 DEF Astray, Unheld
<1>4. ASSUME NEW y \in Node PROVE Counted(g, y) = Counted(h, y)
  BY <1>1, CountedSame
<1>5. ASSUME NEW y \in Node PROVE Purpled(g, st, y) <=> Purpled(h, st, y)
  BY <1>1 DEF Purpled
<1>6. ASSUME NEW y \in Zval PROVE Spent(g, y) <=> Spent(h, y)
  BY <1>1 DEF Spent
<1>7. Carries(h, hd, st, X, g, hd, st, X)
  BY <1>1, <1>3, <1>4, <1>5, <1>6 DEF Carries
<1> QED
  BY <1>7 DEF g

\* A node becomes a root, and purple.
LEMMA RootCarries ==
    ASSUME NEW h \in Heaps, NEW hd, NEW st, NEW X, NEW x \in Node, NEW f \in Heaps,
           h.addr[x] # "list", h.type[x] # "null",
           f.type = h.type, f.kids = h.kids, f.obj = h.obj, f.rc = h.rc, f.addr = h.addr,
           f.roots = h.roots, \A y \in Node : y # x => f.col[y] = h.col[y]
    PROVE  Carries(h, hd, st, X \cup {x}, AddRoot(f, x), hd, st, X)
<1> DEFINE g == AddRoot(f, x)
<1>1. /\ g.type = h.type /\ g.kids = h.kids /\ g.obj = h.obj /\ g.rc = h.rc
      /\ g.roots = h.roots \cup {x} /\ g.addr[x] = "root"
      /\ \A y \in Node : y # x => g.col[y] = h.col[y] /\ g.addr[y] = h.addr[y]
  BY RootFields
<1> HIDE DEF g
<1>2. ASSUME NEW y \in Node, y # x PROVE Noted(g, st, y) <=> Noted(h, st, y)
  BY <1>1, <1>2 DEF Noted, About
<1>3. Noted(g, st, x) /\ Purpled(g, st, x)
  BY <1>1 DEF Noted, Purpled
<1>4. ASSUME NEW y \in Node, Astray(g, hd, st, X, y) PROVE Astray(h, hd, st, X \cup {x}, y)
  BY <1>1, <1>2, <1>3, <1>4 DEF Astray, Unheld
<1>5. ASSUME NEW y \in Node PROVE Counted(g, y) = Counted(h, y)
  BY <1>1, CountedSame
<1>6. ASSUME NEW y \in Node, y # x PROVE Purpled(g, st, y) <=> Purpled(h, st, y)
  BY <1>1, <1>6 DEF Purpled
<1>7. ASSUME NEW y \in Zval PROVE Spent(g, y) <=> Spent(h, y)
  BY <1>1, Apartness DEF Spent
<1>8. Carries(h, hd, st, X \cup {x}, g, hd, st, X)
  BY <1>1, <1>3, <1>4, <1>5, <1>6, <1>7 DEF Carries
<1> QED
  BY <1>8 DEF g

\* What a collection condemns has references, of its own.
LEMMA GarbageUnheld ==
    ASSUME NEW h, NEW hd, NEW st, Good(h, hd, st), Idle(h, st), NEW x \in Garbage(h)
    PROVE  Unheld(h, hd, st, x)
<1>1. /\ h \in Heaps /\ Kinds(h) /\ Exact(h, hd, st) /\ st \in Seq(Tasks) /\ Rooted(h) /\ Dying(h, hd, st)
  BY DEF Good, AlmostGood, Shape
<1>2. /\ x \in Node /\ x \in Found(h) /\ x \notin hd /\ \A i \in 1 .. Len(st) : ~Holds(st[i], x)
      /\ Referrers(h, x) = Inside(h, x)
  BY GarbageIsolated
<1>3. h.rc[x] \in Nat /\ \A y \in Node : x \in Counted(h, y) => h.rc[x] > 0
  BY <1>1, <1>2, CountsType
<1>4. CASE x \in h.roots
  <2>1. h.type[x] \in {"array", "valid"} /\ (x \in Object => h.rc[x] > 0)
    BY <1>1, <1>2, <1>4 DEF Rooted
  <2>2. ASSUME x \in Zval, h.rc[x] = 0 PROVE FALSE
    <3>1. Ends(st, x)
      BY <2>1, <2>2 DEF Idle, Spent
    <3>2. PICK j \in 1 .. Len(st) : st[j] = <<"efree", x>>
      BY <3>1 DEF Ends
    <3>3. st[j][1] = "efree" /\ st[j][2] = x
      BY <3>2
    <3>4. h.type[x] = "null"
      BY <1>1, <3>3 DEF Dying
    <3> QED
      BY <2>1, <3>4
  <2> QED
    BY <1>2, <1>3, <2>1, <2>2, Apartness DEF Unheld
<1>5. CASE x \notin h.roots
  <2>1. PICK y \in Found(h) : x \in Out(h, y)
    BY <1>1, <1>2, <1>5, FoundIs
  <2>2. y \in Referrers(h, x)
    BY <1>2, <2>1 DEF Inside
  <2> QED
    BY <1>2, <1>3, <2>2 DEF Referrers, Unheld
<1> QED
  BY <1>4, <1>5

\* An object that is condemned has none left.
LEMMA GarbageZero ==
    ASSUME NEW h, NEW hd, NEW st, Good(h, hd, st), Idle(h, st), NEW g, CollectedOf(g, h),
           NEW x \in Garbage(h) \cap Object
    PROVE  g.rc[x] = 0
<1>1. /\ x \in Node /\ Referrers(h, x) = Inside(h, x)
      /\ \A y \in Referrers(h, x) : y \in Garbage(h)
  BY GarbageIsolated
<1>2. Unheld(h, hd, st, x)
  BY GarbageUnheld
<1>3. h.rc[x] = Cardinality(Referrers(h, x))
  BY <1>1, <1>2, UnheldCount
<1>4. Lost(h, x) = Referrers(h, x)
  <2>1. Garbage(h) \subseteq Found(h)
    BY DEF Garbage
  <2> QED
    BY <1>1, <2>1 DEF Lost, Inside
<1>5. Cardinality(Referrers(h, x)) \in Nat
  BY RefsType DEF Good, AlmostGood
<1> QED
  BY <1>3, <1>4, <1>5 DEF CollectedOf

\* Nodes that nothing but themselves refers to are not found to be alive,
\* unless an element of an interrupted list leads to them.
LEMMA NotLive ==
    ASSUME NEW h, NEW hd, NEW st, Good(h, hd, st), NEW P \in SUBSET Found(h), ~Overlooks(h, st),
           \A x \in P : Unheld(h, hd, st, x) /\ Referrers(h, x) \subseteq P
    PROVE  P \cap Live(h) = {}
<1>1. /\ h \in Heaps /\ Kinds(h) /\ st \in Seq(Tasks) /\ Found(h) \in SUBSET Node /\ P \in SUBSET Node
  BY FoundIs DEF Good, AlmostGood
<1>2. ASSUME NEW x \in P PROVE ~(h.rc[x] > Cardinality(Inside(h, x)))
  <2>1. h.rc[x] = Cardinality(Referrers(h, x))
    BY <1>1, UnheldCount
  <2>2. Referrers(h, x) \subseteq Inside(h, x)
    <3>1. ASSUME NEW y \in Referrers(h, x) PROVE y \in Found(h) /\ x \in Out(h, y)
      BY DEF Referrers, Counted
    <3> QED
      BY <3>1 DEF Inside
  <2>3. Inside(h, x) \in SUBSET Node
    BY <1>1 DEF Inside
  <2>4. IsFiniteSet(Inside(h, x))
    BY <2>3, NodesFinite
  <2>5. Cardinality(Referrers(h, x)) <= Cardinality(Inside(h, x))
        /\ Cardinality(Referrers(h, x)) \in Nat /\ Cardinality(Inside(h, x)) \in Nat
    BY <2>2, <2>4, FS_Subset, FS_CardinalityType
  <2> QED
    BY <2>1, <2>5
<1> DEFINE U == Found(h) \ P
<1>3. Outside(h) \subseteq U
  BY <1>2 DEF Outside
<1>4. ASSUME NEW x \in U, NEW y \in Out(h, x) PROVE y \in U
  <2>1. x \in Found(h) /\ x \in Node /\ y \in Found(h)
    BY <1>1, <1>4, FoundIs
  <2>2. ASSUME y \in P PROVE FALSE
    <3>1. Unheld(h, hd, st, y) /\ x \notin Referrers(h, y) /\ y \in Node
      BY <1>1, <1>4, <2>2
    <3>2. Uncounted(h, x)
      BY <1>4, <2>1, <3>1 DEF Referrers, Counted
    <3>3. y = h.obj[x] /\ x \in Zval
      BY <1>1, <1>4, <2>1, <3>2, Apartness DEF Uncounted, Out, Kinds
    <3>4. y \in Object
      BY <1>1, <3>2, <3>3 DEF Uncounted, Kinds
    <3>5. h.type[y] = "valid"
      <4>1. h.rc[y] > 0 /\ h.type[y] \in {"free", "valid"} /\ (h.type[y] = "free" => h.rc[y] = 0)
        BY <1>1, <3>1, <3>4 DEF Unheld, Kinds
      <4> QED
        BY <4>1
    <3>6. y \notin Waiting(h)
      <4>1. h.rc[y] > 0 /\ h.rc[y] \in Int
        BY <1>1, <3>1 DEF Unheld, Heaps
      <4> QED
        BY <4>1 DEF Waiting
    <3>7. y \notin ThisOf(st)
      <4>1. ASSUME y \in ThisOf(st) PROVE FALSE
        <5>1. PICK j \in 1 .. Len(st) : st[j][1] = "user" /\ st[j][2] = y
          BY <1>1, <4>1 DEF ThisOf
        <5>2. Holds(st[j], y)
          BY <5>1 DEF Holds
        <5> QED
          BY <3>1, <5>2 DEF Unheld
      <4> QED
        BY <4>1
    <3> QED
      BY <2>1, <3>2, <3>3, <3>5, <3>6, <3>7 DEF Overlooks
  <2> QED
    BY <2>1, <2>2
<1>5. Links(h) \in [Node -> SUBSET Node] /\ \A x \in Node : Links(h)[x] = Out(h, x)
  BY <1>1, LinksType
<1>6. Live(h) = Reach(Links(h), Outside(h)) /\ Outside(h) \in SUBSET Node
  BY <1>1, LiveOutside DEF Outside
<1>7. \A x \in U \cap Node : Links(h)[x] \subseteq U
  BY <1>4, <1>5
<1> HIDE DEF U
<1>8. Live(h) \subseteq U
  BY <1>3, <1>5, <1>6, <1>7, ReachLeast
<1> QED
  BY <1>8 DEF U

\* The stack after a collection, with its list or without.
WithList(h, st, s2) ==
    /\ \A x \in Node : \A f, hd : Unheld(f, hd, s2, x) => Unheld(f, hd, st, x) /\ x \notin Garbage(h) \cap Zval
    /\ \A x \in Node : \A f : /\ Noted(f, st, x) => Noted(f, s2, x)
                              /\ Purpled(f, st, x) => Purpled(f, s2, x)
                              /\ Ends(st, x) => Ends(s2, x)
    /\ \A f : Checked(f, st) => Checked(f, s2)

\* What a collection has not overlooked is findable after it: a node that has
\* left the buffer lives on, and what keeps it can be followed up to a node that
\* is held, or is one that was not found and is astray itself.
LEMMA CollectFindable ==
    ASSUME NEW h, NEW hd, NEW st, Good(h, hd, st), Idle(h, st), Findable(h, hd, st, {}),
           ~Overlooks(h, st), NEW g, CollectedOf(g, h), NEW s2, WithList(h, st, s2)
    PROVE  Findable(g, hd, s2, {})
<1> SUFFICES ASSUME NEW S \in SUBSET Node,
                    \A x \in S : Astray(g, hd, s2, {}, x) /\ Referrers(g, x) \subseteq S
             PROVE  S = {}
  BY DEF Findable
<1>1. /\ h \in Heaps /\ Kinds(h) /\ st \in Seq(Tasks) /\ Exact(h, hd, st)
      /\ Found(h) \in SUBSET Node /\ Garbage(h) \subseteq Found(h)
  BY FoundIs DEF Good, AlmostGood, Garbage
<1>2. ASSUME NEW x \in S
      PROVE  /\ x \notin Garbage(h) /\ Unheld(h, hd, st, x)
             /\ ~(\E j \in 1 .. Len(st) : About(h, st[j], x))
             /\ \A y \in Referrers(h, x) : y \in S \/ y \in Garbage(h)
  <2>1. /\ Unheld(g, hd, s2, x) /\ ~Noted(g, s2, x) /\ Referrers(g, x) \subseteq S /\ x \in Node
    BY <1>2 DEF Astray
  <2>2. Unheld(g, hd, st, x) /\ ~Noted(g, st, x) /\ x \notin Garbage(h) \cap Zval
    BY <2>1 DEF WithList
  <2>3. x \notin Garbage(h)
    <3>1. ASSUME x \in Garbage(h) \cap Object PROVE FALSE
      <4>1. g.rc[x] = 0
        BY <3>1, GarbageZero
      <4> QED
        BY <2>2, <4>1 DEF Unheld
    <3> QED
      BY <2>1, <2>2, <3>1, Apartness
  <2>4. h.rc[x] > 0
    <3>1. g.rc[x] > 0 /\ h.rc[x] \in Nat
      BY <1>1, <2>1, <2>2, CountsType DEF Unheld
    <3>2. CASE x \in Zval
      BY <2>3, <3>1, <3>2 DEF CollectedOf
    <3>3. CASE x \in Object
      <4>1. g.rc[x] = h.rc[x] - Cardinality(Lost(h, x)) /\ Cardinality(Lost(h, x)) \in Nat
        BY <1>1, <3>3, LostType DEF CollectedOf
      <4> QED
        BY <3>1, <4>1
    <3> QED
      BY <2>1, <3>2, <3>3, Apartness
  <2>5. Unheld(h, hd, st, x)
    BY <2>2, <2>4 DEF Unheld
  <2>6. ~(\E j \in 1 .. Len(st) : About(h, st[j], x))
    BY <2>2 DEF Noted, About, CollectedOf
  <2>7. \A y \in Referrers(h, x) : y \in Referrers(g, x) \/ y \in Garbage(h)
    <3>1. CASE x \in Zval
      BY <3>1, CollectedRefs
    <3>2. CASE x \in Object
      BY <3>2, CollectedRefs DEF Lost
    <3> QED
      BY <2>1, <3>1, <3>2, Apartness
  <2> QED
    BY <2>1, <2>3, <2>5, <2>6, <2>7
<1> DEFINE P == S \cup Garbage(h)
<1>3. ASSUME NEW x \in P PROVE Unheld(h, hd, st, x) /\ Referrers(h, x) \subseteq P
  <2>1. CASE x \in S
    BY <1>2, <2>1
  <2>2. CASE x \in Garbage(h)
    <3>1. Unheld(h, hd, st, x)
      BY <2>2, GarbageUnheld
    <3>2. \A y \in Referrers(h, x) : y \in Garbage(h)
      BY <2>2, GarbageIsolated
    <3> QED
      BY <3>1, <3>2
  <2> QED
    BY <2>1, <2>2
<1>4. P \subseteq Found(h)
  <2> DEFINE Q == P \ Found(h)
  <2>1. Q \in SUBSET Node /\ \A x \in Q : x \in S /\ x \in P
    BY <1>1
  <2>2. ASSUME NEW x \in Q PROVE Astray(h, hd, st, {}, x)
    <3>1. x \notin h.roots
      BY <1>1, FoundIs
    <3> QED
      BY <1>2, <2>1, <3>1 DEF Astray, Noted
  <2>3. ASSUME NEW x \in Q, NEW y \in Referrers(h, x) PROVE y \in Q
    <3>1. y \in P
      BY <1>3, <2>1
    <3>2. ASSUME y \in Found(h) PROVE FALSE
      <4>1. x \in Out(h, y)
        BY <2>3 DEF Referrers, Counted
      <4> QED
        BY <1>1, <3>2, <4>1, FoundIs
    <3> QED
      BY <3>1, <3>2
  <2> HIDE DEF Q
  <2>4. \A x \in Q : Astray(h, hd, st, {}, x) /\ Referrers(h, x) \subseteq Q
    BY <2>2, <2>3
  <2>5. Q = {}
    BY <2>1, <2>4 DEF Findable
  <2> QED
    BY <2>5 DEF Q
<1>5. P \in SUBSET Found(h)
  BY <1>4
<1>6. P \cap Live(h) = {}
  <2> HIDE DEF P
  <2> QED
    BY <1>3, <1>5, NotLive
<1> QED
  <2>1. ASSUME NEW x \in S PROVE FALSE
    <3>1. x \in Found(h) /\ x \notin Live(h) /\ x \notin Garbage(h)
      BY <1>2, <1>4, <1>6
    <3> QED
      BY <3>1 DEF Garbage
  <2> QED
    BY <2>1

\* A stack without a new list.
LEMMA WithNone ==
    ASSUME NEW h, NEW st, Garbage(h) \cap Zval = {} PROVE WithList(h, st, st)
BY DEF WithList

\* A stack with one.
LEMMA WithSome ==
    ASSUME NEW h, NEW st \in Seq(Tasks), NEW l \in Orders(Garbage(h) \cap Zval)
    PROVE  WithList(h, st, Append(st, <<"dtors", l, l>>))
<1> DEFINE t == <<"dtors", l, l>>
<1>1. t \in Tasks /\ InList(t) = Garbage(h) \cap Zval
  BY OrderIs
<1>2. Quiet(t) /\ t[1] # "delref"
  BY DEF Quiet
<1> HIDE DEF t
<1>3. \A x \in Node : x \in Garbage(h) \cap Zval => Holds(t, x)
  BY <1>1 DEF Holds
<1>4. ASSUME NEW x \in Node, NEW f, NEW hd, Unheld(f, hd, Append(st, t), x)
      PROVE  Unheld(f, hd, st, x) /\ x \notin Garbage(h) \cap Zval
  BY <1>1, <1>3, <1>4, PushHolds
<1>5. ASSUME NEW x \in Node, NEW f
      PROVE  /\ Noted(f, st, x) => Noted(f, Append(st, t), x)
             /\ Purpled(f, st, x) => Purpled(f, Append(st, t), x)
             /\ Ends(st, x) => Ends(Append(st, t), x)
  BY <1>1, <1>2, PushNotes, PushQuiet
<1>6. ASSUME NEW f PROVE Checked(f, st) => Checked(f, Append(st, t))
  BY <1>1, <1>2, PushChecked
<1>7. WithList(h, st, Append(st, t))
  BY <1>4, <1>5, <1>6 DEF WithList
<1> QED
  BY <1>7 DEF t

\* What the roots lead to is black, but for the objects that are condemned.
Bleached(g, h) ==
    \A x \in Node : x \notin Garbage(h) \cap Object =>
        g.col[x] = IF x \in Found(h) THEN "black" ELSE h.col[x]

\* What zval_collect_white and gc_scan_black have coloured.
LEMMA CollectedColours == ASSUME NEW h \in Heaps PROVE Bleached(Collected(h), h)
<1> DEFINE G == Garbage(h) \cap Object
           col == [x \in Node |-> IF x \in G THEN "purple"
                                  ELSE IF x \in Found(h) THEN "black" ELSE h.col[x]]
<1>1. Collected(h).col = col
  BY DEF Collected, Heaps
<1>2. \A x \in Node : x \notin G => col[x] = IF x \in Found(h) THEN "black" ELSE h.col[x]
  OBVIOUS
<1> HIDE DEF G, col
<1>3. \A x \in Node : x \notin G =>
         Collected(h).col[x] = IF x \in Found(h) THEN "black" ELSE h.col[x]
  BY <1>1, <1>2
<1> QED
  BY <1>3 DEF Bleached, G

\* The rest of what Fine says.
LEMMA CollectTidy ==
    ASSUME NEW h, NEW hd, NEW st, Good(h, hd, st), Idle(h, st), PurpleNoted(h, st), Checked(h, st),
           NEW g, CollectedOf(g, h), Bleached(g, h), NEW s2, WithList(h, st, s2)
    PROVE  Idle(g, s2) /\ PurpleNoted(g, s2) /\ Checked(g, s2)
<1>1. /\ h \in Heaps /\ Kinds(h) /\ st \in Seq(Tasks) /\ Rooted(h) /\ Exact(h, hd, st)
      /\ h.roots \in SUBSET Node /\ h.roots \subseteq Found(h)
  BY FoundIs DEF Good, AlmostGood, Heaps
<1>2. ASSUME NEW z \in Zval, Spent(g, z) PROVE Ends(s2, z)
  <2>1. z \in Node /\ h.rc[z] \in Nat /\ g.type = h.type
    BY <1>1, Apartness, CountsType DEF CollectedOf
  <2>2. g.rc[z] = 0 => h.rc[z] = 0
    BY <2>1 DEF CollectedOf
  <2>3. g.addr[z] # "list" => h.addr[z] # "list"
    BY <1>1, <2>1 DEF CollectedOf, Rooted
  <2>4. Spent(h, z)
    BY <1>2, <2>1, <2>2, <2>3 DEF Spent
  <2> QED
    BY <2>1, <2>4 DEF Idle, WithList
<1>3. ASSUME NEW x \in Node, g.col[x] = "purple" PROVE Purpled(g, s2, x)
  <2>1. CASE x \in Garbage(h) \cap Object
    <3>1. g.rc[x] = 0 /\ g.type[x] # "free"
      BY <1>1, <2>1, GarbageZero, GarbageThere DEF CollectedOf
    <3> QED
      BY <2>1, <3>1 DEF Purpled
  <2>2. CASE x \notin Garbage(h) \cap Object
    <3>1. x \notin Found(h) /\ h.col[x] = "purple"
      BY <1>3, <2>2 DEF Bleached
    <3>2. Purpled(h, st, x) /\ x \notin h.roots
      BY <1>1, <3>1 DEF PurpleNoted
    <3>3. g.type = h.type /\ (x \in Object /\ h.rc[x] = 0 /\ h.type[x] # "free" => g.rc[x] = 0)
      BY LostNothing DEF CollectedOf
    <3>4. Purpled(g, st, x)
      BY <3>2, <3>3 DEF Purpled
    <3> QED
      BY <3>4 DEF WithList
  <2> QED
    BY <2>1, <2>2
<1>4. Checked(g, st)
  BY DEF Checked, CheckAt, CollectedOf
<1> QED
  BY <1>2, <1>3, <1>4 DEF Idle, PurpleNoted, WithList

\* What gc_collect_cycles leaves can be found, or it says what it has missed.
Sound(h, hd, st, X, m) == Fine(h, hd, st, X, m) /\ Checked(h, st)

\* A collection leaves all that can be found findable, or is known to have missed
\* something.
LEMMA CollectSound ==
    ASSUME NEW h, NEW hd, NEW st, Good(h, hd, st), Sound(h, hd, st, {}, missed), Collect(h, st)
    PROVE  Sound(heap', hd, stack', {}, missed')
<1>1. h \in Heaps /\ st \in Seq(Tasks) /\ Kinds(h)
  BY DEF Good, AlmostGood
<1>2. CollectedOf(Collected(h), h) /\ Bleached(Collected(h), h)
  BY <1>1, CollectedFields, CollectedColours
<1>3. heap' = Collected(h) /\ missed' = (missed \/ Overlooks(h, st))
  BY DEF Collect
<1>4. WithList(h, st, stack')
  <2>1. CASE Garbage(h) \cap Zval = {}
    <3>1. stack' = st
      BY <2>1 DEF Collect
    <3> QED
      BY <2>1, <3>1, WithNone
  <2>2. CASE Garbage(h) \cap Zval # {}
    <3>1. PICK l \in Orders(Garbage(h) \cap Zval) : stack' = Append(st, <<"dtors", l, l>>)
      BY <2>2 DEF Collect
    <3>2. WithList(h, st, Append(st, <<"dtors", l, l>>))
      BY <1>1, WithSome
    <3> QED
      BY <3>1, <3>2
  <2> QED
    BY <2>1, <2>2
<1> DEFINE g == Collected(h)
<1> HIDE DEF g
<1>5. ASSUME NEW s2, WithList(h, st, s2) PROVE Idle(g, s2) /\ PurpleNoted(g, s2) /\ Checked(g, s2)
  BY <1>2, <1>5, CollectTidy DEF Sound, Fine, g
<1>6. ASSUME NEW s2, WithList(h, st, s2) PROVE missed \/ Overlooks(h, st) \/ Findable(g, hd, s2, {})
  BY <1>2, <1>6, CollectFindable DEF Sound, Fine, g
<1> QED
  BY <1>3, <1>4, <1>5, <1>6 DEF Sound, Fine, g

\* The tasks that check depend on what zvals refer to alone.
LEMMA CheckedSame ==
    ASSUME NEW h, NEW g, NEW st, g.obj = h.obj, Checked(h, st) PROVE Checked(g, st)
BY DEF Checked, CheckAt

\* gc_zobj_possible_root: what it is to buffer can be found afterwards.
LEMMA BufferedSound ==
    ASSUME NEW h, NEW hd, NEW st, NEW x \in Node, Good(h, hd, st), ~BufferFull(h, x),
           h.addr[x] # "list", h.type[x] # "null", NEW m, Sound(h, hd, st, {x}, m)
    PROVE  Sound(Buffered(h, x), hd, st, {}, m)
<1>1. h \in Heaps /\ st \in Seq(Tasks) /\ Rooted(h)
  BY DEF Good, AlmostGood
<1>2. Fine(h, hd, st, {} \cup {x}, m) /\ Checked(h, st)
  <2>1. {x} = {} \cup {x}
    OBVIOUS
  <2> QED
    BY <2>1 DEF Sound
<1> DEFINE g == Purple(h, x)
<1>3. /\ g \in Heaps /\ g.type = h.type /\ g.kids = h.kids /\ g.obj = h.obj /\ g.rc = h.rc
      /\ g.addr = h.addr /\ g.roots = h.roots /\ \A y \in Node : y # x => g.col[y] = h.col[y]
  BY <1>1, PurpleFields
<1>4. CASE h.col[x] = "purple"
  <2>1. Purpled(h, st, x)
    BY <1>2, <1>4 DEF Fine, PurpleNoted
  <2>2. ASSUME NEW j \in 2 .. Len(st), \/ st[j] = <<"user", x>>
                                      \/ st[j - 1] = <<"user", x>>
        PROVE  ~Unheld(h, hd, st, x)
    <3>1. j \in 1 .. Len(st) /\ j - 1 \in 1 .. Len(st)
      BY <1>1
    <3>2. Holds(<<"user", x>>, x)
      BY DEF Holds
    <3> QED
      BY <2>2, <3>1, <3>2 DEF Unheld
  <2>3. Noted(h, st, x) \/ ~Unheld(h, hd, st, x)
    <3>1. CASE \E j \in 1 .. Len(st) : st[j][1] = "buffer" /\ st[j][2] = x
      BY <3>1 DEF Noted, About
    <3>2. CASE Leaving(st, x)
      BY <2>2, <3>2 DEF Leaving
    <3>3. CASE x \in Object /\ h.rc[x] = 0
      BY <3>3 DEF Unheld
    <3>4. CASE Going(st, x)
      BY <3>4 DEF Going, Unheld, Holds
    <3>5. CASE Destructs(st, x)
      BY <2>2, <3>5 DEF Destructs
    <3> QED
      BY <2>1, <3>1, <3>2, <3>3, <3>4, <3>5 DEF Purpled, Noted, Bought
  <2>4. Fine(h, hd, st, {}, m)
    BY <1>2, <2>3, Known
  <2> QED
    BY <1>2, <1>4, <2>4 DEF Sound, Buffered
<1>5. CASE h.col[x] # "purple" /\ h.addr[x] # "null"
  <2>1. Buffered(h, x) = g
    BY <1>5 DEF Buffered, Purple
  <2>2. x \in h.roots
    <3>1. h.addr[x] \in {"null", "root", "list"}
      BY <1>1 DEF Heaps
    <3> QED
      BY <1>1, <1>5, <3>1 DEF Rooted
  <2>3. Carries(h, hd, st, {}, g, hd, st, {})
    BY <1>1, <2>2, PurpleCarries DEF Purpled
  <2> HIDE DEF g
  <2>4. Fine(h, hd, st, {}, m)
    BY <1>2, <2>2, Known DEF Noted
  <2>5. Fine(g, hd, st, {}, m)
    BY <2>3, <2>4, Carry
  <2> QED
    BY <1>2, <1>3, <2>1, <2>5, CheckedSame DEF Sound
<1>6. CASE h.col[x] # "purple" /\ h.addr[x] = "null"
  <2>1. Buffered(h, x) = AddRoot(g, x)
    BY <1>1, <1>6, AsRootIs DEF Buffered
  <2> HIDE DEF g
  <2>2. Carries(h, hd, st, {} \cup {x}, AddRoot(g, x), hd, st, {})
    BY <1>1, <1>3, RootCarries
  <2>3. Fine(AddRoot(g, x), hd, st, {}, m)
    BY <1>2, <2>2, Carry
  <2>4. AddRoot(g, x).obj = h.obj
    BY <1>3, RootFields
  <2> QED
    BY <1>2, <2>1, <2>3, <2>4, CheckedSame DEF Sound
<1> QED
  BY <1>4, <1>5, <1>6

\* So it can when a collection comes first.
LEMMA BufferSound ==
    ASSUME NEW h, NEW hd, NEW st, NEW x, NEW z, Good(h, hd, st), Ready(h, st, x, z), Buffer(h, x, z, st),
           Sound(h, hd, st, {x}, missed)
    PROVE  Sound(heap', hd, stack', {}, missed')
<1>1. h \in Heaps /\ st \in Seq(Tasks) /\ st \o <<>> = st /\ Rooted(h) /\ Kinds(h)
  <2>1. h \in Heaps /\ st \in Seq(Tasks) /\ Rooted(h) /\ Kinds(h)
    BY DEF Good, AlmostGood
  <2> QED
    BY <2>1
<1>2. /\ x \in Node /\ z \in Zval /\ z \in Node /\ h.addr[x] # "list" /\ h.addr[z] # "list"
      /\ h.type[z] # "free" /\ h.type[x] # "null"
  BY Apartness DEF Ready
<1>3. Fine(h, hd, st, {x}, missed) /\ Checked(h, st)
  BY DEF Sound
<1> DEFINE g == Purple(h, x)
<1>4. /\ g \in Heaps /\ g.type = h.type /\ g.kids = h.kids /\ g.obj = h.obj /\ g.rc = h.rc
      /\ g.addr = h.addr /\ g.done = h.done /\ g.roots = h.roots
      /\ \A y \in Node : y # x => g.col[y] = h.col[y]
  BY <1>1, <1>2, PurpleFields
<1>5. Good(g, hd, st)
  BY <1>2, ColourChange
<1>6. CASE ~BufferFull(h, x)
  <2>1. heap' = Buffered(h, x) /\ stack' = st /\ missed' = missed
    BY <1>1, <1>6 DEF Buffer, Continues
  <2>2. Sound(Buffered(h, x), hd, st, {}, missed)
    BY <1>2, <1>6, BufferedSound
  <2> QED
    BY <2>1, <2>2
<1>7. CASE BufferFull(h, x)
  <2> DEFINE t == <<"buffer", x, z>>
             f == SetRc(g, z, g.rc[z] + 1)
  <2>1. Collect([h EXCEPT !.col[x] = "purple", !.rc[z] = @ + 1], st \o <<t>>)
    BY <1>7 DEF Buffer
  <2>2. [h EXCEPT !.col[x] = "purple", !.rc[z] = @ + 1] = f
    BY DEF SetRc, Purple
  <2>3. t \in Tasks
    BY <1>2, MadeBuffer
  <2>4. st \o <<t>> = Append(st, t)
    BY <1>1, <2>3, Sequences
  <2>5. Fits(g, hd, st, t)
    BY <1>4 DEF Ready, Fits, IsList, Rests, To
  <2>6. Good(f, hd, Append(st, t))
    BY <1>2, <1>4, <1>5, <2>5, BufferPush
  <2>7. Collect(f, Append(st, t))
    BY <2>1, <2>2, <2>4
  <2>8. t[1] = "buffer" /\ t[2] = x /\ Holds(t, z)
    BY DEF Holds
  <2>9. g.rc[z] \in Nat /\ g.rc[z] + 1 \in Int
    <3>1. Exact(g, hd, st) /\ Kinds(g) /\ g \in Heaps
      BY <1>5 DEF Good, AlmostGood
    <3> QED
      BY <1>1, <1>2, <3>1, CountsType
  <2>10. RcOf(f, g, z, g.rc[z] + 1)
    BY <1>2, <1>4, <2>9, RcFields
  <2> HIDE DEF t, f
  <2>11. Append(st, t) \in Seq(Tasks)
    BY <1>1, <2>3
  <2>12. Carries(h, hd, st, {x}, h, hd, Append(st, t), {})
    <3>1. \A y \in {x} : y \in {} \/ Holds(t, y) \/ About(h, t, y)
      BY <2>8 DEF About
    <3> QED
      BY <1>1, <2>3, <3>1, PushCarries
  <2>13. Purpled(h, Append(st, t), x)
    BY <1>1, <2>3, <2>8, PushEnds DEF Purpled
  <2>14. Carries(h, hd, Append(st, t), {}, g, hd, Append(st, t), {})
    BY <1>1, <1>2, <2>13, PurpleCarries
  <2> HIDE DEF g
  <2>15. Carries(g, hd, Append(st, t), {}, f, hd, Append(st, t), {})
    <3>1. ~Unheld(f, hd, Append(st, t), z)
      BY <1>1, <2>3, <2>8, PushHolds
    <3>2. z \notin Object /\ g.rc[z] + 1 # 0
      BY <1>2, <2>9, Apartness
    <3> QED
      BY <1>2, <1>4, <2>10, <3>1, <3>2, RcCarries
  <2>16. Fine(f, hd, Append(st, t), {}, missed)
    <3>1. Fine(h, hd, Append(st, t), {}, missed)
      BY <1>3, <2>12, Carry
    <3>2. Fine(g, hd, Append(st, t), {}, missed)
      BY <2>14, <3>1, Carry
    <3> QED
      BY <2>15, <3>2, Carry
  <2>17. Checked(f, Append(st, t))
    <3>1. Checked(h, Append(st, t))
      BY <1>1, <1>3, <2>3, <2>8, PushChecked
    <3>2. f.obj = h.obj
      BY <1>4, <2>10 DEF RcOf
    <3> QED
      BY <3>1, <3>2, CheckedSame
  <2> QED
    BY <2>6, <2>7, <2>16, <2>17, CollectSound DEF Sound
<1> QED
  BY <1>6, <1>7

\* A reference was dropped that was not the last one: z can be found.
LEMMA PossibleRootSound ==
    ASSUME NEW h, NEW hd, NEW st, NEW z \in Zval, Good(h, hd, st), h.rc[z] > 0,
           PossibleRoot(h, z, st), \A i \in 1 .. Len(st) : IsList(st[i]) => Listed,
           Sound(h, hd, st, {z}, missed)
    PROVE  Sound(heap', hd, stack', {}, missed')
<1>1. h \in Heaps /\ st \in Seq(Tasks) /\ Lists(h, st) /\ Kinds(h) /\ z \in Node
  BY Apartness DEF Good, AlmostGood, Shape
<1>2. st \o <<>> = st /\ {z} = {} \cup {z}
  BY <1>1
<1>3. Fine(h, hd, st, {} \cup {z}, missed) /\ Checked(h, st)
  BY <1>2 DEF Sound
<1>4. CASE h.addr[z] = "list"
  <2>1. h.col[z] = "black" /\ \E i \in 1 .. Len(st) : z \in InList(st[i])
    BY <1>1, <1>4 DEF Lists
  <2>2. Listed
    BY <2>1 DEF InList, IsList
  <2>3. heap' = h /\ stack' = st /\ missed' = missed
    BY <1>2, <1>4, <2>1, <2>2 DEF PossibleRoot, Continues
  <2>4. ~Unheld(h, hd, st, z)
    BY <2>1 DEF Unheld, Holds
  <2>5. Fine(h, hd, st, {}, missed)
    BY <1>3, <2>4, Known
  <2> QED
    BY <1>3, <2>3, <2>5 DEF Sound
<1>5. CASE h.addr[z] # "list"
  <2>1. CASE h.type[z] = "object"
    <3> DEFINE o == h.obj[z]
    <3>1. o \in Object /\ h.type[o] = "valid" /\ Ready(h, st, o, z)
      BY <1>5, <2>1, RootReady
    <3>2. Buffer(h, o, z, st)
      BY <1>5, <2>1, <3>1 DEF PossibleRoot, BufferObject
    <3>3. Counted(h, z) \subseteq {o}
      BY <2>1 DEF Counted, Out
    <3> HIDE DEF o
    <3>4. {} \cup {z} \subseteq {o} \cup {z}
      OBVIOUS
    <3>5. Fine(h, hd, st, {o} \cup {z}, missed)
      BY <1>3, <3>4, FineMore
    <3>6. Fine(h, hd, st, {o}, missed)
      BY <1>1, <3>3, <3>5, Unknow
    <3> QED
      BY <1>3, <3>1, <3>2, <3>6, BufferSound DEF Sound
  <2>2. CASE h.type[z] = "array"
    <3>1. Ready(h, st, z, z)
      BY <1>5, <2>2, RootReady
    <3>2. Buffer(h, z, z, st)
      BY <1>5, <2>2 DEF PossibleRoot
    <3> QED
      BY <3>1, <3>2, BufferSound
  <2>3. CASE h.type[z] \notin {"object", "array"}
    <3>1. heap' = h /\ stack' = st /\ missed' = missed
      BY <1>2, <1>5, <2>3 DEF PossibleRoot, Continues
    <3>2. Counted(h, z) \subseteq {}
      BY <1>1, <2>3, Apartness DEF Counted, Out, Kinds
    <3>3. Fine(h, hd, st, {}, missed)
      BY <1>1, <1>3, <3>2, Unknow
    <3> QED
      BY <1>3, <3>1, <3>3 DEF Sound
  <2> QED
    BY <2>1, <2>2, <2>3
<1> QED
  BY <1>4, <1>5

\* Its references are dropped when a node is emptied.
LEMMA DropsSound ==
    ASSUME NEW h, NEW hd, NEW st \in Seq(Tasks), NEW S \in SUBSET Zval, NEW X, NEW Y, X \subseteq S \cup Y,
           NEW m, Sound(h, hd, st, X, m)
    PROVE  Sound(h, hd, st \o Drops(S), Y, m)
<1>1. CASE S = {}
  <2>1. st \o Drops(S) = st /\ X \subseteq Y
    BY <1>1 DEF Drops
  <2>2. Fine(h, hd, st, Y, m)
    BY <2>1, FineMore DEF Sound
  <2> QED
    BY <2>1, <2>2 DEF Sound
<1>2. CASE S # {}
  <2> DEFINE t == <<"drop", S>>
  <2>1. t \in Tasks
    BY <1>2, MadeDrop
  <2>2. st \o Drops(S) = Append(st, t)
    BY <1>2, <2>1, Sequences DEF Drops
  <2>3. t[1] # "delref" /\ \A x \in S : Holds(t, x)
    BY DEF Holds
  <2> HIDE DEF t
  <2>4. Carries(h, hd, st, X, h, hd, Append(st, t), Y)
    BY <2>1, <2>3, PushCarries
  <2>5. Fine(h, hd, Append(st, t), Y, m)
    BY <2>4, Carry DEF Sound
  <2>6. Checked(h, Append(st, t))
    BY <2>1, <2>3, PushChecked DEF Sound
  <2> QED
    BY <2>2, <2>5, <2>6 DEF Sound
<1> QED
  BY <1>1, <1>2

\* What gc_remove_zval_from_buffer leaves of the colour.
LEMMA DeadColour ==
    ASSUME NEW h \in Heaps, NEW z \in Node, NEW g, g = SetNull(Unlist(SetRc(h, z, 0), z), z)
    PROVE  g.col[z] = IF h.addr[z] = "root" THEN "black" ELSE h.col[z]
<1>1. SetRc(h, z, 0) \in Heaps /\ SetRc(h, z, 0).addr = h.addr /\ SetRc(h, z, 0).col = h.col
  BY RcFields DEF RcOf
<1> DEFINE f == SetRc(h, z, 0)
<1> HIDE DEF f
<1>2. Unlist(f, z).col[z] = IF h.addr[z] = "root" THEN "black" ELSE h.col[z]
  BY <1>1 DEF Unlist, Heaps, f
<1>3. Unlist(f, z) \in Heaps
  BY <1>1 DEF Unlist, Heaps, f
<1>4. SetNull(Unlist(f, z), z).col = Unlist(f, z).col
  BY <1>3, NullFields DEF NullOf
<1> QED
  BY <1>2, <1>4 DEF f

\* The last reference to a zval goes: what it held is known for the moment.
LEMMA DeathCarries ==
    ASSUME NEW h, NEW g, NEW hd, NEW st \in Seq(Tasks), NEW z \in Zval,
           Good(h, hd, Append(st, <<"drop", {z}>>)), h.rc[z] = 1, DeadOf(g, h, z),
           g.col[z] = IF h.addr[z] = "root" THEN "black" ELSE h.col[z]
    PROVE  Carries(h, hd, Append(st, <<"drop", {z}>>), {}, g, hd, Append(st, <<"efree", z>>), Counted(h, z))
<1> DEFINE t == <<"drop", {z}>>  u == <<"efree", z>>
<1>1. t \in Tasks /\ u \in Tasks /\ z \in Node
  BY DropTask, MadeZval, Apartness
<1>2. h \in Heaps /\ Rooted(h) /\ Kinds(h)
  BY DEF Good, AlmostGood
<1>3. /\ Quiet(t) /\ \A x : (Holds(t, x) <=> x = z) /\ ~Holds(u, x) /\ ~About(h, t, x) /\ ~About(g, u, x)
      /\ u # <<"drop", z>> /\ u[1] = "efree" /\ u[2] = z /\ ~Quiet(u)
  BY DEF Quiet, Holds, InList, About
<1>4. /\ g.obj = h.obj /\ g.roots = h.roots \ {z} /\ g.rc[z] = 0 /\ g.type[z] = "null" /\ g.kids[z] = {}
      /\ \A y \in Node : y # z => /\ g.type[y] = h.type[y] /\ g.kids[y] = h.kids[y]
                                  /\ g.rc[y] = h.rc[y] /\ g.addr[y] = h.addr[y] /\ g.col[y] = h.col[y]
  BY DEF DeadOf
<1> HIDE DEF t, u
<1> DEFINE X == Counted(h, z)
<1>5. ASSUME NEW x \in Node, Astray(g, hd, Append(st, u), X, x)
      PROVE  /\ x # z /\ x \notin X /\ Astray(h, hd, Append(st, t), {}, x)
  <2>1. x \notin X /\ Unheld(g, hd, st, x) /\ ~Noted(g, st, x)
    BY <1>1, <1>3, <1>5, PushHolds, PushNotes DEF Astray
  <2>2. x # z
    BY <1>4, <2>1 DEF Unheld
  <2>3. Unheld(h, hd, st, x)
    BY <1>4, <2>1, <2>2 DEF Unheld
  <2>4. ~Noted(h, st, x)
    BY <1>4, <2>1, <2>2 DEF Noted, About
  <2> QED
    BY <1>1, <1>3, <2>1, <2>2, <2>3, <2>4, PushHolds, PushNotes DEF Astray
<1>6. ASSUME NEW y \in Node, y # z PROVE Counted(g, y) = Counted(h, y)
  BY <1>4, <1>6, CountedSame
<1>7. ASSUME NEW y \in Zval, Spent(g, y), ~Ends(Append(st, u), y)
      PROVE  Spent(h, y) /\ ~Ends(Append(st, t), y)
  <2>1. y # z
    BY <1>1, <1>7, PushEnds DEF u
  <2>2. Spent(h, y)
    BY <1>4, <1>7, <2>1, Apartness DEF Spent
  <2> QED
    BY <1>1, <1>3, <1>7, <2>2, PushEnds, PushQuiet
<1>8. ASSUME NEW x \in Node, g.col[x] = "purple", ~Purpled(g, Append(st, u), x)
      PROVE  h.col[x] = "purple" /\ ~Purpled(h, Append(st, t), x)
  <2>1. /\ x \notin g.roots /\ ~Bought(st, x)
        /\ x \in Object => (g.rc[x] # 0 \/ g.type[x] = "free") /\ ~Going(st, x) /\ ~Destructs(st, x)
    BY <1>1, <1>8, PushEnds, PushDestructs DEF Purpled
  <2>2. CASE x = z
    <3>1. h.addr[z] # "root" /\ h.col[z] = "purple"
      BY <1>8, <2>2
    <3>2. z \notin h.roots /\ z \notin Object
      BY <1>1, <1>2, <3>1, Apartness DEF Rooted
    <3> QED
      BY <1>1, <1>3, <2>1, <2>2, <3>1, <3>2, PushQuiet DEF Purpled
  <2>3. CASE x # z
    BY <1>1, <1>3, <1>4, <1>8, <2>1, <2>3, PushQuiet DEF Purpled
  <2> QED
    BY <2>2, <2>3
<1>9. Carries(h, hd, Append(st, t), {}, g, hd, Append(st, u), X)
  BY <1>5, <1>6, <1>7, <1>8 DEF Carries
<1> QED
  BY <1>9 DEF t, u

\* A reference is dropped that is not the last one.
LEMMA DropSound ==
    ASSUME NEW h, NEW hd, NEW st \in Seq(Tasks), NEW z \in Zval,
           Good(h, hd, Append(st, <<"drop", {z}>>)), h.rc[z] > 1, NEW m,
           Sound(h, hd, Append(st, <<"drop", {z}>>), {}, m)
    PROVE  Sound(SetRc(h, z, h.rc[z] - 1), hd, st, {z}, m)
<1> DEFINE t == <<"drop", {z}>>  g == SetRc(h, z, h.rc[z] - 1)
<1>1. t \in Tasks /\ z \in Node /\ z \notin Object
  BY DropTask, Apartness
<1>2. h \in Heaps /\ h.rc[z] \in Int
  BY <1>1 DEF Good, AlmostGood, Heaps
<1>3. h.rc[z] - 1 \in Int /\ h.rc[z] - 1 # 0 /\ h.rc[z] > 0
  BY <1>2
<1>4. RcOf(g, h, z, h.rc[z] - 1)
  BY <1>1, <1>2, <1>3, RcFields
<1>5. Quiet(t) /\ t[1] # "delref" /\ \A x : (Holds(t, x) <=> x = z) /\ ~About(g, t, x)
  BY DEF Quiet, Holds, InList, About
<1> HIDE DEF t, g
<1>6. Fine(h, hd, Append(st, t), {}, m) /\ Checked(h, Append(st, t))
  BY DEF Sound, t
<1>7. Carries(h, hd, Append(st, t), {}, g, hd, Append(st, t), {})
  BY <1>1, <1>2, <1>3, <1>4, RcCarries
<1>8. Carries(g, hd, Append(st, t), {}, g, hd, st, {z})
  <2>1. \A x \in Node : x \in {} \/ Holds(t, x) \/ About(g, t, x) => x \in {z}
    BY <1>5
  <2> QED
    BY <1>1, <1>5, <2>1, PopCarries
<1>9. Fine(g, hd, st, {z}, m)
  <2>1. Fine(g, hd, Append(st, t), {}, m)
    BY <1>6, <1>7, Carry
  <2> QED
    BY <1>8, <2>1, Carry
<1>10. Checked(g, st)
  <2>1. Checked(h, st)
    BY <1>1, <1>5, <1>6, PushChecked
  <2> QED
    BY <1>4, <2>1, CheckedSame DEF RcOf
<1>11. Sound(g, hd, st, {z}, m)
  BY <1>9, <1>10 DEF Sound
<1> QED
  BY <1>11 DEF g

\* The last one: z is emptied, and what it held dropped.
LEMMA DeathSound ==
    ASSUME NEW h, NEW g, NEW hd, NEW st \in Seq(Tasks), NEW z \in Zval,
           Good(h, hd, Append(st, <<"drop", {z}>>)), h.rc[z] = 1, DeadOf(g, h, z),
           g.col[z] = IF h.addr[z] = "root" THEN "black" ELSE h.col[z], NEW m,
           Sound(h, hd, Append(st, <<"drop", {z}>>), {}, m)
    PROVE  /\ h.type[z] = "object" =>
                  Sound(g, hd, st \o <<<<"efree", z>>, <<"check", z>>, <<"delref", h.obj[z]>>>>, {}, m)
           /\ h.type[z] # "object" => Sound(g, hd, st \o (<<<<"efree", z>>>> \o Drops(h.kids[z])), {}, m)
<1> DEFINE t == <<"drop", {z}>>  u == <<"efree", z>>  c == <<"check", z>>
           d == <<"delref", h.obj[z]>>  X == Counted(h, z)
<1>1. t \in Tasks /\ u \in Tasks /\ c \in Tasks /\ z \in Node
  BY DropTask, MadeZval, Apartness
<1>2. h \in Heaps /\ Kinds(h) /\ h.kids[z] \in SUBSET Zval
  BY <1>1 DEF Good, AlmostGood, Heaps
<1>3. u[1] # "delref" /\ t[1] # "delref" /\ c[1] = "check" /\ c[2] = z /\ d[1] = "delref"
      /\ d[2] = h.obj[z] /\ Holds(d, h.obj[z])
  BY DEF Holds
<1>4. Carries(h, hd, Append(st, t), {}, g, hd, Append(st, u), X)
  BY DeathCarries
<1>5. Fine(h, hd, Append(st, t), {}, m) /\ Checked(h, Append(st, t))
  BY DEF Sound
<1> HIDE DEF t, u, c, d, X
<1> DEFINE s1 == Append(st, u)
<1>6. Fine(g, hd, s1, X, m)
  BY <1>4, <1>5, Carry
<1>7. Checked(g, s1) /\ g.obj = h.obj
  <2>1. Checked(h, st)
    BY <1>1, <1>3, <1>5, PushChecked
  <2>2. Checked(h, Append(st, u))
    BY <1>1, <1>3, <2>1, PushChecked
  <2> QED
    BY <2>2, CheckedSame DEF DeadOf
<1>8. s1 \in Seq(Tasks)
  BY <1>1
<1> HIDE DEF s1
<1>9. ASSUME h.type[z] = "object" PROVE Sound(g, hd, st \o <<u, c, d>>, {}, m)
  <2> DEFINE s2 == Append(s1, c)  n == Len(s1) + 1
  <2>1. h.obj[z] \in Object /\ X \subseteq {h.obj[z]}
    BY <1>2, <1>9 DEF Kinds, Counted, Out, X
  <2>2. d \in Tasks
    BY <2>1, MadeObject DEF d
  <2>3. s2 \in Seq(Tasks) /\ Len(s2) > 0 /\ s2[Len(s2)] = c
    BY <1>1, <1>8
  <2>4. st \o <<u, c, d>> = Append(s2, d)
    BY <1>1, <2>2, ThreeTasks DEF s1
  <2> HIDE DEF s2
  <2>5. Carries(g, hd, s1, X, g, hd, s2, X)
    BY <1>1, <1>8, PushCarries DEF s2
  <2>6. Carries(g, hd, s2, X, g, hd, Append(s2, d), {})
    BY <1>3, <2>1, <2>2, <2>3, PushCarries
  <2>7. Fine(g, hd, Append(s2, d), {}, m)
    <3>1. Fine(g, hd, s2, X, m)
      BY <1>6, <2>5, Carry
    <3> QED
      BY <2>6, <3>1, Carry
  <2>8. Checked(g, s2)
    BY <1>1, <1>3, <1>7, <1>8, PushChecked DEF s2
  <2>9. Checked(g, Append(s2, d))
    BY <1>3, <1>7, <2>2, <2>3, <2>8, PushChecked
  <2> QED
    BY <2>4, <2>7, <2>9 DEF Sound
<1>10. ASSUME h.type[z] # "object" PROVE Sound(g, hd, st \o (<<u>> \o Drops(h.kids[z])), {}, m)
  <2>1. X \subseteq h.kids[z]
    BY <1>10 DEF X, Counted, Out
  <2>2. st \o (<<u>> \o Drops(h.kids[z])) = s1 \o Drops(h.kids[z])
    BY <1>1, <1>2, DropsType, Sequences DEF s1
  <2>3. Fine(g, hd, s1, h.kids[z], m)
    BY <1>6, <2>1, FineMore
  <2>4. Sound(g, hd, s1, h.kids[z], m)
    BY <1>7, <2>3 DEF Sound
  <2>5. ASSUME NEW no, no = {} PROVE Sound(g, hd, s1 \o Drops(h.kids[z]), no, m)
    <3>1. h.kids[z] \subseteq h.kids[z] \cup no
      OBVIOUS
    <3> QED
      BY <1>2, <1>8, <2>4, <3>1, DropsSound
  <2> QED
    BY <2>2, <2>5
<1> QED
  BY <1>9, <1>10 DEF u, c, d

\* _zval_ptr_dtor loses nothing.
LEMMA PtrDtorSound ==
    ASSUME NEW h, NEW hd, NEW st \in Seq(Tasks), NEW z \in Zval,
           Good(h, hd, Append(st, <<"drop", {z}>>)), PtrDtor(h, z, st),
           \A i \in 1 .. Len(st) : IsList(st[i]) => Listed,
           Sound(h, hd, Append(st, <<"drop", {z}>>), {}, missed)
    PROVE  Sound(heap', hd, stack', {}, missed')
<1> DEFINE t == <<"drop", {z}>>  s2 == Append(st, t)
<1>1. h \in Heaps /\ Kinds(h) /\ Exact(h, hd, s2) /\ s2 \in Seq(Tasks)
  BY DEF Good, AlmostGood
<1>2. z \in Node /\ z \notin Object /\ t \in Tasks
  BY DropTask, Apartness
<1>3. h.rc[z] \in Nat /\ (h.rc[z] > 1 \/ h.rc[z] = 1)
  <2>1. \E k \in 1 .. Len(s2) : Holds(s2[k], z)
    <3>1. Len(st) + 1 \in 1 .. Len(s2) /\ s2[Len(st) + 1] = t
      BY <1>2
    <3>2. Holds(t, z)
      BY HoldsDrop
    <3> QED
      BY <3>1, <3>2
  <2> HIDE DEF s2
  <2>2. h.rc[z] > 0 /\ h.rc[z] \in Nat
    BY <1>1, <1>2, <2>1, CountsType
  <2> QED
    BY <2>2
<1> DEFINE f == [h EXCEPT !.rc[z] = @ - 1]  v == h.rc[z] - 1
<1>4. f = SetRc(h, z, v) /\ f.rc[z] = v /\ f.type = h.type /\ f.kids = h.kids /\ f.obj = h.obj
  BY <1>1, <1>2 DEF SetRc, Heaps
<1>5. CASE h.rc[z] > 1
  <2>1. Good(SetRc(h, z, v), hd, st) /\ Sound(SetRc(h, z, v), hd, st, {z}, missed)
    BY <1>5, DropDone, DropSound
  <2>2. f.rc[z] > 0
    BY <1>3, <1>4, <1>5
  <2>3. PossibleRoot(f, z, st)
    BY <2>2 DEF PtrDtor
  <2> HIDE DEF f, v
  <2>4. Good(f, hd, st) /\ Sound(f, hd, st, {z}, missed)
    BY <1>4, <2>1
  <2> QED
    BY <2>2, <2>3, <2>4, PossibleRootSound
<1>6. CASE h.rc[z] = 1
  <2>1. v = 0 /\ ~(f.rc[z] > 0)
    BY <1>4, <1>6
  <2> DEFINE g == [Unlist(f, z) EXCEPT !.type[z] = "null", !.kids[z] = {}]
  <2>2. g = SetNull(Unlist(SetRc(h, z, 0), z), z)
    <3>1. f = SetRc(h, z, 0)
      BY <1>4, <2>1
    <3> QED
      BY <3>1 DEF SetNull
  <2>3. IF f.type[z] = "object"
        THEN Continues(g, st, <<<<"efree", z>>, <<"check", z>>, <<"delref", f.obj[z]>>>>)
        ELSE Continues(g, st, <<<<"efree", z>>>> \o Drops(f.kids[z]))
    BY <2>1 DEF PtrDtor
  <2> HIDE DEF f, g
  <2>4. DeadOf(g, h, z)
    <3>1. DeadOf(SetNull(Unlist(SetRc(h, z, 0), z), z), h, z)
      BY <1>1, <1>2, DeadFields DEF Good, AlmostGood
    <3> QED
      BY <2>2, <3>1
  <2>5. g.col[z] = IF h.addr[z] = "root" THEN "black" ELSE h.col[z]
    BY <1>1, <1>2, <2>2, DeadColour
  <2>6. /\ h.type[z] = "object" =>
               Sound(g, hd, st \o <<<<"efree", z>>, <<"check", z>>, <<"delref", h.obj[z]>>>>, {}, missed)
        /\ h.type[z] # "object" =>
               Sound(g, hd, st \o (<<<<"efree", z>>>> \o Drops(h.kids[z])), {}, missed)
    BY <1>6, <2>4, <2>5, DeathSound
  <2> QED
    BY <1>4, <2>3, <2>6 DEF Continues
<1> QED
  BY <1>3, <1>5, <1>6

\* What is dropped one after the other.
LEMMA SplitSound ==
    ASSUME NEW h, NEW hd, NEW st \in Seq(Tasks), NEW S \in SUBSET Zval, NEW z \in S, NEW m,
           Sound(h, hd, Append(st, <<"drop", S>>), {}, m)
    PROVE  Sound(h, hd, Append(st \o Drops(S \ {z}), <<"drop", {z}>>), {}, m)
<1> DEFINE t == <<"drop", S>>  u == <<"drop", {z}>>  b == st \o Drops(S \ {z})
<1>1. t \in Tasks /\ u \in Tasks /\ b \in Seq(Tasks) /\ S \ {z} \in SUBSET Zval
  <2>1. S # {} /\ z \in Zval
    OBVIOUS
  <2> QED
    BY <2>1, MadeDrop, DropTask, DropsType
<1>2. Quiet(t) /\ t[1] # "delref" /\ u[1] # "delref" /\ \A x : (Holds(t, x) <=> x \in S) /\ ~About(h, t, x)
      /\ Holds(u, z)
  BY DEF Quiet, Holds, InList, About
<1>3. Fine(h, hd, Append(st, t), {}, m) /\ Checked(h, Append(st, t))
  BY DEF Sound
<1> HIDE DEF t, u
<1>4. Sound(h, hd, st, S, m)
  <2>1. Carries(h, hd, Append(st, t), {}, h, hd, st, S)
    <3>1. \A x \in Node : x \in {} \/ Holds(t, x) \/ About(h, t, x) => x \in S
      BY <1>2
    <3> QED
      BY <1>1, <1>2, <3>1, PopCarries
  <2>2. Fine(h, hd, st, S, m)
    BY <1>3, <2>1, Carry
  <2>3. Checked(h, st)
    BY <1>1, <1>2, <1>3, PushChecked
  <2> QED
    BY <2>2, <2>3 DEF Sound
<1>5. Sound(h, hd, b, {z}, m)
  <2>1. S \subseteq (S \ {z}) \cup {z}
    OBVIOUS
  <2> QED
    BY <1>1, <1>4, <2>1, DropsSound
<1> HIDE DEF b
<1>6. Carries(h, hd, b, {z}, h, hd, Append(b, u), {})
  <2>1. \A x \in {z} : x \in {} \/ Holds(u, x) \/ About(h, u, x)
    BY <1>2
  <2> QED
    BY <1>1, <2>1, PushCarries
<1>7. Fine(h, hd, Append(b, u), {}, m)
  BY <1>5, <1>6, Carry DEF Sound
<1>8. Checked(h, Append(b, u))
  BY <1>1, <1>2, <1>5, PushChecked DEF Sound
<1>9. Sound(h, hd, Append(b, u), {}, m)
  BY <1>7, <1>8 DEF Sound
<1> QED
  BY <1>9 DEF b, u

\* The end of zend_objects_store_del_ref.
LEMMA CheckSound ==
    ASSUME NEW h, NEW hd, NEW st \in Seq(Tasks), NEW z \in Zval,
           Good(h, hd, Append(st, <<"check", z>>)), BufferObject(h, z, st),
           Sound(h, hd, Append(st, <<"check", z>>), {}, missed)
    PROVE  Sound(heap', hd, stack', {}, missed')
<1> DEFINE t == <<"check", z>>  o == h.obj[z]
<1>1. Good(h, hd, st)
  BY PopCheck
<1>2. t \in Tasks /\ Quiet(t) /\ t[1] # "delref" /\ \A x : ~Holds(t, x) /\ (About(h, t, x) <=> x = o)
  BY MadeZval DEF Quiet, Holds, InList, About
<1>3. o \in Object /\ o \in Node
  BY CheckReady, Apartness
<1> HIDE DEF t, o
<1>4. Sound(h, hd, st, {o}, missed)
  <2>1. Carries(h, hd, Append(st, t), {}, h, hd, st, {o})
    <3>1. \A x \in Node : x \in {} \/ Holds(t, x) \/ About(h, t, x) => x \in {o}
      BY <1>2
    <3> QED
      BY <1>2, <3>1, PopCarries
  <2>2. Fine(h, hd, st, {o}, missed)
    BY <2>1, Carry DEF Sound, t
  <2>3. Checked(h, st)
    BY <1>2, PushChecked DEF Sound, t
  <2> QED
    BY <2>2, <2>3 DEF Sound
<1>5. CASE h.type[o] = "valid"
  <2>1. Ready(h, st, o, z)
    BY <1>5, CheckReady DEF o
  <2>2. Buffer(h, o, z, st)
    BY <1>5 DEF BufferObject, o
  <2> QED
    BY <1>1, <1>4, <2>1, <2>2, BufferSound
<1>6. CASE h.type[o] # "valid"
  <2>1. heap' = h /\ stack' = st \o <<>> /\ missed' = missed
    BY <1>6 DEF BufferObject, Continues, o
  <2>2. stack' = st
    BY <2>1
  <2>3. ~Unheld(h, hd, st, o)
    <3>1. h.rc[o] = 0
      BY <1>1, <1>3, <1>6 DEF Good, AlmostGood, Kinds
    <3> QED
      BY <3>1 DEF Unheld
  <2>4. Fine(h, hd, st, {} \cup {o}, missed)
    <3>1. {} \cup {o} = {o}
      OBVIOUS
    <3> QED
      BY <1>4, <3>1 DEF Sound
  <2>5. Fine(h, hd, st, {}, missed)
    BY <2>3, <2>4, Known
  <2> QED
    BY <1>4, <2>1, <2>2, <2>5 DEF Sound
<1> QED
  BY <1>5, <1>6

\* Nodes are freed that refer to nothing, and that nobody checks.
NoCheck(st, S) == \A j \in 1 .. Len(st) : st[j][1] = "check" => st[j][2] \in Zval \ S

\* Freeing such nodes leaves all that can be found findable.
LEMMA FreedSound ==
    ASSUME NEW h \in Heaps, Kinds(h), NEW hd, NEW st, NEW S, NEW g, FreedOf(g, h, S), NoCheck(st, S),
           \A x \in Node \cap S : Counted(h, x) = {}, NEW X, NEW m, Sound(h, hd, st, X, m),
           \A j \in 1 .. Len(st) : j > 1 => j - 1 \in 1 .. Len(st)
    PROVE  Sound(g, hd, st, X, m)
<1>1. \A x \in Node : Unheld(g, hd, st, x) => x \notin S
  BY DEF Unheld, FreedOf
<1>2. ASSUME NEW x \in Node, Noted(h, st, x) PROVE Noted(g, st, x)
  <2>1. ASSUME NEW j \in 1 .. Len(st), About(h, st[j], x) PROVE About(g, st[j], x)
    BY <2>1 DEF About, NoCheck, FreedOf
  <2> QED
    BY <1>2, <2>1 DEF Noted, FreedOf
<1>3. ASSUME NEW x \in Node, Astray(g, hd, st, X, x) PROVE Astray(h, hd, st, X, x)
  BY <1>1, <1>2, <1>3 DEF Astray, Unheld, FreedOf
<1>4. ASSUME NEW y \in Node, y \notin S PROVE Counted(g, y) = Counted(h, y)
  <2>1. g.type[y] = h.type[y] /\ g.kids[y] = h.kids[y] /\ g.addr[y] = h.addr[y]
    BY <1>4 DEF FreedOf
  <2>2. h.type[y] = "object" => g.obj[y] = h.obj[y]
    BY <1>4, Apartness DEF FreedOf, Kinds
  <2> QED
    BY <2>1, <2>2 DEF Counted, Uncounted, Out
<1>5. ASSUME NEW z \in Zval, Spent(g, z) PROVE Spent(h, z)
  BY <1>5, Apartness DEF Spent, FreedOf
<1>6. ASSUME NEW x \in Node, g.col[x] = "purple" PROVE x \notin S
  BY <1>6 DEF FreedOf
<1>7. ASSUME NEW x \in Node, x \notin S PROVE g.col[x] = h.col[x] /\ (Purpled(g, st, x) <=> Purpled(h, st, x))
  BY <1>7 DEF Purpled, FreedOf
<1>8. Carries(h, hd, st, X, g, hd, st, X)
  BY <1>3, <1>4, <1>5, <1>6, <1>7 DEF Carries
<1>9. Checked(g, st)
  <2>1. ASSUME NEW j \in 1 .. Len(st) PROVE CheckAt(g, st, j)
    <3>1. CheckAt(h, st, j)
      BY DEF Sound, Checked
    <3> QED
      BY <3>1 DEF CheckAt, NoCheck, FreedOf
  <2> QED
    BY <2>1 DEF Checked
<1> QED
  BY <1>8, <1>9, Carry DEF Sound

\* The task that has freed a node is done.
LEMMA PopFreed ==
    ASSUME NEW h, NEW hd, NEW st \in Seq(Tasks), NEW t \in Tasks, NEW x \in Node,
           t = <<"efree", x>> \/ t = <<"gone", x>>,
           h.type[x] = "free", h.rc[x] = 0, h.col[x] = "black", NEW X, NEW m,
           Sound(h, hd, Append(st, t), X, m)
    PROVE  Sound(h, hd, st, X, m)
<1>1. /\ t[1] # "delref" /\ t[1] # "buffer"
      /\ \A y : (Holds(t, y) => y = x) /\ ~About(h, t, y) /\ t # <<"user", y>> /\ t # <<"return", y>>
  BY DEF Holds, InList, About
<1>2. \A y : (t = <<"efree", y>> => y = x) /\ (t = <<"gone", y>> => y = x)
  OBVIOUS
<1>3. ASSUME NEW y \in Node, Astray(h, hd, st, X, y) PROVE Astray(h, hd, Append(st, t), X, y)
  <2>1. y # x
    BY <1>3 DEF Astray, Unheld
  <2> QED
    BY <1>1, <1>3, <2>1, PushHolds, PushNotes DEF Astray
<1>4. ASSUME NEW z \in Zval, Spent(h, z) PROVE Ends(Append(st, t), z) => Ends(st, z)
  BY <1>2, <1>4, PushEnds DEF Spent
<1>5. ASSUME NEW y \in Node, h.col[y] = "purple" PROVE Purpled(h, Append(st, t), y) => Purpled(h, st, y)
  BY <1>1, <1>2, <1>5, PushEnds, PushDestructs DEF Purpled
<1>6. Carries(h, hd, Append(st, t), X, h, hd, st, X)
  BY <1>3, <1>4, <1>5 DEF Carries
<1>7. Checked(h, st)
  BY PushChecked DEF Sound
<1> QED
  BY <1>6, <1>7, Carry DEF Sound

\* What a stack says of the tasks on its top.
LEMMA SeqEnd ==
    ASSUME NEW st \in Seq(Tasks), NEW t \in Tasks
    PROVE  /\ \A j \in 1 .. Len(Append(st, t)) : j > 1 => j - 1 \in 1 .. Len(Append(st, t))
           /\ \A j \in 1 .. Len(Append(st, t)) : j # Len(st) + 1 => j \in 1 .. Len(st) /\ Append(st, t)[j] = st[j]
           /\ \A j \in 1 .. Len(st) : j \in 1 .. Len(Append(st, t)) /\ Append(st, t)[j] = st[j] /\ j # Len(st) + 1
           /\ Len(st) + 1 \in 1 .. Len(Append(st, t)) /\ Append(st, t)[Len(st) + 1] = t
OBVIOUS

\* The end of _zval_ptr_dtor.
LEMMA EfreeSound ==
    ASSUME NEW h, NEW hd, NEW st \in Seq(Tasks), NEW z \in Zval, NEW m,
           Good(h, hd, Append(st, <<"efree", z>>)), Sound(h, hd, Append(st, <<"efree", z>>), {}, m)
    PROVE  Sound(Freed(h, {z}), hd, st, {}, m)
<1> DEFINE t == <<"efree", z>>  s2 == Append(st, t)  g == Freed(h, {z})
<1>1. t \in Tasks /\ z \in Node
  BY MadeZval, Apartness
<1>2. h \in Heaps /\ Kinds(h) /\ Dying(h, hd, s2) /\ s2 \in Seq(Tasks)
  BY <1>1 DEF Good, AlmostGood, Shape
<1>3. FreedOf(g, h, {z})
  BY <1>2, FreedFields
<1>4. t[1] = "efree" /\ t[2] = z
  OBVIOUS
<1> HIDE DEF t, g
<1>5. /\ \A j \in 1 .. Len(s2) : j > 1 => j - 1 \in 1 .. Len(s2)
      /\ \A j \in 1 .. Len(s2) : j # Len(st) + 1 => j \in 1 .. Len(st) /\ s2[j] = st[j]
      /\ Len(st) + 1 \in 1 .. Len(s2) /\ s2[Len(st) + 1] = t /\ Len(st) \in Nat
  BY <1>1, SeqEnd
<1>6. h.type[z] = "null"
  BY <1>2, <1>4, <1>5 DEF Dying
<1>7. \A x \in Node \cap {z} : Counted(h, x) = {}
  BY <1>6 DEF Counted, Out
<1>8. NoCheck(s2, {z})
  <2> SUFFICES ASSUME NEW j \in 1 .. Len(s2), s2[j][1] = "check" PROVE s2[j][2] \in Zval \ {z}
    BY DEF NoCheck
  <2>1. s2[j] \in Tasks /\ s2[j][2] \in Zval
    BY <1>2, TaskType
  <2>2. j > 1 /\ s2[j - 1] = <<"efree", s2[j][2]>> /\ j - 1 \in 1 .. Len(s2)
    BY <1>2, <1>5 DEF Dying
  <2>3. ASSUME s2[j][2] = z PROVE FALSE
    <3>1. s2[j - 1] = t
      BY <2>2, <2>3 DEF t
    <3>2. \A m2 \in 1 .. Len(s2) : s2[m2] = s2[Len(st) + 1] => m2 = Len(st) + 1
      BY <1>2, <1>4, <1>5 DEF Dying
    <3>3. j - 1 = Len(st) + 1
      BY <1>5, <2>2, <3>1, <3>2
    <3>4. Len(s2) = Len(st) + 1
      BY <1>1
    <3> HIDE DEF s2
    <3> QED
      BY <1>5, <3>3, <3>4
  <2> QED
    BY <2>1, <2>3
<1>9. Sound(g, hd, s2, {}, m)
  <2>1. Sound(h, hd, s2, {}, m)
    BY DEF t
  <2> HIDE DEF s2
  <2> QED
    BY <1>2, <1>3, <1>5, <1>7, <1>8, <2>1, FreedSound
<1>10. g.type[z] = "free" /\ g.rc[z] = 0 /\ g.col[z] = "black"
  BY <1>1, <1>3 DEF FreedOf
<1>11. Sound(g, hd, st, {}, m)
  BY <1>1, <1>9, <1>10, PopFreed DEF t
<1> QED
  BY <1>11 DEF g

\* The end of free_storage.
LEMMA GoneSound ==
    ASSUME NEW h, NEW hd, NEW st \in Seq(Tasks), NEW o \in Object, NEW m,
           Good(h, hd, Append(st, <<"gone", o>>)), Sound(h, hd, Append(st, <<"gone", o>>), {}, m)
    PROVE  Sound(Freed(h, {o}), hd, st, {}, m)
<1> DEFINE t == <<"gone", o>>  s2 == Append(st, t)  g == Freed(h, {o})
<1>1. t \in Tasks /\ o \in Node /\ o \notin Zval
  BY MadeObject, Apartness
<1>2. h \in Heaps /\ Kinds(h) /\ Calls(h, s2) /\ s2 \in Seq(Tasks)
  BY <1>1 DEF Good, AlmostGood, Shape
<1>3. FreedOf(g, h, {o})
  BY <1>2, FreedFields
<1>4. t[1] = "gone" /\ t[2] = o
  OBVIOUS
<1> HIDE DEF t, g
<1>5. /\ \A j \in 1 .. Len(s2) : j > 1 => j - 1 \in 1 .. Len(s2)
      /\ Len(st) + 1 \in 1 .. Len(s2) /\ s2[Len(st) + 1] = t
  BY <1>1, SeqEnd
<1>6. h.type[o] = "valid" /\ h.kids[o] = {}
  BY <1>2, <1>4, <1>5 DEF Calls
<1>7. \A x \in Node \cap {o} : Counted(h, x) = {}
  BY <1>6 DEF Counted, Out
<1>8. NoCheck(s2, {o})
  BY <1>1, <1>2, TaskType DEF NoCheck
<1>9. Sound(g, hd, s2, {}, m)
  <2>1. Sound(h, hd, s2, {}, m)
    BY DEF t
  <2> HIDE DEF s2
  <2> QED
    BY <1>2, <1>3, <1>5, <1>7, <1>8, <2>1, FreedSound
<1>10. g.type[o] = "free" /\ g.rc[o] = 0 /\ g.col[o] = "black"
  BY <1>1, <1>3 DEF FreedOf
<1>11. Sound(g, hd, st, {}, m)
  BY <1>1, <1>9, <1>10, PopFreed DEF t
<1> QED
  BY <1>11 DEF g

\* That a destructor has been called tells nothing here.
LEMMA DoneSound ==
    ASSUME NEW h, NEW g, NEW hd, NEW st, NEW X, NEW m, Sound(h, hd, st, X, m),
           g.type = h.type, g.kids = h.kids, g.obj = h.obj, g.rc = h.rc, g.addr = h.addr, g.col = h.col,
           g.roots = h.roots
    PROVE  Sound(g, hd, st, X, m)
<1>1. \A x : (Noted(g, st, x) <=> Noted(h, st, x)) /\ (Purpled(g, st, x) <=> Purpled(h, st, x))
  BY NotedSame DEF Purpled
<1>2. \A y \in Node : Counted(g, y) = Counted(h, y)
  BY CountedSame
<1>3. Carries(h, hd, st, X, g, hd, st, X)
  BY <1>1, <1>2 DEF Carries, Astray, Unheld, Spent
<1>4. Fine(g, hd, st, X, m)
  BY <1>3, Carry DEF Sound
<1> QED
  BY <1>4, CheckedSame DEF Sound

\* A task more that is not a delref.
LEMMA PushSound ==
    ASSUME NEW h, NEW hd, NEW st \in Seq(Tasks), NEW t \in Tasks, t[1] # "delref", NEW X, NEW Y, NEW m,
           \A x \in X : x \in Y \/ Holds(t, x) \/ About(h, t, x), Sound(h, hd, st, X, m)
    PROVE  Sound(h, hd, Append(st, t), Y, m)
<1>1. Carries(h, hd, st, X, h, hd, Append(st, t), Y)
  BY PushCarries
<1>2. Fine(h, hd, Append(st, t), Y, m)
  BY <1>1, Carry DEF Sound
<1>3. Checked(h, Append(st, t))
  BY PushChecked DEF Sound
<1> QED
  BY <1>2, <1>3 DEF Sound

\* A task less.
LEMMA PopSound ==
    ASSUME NEW h, NEW hd, NEW st \in Seq(Tasks), NEW t \in Tasks, NEW X, NEW Y, NEW m,
           Quiet(t) \/ (t[1] \in {"buffer", "return"} /\ t[2] \in h.roots),
           \A x \in Node : x \in X \/ Holds(t, x) \/ About(h, t, x) => x \in Y,
           Sound(h, hd, Append(st, t), X, m)
    PROVE  Sound(h, hd, st, Y, m)
<1>1. Carries(h, hd, Append(st, t), X, h, hd, st, Y)
  BY PopCarries
<1>2. Fine(h, hd, st, Y, m)
  BY <1>1, Carry DEF Sound
<1>3. Checked(h, st)
  BY PushChecked DEF Sound
<1> QED
  BY <1>2, <1>3 DEF Sound

\* A count is set.
LEMMA RcSound ==
    ASSUME NEW h \in Heaps, NEW hd, NEW st, NEW X, NEW m, NEW z \in Node, NEW v, NEW g, RcOf(g, h, z, v),
           z \in X \/ h.rc[z] > 0 \/ ~Unheld(g, hd, st, z),
           z \in Zval => v # 0 \/ (h.type[z] = "null" /\ h.addr[z] # "list"),
           z \in Object => (v = 0 /\ h.type[z] # "free") \/ h.rc[z] # 0 \/ Destructs(st, z) \/ Going(st, z),
           Sound(h, hd, st, X, m)
    PROVE  Sound(g, hd, st, X, m)
<1>1. Carries(h, hd, st, X, g, hd, st, X)
  BY RcCarries
<1>2. Fine(g, hd, st, X, m)
  BY <1>1, Carry DEF Sound
<1>3. Checked(g, st)
  BY CheckedSame DEF Sound, RcOf
<1> QED
  BY <1>2, <1>3 DEF Sound

\* What is noted or held need not be known.
LEMMA KnownSound ==
    ASSUME NEW h, NEW hd, NEW st, NEW x, Noted(h, st, x) \/ ~Unheld(h, hd, st, x), NEW m,
           Sound(h, hd, st, {x}, m)
    PROVE  Sound(h, hd, st, {}, m)
<1>1. {x} = {} \cup {x}
  OBVIOUS
<1>2. Fine(h, hd, st, {} \cup {x}, m)
  BY <1>1 DEF Sound
<1>3. Fine(h, hd, st, {}, m)
  BY <1>2, Known
<1> QED
  BY <1>3 DEF Sound

\* One list after the other.
LEMMA SwapSound ==
    ASSUME NEW h, NEW hd, NEW st \in Seq(Tasks), NEW t \in Tasks, NEW u \in Tasks, IsList(t), IsList(u),
           InList(u) = InList(t), NEW m, Sound(h, hd, Append(st, t), {}, m)
    PROVE  Sound(h, hd, Append(st, u), {}, m)
<1>1. /\ Quiet(t) /\ t[1] # "delref" /\ u[1] # "delref"
      /\ \A x : (Holds(t, x) <=> x \in InList(t)) /\ (Holds(u, x) <=> x \in InList(t)) /\ ~About(h, t, x)
  BY DEF Quiet, IsList, Holds, About
<1>2. Sound(h, hd, st, InList(t), m)
  <2>1. \A x \in Node : x \in {} \/ Holds(t, x) \/ About(h, t, x) => x \in InList(t)
    BY <1>1
  <2> QED
    BY <1>1, <2>1, PopSound
<1> QED
  BY <1>1, <1>2, PushSound

(* free_storage: the object leaves the buffer, what it held is dropped.     *)
LEMMA LastCarries ==
    ASSUME NEW h \in Heaps, NEW hd, NEW st, NEW o \in Object, Rooted(h), h.type[o] = "valid", Going(st, o),
           NEW g, g = SetKids(Unlist(h, o), o, {})
    PROVE  Carries(h, hd, st, {}, g, hd, st, h.kids[o])
<1> DEFINE f == Unlist(h, o)
<1>1. o \in Node /\ o \notin Zval
  BY Apartness
<1>2. UnlistOf(f, h, o)
  BY <1>1, UnlistFields
<1>3. f \in Heaps
  BY <1>2 DEF UnlistOf
<1>4. KidsOf(g, f, o, {})
  <2>1. {} \in SUBSET Zval
    OBVIOUS
  <2> HIDE DEF f
  <2> QED
    BY <1>1, <1>3, <2>1, KidsFields DEF f
<1>5. /\ g.type = h.type /\ g.rc = h.rc /\ g.obj = h.obj /\ g.roots = h.roots \ {o}
      /\ \A y \in Node : y # o => g.kids[y] = h.kids[y] /\ g.addr[y] = h.addr[y] /\ g.col[y] = h.col[y]
  BY <1>2, <1>4 DEF UnlistOf, KidsOf
<1> HIDE DEF f
<1>6. \A hd2 : ~Unheld(g, hd2, st, o)
  BY DEF Unheld, Holds, Going
<1>7. ASSUME NEW x \in Node, Astray(g, hd, st, h.kids[o], x)
      PROVE  Astray(h, hd, st, {}, x) /\ \A y \in Node : x \in Counted(h, y) => x \in Counted(g, y)
  <2>1. x # o /\ x \notin h.kids[o]
    BY <1>6, <1>7 DEF Astray
  <2>2. Astray(h, hd, st, {}, x)
    BY <1>5, <1>7, <2>1 DEF Astray, Unheld, Noted, About
  <2>3. ASSUME NEW y \in Node, x \in Counted(h, y) PROVE x \in Counted(g, y)
    <3>1. CASE y = o
      BY <1>1, <2>1, <2>3, <3>1 DEF Counted, Out, Uncounted
    <3>2. CASE y # o
      BY <1>5, <2>3, <3>2, CountedSame
    <3> QED
      BY <3>1, <3>2
  <2> QED
    BY <2>2, <2>3
<1>8. \A z \in Zval : Spent(g, z) => Spent(h, z)
  BY <1>1, <1>5, Apartness DEF Spent
<1>9. ASSUME NEW x \in Node, g.col[x] = "purple", ~Purpled(g, st, x)
      PROVE  h.col[x] = "purple" /\ ~Purpled(h, st, x)
  <2>1. x # o
    BY <1>9 DEF Purpled
  <2> QED
    BY <1>5, <1>9, <2>1 DEF Purpled
<1> QED
  BY <1>7, <1>8, <1>9 DEF Carries

\* free_storage, with the tasks that it pushes.
LEMMA LastSound ==
    ASSUME NEW h \in Heaps, NEW hd, NEW st \in Seq(Tasks), NEW o \in Object, Rooted(h), h.type[o] = "valid",
           NEW m, Sound(h, hd, Append(st, <<"gone", o>>), {}, m)
    PROVE  Sound(SetKids(Unlist(h, o), o, {}), hd, st \o (<<<<"gone", o>>>> \o Drops(h.kids[o])), {}, m)
<1> DEFINE t == <<"gone", o>>  s2 == Append(st, t)  g == SetKids(Unlist(h, o), o, {})  K == h.kids[o]
<1>1. t \in Tasks /\ o \in Node
  BY MadeObject, Apartness
<1>2. K \in SUBSET Zval
  BY <1>1 DEF Heaps
<1>3. Len(st) + 1 \in 1 .. Len(s2) /\ s2[Len(st) + 1] = t
  BY <1>1, SeqEnd
<1>4. Going(s2, o)
  BY <1>3 DEF Going
<1>5. st \o (<<t>> \o Drops(K)) = s2 \o Drops(K)
  BY <1>1, <1>2, DropsType, Sequences
<1>6. s2 \in Seq(Tasks)
  BY <1>1
<1>7. g.obj = h.obj
  BY DEF SetKids, Unlist, Heaps
<1> HIDE DEF t, s2, g, K
<1>8. Sound(h, hd, s2, {}, m)
  BY DEF s2, t
<1>9. Carries(h, hd, s2, {}, g, hd, s2, K)
  BY <1>4, LastCarries DEF g, K
<1>10. Sound(g, hd, s2, K, m)
  BY <1>7, <1>8, <1>9, Carry, CheckedSame DEF Sound
<1>11. Sound(g, hd, s2 \o Drops(K), {}, m)
  <2>1. K \subseteq K \cup {}
    OBVIOUS
  <2> QED
    BY <1>2, <1>6, <1>10, <2>1, DropsSound
<1>12. Sound(g, hd, st \o (<<t>> \o Drops(K)), {}, m)
  BY <1>5, <1>11
<1> QED
  BY <1>12 DEF g, t, K

\* zend_objects_store_del_ref_by_handle_ex.
LEMMA ReleaseSound ==
    ASSUME NEW h, NEW hd, NEW st \in Seq(Tasks), NEW o \in Object,
           Good(h, hd, Append(st, <<"delref", o>>)), Release(h, o, st),
           Sound(h, hd, Append(st, <<"delref", o>>), {}, missed)
    PROVE  Sound(heap', hd, stack', {}, missed')
<1> DEFINE t == <<"delref", o>>  s2 == Append(st, t)  u == <<"user", o>>  d == <<"gone", o>>
<1>1. /\ t \in Tasks /\ u \in Tasks /\ d \in Tasks /\ o \in Node /\ o \notin Zval
      /\ h \in Heaps /\ Kinds(h) /\ Rooted(h) /\ Exact(h, hd, s2)
  BY MadeObject, Apartness DEF Good, AlmostGood
<1>2. /\ Quiet(t) /\ t[1] = "delref" /\ t[2] = o /\ \A x : (Holds(t, x) <=> x = o) /\ \A g : ~About(g, t, x)
      /\ u[1] # "delref" /\ d[1] # "delref" /\ Holds(d, o) /\ Holds(u, o)
  BY DEF Quiet, Holds, InList, About
<1>3. Len(st) + 1 \in 1 .. Len(s2) /\ s2[Len(st) + 1] = t /\ s2 \in Seq(Tasks)
  BY <1>1, SeqEnd
<1> HIDE DEF t, u, d, s2
<1>4. h.type[o] = "valid" /\ h.rc[o] \in Nat /\ h.rc[o] > 0
  BY <1>1, <1>2, <1>3, ObjectHeld
<1>5. Sound(h, hd, s2, {}, missed)
  BY DEF s2, t
<1>6. /\ Len(st) > 0 /\ st[Len(st)][1] = "check" /\ h.obj[st[Len(st)][2]] = o
      /\ Len(st) \in 1 .. Len(st)
  <2>1. Len(st) > 0 /\ st[Len(st)][1] = "check" /\ h.obj[st[Len(st)][2]] = o
    BY <1>1, <1>2, <1>5, PushChecked DEF Sound, s2
  <2> QED
    BY <2>1
<1>7. CASE h.rc[o] # 1
  <2> DEFINE v == h.rc[o] - 1  g == SetRc(h, o, v)
  <2>1. v \in Int /\ RcOf(g, h, o, v)
    <3>1. v \in Int
      BY <1>4
    <3> QED
      BY <1>1, <3>1, RcFields
  <2>2. heap' = g /\ stack' = st \o <<>> /\ missed' = missed
    BY <1>4, <1>7 DEF Release, Continues, SetRc
  <2>3. stack' = st
    BY <2>2
  <2> HIDE DEF v, g
  <2>4. Sound(g, hd, s2, {}, missed)
    <3>1. /\ o \in {} \/ h.rc[o] > 0 \/ ~Unheld(g, hd, s2, o)
          /\ o \in Zval => v # 0 \/ (h.type[o] = "null" /\ h.addr[o] # "list")
          /\ o \in Object => (v = 0 /\ h.type[o] # "free") \/ h.rc[o] # 0 \/ Destructs(s2, o) \/ Going(s2, o)
      BY <1>1, <1>4
    <3> QED
      BY <1>1, <1>5, <2>1, <3>1, RcSound
  <2>5. Sound(g, hd, st, {o}, missed)
    <3>1. \A x \in Node : x \in {} \/ Holds(t, x) \/ About(g, t, x) => x \in {o}
      BY <1>2
    <3> QED
      BY <1>1, <1>2, <2>4, <3>1, PopSound DEF s2
  <2>6. Noted(g, st, o)
    BY <1>6, <2>1 DEF Noted, About, RcOf
  <2>7. Sound(g, hd, st, {}, missed)
    BY <2>5, <2>6, KnownSound
  <2> QED
    BY <2>2, <2>3, <2>7
<1>8. CASE h.rc[o] = 1 /\ ~h.done[o]
  <2> DEFINE v == h.rc[o] + 1  f == SetDone(h, o)  g == SetRc(f, o, v)
  <2>1. f \in Heaps /\ f.type = h.type /\ f.kids = h.kids /\ f.obj = h.obj /\ f.rc = h.rc
        /\ f.addr = h.addr /\ f.col = h.col /\ f.roots = h.roots
    BY DoneFields, <1>1
  <2>2. v \in Int
    BY <1>4
  <2>3. heap' = [h EXCEPT !.done[o] = TRUE, !.rc[o] = @ + 1] /\ stack' = st \o <<t, u>> /\ missed' = missed
    BY <1>4, <1>8 DEF Release, Continues, t, u
  <2>4. heap' = g
    BY <1>1, <2>3 DEF SetDone, SetRc, Heaps
  <2>5. stack' = Append(s2, u)
    BY <1>1, <2>3, TwoTasks DEF s2
  <2> HIDE DEF f, v
  <2>6. RcOf(g, f, o, v)
    BY <1>1, <2>1, <2>2, RcFields
  <2> HIDE DEF g
  <2>7. Sound(f, hd, s2, {}, missed)
    BY <1>5, <2>1, DoneSound
  <2>8. Sound(g, hd, s2, {}, missed)
    <3>1. /\ o \in {} \/ f.rc[o] > 0 \/ ~Unheld(g, hd, s2, o)
          /\ o \in Zval => v # 0 \/ (f.type[o] = "null" /\ f.addr[o] # "list")
          /\ o \in Object => (v = 0 /\ f.type[o] # "free") \/ f.rc[o] # 0 \/ Destructs(s2, o) \/ Going(s2, o)
      BY <1>1, <1>4, <2>1
    <3> QED
      BY <1>1, <2>1, <2>6, <2>7, <3>1, RcSound
  <2>9. Sound(g, hd, Append(s2, u), {}, missed)
    BY <1>1, <1>2, <1>3, <2>8, PushSound
  <2> QED
    BY <2>3, <2>4, <2>5, <2>9
<1>9. CASE h.rc[o] = 1 /\ h.done[o]
  <2>1. heap' = SetKids(Unlist(h, o), o, {}) /\ stack' = st \o (<<d>> \o Drops(h.kids[o])) /\ missed' = missed
    BY <1>4, <1>9 DEF Release, Continues, SetKids, d
  <2>2. Sound(h, hd, st, {o}, missed)
    <3>1. \A x \in Node : x \in {} \/ Holds(t, x) \/ About(h, t, x) => x \in {o}
      BY <1>2
    <3> QED
      BY <1>1, <1>2, <1>5, <3>1, PopSound DEF s2
  <2>3. Sound(h, hd, Append(st, d), {}, missed)
    <3>1. \A x \in {o} : x \in {} \/ Holds(d, x) \/ About(h, d, x)
      BY <1>2
    <3> QED
      BY <1>1, <1>2, <2>2, <3>1, PushSound
  <2>4. Sound(SetKids(Unlist(h, o), o, {}), hd, st \o (<<d>> \o Drops(h.kids[o])), {}, missed)
    BY <1>1, <1>4, <2>3, LastSound DEF d
  <2> QED
    BY <2>1, <2>4
<1> QED
  BY <1>7, <1>8, <1>9

\* The first loop over free_list ends.
LEMMA DtorsEndSound ==
    ASSUME NEW h, NEW hd, NEW st \in Seq(Tasks), NEW l \in Seq(Zval), NEW r \in Seq(Zval), NEW m,
           Sound(h, hd, Append(st, <<"dtors", l, r>>), {}, m)
    PROVE  Sound(h, hd, Append(st, <<"destroy", l, l>>), {}, m)
<1> DEFINE t == <<"dtors", l, r>>  u == <<"destroy", l, l>>
<1>1. t \in Tasks /\ u \in Tasks /\ IsList(t) /\ IsList(u) /\ InList(u) = InList(t)
  BY ListTask
<1>2. Sound(h, hd, Append(st, t), {}, m)
  OBVIOUS
<1> HIDE DEF t, u
<1>3. Sound(h, hd, Append(st, u), {}, m)
  BY <1>1, <1>2, SwapSound
<1> QED
  BY <1>3 DEF u

\* A destructor is called: the object is purple for the collection that calls it.
LEMMA DtorsCallSound ==
    ASSUME NEW h, NEW hd, NEW st \in Seq(Tasks), NEW l \in Seq(Zval), NEW r \in Seq(Zval),
           Good(h, hd, Append(st, <<"dtors", l, r>>)), NEW i \in 1 .. Len(r),
           IsNext(r, i, RefersTo(h, {o \in Waiting(h) : ~h.done[o]})), NEW m,
           Sound(h, hd, Append(st, <<"dtors", l, r>>), {}, m)
    PROVE  Sound([h EXCEPT !.done[h.obj[r[i]]] = TRUE, !.rc[h.obj[r[i]]] = @ + 1], hd,
                 st \o <<<<"dtors", l, After(r, i)>>, <<"user", h.obj[r[i]]>>>>, {}, m)
<1> DEFINE t == <<"dtors", l, r>>  u == <<"dtors", l, After(r, i)>>
           o == h.obj[r[i]]  d == <<"user", o>>  f == SetDone(h, o)  v == h.rc[o] + 1  g == SetRc(f, o, v)
           s1 == Append(st, t)  s2 == Append(Append(st, u), d)
           due == RefersTo(h, {y \in Waiting(h) : ~h.done[y]})
<1>1. h \in Heaps /\ Kinds(h) /\ Exact(h, hd, s1)
  BY DEF Good, AlmostGood
<1>2. t \in Tasks /\ u \in Tasks /\ IsList(t) /\ IsList(u) /\ InList(u) = InList(t)
  <2>1. After(r, i) \in Seq(Zval)
    BY AfterIs
  <2> QED
    BY ZenonT(60), <2>1, ListTask
<1>3. r[i] \in Zval /\ r[i] \in due
  BY DEF IsNext
<1>4. o \in Object /\ o \in Node /\ o \notin Zval
  BY <1>3, Apartness DEF RefersTo, Waiting
<1>5. d \in Tasks
  BY <1>4, MadeObject
<1>6. h.rc[o] \in Nat
  <2>1. s1 \in Seq(Tasks)
    BY <1>2
  <2> HIDE DEF s1
  <2> QED
    BY <1>1, <1>4, <2>1, CountsType
<1>7. [h EXCEPT !.done[o] = TRUE, !.rc[o] = @ + 1] = g
  BY <1>1 DEF SetDone, SetRc, Heaps
<1>8. f \in Heaps /\ f.type = h.type /\ f.kids = h.kids /\ f.obj = h.obj /\ f.rc = h.rc
      /\ f.addr = h.addr /\ f.col = h.col /\ f.roots = h.roots
  BY DoneFields, <1>1, <1>4
<1>9. Sound(h, hd, s1, {}, m)
  OBVIOUS
<1>10. st \o <<u, d>> = s2
  BY <1>2, <1>5, TwoTasks
<1>11. d[1] # "delref" /\ d[1] = "user" /\ Holds(d, o) /\ u[1] = "dtors"
  BY DEF Holds
<1>12. /\ Append(st, u) \in Seq(Tasks) /\ s2 \in Seq(Tasks) /\ Len(s2) \in 2 .. Len(s2)
       /\ s2[Len(s2)] = d /\ s2[Len(s2) - 1] = u /\ Len(s2) \in 1 .. Len(s2)
  BY <1>2, <1>5
<1> HIDE DEF t, u, d, f, v, g, s2, o
<1>13. v \in Int /\ v # 0
  BY <1>6 DEF v
<1>14. RcOf(g, f, o, v)
  BY <1>4, <1>8, <1>13, RcFields DEF g
<1>15. Sound(h, hd, Append(st, u), {}, m)
  BY <1>2, <1>9, SwapSound
<1>16. Sound(h, hd, s2, {}, m)
  <2>1. \A x \in {} : x \in {} \/ Holds(d, x) \/ About(h, d, x)
    OBVIOUS
  <2> DEFINE b == Append(st, u)
  <2>0. b \in Seq(Tasks) /\ Sound(h, hd, b, {}, m)
    BY <1>12, <1>15
  <2> HIDE DEF b
  <2>2. Sound(h, hd, Append(b, d), {}, m)
    BY <1>5, <1>11, <2>0, <2>1, PushSound
  <2> QED
    BY <2>2 DEF s2, b
<1>17. Sound(f, hd, s2, {}, m)
  BY <1>8, <1>16, DoneSound
<1>18. Destructs(s2, o) /\ ~Unheld(g, hd, s2, o)
  <2>1. Destructs(s2, o)
    BY <1>11, <1>12 DEF Destructs, d
  <2> QED
    BY <1>11, <1>12, <2>1 DEF Unheld
<1>19. Sound(g, hd, s2, {}, m)
  <2>1. /\ o \in {} \/ f.rc[o] > 0 \/ ~Unheld(g, hd, s2, o)
        /\ o \in Zval => v # 0 \/ (f.type[o] = "null" /\ f.addr[o] # "list")
        /\ o \in Object => (v = 0 /\ f.type[o] # "free") \/ f.rc[o] # 0 \/ Destructs(s2, o) \/ Going(s2, o)
    BY <1>4, <1>18
  <2> QED
    BY <1>4, <1>8, <1>14, <1>17, <2>1, RcSound
<1>20. Sound([h EXCEPT !.done[o] = TRUE, !.rc[o] = @ + 1], hd, st \o <<u, d>>, {}, m)
  BY <1>7, <1>10, <1>19
<1> QED
  BY <1>20 DEF u, d, o

\* An element of a list is emptied.
LEMMA NullSound ==
    ASSUME NEW h \in Heaps, NEW hd, NEW st, NEW z \in Zval, h.addr[z] = "list", h.rc[z] # 0,
           NEW g, g.obj = h.obj, g.rc = h.rc, g.addr = h.addr, g.col = h.col, g.roots = h.roots,
           g.type[z] = "null", \A y \in Node : y # z => g.type[y] = h.type[y] /\ g.kids[y] = h.kids[y],
           NEW m, Sound(h, hd, st, {}, m)
    PROVE  Sound(g, hd, st, Counted(h, z), m)
<1> DEFINE K == Counted(h, z)
<1> HIDE DEF K
<1>1. /\ \A x : Noted(g, st, x) <=> Noted(h, st, x)
      /\ \A x \in Node : Purpled(g, st, x) <=> Purpled(h, st, x)
  <2>1. \A x \in Object : x \in Node /\ g.type[x] = h.type[x]
    BY Apartness
  <2> QED
    BY <2>1, NotedSame DEF Purpled
<1>2. \A x : Unheld(g, hd, st, x) <=> Unheld(h, hd, st, x)
  BY DEF Unheld
<1>3. ASSUME NEW x \in Node, Astray(g, hd, st, K, x), NEW y \in Node, x \in Counted(h, y)
      PROVE  x \in Counted(g, y)
  <2>1. y # z
    BY <1>3 DEF Astray, K
  <2> QED
    BY <1>3, <2>1, CountedSame
<1>4. \A x \in Node : Astray(g, hd, st, K, x) => Astray(h, hd, st, {}, x)
  BY <1>1, <1>2 DEF Astray
<1>5. ASSUME NEW y \in Zval, Spent(g, y) PROVE Spent(h, y)
  <2>1. y # z
    BY <1>5 DEF Spent
  <2> QED
    BY <1>5, <2>1, Apartness DEF Spent
<1>6. Carries(h, hd, st, {}, g, hd, st, K)
  BY <1>1, <1>3, <1>4, <1>5 DEF Carries
<1>7. Fine(g, hd, st, K, m)
  BY <1>6, Carry DEF Sound
<1> QED
  BY <1>7, CheckedSame DEF Sound, K

\* The elements of a list have references.
LEMMA ListElement ==
    ASSUME NEW h, NEW hd, NEW st \in Seq(Tasks), NEW t \in Tasks, Good(h, hd, Append(st, t)), IsList(t),
           NEW z \in Rest(t)
    PROVE  z \in Zval /\ z \in Node /\ z \in InList(t) /\ h.addr[z] = "list" /\ h.rc[z] \in Nat /\ h.rc[z] > 0
<1> DEFINE s1 == Append(st, t)
<1>1. /\ h \in Heaps /\ Kinds(h) /\ Exact(h, hd, s1) /\ Lists(h, s1) /\ Len(st) + 1 \in 1 .. Len(s1)
      /\ s1[Len(st) + 1] = t /\ s1 \in Seq(Tasks)
  BY SeqEnd DEF Good, AlmostGood, Shape
<1> HIDE DEF s1
<1>2. z \in InList(t) /\ h.addr[z] = "list"
  BY <1>1 DEF Lists
<1>3. z \in Zval /\ z \in Node
  <2>1. t[2] \in Seq(Zval) /\ InList(t) = {t[2][i] : i \in DOMAIN t[2]}
    BY TaskType DEF IsList, InList
  <2> QED
    BY <1>2, <2>1, Apartness
<1>4. Holds(s1[Len(st) + 1], z)
  BY <1>1, <1>2 DEF Holds
<1> QED
  BY <1>1, <1>2, <1>3, <1>4, CountsType

\* The second loop empties an array.
LEMMA DestroyArraySound ==
    ASSUME NEW h, NEW hd, NEW st \in Seq(Tasks), NEW l \in Seq(Zval), NEW r \in Seq(Zval),
           Good(h, hd, Append(st, <<"destroy", l, r>>)), NEW i \in 1 .. Len(r),
           IsNext(r, i, DestroyDue(h)), h.type[r[i]] # "object", NEW m,
           Sound(h, hd, Append(st, <<"destroy", l, r>>), {}, m)
    PROVE  Sound(SetNull(h, r[i]), hd, Append(st, <<"destroy", l, After(r, i)>>) \o Drops(h.kids[r[i]]), {}, m)
<1> DEFINE t == <<"destroy", l, r>>  u == <<"destroy", l, After(r, i)>>  s1 == Append(st, t)
           s2 == Append(st, u)  z == r[i]  g == SetNull(h, z)  K == h.kids[z]
<1>1. h \in Heaps
  BY DEF Good, AlmostGood
<1>2. /\ t \in Tasks /\ u \in Tasks /\ IsList(t) /\ IsList(u)
      /\ InList(u) = InList(t) /\ Rest(t) = {r[j] : j \in 1 .. Len(r)}
  <2>1. After(r, i) \in Seq(Zval)
    BY AfterIs
  <2> QED
    BY ZenonT(60), <2>1, ListTask
<1>3. Good(h, hd, s1) /\ Sound(h, hd, s1, {}, m)
  OBVIOUS
<1> HIDE DEF t, u
<1>4. z \in Rest(t)
  BY <1>2
<1> HIDE DEF z, s2, g, K
<1>5. z \in Zval /\ z \in Node /\ h.addr[z] = "list" /\ h.rc[z] # 0
  <2>1. z \in Zval /\ z \in Node /\ z \in InList(t) /\ h.addr[z] = "list" /\ h.rc[z] \in Nat /\ h.rc[z] > 0
    BY <1>2, <1>3, <1>4, ListElement
  <2> QED
    BY <2>1
<1>6. h.type[z] = "array" /\ K \in SUBSET Zval /\ Counted(h, z) \subseteq K
  <2>1. z \in DestroyDue(h) /\ h.type[z] # "object"
    BY DEF IsNext, z
  <2>2. h.type[z] = "array"
    BY <1>5, <2>1, DueHas
  <2> QED
    BY <1>1, <1>5, <2>2 DEF Heaps, K, Counted, Out, Uncounted
<1>7. s2 \in Seq(Tasks) /\ Sound(h, hd, s2, {}, m)
  BY <1>2, <1>3, SwapSound DEF s2
<1>8. NullOf(g, h, z)
  BY <1>1, <1>5, NullFields DEF g
<1>9. Sound(g, hd, s2, Counted(h, z), m)
  BY <1>1, <1>5, <1>7, <1>8, NullSound DEF NullOf
<1>10. Sound(g, hd, s2 \o Drops(K), {}, m)
  <2>1. Counted(h, z) \subseteq K \cup {}
    BY <1>6
  <2> QED
    BY <1>6, <1>7, <1>9, <2>1, DropsSound
<1> QED
  BY <1>10 DEF g, s2, u, K, z

\* The second loop releases an object.
LEMMA DestroyObjectSound ==
    ASSUME NEW h, NEW hd, NEW st \in Seq(Tasks), NEW l \in Seq(Zval), NEW r \in Seq(Zval),
           Good(h, hd, Append(st, <<"destroy", l, r>>)), NEW i \in 1 .. Len(r),
           IsNext(r, i, DestroyDue(h)), h.type[r[i]] = "object",
           NEW g, g = Emptied(h, r[i], h.obj[r[i]]), NEW m,
           Sound(h, hd, Append(st, <<"destroy", l, r>>), {}, m)
    PROVE  Sound(SetKids(Unlist(g, h.obj[r[i]]), h.obj[r[i]], {}), hd,
                 Append(st, <<"destroy", l, After(r, i)>>)
                     \o (<<<<"gone", h.obj[r[i]]>>>> \o Drops(g.kids[h.obj[r[i]]])), {}, m)
<1> DEFINE t == <<"destroy", l, r>>  u == <<"destroy", l, After(r, i)>>  s1 == Append(st, t)
           s2 == Append(st, u)  z == r[i]  o == h.obj[z]  d == <<"gone", o>>  f == SetRc(h, o, 1)  s3 == Append(s2, d)
<1>1. h \in Heaps /\ Kinds(h)
  BY DEF Good, AlmostGood
<1>2. /\ t \in Tasks /\ u \in Tasks /\ IsList(t) /\ IsList(u)
      /\ InList(u) = InList(t) /\ Rest(t) = {r[j] : j \in 1 .. Len(r)}
  <2>1. After(r, i) \in Seq(Zval)
    BY AfterIs
  <2> QED
    BY ZenonT(60), <2>1, ListTask
<1>3. Good(h, hd, s1) /\ Sound(h, hd, s1, {}, m)
  OBVIOUS
<1>4. ToEnd(g, hd, s2, o)
  BY DestroyObject
<1>5. g = Emptied(h, z, o) /\ h.type[z] = "object"
  OBVIOUS
<1> HIDE DEF t, u
<1>6. z \in Rest(t)
  BY <1>2
<1> HIDE DEF z, s2, s3, d, o
<1>7. z \in Zval /\ z \in Node /\ h.addr[z] = "list" /\ h.rc[z] \in Nat /\ h.rc[z] # 0
  <2>1. z \in Zval /\ z \in Node /\ z \in InList(t) /\ h.addr[z] = "list" /\ h.rc[z] \in Nat /\ h.rc[z] > 0
    BY <1>2, <1>3, <1>6, ListElement
  <2> QED
    BY <2>1
<1>8. o \in Object /\ o \in Node /\ o # z /\ o \notin Zval /\ g.type[o] = "valid" /\ g \in Heaps /\ Rooted(g)
  BY <1>4, <1>7, Apartness DEF ToEnd, AlmostGood
<1>9. EmptiedOf(g, h, z, o)
  BY <1>1, <1>5, <1>7, <1>8, EmptiedFields
<1>10. s2 \in Seq(Tasks) /\ Sound(h, hd, s2, {}, m)
  BY <1>2, <1>3, SwapSound DEF s2
<1>11. d \in Tasks /\ d[1] # "delref" /\ Holds(d, o)
  BY <1>8, MadeObject DEF d, Holds
<1>12. Sound(h, hd, s3, {}, m)
  <2>1. \A x \in {} : x \in {} \/ Holds(d, x) \/ About(h, d, x)
    OBVIOUS
  <2> QED
    BY <1>10, <1>11, <2>1, PushSound DEF s3
<1>13. Going(s3, o) /\ ~Unheld(f, hd, s3, o)
  <2>1. Len(s2) + 1 \in 1 .. Len(s3) /\ s3[Len(s2) + 1] = d
    BY <1>10, <1>11, SeqEnd DEF s3
  <2> QED
    BY <1>11, <2>1 DEF Going, Unheld, d
<1> HIDE DEF f
<1>14. RcOf(f, h, o, 1)
  BY <1>1, <1>8, RcFields DEF f
<1>15. Sound(f, hd, s3, {}, m)
  <2>1. /\ o \in {} \/ h.rc[o] > 0 \/ ~Unheld(f, hd, s3, o)
        /\ o \in Zval => 1 # 0 \/ (h.type[o] = "null" /\ h.addr[o] # "list")
        /\ o \in Object => (1 = 0 /\ h.type[o] # "free") \/ h.rc[o] # 0 \/ Destructs(s3, o) \/ Going(s3, o)
    BY <1>8, <1>13
  <2> QED
    BY <1>1, <1>8, <1>12, <1>14, <2>1, RcSound
<1>16. /\ f \in Heaps /\ f.addr[z] = "list" /\ f.rc[z] # 0 /\ f.type[z] = "object"
       /\ g.obj = f.obj /\ g.addr = f.addr /\ g.col = f.col /\ g.roots = f.roots /\ g.type[z] = "null"
       /\ \A y \in Node : y # z => g.type[y] = f.type[y] /\ g.kids[y] = f.kids[y]
  BY <1>5, <1>7, <1>8, <1>9, <1>14 DEF EmptiedOf, RcOf
<1>17. g.rc = f.rc
  <2>1. g.rc \in [Node -> Int] /\ f.rc \in [Node -> Int]
    BY <1>8, <1>16 DEF Heaps
  <2>2. \A y \in Node : g.rc[y] = f.rc[y]
    BY <1>9, <1>14 DEF EmptiedOf, RcOf
  <2> QED
    BY <2>1, <2>2
<1>18. Counted(f, z) = {}
  BY <1>16 DEF Counted, Uncounted
<1>19. Sound(g, hd, s3, {}, m)
  <2>1. Sound(g, hd, s3, Counted(f, z), m)
    BY <1>7, <1>15, <1>16, <1>17, NullSound
  <2> QED
    BY <1>18, <2>1
<1>20. Sound(SetKids(Unlist(g, o), o, {}), hd, s2 \o (<<<<"gone", o>>>> \o Drops(g.kids[o])), {}, m)
  BY <1>8, <1>10, <1>19, LastSound DEF s3, d
<1> QED
  BY <1>20 DEF s2, u, o, z

\* What has no references need not be known.
LEMMA FreeSound ==
    ASSUME NEW h, NEW hd, NEW st, NEW X, \A x \in X : ~Unheld(h, hd, st, x), NEW m, Sound(h, hd, st, X, m)
    PROVE  Sound(h, hd, st, {}, m)
<1>1. \A x : Astray(h, hd, st, {}, x) => Astray(h, hd, st, X, x)
  BY DEF Astray
<1>2. Findable(h, hd, st, X) => Findable(h, hd, st, {})
  BY <1>1 DEF Findable
<1> QED
  BY <1>2 DEF Sound, Fine

\* The third loop.
LEMMA DestroyEndSound ==
    ASSUME NEW h, NEW hd, NEW st \in Seq(Tasks), NEW t \in Tasks, Good(h, hd, Append(st, t)),
           t[1] = "destroy", \A z \in Rest(t) : z \notin DestroyDue(h), NEW m,
           Sound(h, hd, Append(st, t), {}, m)
    PROVE  Sound(Freed(h, InList(t)), hd, st, {}, m)
<1> DEFINE s2 == Append(st, t)  L == InList(t)  g == Freed(h, L)
<1>1. h \in Heaps /\ Kinds(h) /\ Dying(h, hd, s2) /\ s2 \in Seq(Tasks)
  BY DEF Good, AlmostGood, Shape
<1>2. FreedOf(g, h, L)
  BY <1>1, FreedFields
<1>3. L \in SUBSET Zval /\ \A z \in L : Counted(h, z) = {} /\ Unnamed(s2, z)
  BY ListDone DEF ListOver
<1>4. Quiet(t) /\ \A x, f : (Holds(t, x) <=> x \in L) /\ ~About(f, t, x)
  BY DEF Quiet, Holds, InList, About
<1>5. \A j \in 1 .. Len(s2) : j > 1 => j - 1 \in 1 .. Len(s2)
  BY SeqEnd
<1> HIDE DEF L, g
<1>6. NoCheck(s2, L)
  <2> SUFFICES ASSUME NEW j \in 1 .. Len(s2), s2[j][1] = "check" PROVE s2[j][2] \in Zval \ L
    BY DEF NoCheck
  <2>1. s2[j] \in Tasks /\ s2[j][2] \in Zval
    BY <1>1, TaskType
  <2>2. j - 1 \in 1 .. Len(s2) /\ s2[j - 1] = <<"efree", s2[j][2]>>
    BY <1>1, <1>5 DEF Dying
  <2>3. s2[j - 1][1] = "efree" /\ s2[j - 1][2] = s2[j][2]
    BY <2>2
  <2> QED
    BY <1>3, <2>1, <2>2, <2>3 DEF Unnamed
<1>7. Sound(g, hd, s2, {}, m)
  <2> HIDE DEF s2
  <2>1. \A x \in Node \cap L : Counted(h, x) = {}
    BY <1>3
  <2>2. Sound(h, hd, s2, {}, m)
    BY DEF s2
  <2> QED
    BY <1>1, <1>2, <1>5, <1>6, <2>1, <2>2, FreedSound
<1>8. Sound(g, hd, st, L, m)
  <2>1. \A x \in Node : x \in {} \/ Holds(t, x) \/ About(g, t, x) => x \in L
    BY <1>4
  <2> QED
    BY <1>4, <1>7, <2>1, PopSound
<1>9. \A x \in L : ~Unheld(g, hd, st, x)
  BY <1>2, <1>3, Apartness DEF FreedOf, Unheld
<1>10. Sound(g, hd, st, {}, m)
  BY <1>8, <1>9, FreeSound
<1> QED
  BY <1>10 DEF g, L

\* The destructor returns.
LEMMA ReturnSound ==
    ASSUME NEW h, NEW hd, NEW st \in Seq(Tasks), NEW o \in Object,
           Good(h, hd, Append(st, <<"user", o>>)),
           Len(st) > 0 /\ st[Len(st)][1] = "dtors" => ~(h.rc[o] > 1) /\ h.addr[o] # "root",
           NEW m, Sound(h, hd, Append(st, <<"user", o>>), {}, m)
    PROVE  Sound(SetRc(h, o, h.rc[o] - 1), hd, st, {}, m)
<1> DEFINE t == <<"user", o>>  s2 == Append(st, t)  v == h.rc[o] - 1  g == SetRc(h, o, v)
<1>1. h \in Heaps /\ Kinds(h) /\ Calls(h, s2) /\ Exact(h, hd, s2) /\ t \in Tasks /\ o \in Node /\ o \notin Zval
  BY MadeObject, Apartness DEF Good, AlmostGood, Shape
<1>2. /\ Len(st) + 1 \in 1 .. Len(s2) /\ s2[Len(st) + 1] = t /\ s2 \in Seq(Tasks) /\ Len(st) \in Nat
      /\ \A j \in 1 .. Len(st) : s2[j] = st[j]
  BY <1>1, SeqEnd
<1>3. /\ t[1] = "user" /\ t[2] = o /\ t[1] # "delref" /\ t[1] # "buffer" /\ t[1] # "efree" /\ t[1] # "gone"
      /\ \A x : (Holds(t, x) <=> x = o) /\ ~About(h, t, x)
  BY DEF Holds, InList, About
<1>4. h.rc[o] \in Nat /\ h.rc[o] > 0 /\ h.type[o] = "valid"
  <2> HIDE DEF t, s2
  <2> QED
    BY <1>1, <1>2, <1>3, ObjectHeld
<1>5. Len(st) > 0 /\ (st[Len(st)] = <<"delref", o>> \/ st[Len(st)][1] = "dtors")
  <2> HIDE DEF t, s2
  <2>1. Len(st) + 1 > 1 /\ (s2[(Len(st) + 1) - 1] = <<"delref", o>> \/ s2[(Len(st) + 1) - 1][1] = "dtors")
    BY <1>1, <1>2, <1>3 DEF Calls
  <2>2. (Len(st) + 1) - 1 = Len(st) /\ Len(st) > 0 /\ Len(st) \in 1 .. Len(st)
    BY <1>2, <2>1
  <2> QED
    BY <1>2, <2>1, <2>2
<1>6. v \in Int /\ RcOf(g, h, o, v)
  <2>1. v \in Int
    BY <1>4
  <2> HIDE DEF v
  <2> QED
    BY <1>1, <2>1, RcFields
<1>7. (st[Len(st)] = <<"delref", o>> /\ Holds(st[Len(st)], o) /\ st[Len(st)][1] # "dtors" /\ Len(st) \in 1 .. Len(st))
      \/ v = 0
  <2>1. CASE st[Len(st)] = <<"delref", o>>
    <3>1. st[Len(st)][1] = "delref" /\ st[Len(st)][2] = o /\ Len(st) \in 1 .. Len(st)
      BY <1>2, <1>5, <2>1
    <3> QED
      BY <2>1, <3>1 DEF Holds
  <2>2. CASE st[Len(st)][1] = "dtors"
    BY <1>4, <1>5, <2>2
  <2> QED
    BY <1>5, <2>1, <2>2
<1>8. \A x : /\ t # <<"efree", x>> /\ t # <<"gone", x>> /\ t # <<"return", x>>
            /\ (t = <<"user", x>> => x = o)
  OBVIOUS
<1>9. Sound(h, hd, s2, {}, m)
  OBVIOUS
<1> HIDE DEF t, s2, v, g
<1>10. /\ g.type = h.type /\ g.kids = h.kids /\ g.obj = h.obj /\ g.col = h.col /\ g.addr = h.addr
       /\ g.roots = h.roots /\ g.rc[o] = v /\ \A y \in Node : y # o => g.rc[y] = h.rc[y]
  BY <1>6 DEF RcOf
<1>11. ASSUME NEW x \in Node, Astray(g, hd, st, {}, x) PROVE Astray(h, hd, s2, {}, x)
  <2>1. x # o
    BY <1>7, <1>10, <1>11 DEF Astray, Unheld
  <2>2. Unheld(h, hd, st, x) /\ ~Noted(h, st, x)
    BY <1>10, <1>11, <2>1, NotedSame DEF Astray, Unheld
  <2> QED
    BY <1>1, <1>3, <2>1, <2>2, PushHolds, PushNotes DEF Astray, s2
<1>12. \A y \in Node : Counted(g, y) = Counted(h, y)
  BY <1>10, CountedSame
<1>13. ASSUME NEW z \in Zval, Spent(g, z), ~Ends(st, z) PROVE Spent(h, z) /\ ~Ends(s2, z)
  <2>1. Spent(h, z)
    BY <1>1, <1>10, <1>13, Apartness DEF Spent
  <2> QED
    BY <1>1, <1>8, <1>13, <2>1, PushEnds DEF s2
<1>14. ASSUME NEW x \in Node, g.col[x] = "purple", ~Purpled(g, st, x)
       PROVE  h.col[x] = "purple" /\ ~Purpled(h, s2, x)
  <2>1. /\ x \notin h.roots /\ ~Bought(s2, x)
        /\ x \in Object => ~Destructs(st, x) /\ ~Going(s2, x) /\ (g.rc[x] # 0 \/ g.type[x] = "free")
    BY <1>1, <1>3, <1>8, <1>10, <1>14, PushEnds DEF Purpled, s2
  <2>2. x \in Object => ~Destructs(s2, x)
    <3>1. x = o => st[Len(st)][1] # "dtors"
      BY <1>1, <1>4, <1>7, <1>10, <2>1
    <3> QED
      BY <1>1, <1>8, <2>1, <3>1, PushDestructs DEF s2
  <2>3. x \in Object => h.rc[x] # 0 \/ h.type[x] = "free"
    BY <1>4, <1>10, <2>1
  <2> QED
    BY <1>10, <1>14, <2>1, <2>2, <2>3 DEF Purpled
<1>15. Carries(h, hd, s2, {}, g, hd, st, {})
  BY <1>11, <1>12, <1>13, <1>14 DEF Carries
<1>16. Fine(g, hd, st, {}, m)
  BY <1>9, <1>15, Carry DEF Sound
<1>17. Checked(g, st)
  <2>1. Checked(h, st)
    BY <1>1, <1>3, <1>9, PushChecked DEF Sound, s2
  <2> QED
    BY <1>10, <2>1, CheckedSame
<1>18. Sound(g, hd, st, {}, m)
  BY <1>16, <1>17 DEF Sound
<1> QED
  BY <1>18 DEF g, v

\* Back in gc_zval_possible_root after a collection, when there is room again.
LEMMA BufferAfterSound ==
    ASSUME NEW h, NEW hd, NEW st \in Seq(Tasks), NEW x \in Node, NEW z \in Zval,
           Good(h, hd, Append(st, <<"buffer", x, z>>)),
           Cardinality(h.roots) # MaxRoots, h.addr[x] = "null",
           h.rc[z] = 1 => h.type[z] = "null", h.type[x] # "free",
           NEW m, Sound(h, hd, Append(st, <<"buffer", x, z>>), {}, m)
    PROVE  Sound(AddRoot(Purple(SetRc(h, z, h.rc[z] - 1), x), x), hd, st, {}, m)
<1> DEFINE t == <<"buffer", x, z>>  s2 == Append(st, t)  v == h.rc[z] - 1  f == SetRc(h, z, v)  p == Purple(f, x)
           g == AddRoot(p, x)
<1>1. h \in Heaps /\ Kinds(h) /\ Lists(h, s2) /\ Apart(h, hd, s2, {}) /\ Dying(h, hd, s2) /\ Exact(h, hd, s2)
  BY DEF Good, AlmostGood, Shape
<1>2. /\ t \in Tasks /\ t[1] = "buffer" /\ t[2] = x /\ t[3] = z /\ z \in Node /\ z \notin Object
      /\ \A y : (Holds(t, y) <=> y = z) /\ \A e : (About(e, t, y) <=> y = x)
  BY MadeBuffer, Apartness DEF Holds, InList, About
<1>3. Len(st) + 1 \in 1 .. Len(s2) /\ s2[Len(st) + 1] = t /\ s2 \in Seq(Tasks)
  BY <1>2, SeqEnd
<1>4. Sound(h, hd, s2, {}, m) /\ Good(g, hd, st)
  BY BufferAfterGood
<1> HIDE DEF t, s2, v, f, p, g
<1>5. h.rc[z] \in Nat /\ h.rc[z] > 0
  BY <1>1, <1>2, <1>3, CountsType
<1>6. h.addr[z] # "list"
  <2>1. ASSUME h.addr[z] = "list" PROVE FALSE
    <3>1. PICK i \in 1 .. Len(s2) : z \in InList(s2[i])
      BY <1>1, <2>1 DEF Lists
    <3> QED
      BY <1>1, <1>2, <1>3, <3>1 DEF Apart
  <2> QED
    BY <2>1
<1>7. \/ x = z /\ h.type[z] = "array"
      \/ x \in Object /\ (To(h, z, x) \/ h.type[z] = "null")
  <2>1. PICK k \in 1 .. Len(s2) : s2[k] = t
    BY <1>3
  <2> QED
    BY <1>1, <1>2, <2>1 DEF Dying
<1>8. h.type[x] # "null"
  BY <1>1, <1>7 DEF Kinds
<1>9. v \in Int /\ v = h.rc[z] - 1
  BY <1>5 DEF v
<1>10. RcOf(f, h, z, v)
  BY <1>1, <1>2, <1>9, RcFields DEF f
<1>11. Sound(f, hd, s2, {}, m)
  <2>1. /\ z \in {} \/ h.rc[z] > 0 \/ ~Unheld(f, hd, s2, z)
        /\ z \in Zval => v # 0 \/ (h.type[z] = "null" /\ h.addr[z] # "list")
        /\ z \in Object => (v = 0 /\ h.type[z] # "free") \/ h.rc[z] # 0 \/ Destructs(s2, z) \/ Going(s2, z)
    BY <1>2, <1>5, <1>6, <1>9
  <2> QED
    BY <1>1, <1>2, <1>4, <1>10, <2>1, RcSound
<1>12. /\ p \in Heaps /\ f \in Heaps /\ p.type = f.type /\ p.kids = f.kids /\ p.obj = f.obj /\ p.rc = f.rc
       /\ p.addr = f.addr /\ p.roots = f.roots /\ \A y \in Node : y # x => p.col[y] = f.col[y]
  BY <1>10, PurpleFields DEF p, RcOf
<1>13. f.addr[x] # "list" /\ f.type[x] # "null" /\ f.obj = h.obj /\ f.type = h.type
  BY <1>8, <1>10 DEF RcOf
<1>14. Carries(f, hd, s2, {} \cup {x}, g, hd, s2, {})
  BY <1>12, <1>13, RootCarries DEF g
<1>15. Fine(g, hd, s2, {}, m)
  <2>1. {} \subseteq {} \cup {x}
    OBVIOUS
  <2>2. Fine(f, hd, s2, {} \cup {x}, m)
    BY <1>11, <2>1, FineMore DEF Sound
  <2> QED
    BY <1>14, <2>2, Carry
<1>16. g.obj = f.obj /\ g.type = f.type /\ x \in g.roots
  BY <1>12, RootFields DEF g
<1>17. Sound(g, hd, s2, {}, m)
  BY <1>11, <1>15, <1>16, CheckedSame DEF Sound
<1>18. Sound(g, hd, st, {x} \cup {z}, m)
  <2>1. \A y \in Node : y \in {} \/ Holds(t, y) \/ About(g, t, y) => y \in {x} \cup {z}
    BY <1>2
  <2> QED
    BY <1>2, <1>16, <1>17, <2>1, PopSound DEF s2
<1>19. Sound(g, hd, st, {x}, m)
  <2>1. CASE x = z
    <3>1. {x} \cup {z} = {x}
      BY <2>1
    <3> QED
      BY <1>18, <3>1
  <2>2. CASE x # z
    <3>1. Counted(g, z) \subseteq {x}
      BY <1>7, <1>13, <1>16, <2>2 DEF Counted, Out, To
    <3>2. Fine(g, hd, st, {x}, m)
      BY <1>2, <1>4, <1>18, <3>1, Unknow DEF Sound
    <3> QED
      BY <1>18, <3>2 DEF Sound
  <2> QED
    BY <2>1, <2>2
<1>20. Noted(g, st, x)
  BY <1>16 DEF Noted
<1>21. Sound(g, hd, st, {}, m)
  BY <1>19, <1>20, KnownSound
<1> QED
  BY <1>21 DEF g, p, f, v

\* Nobody checks what is free.
LEMMA FreeUnchecked ==
    ASSUME NEW h, NEW hd, NEW st, Good(h, hd, st), NEW z \in Zval, h.type[z] = "free"
    PROVE  NoCheck(st, {z}) /\ \A j \in 1 .. Len(st) : j > 1 => j - 1 \in 1 .. Len(st)
<1>1. st \in Seq(Tasks) /\ Dying(h, hd, st)
  BY DEF Good, AlmostGood, Shape
<1>2. \A j \in 1 .. Len(st) : j > 1 => j - 1 \in 1 .. Len(st)
  BY <1>1
<1>3. ASSUME NEW j \in 1 .. Len(st), st[j][1] = "check" PROVE st[j][2] \in Zval \ {z}
  <2>1. st[j] \in Tasks /\ st[j][2] \in Zval
    BY <1>1, <1>3, TaskType
  <2>2. j - 1 \in 1 .. Len(st) /\ st[j - 1] = <<"efree", st[j][2]>>
    BY <1>1, <1>2, <1>3 DEF Dying
  <2>3. h.type[st[j][2]] = "null"
    <3> DEFINE y == st[j][2]
    <3>1. st[j - 1][1] = "efree" /\ st[j - 1][2] = y
      BY <2>2
    <3> HIDE DEF y
    <3>2. h.type[y] = "null"
      BY <1>1, <2>2, <3>1 DEF Dying
    <3> QED
      BY <3>2 DEF y
  <2> QED
    BY <2>1, <2>3
<1> QED
  BY <1>2, <1>3 DEF NoCheck

\* A new zval, which a variable refers to.
LEMMA NewSound ==
    ASSUME NEW h \in Heaps, Kinds(h), NEW hd, NEW st, NEW z \in Zval, h.type[z] = "free", NoCheck(st, {z}),
           \A j \in 1 .. Len(st) : j > 1 => j - 1 \in 1 .. Len(st),
           NEW g, NewOf(g, h, z), g.col = h.col, NEW X, NEW m, Sound(h, hd, st, X, m)
    PROVE  Sound(g, hd \cup {z}, st, X, m)
<1>1. z \in Node /\ z \notin Object
  BY Apartness
<1>2. /\ g \in Heaps /\ OnlyAt(g, h, z) /\ g.roots = h.roots /\ g.rc[z] = 1
      /\ g.type[z] \in {"array", "object"}
  BY DEF NewOf
<1>3. /\ \A y \in Node : y # z => g.type[y] = h.type[y] /\ g.rc[y] = h.rc[y] /\ g.addr[y] = h.addr[y]
      /\ \A y \in Zval : y # z => g.obj[y] = h.obj[y]
  BY <1>2 DEF OnlyAt
<1>4. Counted(h, z) = {}
  BY DEF Counted, Uncounted, Out
<1>5. \A y \in Node : y # z => Counted(g, y) = Counted(h, y)
  BY <1>1, <1>2, OneCount
<1>6. ASSUME NEW x \in Node PROVE Noted(g, st, x) <=> Noted(h, st, x)
  <2>1. ASSUME NEW j \in 1 .. Len(st) PROVE About(g, st[j], x) <=> About(h, st[j], x)
    BY <1>3 DEF About, NoCheck
  <2> QED
    BY <1>2, <2>1 DEF Noted
<1>7. ASSUME NEW x \in Node, Astray(g, hd \cup {z}, st, X, x)
      PROVE  /\ Astray(h, hd, st, X, x)
             /\ \A y \in Node : x \in Counted(h, y) => x \in Counted(g, y)
  <2>1. x # z
    BY <1>7 DEF Astray, Unheld
  <2>2. Astray(h, hd, st, X, x)
    BY <1>3, <1>6, <1>7, <2>1 DEF Astray, Unheld
  <2> QED
    BY <1>4, <1>5, <2>2
<1>8. ASSUME NEW y \in Zval, Spent(g, y) PROVE Spent(h, y)
  <2>1. y # z
    BY <1>2, <1>8 DEF Spent
  <2> QED
    BY <1>3, <1>8, <2>1, Apartness DEF Spent
<1>9. ASSUME NEW x \in Node, ~Purpled(g, st, x) PROVE ~Purpled(h, st, x)
  <2>1. x \in Object => x # z
    BY <1>1
  <2> QED
    BY <1>2, <1>3, <1>9, <2>1 DEF Purpled
<1>10. Carries(h, hd, st, X, g, hd \cup {z}, st, X)
  BY <1>7, <1>8, <1>9 DEF Carries
<1>11. Checked(g, st)
  <2> SUFFICES ASSUME NEW j \in 1 .. Len(st), st[j][1] = "delref"
               PROVE  j > 1 /\ st[j - 1][1] = "check" /\ g.obj[st[j - 1][2]] = st[j][2]
    BY DEF Checked, CheckAt
  <2>1. j > 1 /\ st[j - 1][1] = "check" /\ h.obj[st[j - 1][2]] = st[j][2]
    BY DEF Sound, Checked, CheckAt
  <2>2. st[j - 1][2] \in Zval /\ st[j - 1][2] # z
    BY <2>1 DEF NoCheck
  <2> QED
    BY <1>3, <2>1, <2>2
<1>12. Fine(g, hd \cup {z}, st, X, m)
  BY <1>10, Carry DEF Sound
<1> QED
  BY <1>11, <1>12 DEF Sound

\* zend_objects_store_put: nothing refers to the object yet.
LEMMA PutSound ==
    ASSUME NEW h \in Heaps, Kinds(h), NEW hd, NEW st, NEW o \in Object, h.type[o] = "free",
           NEW f, f.type[o] = "valid", f.kids = h.kids, f.obj = h.obj, f.addr = h.addr, f.col = h.col,
           f.roots = h.roots, \A y \in Node : y # o => f.type[y] = h.type[y] /\ f.rc[y] = h.rc[y],
           NEW m, Sound(h, hd, st, {}, m)
    PROVE  Sound(f, hd, st, {o}, m)
<1>1. o \in Node /\ o \notin Zval
  BY Apartness
<1>2. \A x : Noted(f, st, x) <=> Noted(h, st, x)
  BY NotedSame
<1>3. ASSUME NEW x \in Node, Astray(f, hd, st, {o}, x) PROVE Astray(h, hd, st, {}, x)
  BY <1>2, <1>3 DEF Astray, Unheld
<1>4. \A y \in Node : Counted(h, y) \subseteq Counted(f, y)
  <2>1. Counted(h, o) = {}
    BY DEF Counted, Uncounted, Out
  <2>2. \A y \in Node : y # o => Counted(f, y) = Counted(h, y)
    BY CountedSame
  <2> QED
    BY <2>1, <2>2
<1>5. ASSUME NEW y \in Zval, Spent(f, y) PROVE Spent(h, y)
  BY <1>1, <1>5, Apartness DEF Spent
<1>6. ASSUME NEW x \in Node, ~Purpled(f, st, x) PROVE ~Purpled(h, st, x)
  BY <1>6 DEF Purpled
<1>7. Carries(h, hd, st, {}, f, hd, st, {o})
  BY <1>3, <1>4, <1>5, <1>6 DEF Carries
<1>8. Fine(f, hd, st, {o}, m)
  BY <1>7, Carry DEF Sound
<1> QED
  BY <1>8, CheckedSame DEF Sound

\* What a variable's zval refers to is not astray.
LEMMA VariableSound ==
    ASSUME NEW g, NEW hd, NEW st, NEW z \in Node, z \in hd, NEW o, o \in Counted(g, z), NEW m,
           Sound(g, hd, st, {o}, m)
    PROVE  Sound(g, hd, st, {}, m)
<1>1. ~Astray(g, hd, st, {}, z)
  BY DEF Astray, Unheld
<1>2. {o} = {} \cup {o}
  OBVIOUS
<1>3. Fine(g, hd, st, {} \cup {o}, m)
  BY <1>2 DEF Sound
<1>4. Fine(g, hd, st, {}, m)
  BY <1>1, <1>3, Referred
<1> QED
  BY <1>4 DEF Sound

\* Other elements of a container: what it has no more, something holds.
LEMMA KidsSound ==
    ASSUME NEW h \in Heaps, NEW hd, NEW st, NEW c \in Node, NEW S, NEW g, KidsOf(g, h, c, S),
           h.type[c] \in {"array", "valid"}, \A x \in h.kids[c] : x \in S \/ ~Unheld(g, hd, st, x),
           NEW m, Sound(h, hd, st, {}, m)
    PROVE  Sound(g, hd, st, {}, m)
<1>1. /\ g.type = h.type /\ g.rc = h.rc /\ g.obj = h.obj /\ g.col = h.col /\ g.addr = h.addr
      /\ g.roots = h.roots
  BY DEF KidsOf
<1>2. \A x : (Noted(g, st, x) <=> Noted(h, st, x)) /\ (Purpled(g, st, x) <=> Purpled(h, st, x))
             /\ (Unheld(g, hd, st, x) <=> Unheld(h, hd, st, x))
  BY <1>1, NotedSame DEF Purpled, Unheld
<1>3. /\ Counted(h, c) = h.kids[c] /\ Counted(g, c) = S
      /\ \A y \in Node \ {c} : Counted(g, y) = Counted(h, y)
  BY KidsCounted
<1>4. ASSUME NEW x \in Node, Astray(g, hd, st, {}, x)
      PROVE  /\ Astray(h, hd, st, {}, x)
             /\ \A y \in Node : x \in Counted(h, y) => x \in Counted(g, y)
  <2>1. Unheld(g, hd, st, x) /\ Astray(h, hd, st, {}, x)
    BY <1>2, <1>4 DEF Astray
  <2> QED
    BY <1>3, <2>1
<1>5. \A z \in Zval : Spent(g, z) => Spent(h, z)
  BY <1>1 DEF Spent
<1>6. Carries(h, hd, st, {}, g, hd, st, {})
  BY <1>1, <1>2, <1>4, <1>5 DEF Carries
<1>7. Fine(g, hd, st, {}, m)
  BY <1>6, Carry DEF Sound
<1> QED
  BY <1>1, <1>7, CheckedSame DEF Sound

\* A variable lets go of a zval, whose reference is to be dropped.
LEMMA UnsetSound ==
    ASSUME NEW h, NEW hd, NEW st \in Seq(Tasks), NEW z \in Zval, NEW m, Sound(h, hd, st, {}, m)
    PROVE  Sound(h, hd \ {z}, Append(st, <<"drop", {z}>>), {}, m)
<1> DEFINE t == <<"drop", {z}>>
<1>1. t \in Tasks /\ t[1] # "delref" /\ \A x : (Holds(t, x) <=> x = z) /\ ~About(h, t, x)
  BY DropTask DEF Holds, InList, About
<1>2. Quiet(t)
  BY DEF Quiet
<1> HIDE DEF t
<1>3. ASSUME NEW x \in Node, Astray(h, hd \ {z}, Append(st, t), {}, x) PROVE Astray(h, hd, st, {}, x)
  <2>1. Unheld(h, hd \ {z}, st, x) /\ ~Holds(t, x) /\ ~Noted(h, st, x)
    BY <1>1, <1>3, PushHolds, PushNotes DEF Astray
  <2> QED
    BY <1>1, <2>1 DEF Astray, Unheld
<1>4. ASSUME NEW x \in Zval, ~Ends(Append(st, t), x) PROVE ~Ends(st, x)
  BY <1>1, <1>2, <1>4, PushQuiet
<1>a. ASSUME NEW x \in Node, ~Purpled(h, Append(st, t), x) PROVE ~Purpled(h, st, x)
  BY <1>1, <1>2, <1>a, PushQuiet
<1>5. Carries(h, hd, st, {}, h, hd \ {z}, Append(st, t), {})
  BY <1>3, <1>4, <1>a DEF Carries
<1>6. Fine(h, hd \ {z}, Append(st, t), {}, m)
  BY <1>5, Carry DEF Sound
<1>7. Checked(h, Append(st, t))
  BY <1>1, PushChecked DEF Sound
<1>8. Sound(h, hd \ {z}, Append(st, t), {}, m)
  BY <1>6, <1>7 DEF Sound
<1> QED
  BY <1>8 DEF t

\* What is taken out of a container is held by the one who drops it.
LEMMA UnlinkSound ==
    ASSUME NEW h, NEW hd, NEW st, NEW c \in Node, NEW z \in h.kids[c], Good(h, hd, st), NEW m,
           Sound(h, hd, st, {}, m)
    PROVE  Sound(SetKids(h, c, h.kids[c] \ {z}), hd, Append(st, <<"drop", {z}>>), {}, m)
<1> DEFINE t == <<"drop", {z}>>  s2 == Append(st, t)  S == h.kids[c] \ {z}  g == SetKids(h, c, S)
<1>1. h \in Heaps /\ st \in Seq(Tasks) /\ h.type[c] \in {"array", "valid"}
  BY DEF Good, AlmostGood, Kinds
<1>2. z \in Zval /\ S \in SUBSET Zval
  BY <1>1 DEF Heaps
<1>3. t \in Tasks /\ t[1] # "delref" /\ Holds(t, z)
  BY <1>2, DropTask DEF Holds
<1>4. Len(st) + 1 \in 1 .. Len(s2) /\ s2[Len(st) + 1] = t
  BY <1>1, <1>3, SeqEnd
<1> HIDE DEF t
<1>5. KidsOf(g, h, c, S)
  BY <1>1, <1>2, KidsFields
<1> HIDE DEF g
<1>6. Sound(h, hd, s2, {}, m)
  <2>1. \A x \in {} : x \in {} \/ Holds(t, x) \/ About(h, t, x)
    OBVIOUS
  <2> QED
    BY <1>1, <1>3, <2>1, PushSound
<1>7. \A x \in h.kids[c] : x \in S \/ ~Unheld(g, hd, s2, x)
  BY <1>3, <1>4 DEF Unheld
<1> HIDE DEF s2, S
<1>8. Sound(g, hd, s2, {}, m)
  BY <1>1, <1>5, <1>6, <1>7, KidsSound
<1> QED
  BY <1>8 DEF g, S, s2, t

\* What is put into a container can be found from it.
LEMMA LinkSound ==
    ASSUME NEW h, NEW hd, NEW st, NEW c \in Node, NEW z \in Zval, Good(h, hd, st),
           h.type[c] \in {"array", "valid"}, z \in AccessibleOf(h, hd, st), NEW m, Sound(h, hd, st, {}, m)
    PROVE  Sound(SetRc(SetKids(h, c, h.kids[c] \cup {z}), z, h.rc[z] + 1), hd, st, {}, m)
<1> DEFINE S == h.kids[c] \cup {z}  f == SetKids(h, c, S)  v == h.rc[z] + 1  g == SetRc(f, z, v)
<1>1. h \in Heaps /\ st \in Seq(Tasks) /\ Kinds(h) /\ Exact(h, hd, st) /\ z \in Node /\ z \notin Object
  BY Apartness DEF Good, AlmostGood
<1>2. h.rc[z] \in Nat /\ h.rc[z] > 0
  <2>1. z \in hd \/ \E y \in Node : z \in Counted(h, y)
    BY <1>1, Reached
  <2> QED
    BY <1>1, <2>1, CountsType
<1>3. S \in SUBSET Zval /\ v \in Int /\ v # 0
  BY <1>1, <1>2 DEF Heaps
<1>4. KidsOf(f, h, c, S)
  BY <1>1, <1>3, KidsFields
<1>5. \A x \in h.kids[c] : x \in S \/ ~Unheld(f, hd, st, x)
  OBVIOUS
<1> HIDE DEF f, v, S
<1>6. f \in Heaps /\ f.rc = h.rc
  BY <1>4 DEF KidsOf
<1>7. Sound(f, hd, st, {}, m)
  BY <1>1, <1>4, <1>5, KidsSound
<1>8. RcOf(g, f, z, v)
  BY <1>1, <1>3, <1>6, RcFields
<1> HIDE DEF g
<1>9. Sound(g, hd, st, {}, m)
  <2>1. /\ z \in {} \/ f.rc[z] > 0 \/ ~Unheld(g, hd, st, z)
        /\ z \in Zval => v # 0 \/ (f.type[z] = "null" /\ f.addr[z] # "list")
        /\ z \in Object => (v = 0 /\ f.type[z] # "free") \/ f.rc[z] # 0 \/ Destructs(st, z) \/ Going(st, z)
    BY <1>1, <1>2, <1>3, <1>6
  <2> QED
    BY <1>1, <1>6, <1>7, <1>8, <2>1, RcSound
<1> QED
  BY <1>9 DEF g, f, v, S

(* The actions.                                                             *)
IsSound == Sound(heap, held, stack, {}, missed)

\* A zval of a task drop is decremented.
LEMMA DropFinds ==
    ASSUME IsGood, IsSound, NEW z \in Zval, Drop(z) PROVE Sound(heap', held', stack', {}, missed')
<1>1. stack \in Seq(Tasks) /\ Top # "none" /\ Top = "drop" /\ z \in Task[2] /\ held' = held
      /\ PtrDtor(heap, z, Below \o Drops(Task[2] \ {z}))
  BY DEF IsGood, Good, AlmostGood, Drop
<1>2. Below \in Seq(Tasks) /\ Task \in Tasks /\ stack = Append(Below, Task) /\ Task[1] = "drop"
  BY <1>1, TopTask
<1>3. Task[2] \in SUBSET Zval /\ Task = <<"drop", Task[2]>>
  BY <1>2, TaskType
<1> DEFINE S == Task[2]  b == Below  rest == b \o Drops(S \ {z})
<1>4. Good(heap, held, Append(b, <<"drop", S>>)) /\ Sound(heap, held, Append(b, <<"drop", S>>), {}, missed)
  BY <1>2, <1>3 DEF IsGood, IsSound
<1>5. \A i \in 1 .. Len(rest) : IsList(rest[i]) => Listed
  BY <1>1, <1>3, ListBelow
<1>6. S \in SUBSET Zval /\ z \in S /\ b \in Seq(Tasks)
  BY <1>1, <1>2, <1>3
<1> HIDE DEF S, b
<1>7. rest \in Seq(Tasks) /\ Good(heap, held, Append(rest, <<"drop", {z}>>))
  BY <1>4, <1>6, SplitDrop
<1>8. Sound(heap, held, Append(rest, <<"drop", {z}>>), {}, missed)
  BY <1>4, <1>6, SplitSound
<1>9. PtrDtor(heap, z, rest)
  BY <1>1 DEF S, b
<1> HIDE DEF rest
<1>10. Sound(heap', held, stack', {}, missed')
  BY <1>5, <1>7, <1>8, <1>9, PtrDtorSound
<1> QED
  BY <1>1, <1>10

\* The end of zend_objects_store_del_ref is done.
LEMMA CheckFinds ==
    ASSUME IsGood, IsSound, NEW z \in Zval, Check(z) PROVE Sound(heap', held', stack', {}, missed')
<1>1. stack \in Seq(Tasks) /\ Top # "none" /\ Top = "check" /\ z = Task[2] /\ held' = held
      /\ BufferObject(heap, z, Below)
  BY DEF IsGood, Good, AlmostGood, Check
<1>2. Below \in Seq(Tasks) /\ Task \in Tasks /\ stack = Append(Below, Task) /\ Task[1] = "check"
  BY <1>1, TopTask
<1>3. Task = <<"check", z>>
  BY <1>1, <1>2, TaskType
<1>4. Good(heap, held, Append(Below, <<"check", z>>)) /\ Sound(heap, held, Append(Below, <<"check", z>>), {}, missed)
  BY <1>2, <1>3 DEF IsGood, IsSound
<1>5. Sound(heap', held, stack', {}, missed')
  BY <1>1, <1>2, <1>4, CheckSound
<1> QED
  BY <1>1, <1>5

\* A zval is freed.
LEMMA EfreeFinds ==
    ASSUME IsGood, IsSound, NEW z \in Zval, Efree(z) PROVE Sound(heap', held', stack', {}, missed')
<1>1. stack \in Seq(Tasks) /\ Top # "none" /\ Top = "efree" /\ z = Task[2] /\ held' = held
      /\ heap' = Freed(heap, {z}) /\ stack' = Below \o <<>> /\ missed' = missed
  BY DEF IsGood, Good, AlmostGood, Efree, Becomes, Continues
<1>2. Below \in Seq(Tasks) /\ Task \in Tasks /\ stack = Append(Below, Task) /\ Task[1] = "efree"
  BY <1>1, TopTask
<1>3. Task = <<"efree", z>>
  BY <1>1, <1>2, TaskType
<1>4. Good(heap, held, Append(Below, <<"efree", z>>)) /\ Sound(heap, held, Append(Below, <<"efree", z>>), {}, missed)
  BY <1>2, <1>3 DEF IsGood, IsSound
<1>5. Sound(Freed(heap, {z}), held, Below, {}, missed)
  BY <1>2, <1>4, EfreeSound
<1>6. Below \o <<>> = Below
  BY <1>2
<1> QED
  BY <1>1, <1>5, <1>6

\* An object is freed.
LEMMA GoneFinds ==
    ASSUME IsGood, IsSound, NEW o \in Object, Gone(o) PROVE Sound(heap', held', stack', {}, missed')
<1>1. stack \in Seq(Tasks) /\ Top # "none" /\ Top = "gone" /\ o = Task[2] /\ held' = held
      /\ heap' = Freed(heap, {o}) /\ stack' = Below \o <<>> /\ missed' = missed
  BY DEF IsGood, Good, AlmostGood, Gone, Becomes, Continues
<1>2. Below \in Seq(Tasks) /\ Task \in Tasks /\ stack = Append(Below, Task) /\ Task[1] = "gone"
  BY <1>1, TopTask
<1>3. Task = <<"gone", o>>
  BY <1>1, <1>2, TaskType
<1>4. Good(heap, held, Append(Below, <<"gone", o>>)) /\ Sound(heap, held, Append(Below, <<"gone", o>>), {}, missed)
  BY <1>2, <1>3 DEF IsGood, IsSound
<1>5. Sound(Freed(heap, {o}), held, Below, {}, missed)
  BY <1>2, <1>4, GoneSound
<1>6. Below \o <<>> = Below
  BY <1>2
<1> QED
  BY <1>1, <1>5, <1>6

\* An object is released.
LEMMA DelRefFinds ==
    ASSUME IsGood, IsSound, NEW o \in Object, DelRef(o) PROVE Sound(heap', held', stack', {}, missed')
<1>1. stack \in Seq(Tasks) /\ Top # "none" /\ Top = "delref" /\ o = Task[2] /\ held' = held
      /\ Release(heap, o, Below)
  BY DEF IsGood, Good, AlmostGood, DelRef
<1>2. Below \in Seq(Tasks) /\ Task \in Tasks /\ stack = Append(Below, Task) /\ Task[1] = "delref"
  BY <1>1, TopTask
<1>3. Task = <<"delref", o>>
  BY <1>1, <1>2, TaskType
<1>4. Good(heap, held, Append(Below, <<"delref", o>>)) /\ Sound(heap, held, Append(Below, <<"delref", o>>), {}, missed)
  BY <1>2, <1>3 DEF IsGood, IsSound
<1>5. Sound(heap', held, stack', {}, missed')
  BY <1>1, <1>2, <1>4, ReleaseSound
<1> QED
  BY <1>1, <1>5

\* Back in gc_zval_possible_root after a collection.
LEMMA BufferFinds ==
    ASSUME IsGood, IsSound, NEW x \in Node, NEW z \in Zval, BufferAfterCollect(x, z), ~spoilt'
    PROVE  Sound(heap', held', stack', {}, missed')
<1> DEFINE h == [heap EXCEPT !.rc[z] = @ - 1]  b == Below  g == AsRoot(h, x)
<1>0. heap \in Heaps /\ stack \in Seq(Tasks)
  BY DEF IsGood, Good, AlmostGood
<1>1. Top # "none" /\ Top = "buffer" /\ x = Task[2] /\ z = Task[3] /\ held' = held
  BY DEF BufferAfterCollect
<1>2. /\ heap' = (IF Cardinality(h.roots) = MaxRoots THEN h ELSE g) /\ stack' = b \o <<>> /\ missed' = missed
      /\ spoilt' = (spoilt \/ Cardinality(h.roots) = MaxRoots \/ h.addr[x] # "null"
                           \/ (h.rc[z] = 0 /\ h.type[z] # "null") \/ h.type[x] = "free")
  BY DEF BufferAfterCollect, Becomes, Continues
<1>3. b \in Seq(Tasks) /\ Task \in Tasks /\ stack = Append(b, Task) /\ Task[1] = "buffer"
  BY <1>0, <1>1, TopTask
<1>4. Task = <<"buffer", x, z>>
  BY <1>1, <1>3, TaskType
<1>5. /\ h.roots = heap.roots /\ h.addr = heap.addr /\ h.type = heap.type /\ h.rc[z] = heap.rc[z] - 1
      /\ heap.rc[z] \in Int
  BY <1>0 DEF Heaps, Node
<1>6. /\ Cardinality(h.roots) # MaxRoots /\ h.addr[x] = "null" /\ h.type[x] # "free"
      /\ h.rc[z] = 0 => h.type[z] = "null"
  <2> HIDE DEF h, g
  <2> QED
    BY <1>2
<1>7. /\ Cardinality(heap.roots) # MaxRoots /\ heap.addr[x] = "null" /\ heap.type[x] # "free"
      /\ heap.rc[z] = 1 => heap.type[z] = "null"
  <2> HIDE DEF h, g
  <2> QED
    BY <1>5, <1>6
<1>8. g = AddRoot(Purple(SetRc(heap, z, heap.rc[z] - 1), x), x)
  <2>1. heap.rc[z] - 1 \in Int /\ z \in Node /\ h = SetRc(heap, z, heap.rc[z] - 1)
    BY <1>0, Apartness DEF SetRc, Heaps
  <2>2. h \in Heaps
    BY <1>0, <2>1, RcFields DEF RcOf
  <2> HIDE DEF h
  <2> QED
    BY <2>1, <2>2, AsRootIs
<1>9. Sound(AddRoot(Purple(SetRc(heap, z, heap.rc[z] - 1), x), x), held, b, {}, missed)
  <2>1. Good(heap, held, Append(b, <<"buffer", x, z>>)) /\ Sound(heap, held, Append(b, <<"buffer", x, z>>), {}, missed)
    BY <1>3, <1>4 DEF IsGood, IsSound
  <2> HIDE DEF b
  <2> QED
    BY <1>3, <1>7, <2>1, BufferAfterSound
<1>10. b \o <<>> = b
  BY <1>3
<1> HIDE DEF g, h, b
<1>11. heap' = g
  BY <1>2, <1>6
<1> QED
  BY <1>1, <1>2, <1>8, <1>9, <1>10, <1>11

\* The second and the third loop over free_list.
LEMMA DestroySound ==
    ASSUME NEW h, NEW hd, NEW st \in Seq(Tasks), NEW l \in Seq(Zval), NEW r \in Seq(Zval),
           Good(h, hd, Append(st, <<"destroy", l, r>>)), NEW m,
           Sound(h, hd, Append(st, <<"destroy", l, r>>), {}, m)
    PROVE  /\ None(r, DestroyDue(h)) => Sound(Freed(h, {l[i] : i \in DOMAIN l}), hd, st, {}, m)
           /\ \A i \in DOMAIN r : IsNext(r, i, DestroyDue(h)) =>
                 LET z == r[i]  next == Append(st, <<"destroy", l, After(r, i)>>)
                 IN  IF h.type[z] = "object"
                     THEN Release([h EXCEPT !.rc[h.obj[z]] = 1, !.type[z] = "null"], h.obj[z], next)
                             => Sound(heap', hd, stack', {}, m) /\ missed' = missed
                     ELSE Sound([h EXCEPT !.type[z] = "null", !.kids[z] = {}], hd, next \o Drops(h.kids[z]), {}, m)
<1> DEFINE t == <<"destroy", l, r>>
<1>1. t \in Tasks /\ InList(t) = {l[i] : i \in 1 .. Len(l)} /\ Rest(t) = {r[j] : j \in 1 .. Len(r)}
      /\ t[1] = "destroy"
  BY ListTask
<1>2. DOMAIN l = 1 .. Len(l) /\ DOMAIN r = 1 .. Len(r)
  OBVIOUS
<1>3. ASSUME None(r, DestroyDue(h)) PROVE Sound(Freed(h, {l[i] : i \in DOMAIN l}), hd, st, {}, m)
  <2>1. \A z \in Rest(t) : z \notin DestroyDue(h)
    <3> HIDE DEF t
    <3> QED
      BY <1>1, <1>2, <1>3 DEF None
  <2>2. Good(h, hd, Append(st, t)) /\ Sound(h, hd, Append(st, t), {}, m)
    OBVIOUS
  <2> HIDE DEF t
  <2>3. Sound(Freed(h, InList(t)), hd, st, {}, m)
    BY <1>1, <2>1, <2>2, DestroyEndSound
  <2> QED
    BY <1>1, <1>2, <2>3
<1>4. ASSUME NEW i \in DOMAIN r, IsNext(r, i, DestroyDue(h)), h.type[r[i]] # "object"
      PROVE  Sound([h EXCEPT !.type[r[i]] = "null", !.kids[r[i]] = {}], hd,
                   Append(st, <<"destroy", l, After(r, i)>>) \o Drops(h.kids[r[i]]), {}, m)
  <2>1. Sound(SetNull(h, r[i]), hd, Append(st, <<"destroy", l, After(r, i)>>) \o Drops(h.kids[r[i]]), {}, m)
    BY <1>2, <1>4, DestroyArraySound
  <2> QED
    BY <2>1 DEF SetNull
<1>5. ASSUME NEW i \in DOMAIN r, IsNext(r, i, DestroyDue(h)), h.type[r[i]] = "object",
             Release([h EXCEPT !.rc[h.obj[r[i]]] = 1, !.type[r[i]] = "null"], h.obj[r[i]],
                     Append(st, <<"destroy", l, After(r, i)>>))
      PROVE  Sound(heap', hd, stack', {}, m) /\ missed' = missed
  <2> DEFINE z == r[i]  o == h.obj[z]  g == Emptied(h, z, o)  next == Append(st, <<"destroy", l, After(r, i)>>)
  <2>1. g.type[o] = "valid" /\ g.rc[o] = 1 /\ g.done[o]
    <3>1. i \in 1 .. Len(r) /\ IsNext(r, i, DestroyDue(h)) /\ h.type[r[i]] = "object"
      BY <1>2, <1>5
    <3>2. ToEnd(g, hd, next, o)
      BY <3>1, DestroyObject
    <3> QED
      BY <3>2 DEF ToEnd
  <2>2. Release(g, o, next)
    BY <1>5 DEF Emptied
  <2>3. Sound(SetKids(Unlist(g, o), o, {}), hd, next \o (<<<<"gone", o>>>> \o Drops(g.kids[o])), {}, m)
    BY <1>2, <1>5, DestroyObjectSound
  <2> HIDE DEF g, next, o
  <2>4. heap' = [Unlist(g, o) EXCEPT !.kids[o] = {}]
        /\ stack' = next \o (<<<<"gone", o>>>> \o Drops(g.kids[o])) /\ missed' = missed
    BY <2>1, <2>2 DEF Release, Continues
  <2> QED
    BY <2>3, <2>4 DEF SetKids
<1> QED
  BY <1>3, <1>4, <1>5

\* The first loop takes a step.
LEMMA DestructorsFinds ==
    ASSUME IsGood, IsSound, CallDestructors PROVE Sound(heap', held', stack', {}, missed')
<1> DEFINE l == Task[2]  r == Task[3]  b == Below
           due == RefersTo(heap, {o \in Waiting(heap) : ~heap.done[o]})
<1>1. stack \in Seq(Tasks) /\ Top # "none" /\ Top = "dtors" /\ held' = held /\ missed' = missed
  BY ZenonT(60) DEF IsGood, Good, AlmostGood, CallDestructors, Becomes, Continues
<1>2. \/ None(r, due) /\ heap' = heap /\ stack' = b \o <<<<"destroy", l, l>>>>
      \/ \E i \in DOMAIN r :
            /\ IsNext(r, i, due)
            /\ heap' = [heap EXCEPT !.done[heap.obj[r[i]]] = TRUE, !.rc[heap.obj[r[i]]] = @ + 1]
            /\ stack' = b \o <<<<"dtors", l, After(r, i)>>, <<"user", heap.obj[r[i]]>>>>
  BY Zenon DEF CallDestructors, Becomes, Continues
<1>3. b \in Seq(Tasks) /\ Task \in Tasks /\ stack = Append(b, Task) /\ Task[1] = "dtors"
  BY <1>1, TopTask
<1>4. l \in Seq(Zval) /\ r \in Seq(Zval) /\ Task = <<"dtors", l, r>>
  BY <1>3, TaskType
<1>5. Good(heap, held, Append(b, <<"dtors", l, r>>)) /\ Sound(heap, held, Append(b, <<"dtors", l, r>>), {}, missed)
  BY <1>3, <1>4 DEF IsGood, IsSound
<1> HIDE DEF l, r, b
<1>6. CASE None(r, due) /\ heap' = heap /\ stack' = b \o <<<<"destroy", l, l>>>>
  <2>1. Sound(heap, held, Append(b, <<"destroy", l, l>>), {}, missed)
    BY <1>3, <1>4, <1>5, DtorsEndSound
  <2>2. b \o <<<<"destroy", l, l>>>> = Append(b, <<"destroy", l, l>>)
    <3>1. <<"destroy", l, l>> \in Tasks
      BY <1>4, MadeList
    <3> QED
      BY <1>3, <3>1
  <2> QED
    BY <1>1, <1>6, <2>1, <2>2
<1>7. ASSUME NEW i \in DOMAIN r, IsNext(r, i, due),
             heap' = [heap EXCEPT !.done[heap.obj[r[i]]] = TRUE, !.rc[heap.obj[r[i]]] = @ + 1],
             stack' = b \o <<<<"dtors", l, After(r, i)>>, <<"user", heap.obj[r[i]]>>>>
      PROVE  Sound(heap', held', stack', {}, missed')
  <2>1. i \in 1 .. Len(r)
    BY <1>4
  <2>2. Sound([heap EXCEPT !.done[heap.obj[r[i]]] = TRUE, !.rc[heap.obj[r[i]]] = @ + 1], held,
              b \o <<<<"dtors", l, After(r, i)>>, <<"user", heap.obj[r[i]]>>>>, {}, missed)
    BY <1>3, <1>4, <1>5, <1>7, <2>1, DtorsCallSound
  <2> QED
    BY <1>1, <1>7, <2>2
<1> QED
  BY <1>2, <1>6, <1>7

\* So do the others.
LEMMA DestroyFinds ==
    ASSUME IsGood, IsSound, Destroy PROVE Sound(heap', held', stack', {}, missed')
<1> DEFINE l == Task[2]  r == Task[3]  b == Below
           next(i) == Append(b, <<"destroy", l, After(r, i)>>)
<1>1. stack \in Seq(Tasks) /\ Top # "none" /\ Top = "destroy" /\ held' = held
  BY ZenonT(60) DEF IsGood, Good, AlmostGood, Destroy
<1>2. \/ /\ None(r, DestroyDue(heap)) /\ missed' = missed
         /\ heap' = Freed(heap, {l[i] : i \in DOMAIN l}) /\ stack' = b \o <<>>
      \/ \E i \in DOMAIN r :
            /\ IsNext(r, i, DestroyDue(heap))
            /\ IF heap.type[r[i]] = "object"
               THEN Release([heap EXCEPT !.rc[heap.obj[r[i]]] = 1, !.type[r[i]] = "null"],
                            heap.obj[r[i]], next(i))
               ELSE /\ heap' = [heap EXCEPT !.type[r[i]] = "null", !.kids[r[i]] = {}] /\ missed' = missed
                    /\ stack' = next(i) \o Drops(heap.kids[r[i]])
  BY Zenon DEF Destroy, Becomes, Continues, DestroyDue
<1>3. b \in Seq(Tasks) /\ Task \in Tasks /\ stack = Append(b, Task) /\ Task[1] = "destroy"
  BY <1>1, TopTask
<1>4. l \in Seq(Zval) /\ r \in Seq(Zval) /\ Task = <<"destroy", l, r>>
  BY <1>3, TaskType
<1>5. Good(heap, held, Append(b, <<"destroy", l, r>>)) /\ Sound(heap, held, Append(b, <<"destroy", l, r>>), {}, missed)
  BY <1>3, <1>4 DEF IsGood, IsSound
<1> HIDE DEF l, r, b
<1>6. CASE /\ None(r, DestroyDue(heap)) /\ missed' = missed
           /\ heap' = Freed(heap, {l[i] : i \in DOMAIN l}) /\ stack' = b \o <<>>
  <2>1. Sound(Freed(heap, {l[i] : i \in DOMAIN l}), held, b, {}, missed)
    BY <1>3, <1>4, <1>5, <1>6, DestroySound
  <2>2. b \o <<>> = b
    BY <1>3
  <2> QED
    BY <1>1, <1>6, <2>1, <2>2
<1>7. ASSUME NEW i \in DOMAIN r, IsNext(r, i, DestroyDue(heap)), heap.type[r[i]] = "object",
             Release([heap EXCEPT !.rc[heap.obj[r[i]]] = 1, !.type[r[i]] = "null"], heap.obj[r[i]], next(i))
      PROVE  Sound(heap', held', stack', {}, missed')
  <2>1. Sound(heap', held, stack', {}, missed) /\ missed' = missed
    BY <1>3, <1>4, <1>5, <1>7, DestroySound
  <2> QED
    BY <1>1, <2>1
<1>8. ASSUME NEW i \in DOMAIN r, IsNext(r, i, DestroyDue(heap)), heap.type[r[i]] # "object",
             heap' = [heap EXCEPT !.type[r[i]] = "null", !.kids[r[i]] = {}], missed' = missed,
             stack' = next(i) \o Drops(heap.kids[r[i]])
      PROVE  Sound(heap', held', stack', {}, missed')
  <2>1. Sound([heap EXCEPT !.type[r[i]] = "null", !.kids[r[i]] = {}], held,
              next(i) \o Drops(heap.kids[r[i]]), {}, missed)
    BY <1>3, <1>4, <1>5, <1>8, DestroySound
  <2> QED
    BY <1>1, <1>8, <2>1
<1> QED
  BY <1>2, <1>6, <1>7, <1>8

\* What a destructor leaves behind that has its object buffered as it returns.
LEMMA LeavesSound ==
    ASSUME NEW h, NEW hd, NEW st \in Seq(Tasks), NEW o \in Object,
           Good(h, hd, Append(st, <<"user", o>>)), ~Revived(h, o, st),
           Sound(h, hd, Append(st, <<"user", o>>), {}, missed), Leaves(h, o, st)
    PROVE  Sound(heap', hd, stack', {}, missed')
<1>1. Len(st) > 0 /\ st[Len(st)][1] = "dtors" => ~(h.rc[o] > 1) /\ h.addr[o] # "root"
  BY DEF Revived
<1>2. Sound(SetRc(h, o, h.rc[o] - 1), hd, st, {}, missed)
  BY <1>1, ReturnSound
<1>3. st \o <<>> = st
  OBVIOUS
<1>4. heap' = SetRc(h, o, h.rc[o] - 1) /\ stack' = st /\ missed' = missed
  BY <1>3 DEF SetRc, Leaves, Continues
<1> QED
  BY <1>2, <1>4

\* A destructor returns.
LEMMA ReturnFinds ==
    ASSUME IsGood, IsSound, DestructorReturns, ~spoilt' PROVE Sound(heap', held', stack', {}, missed')
<1> DEFINE o == Task[2]  b == Below  t == <<"return", o>>
<1>1. stack \in Seq(Tasks) /\ Top # "none" /\ Top = "user" /\ held' = held /\ heap \in Heaps
  BY DEF IsGood, Good, AlmostGood, DestructorReturns
<1>2. b \in Seq(Tasks) /\ Task \in Tasks /\ stack = Append(b, Task) /\ Task[1] = "user"
  BY <1>1, TopTask
<1>3. o \in Object /\ Task = <<"user", o>> /\ t \in Tasks
  BY <1>2, TaskType, MadeObject
<1>4. Good(heap, held, stack) /\ Sound(heap, held, stack, {}, missed)
  BY DEF IsGood, IsSound
<1>5. \/ BufferFull(heap, o) /\ Collect([heap EXCEPT !.col[o] = "purple"], Append(stack, t))
      \/ /\ ~BufferFull(heap, o) /\ ~Revived(Buffered(heap, o), o, b)
         /\ Leaves(Buffered(heap, o), o, b)
  BY DEF DestructorReturns
<1>6. t[1] # "delref"
  OBVIOUS
<1> HIDE DEF b, o
<1>7. Len(stack) \in 1 .. Len(stack) /\ Len(stack) > 0 /\ stack[Len(stack)] = <<"user", o>>
  BY <1>2, <1>3
<1>8. /\ o \in Node /\ heap.type[o] = "valid" /\ heap.rc[o] > 0 /\ heap.addr[o] # "list"
      /\ \A j \in 1 .. Len(stack) : stack[j] # <<"gone", o>>
  BY <1>3, <1>4, <1>7, ThisLives
<1>9. CASE BufferFull(heap, o) /\ Collect([heap EXCEPT !.col[o] = "purple"], Append(stack, t))
  <2> DEFINE g == Purple(heap, o)
  <2>1. Good(g, held, stack)
    BY <1>4, <1>8, ColourChange
  <2>2. Good(g, held, Append(stack, t))
    BY <1>3, <2>1, ReturnPush
  <2>3. Collect(g, Append(stack, t))
    BY <1>9 DEF Purple
  <2>4. g.obj = heap.obj
    BY <1>1, <1>8, PurpleFields
  <2>5. Purpled(heap, Append(stack, t), o)
    BY <1>1, <1>3, <1>7, PushEnds DEF Purpled
  <2> HIDE DEF t
  <2>6. Sound(heap, held, Append(stack, t), {}, missed)
    BY <1>1, <1>3, <1>4, <1>6, PushSound
  <2>7. Carries(heap, held, Append(stack, t), {}, g, held, Append(stack, t), {})
    BY <1>1, <1>8, <2>5, PurpleCarries
  <2> HIDE DEF g
  <2>8. Sound(g, held, Append(stack, t), {}, missed)
    BY <2>4, <2>6, <2>7, Carry, CheckedSame DEF Sound
  <2> QED
    BY <1>1, <2>2, <2>3, <2>8, CollectSound
<1>10. CASE /\ ~BufferFull(heap, o) /\ ~Revived(Buffered(heap, o), o, b)
            /\ Leaves(Buffered(heap, o), o, b)
  <2>1. Good(Buffered(heap, o), held, Append(b, <<"user", o>>))
    <3>1. Good(Buffered(heap, o), held, stack)
      BY <1>4, <1>8, <1>10, BufferedGood
    <3> QED
      BY <1>2, <1>3, <3>1
  <2>2. Sound(Buffered(heap, o), held, Append(b, <<"user", o>>), {}, missed)
    <3>1. Sound(heap, held, stack, {o}, missed)
      BY <1>4, FineMore DEF Sound
    <3>2. Sound(Buffered(heap, o), held, stack, {}, missed)
      BY <1>4, <1>8, <1>10, <3>1, BufferedSound
    <3> QED
      BY <1>2, <1>3, <3>2
  <2> QED
    BY <1>1, <1>2, <1>3, <1>10, <2>1, <2>2, LeavesSound
<1> QED
  BY <1>5, <1>9, <1>10

\* A destructor whose return has called the collector.
LEMMA ReturnAfterFinds ==
    ASSUME IsGood, IsSound, NEW o \in Object, ReturnAfterCollect(o), ~spoilt'
    PROVE  Sound(heap', held', stack', {}, missed')
<1> DEFINE b == SubSeq(Below, 1, Len(Below) - 1)  full == Cardinality(heap.roots) = MaxRoots
           t == <<"return", o>>  f == AsRoot(heap, o)  g == IF full THEN heap ELSE f
<1>1. stack \in Seq(Tasks) /\ heap \in Heaps /\ Good(heap, held, stack) /\ Sound(heap, held, stack, {}, missed)
  BY DEF IsGood, IsSound, Good, AlmostGood
<1>2. Leaves(g, o, b) /\ held' = held /\ ~full /\ heap.addr[o] = "null" /\ ~Revived(g, o, b)
  BY Zenon DEF ReturnAfterCollect
<1>3. /\ b \in Seq(Tasks) /\ Below = Append(b, <<"user", o>>) /\ stack = Append(Below, t)
      /\ Below \in Seq(Tasks) /\ t \in Tasks
  BY <1>1, ReturnTop, MadeObject
<1>4. Good(heap, held, Below)
  BY <1>1, <1>3, ReturnPop
<1>5. g = f
  BY <1>2
<1>6. t[1] = "return" /\ t[2] = o /\ \A x : ~Holds(t, x) /\ ~About(f, t, x)
  BY DEF Holds, InList, About
<1> HIDE DEF b, t
<1>7. /\ o \in Node /\ heap.type[o] = "valid" /\ heap.rc[o] > 0
      /\ \A j \in 1 .. Len(Below) : Below[j] # <<"gone", o>>
  <2>1. Len(Below) \in 1 .. Len(Below) /\ Below[Len(Below)] = <<"user", o>>
    BY <1>3
  <2> QED
    BY <1>4, <2>1, ThisLives
<1>8. Cardinality(heap.roots) < MaxRoots
  <2>1. heap.roots \in SUBSET Node /\ Cardinality(heap.roots) <= MaxRoots
    BY <1>1, GoodType DEF Heaps
  <2>2. Cardinality(heap.roots) \in Nat
    BY <2>1, NodesFinite, FS_Subset, FS_CardinalityType
  <2> QED
    BY <1>2, <2>1, <2>2, MaxRootsAssumption
<1>9. Good(f, held, Append(b, <<"user", o>>))
  BY <1>2, <1>3, <1>4, <1>7, <1>8, AsRootGood
<1>10. f = AddRoot(Purple(heap, o), o)
  BY <1>1, <1>7, AsRootIs
<1> DEFINE p == Purple(heap, o)
<1>11. /\ p \in Heaps /\ p.type = heap.type /\ p.kids = heap.kids /\ p.obj = heap.obj /\ p.rc = heap.rc
       /\ p.addr = heap.addr /\ p.roots = heap.roots /\ \A y \in Node : y # o => p.col[y] = heap.col[y]
  BY <1>1, <1>7, PurpleFields
<1> HIDE DEF p
<1>12. f.obj = heap.obj /\ o \in f.roots
  BY <1>7, <1>10, <1>11, RootFields DEF p
<1>13. Carries(heap, held, stack, {} \cup {o}, f, held, stack, {})
  BY <1>1, <1>2, <1>7, <1>10, <1>11, RootCarries DEF p
<1> HIDE DEF f
<1>14. Sound(f, held, Append(Below, t), {}, missed)
  <2>1. Fine(heap, held, stack, {} \cup {o}, missed)
    BY <1>1, FineMore DEF Sound
  <2>2. Fine(f, held, stack, {}, missed)
    BY <1>13, <2>1, Carry
  <2> QED
    BY <1>1, <1>3, <1>12, <2>2, CheckedSame DEF Sound
<1>15. Sound(f, held, Append(b, <<"user", o>>), {}, missed)
  <2>1. t[1] \in {"buffer", "return"} /\ t[2] \in f.roots
    BY <1>6, <1>12
  <2> DEFINE X == {}
  <2>2. \A x \in Node : x \in X \/ Holds(t, x) \/ About(f, t, x) => x \in X
    BY <1>6
  <2>3. Sound(f, held, Append(Below, t), X, missed)
    BY <1>14
  <2> HIDE DEF X
  <2>4. Sound(f, held, Below, X, missed)
    BY <1>3, <2>1, <2>2, <2>3, PopSound
  <2> QED
    BY <1>3, <2>4 DEF X
<1> QED
  BY <1>2, <1>3, <1>5, <1>9, <1>15, LeavesSound

\* gc_collect_cycles is called.
LEMMA CollectFinds ==
    ASSUME IsGood, IsSound, CollectCycles PROVE Sound(heap', held', stack', {}, missed')
<1>1. held' = held /\ Collect(heap, stack) /\ Good(heap, held, stack) /\ Sound(heap, held, stack, {}, missed)
  BY DEF CollectCycles, IsGood, IsSound
<1>2. Sound(heap', held, stack', {}, missed')
  BY <1>1, CollectSound
<1> QED
  BY <1>1, <1>2

\* A variable lets go of a zval.
LEMMA UnsetFinds ==
    ASSUME IsGood, IsSound, NEW z \in Zval, Unset(z) PROVE Sound(heap', held', stack', {}, missed')
<1>1. z \in held /\ held' = held \ {z} /\ PtrDtor(heap, z, stack) /\ stack \in Seq(Tasks)
      /\ Good(heap, held, stack) /\ Sound(heap, held, stack, {}, missed)
  BY DEF IsGood, IsSound, Good, AlmostGood, Unset
<1>2. Good(heap, held \ {z}, Append(stack, <<"drop", {z}>>))
      /\ Sound(heap, held \ {z}, Append(stack, <<"drop", {z}>>), {}, missed)
  BY <1>1, UnsetHold, UnsetSound
<1>3. \A i \in 1 .. Len(stack) : IsList(stack[i]) => Listed
  BY <1>1, ListHere
<1>4. Sound(heap', held \ {z}, stack', {}, missed')
  BY <1>1, <1>2, <1>3, PtrDtorSound
<1> QED
  BY <1>1, <1>4

\* An element or a property is removed.
LEMMA UnlinkFinds ==
    ASSUME IsGood, IsSound, NEW c \in Node, NEW z \in Zval, Unlink(c, z)
    PROVE  Sound(heap', held', stack', {}, missed')
<1>1. /\ z \in heap.kids[c] /\ held' = held /\ stack \in Seq(Tasks) /\ heap \in Heaps
      /\ PtrDtor([heap EXCEPT !.kids[c] = @ \ {z}], z, stack) /\ Good(heap, held, stack)
      /\ Sound(heap, held, stack, {}, missed)
  BY DEF IsGood, IsSound, Good, AlmostGood, Unlink
<1>2. [heap EXCEPT !.kids[c] = @ \ {z}] = SetKids(heap, c, heap.kids[c] \ {z})
  BY DEF SetKids
<1>3. Good(SetKids(heap, c, heap.kids[c] \ {z}), held, Append(stack, <<"drop", {z}>>))
      /\ Sound(SetKids(heap, c, heap.kids[c] \ {z}), held, Append(stack, <<"drop", {z}>>), {}, missed)
  BY <1>1, UnlinkHold, UnlinkSound
<1>4. \A i \in 1 .. Len(stack) : IsList(stack[i]) => Listed
  BY <1>1, ListHere
<1>5. PtrDtor(SetKids(heap, c, heap.kids[c] \ {z}), z, stack)
  BY <1>1, <1>2
<1>6. Sound(heap', held, stack', {}, missed')
  BY <1>1, <1>3, <1>4, <1>5, PtrDtorSound
<1> QED
  BY <1>1, <1>6

\* An element or a property is added.
LEMMA LinkFinds ==
    ASSUME IsGood, IsSound, NEW c \in Node, NEW z \in Zval, Link(c, z)
    PROVE  Sound(heap', held', stack', {}, missed')
<1>1. /\ heap.type[c] \in {"array", "valid"} /\ held' = held /\ stack' = stack /\ missed' = missed
      /\ heap' = [heap EXCEPT !.kids[c] = @ \cup {z}, !.rc[z] = @ + 1]
      /\ z \in AccessibleOf(heap, held, stack)
  BY DEF Link, Accessible, AccessibleOf, This, ThisOf
<1>2. heap \in Heaps /\ Good(heap, held, stack) /\ Sound(heap, held, stack, {}, missed)
  BY DEF IsGood, IsSound, Good, AlmostGood
<1>3. Sound(SetRc(SetKids(heap, c, heap.kids[c] \cup {z}), z, heap.rc[z] + 1), held, stack, {}, missed)
  BY <1>1, <1>2, LinkSound
<1>4. heap' = SetRc(SetKids(heap, c, heap.kids[c] \cup {z}), z, heap.rc[z] + 1)
  BY <1>1, <1>2 DEF SetRc, SetKids, Heaps
<1> QED
  BY <1>1, <1>3, <1>4

\* An array is made.
LEMMA NewArrayFinds ==
    ASSUME IsGood, IsSound, NEW z \in Zval, NewArray(z) PROVE Sound(heap', held', stack', {}, missed')
<1>1. /\ heap.type[z] = "free" /\ held' = held \cup {z} /\ stack' = stack /\ missed' = missed
      /\ heap' = [heap EXCEPT !.type[z] = "array", !.rc[z] = 1, !.obj[z] = NoObject]
      /\ heap \in Heaps /\ Kinds(heap) /\ Good(heap, held, stack) /\ Sound(heap, held, stack, {}, missed)
  BY DEF NewArray, New, IsGood, IsSound, Good, AlmostGood
<1> DEFINE g == NewZval(heap, z, "array", NoObject)
<1>2. NewOf(g, heap, z) /\ g.col = heap.col
  <2>1. IsNew(g, heap, z, "array", NoObject)
    BY <1>1, NewFields
  <2> QED
    BY <2>1 DEF IsNew
<1>3. heap' = g
  BY <1>1 DEF NewZval
<1> HIDE DEF g
<1>4. NoCheck(stack, {z}) /\ \A j \in 1 .. Len(stack) : j > 1 => j - 1 \in 1 .. Len(stack)
  BY <1>1, FreeUnchecked
<1>5. Sound(g, held \cup {z}, stack, {}, missed)
  BY <1>1, <1>2, <1>4, NewSound
<1> QED
  BY <1>1, <1>3, <1>5

\* An object is made.
LEMMA NewObjectFinds ==
    ASSUME IsGood, IsSound, NEW z \in Zval, NEW o \in Object, NewObject(z, o)
    PROVE  Sound(heap', held', stack', {}, missed')
<1>1. /\ heap \in Heaps /\ Kinds(heap) /\ Good(heap, held, stack) /\ Sound(heap, held, stack, {}, missed)
      /\ z \in Node /\ z # o
  BY Apartness DEF IsGood, IsSound, Good, AlmostGood
<1>2. /\ heap.type[z] = "free" /\ heap.type[o] = "free" /\ held' = held \cup {z} /\ stack' = stack
      /\ missed' = missed
  BY DEF NewObject
<1>3. PICK f : PutOf(f, heap, o) /\ heap' = NewZval(f, z, "object", o)
  BY <1>1, PutIs
<1>4. PICK g : g = NewZval(f, z, "object", o)
  OBVIOUS
<1>5. NewOf(g, f, z) /\ g.type[z] = "object" /\ g.obj[z] = o /\ g.col = f.col
  <2>1. IsNew(g, f, z, "object", o)
    BY <1>3, <1>4, NewFields DEF PutOf
  <2> QED
    BY <2>1 DEF IsNew
<1>6. Sound(f, held, stack, {o}, missed)
  <2>1. /\ f.type[o] = "valid" /\ f.kids = heap.kids /\ f.obj = heap.obj /\ f.addr = heap.addr
        /\ f.col = heap.col /\ f.roots = heap.roots
        /\ \A y \in Node : y # o => f.type[y] = heap.type[y] /\ f.rc[y] = heap.rc[y]
    BY <1>3 DEF PutOf
  <2> QED
    BY <1>1, <1>2, <2>1, PutSound
<1>7. NoCheck(stack, {z}) /\ \A j \in 1 .. Len(stack) : j > 1 => j - 1 \in 1 .. Len(stack)
  BY <1>1, <1>2, FreeUnchecked
<1>8. f \in Heaps /\ Kinds(f) /\ f.type[z] = "free"
  BY <1>1, <1>2, <1>3, Apartness DEF PutOf, Kinds
<1>9. Sound(g, held \cup {z}, stack, {o}, missed)
  BY <1>5, <1>6, <1>7, <1>8, NewSound
<1>10. o \in Counted(g, z)
  <2>1. g.addr[z] # "list"
    BY <1>1, <1>5, <1>8 DEF NewOf, Kinds
  <2> QED
    BY <1>5, <2>1 DEF Counted, Uncounted, Out
<1>11. Sound(g, held \cup {z}, stack, {}, missed)
  <2>1. z \in held \cup {z}
    OBVIOUS
  <2> QED
    BY <1>1, <1>9, <1>10, <2>1, VariableSound
<1> QED
  BY <1>2, <1>3, <1>4, <1>11

\* A zval is copied.
LEMMA CopyFinds ==
    ASSUME IsGood, IsSound, NEW z \in Zval, NEW o \in Object, Copy(z, o), ~spoilt'
    PROVE  Sound(heap', held', stack', {}, missed')
<1>1. /\ heap \in Heaps /\ Kinds(heap) /\ Good(heap, held, stack) /\ Sound(heap, held, stack, {}, missed)
      /\ o \in Node /\ o \notin Zval
  BY Apartness DEF IsGood, IsSound, Good, AlmostGood
<1>2. /\ heap.type[z] = "free" /\ ~(heap.rc[o] <= 0) /\ held' = held \cup {z} /\ stack' = stack
      /\ missed' = missed
  BY DEF Copy
<1>3. PICK f : RcOf(f, heap, o, heap.rc[o] + 1) /\ heap' = NewZval(f, z, "object", o)
  BY <1>1, CopyIs
<1>4. PICK g : g = NewZval(f, z, "object", o)
  OBVIOUS
<1>5. NewOf(g, f, z) /\ g.col = f.col
  <2>1. IsNew(g, f, z, "object", o)
    BY <1>3, <1>4, NewFields DEF RcOf
  <2> QED
    BY <2>1 DEF IsNew
<1>6. heap.rc[o] \in Int /\ heap.rc[o] > 0
  <2>1. heap.rc[o] \in Int
    BY <1>1 DEF Heaps
  <2> QED
    BY <1>2, <2>1
<1>7. Sound(f, held, stack, {}, missed)
  <2>1. PICK v : v = heap.rc[o] + 1
    OBVIOUS
  <2>2. RcOf(f, heap, o, v)
    BY <1>3, <2>1
  <2>3. /\ o \in {} \/ heap.rc[o] > 0 \/ ~Unheld(f, held, stack, o)
        /\ o \in Zval => v # 0 \/ (heap.type[o] = "null" /\ heap.addr[o] # "list")
        /\ o \in Object => (v = 0 /\ heap.type[o] # "free") \/ heap.rc[o] # 0 \/ Destructs(stack, o) \/ Going(stack, o)
    BY <1>1, <1>6
  <2> QED
    BY <1>1, <2>2, <2>3, RcSound
<1>8. NoCheck(stack, {z}) /\ \A j \in 1 .. Len(stack) : j > 1 => j - 1 \in 1 .. Len(stack)
  BY <1>1, <1>2, FreeUnchecked
<1>9. f \in Heaps /\ Kinds(f) /\ f.type[z] = "free"
  <2>1. /\ f \in Heaps /\ f.type = heap.type /\ f.obj = heap.obj /\ f.kids = heap.kids /\ f.addr = heap.addr
        /\ \A y \in Node : y # o => f.rc[y] = heap.rc[y]
    BY <1>3 DEF RcOf
  <2>2. heap.type[o] # "free"
    BY <1>1, <1>6 DEF Kinds
  <2> QED
    BY <1>1, <1>2, <2>1, <2>2 DEF Kinds
<1>10. Sound(g, held \cup {z}, stack, {}, missed)
  BY <1>5, <1>7, <1>8, <1>9, NewSound
<1> QED
  BY <1>2, <1>3, <1>4, <1>10

\* Nothing is there at the start.
LEMMA InitFinds == Init => IsSound
<1> SUFFICES ASSUME Init PROVE IsSound
  OBVIOUS
<1>1. /\ heap.type = [x \in Node |-> "free"] /\ heap.rc = [x \in Node |-> 0]
      /\ heap.col = [x \in Node |-> "black"] /\ stack = <<>>
  BY DEF Init
<1>2. 1 .. Len(stack) = {}
  BY <1>1
<1>3. Checked(heap, stack)
  BY <1>2 DEF Checked
<1>4. Idle(heap, stack) /\ PurpleNoted(heap, stack)
  BY <1>1, Apartness DEF Idle, Spent, PurpleNoted
<1>5. Findable(heap, held, stack, {})
  <2>1. \A x \in Node : ~Astray(heap, held, stack, {}, x)
    BY <1>1 DEF Astray, Unheld
  <2> QED
    BY <2>1 DEF Findable
<1> QED
  BY <1>3, <1>4, <1>5 DEF IsSound, Sound, Fine

(* The inductive invariant of GarbageFindable.                              *)
FInv == IInv /\ (spoilt \/ IsSound)

\* Every action leaves what can be found findable.
LEMMA StepFinds ==
    ASSUME IInv, spoilt \/ IsSound, [Next]_vars PROVE spoilt' \/ IsSound'
<1>1. CASE UNCHANGED vars
  BY <1>1 DEF vars, IsSound
<1>2. CASE Next
  <2>0. ~spoilt /\ IsGood /\ IsSound
    BY <1>2 DEF Next, IInv
  <2>1. ASSUME NEW z \in Zval, Drop(z) \/ Check(z) \/ Efree(z) \/ NewArray(z) \/ Unset(z)
        PROVE  Sound(heap', held', stack', {}, missed')
    BY <2>0, <2>1, DropFinds, CheckFinds, EfreeFinds, NewArrayFinds, UnsetFinds
  <2>2. ASSUME NEW o \in Object, DelRef(o) \/ Gone(o) PROVE Sound(heap', held', stack', {}, missed')
    BY <2>0, <2>2, DelRefFinds, GoneFinds
  <2>3. ASSUME CallDestructors \/ Destroy \/ CollectCycles PROVE Sound(heap', held', stack', {}, missed')
    BY <2>0, <2>3, DestructorsFinds, DestroyFinds, CollectFinds
  <2>4. ASSUME NEW z \in Zval, NEW o \in Object, NewObject(z, o) PROVE Sound(heap', held', stack', {}, missed')
    BY <2>0, <2>4, NewObjectFinds
  <2>5. ASSUME NEW c \in Node, NEW z \in Zval, Link(c, z) \/ Unlink(c, z)
        PROVE  Sound(heap', held', stack', {}, missed')
    BY <2>0, <2>5, LinkFinds, UnlinkFinds
  <2>6. ASSUME NEW x \in Node, NEW z \in Zval, BufferAfterCollect(x, z), ~spoilt'
        PROVE  Sound(heap', held', stack', {}, missed')
    BY <2>0, <2>6, BufferFinds
  <2>7. ASSUME NEW z \in Zval, NEW o \in Object, Copy(z, o), ~spoilt'
        PROVE  Sound(heap', held', stack', {}, missed')
    BY <2>0, <2>7, CopyFinds
  <2>8. ASSUME DestructorReturns, ~spoilt' PROVE Sound(heap', held', stack', {}, missed')
    BY <2>0, <2>8, ReturnFinds
  <2>9. ASSUME NEW o \in Object, ReturnAfterCollect(o), ~spoilt'
        PROVE  Sound(heap', held', stack', {}, missed')
    BY <2>0, <2>9, ReturnAfterFinds
  <2>10. ~spoilt' => Sound(heap', held', stack', {}, missed')
    BY <1>2, <2>1, <2>2, <2>3, <2>4, <2>5, <2>6, <2>7, <2>8, <2>9 DEF Next, Work, Script
  <2> QED
    BY <2>10 DEF IsSound
<1> QED
  BY <1>1, <1>2

\* In every behaviour a set of nodes that is referred to from itself alone has a
\* member that the root buffer, a task, or a collection that overlooked it knows.
THEOREM AlwaysFindable == Spec => []FInv
<1>1. Init => FInv
  BY InitGood, InitFinds DEF FInv
<1>2. FInv /\ [Next]_vars => FInv'
  BY StepGood, StepFinds DEF FInv
<1> QED
  BY <1>1, <1>2, PTL DEF Spec

\* When no task is left, what is there can be found.
LEMMA SoundFinds ==
    ASSUME NEW h, NEW hd, NEW st, Good(h, hd, st), Sound(h, hd, st, {}, FALSE), st = <<>>
    PROVE  {x \in Node : h.type[x] # "free"} \subseteq Reach(Links(h), hd \cup h.roots)
<1> DEFINE R == Reach(Links(h), hd \cup h.roots)
           S == {x \in Node : h.type[x] # "free" /\ x \notin R}
<1>1. /\ h \in Heaps /\ hd \in SUBSET Zval /\ h.roots \in SUBSET Node /\ Kinds(h) /\ Waits(h, st)
      /\ Exact(h, hd, st) /\ st \in Seq(Tasks)
  BY DEF Good, AlmostGood, Shape, Heaps
<1>2. 1 .. Len(st) = {}
  OBVIOUS
<1>3. hd \cup h.roots \in SUBSET Node
  BY <1>1, Apartness
<1>4. Links(h) \in [Node -> SUBSET Node] /\ \A x \in Node : Links(h)[x] = Out(h, x)
  BY <1>1, LinksType
<1>5. hd \cup h.roots \subseteq R
  BY <1>3, <1>4, ReachContains
<1>6. \A y \in R : Out(h, y) \subseteq R
  <2>1. R \subseteq Node
    BY <1>3, <1>4, ReachContains
  <2>2. \A y \in R : Links(h)[y] \subseteq R
    BY <1>3, <1>4, ReachClosed
  <2> QED
    BY <1>4, <2>1, <2>2
<1> HIDE DEF R
<1>7. ASSUME NEW x \in S PROVE h.rc[x] > 0
  <2>1. x \in Node /\ h.rc[x] \in Nat /\ h.type[x] # "free"
    BY <1>1, CountsType
  <2>2. ASSUME h.rc[x] = 0 PROVE FALSE
    <3>1. CASE x \in Zval
      <4>1. Ends(st, x)
        BY <2>1, <2>2, <3>1 DEF Sound, Fine, Idle, Spent
      <4> QED
        BY <1>2, <4>1 DEF Ends
    <3>2. CASE x \in Object
      <4>1. Rests(h, x)
        BY <1>1, <2>1, <2>2, <3>2 DEF Kinds, Rests
      <4> QED
        BY <1>1, <1>2, <3>2, <4>1 DEF Waits
    <3> QED
      BY <2>1, <3>1, <3>2, Apartness
  <2> QED
    BY <2>1, <2>2
<1>8. ASSUME NEW x \in S PROVE Astray(h, hd, st, {}, x)
  <2>1. x \notin hd /\ x \notin h.roots
    BY <1>5
  <2> QED
    BY <1>2, <1>7, <2>1 DEF Astray, Unheld, Noted
<1>9. ASSUME NEW x \in S, NEW y \in Referrers(h, x) PROVE y \in S
  <2>1. y \in Node /\ x \in Out(h, y)
    BY DEF Referrers, Counted
  <2>2. h.type[y] # "free"
    BY <2>1 DEF Out
  <2> QED
    BY <1>6, <2>1, <2>2
<1>10. S \in SUBSET Node /\ \A x \in S : Astray(h, hd, st, {}, x) /\ Referrers(h, x) \subseteq S
  BY <1>8, <1>9
<1> HIDE DEF S
<1>11. S = {}
  BY <1>10 DEF Sound, Fine, Findable
<1> QED
  BY <1>11 DEF S, R

\* Whatever the script has lost the collector can find from the root buffer,
\* unless a collection in a destructor has overlooked it.
THEOREM GarbageFound == Spec => []GarbageFindable
<1>1. FInv => GarbageFindable
  <2> SUFFICES ASSUME FInv, ~spoilt, ~missed, stack = <<>>
               PROVE  {x \in Node : Allocated(x)} \subseteq Reach(Links(heap), held \cup heap.roots)
    BY DEF GarbageFindable
  <2>1. Good(heap, held, stack) /\ Sound(heap, held, stack, {}, FALSE)
    BY DEF FInv, IInv, IsGood, IsSound, Sound, Fine
  <2> QED
    BY <2>1, SoundFinds DEF Allocated
<1> QED
  BY <1>1, AlwaysFindable, PTL

-----------------------------------------------------------------------------
(* The traversals: a step after the other until no call is left.            *)

\* The links from the nodes of S.
LinkSet(h, S) == {l \in Node \X Node : l[1] \in S /\ l[2] \in Out(h, l[1])}

\* A node has as many links as nodes that it refers to.
LEMMA LinksOfOne ==
    ASSUME NEW x \in Node, NEW S \in SUBSET Node
    PROVE  LET T == {l \in Node \X Node : l[1] = x /\ l[2] \in S}
           IN  IsFiniteSet(T) /\ Cardinality(T) = Cardinality(S)
<1> DEFINE T == {l \in Node \X Node : l[1] = x /\ l[2] \in S}  f == [y \in S |-> <<x, y>>]
<1>1. f \in Injection(S, T)
  <2>1. f \in [S -> T]
    OBVIOUS
  <2>2. \A a, b \in S : f[a] = f[b] => a = b
    OBVIOUS
  <2> QED
    BY <2>1, <2>2 DEF Injection, IsInjective
<1>2. f \in Surjection(S, T)
  <2>1. f \in [S -> T]
    OBVIOUS
  <2>2. ASSUME NEW l \in T PROVE \E y \in S : f[y] = l
    <3>1. l = <<x, l[2]>> /\ l[2] \in S
      OBVIOUS
    <3>2. f[l[2]] = l
      BY <3>1
    <3> QED
      BY <3>1, <3>2
  <2> QED
    BY <2>1, <2>2 DEF Surjection
<1>3. ExistsBijection(S, T)
  BY <1>1, <1>2 DEF ExistsBijection, Bijection
<1>4. IsFiniteSet(S)
  BY NodesFinite
<1> HIDE DEF T
<1>5. IsFiniteSet(T) /\ Cardinality(T) = Cardinality(S)
  BY <1>3, <1>4, FS_Bijection
<1> QED
  BY <1>5 DEF T

\* There are finitely many links.
LEMMA LinksFinite ==
    ASSUME NEW h, NEW S
    PROVE  IsFiniteSet(LinkSet(h, S)) /\ Cardinality(LinkSet(h, S)) \in Nat
<1>1. IsFiniteSet(Node \X Node)
  BY NodesFinite, FS_Product
<1>2. LinkSet(h, S) \in SUBSET (Node \X Node)
  BY DEF LinkSet
<1> QED
  BY <1>1, <1>2, FS_Subset, FS_CardinalityType

\* The links that are left without those of one node.
LEMMA LinksLess ==
    ASSUME NEW h, NEW S, NEW x \in S \cap Node, Out(h, x) \in SUBSET Node
    PROVE  Cardinality(LinkSet(h, S \ {x})) = Cardinality(LinkSet(h, S)) - Cardinality(Out(h, x))
<1> DEFINE T == {l \in Node \X Node : l[1] = x /\ l[2] \in Out(h, x)}
<1>1. IsFiniteSet(T) /\ Cardinality(T) = Cardinality(Out(h, x))
  BY LinksOfOne
<1>2. LinkSet(h, S \ {x}) = LinkSet(h, S) \ T
  BY DEF LinkSet
<1>3. LinkSet(h, S) \cap T = T
  BY DEF LinkSet
<1>4. Cardinality(LinkSet(h, S) \ T) = Cardinality(LinkSet(h, S)) - Cardinality(LinkSet(h, S) \cap T)
  BY LinksFinite, FS_Difference
<1> QED
  BY <1>1, <1>2, <1>3, <1>4

\* When each step leads on within I and to less, the traversal ends there.
LEMMA TraverseEnds ==
    ASSUME NEW I, NEW h \in I, NEW W \in [I -> Nat],
           \A x \in Node : Out(h, x) \in SUBSET Node,
           Len(h.todo) \in Nat, W[h] <= Len(h.todo) + 2 * Cardinality(LinkSet(h, Node)),
           \A g \in I : g.todo # <<>> => Step(g) \in I /\ W[Step(g)] < W[g]
    PROVE  Traverse(h) \in I /\ Traverse(h).todo = <<>>
<1> DEFINE most == Len(h.todo) + 2 * Cardinality(LinkSet(h, Node))
           run == CHOOSE run : run = [n \in 0 .. most |-> IF n = 0 THEN h ELSE Step(run[n - 1])]
           f == [g \in I |-> Step(g)]
<1>1. most \in Nat
  BY LinksFinite
<1>2. f \in [I -> I]
  BY DEF Step
<1>3. Traverse(h) = run[most]
  <2>1. UNION {{x} \X Out(h, x) : x \in Node} = LinkSet(h, Node)
    BY DEF LinkSet
  <2> QED
    BY <2>1 DEF Traverse
<1> HIDE DEF most
<1>4. \E w : w = [n \in 0 .. most |-> IF n = 0 THEN h ELSE Step(w[n - 1])]
  <2>1. PICK w \in [0 .. most -> I] : Walks(w, f, h, most)
    <3> HIDE DEF f
    <3> QED
      BY <1>1, <1>2, WalkExists
  <2>2. ASSUME NEW n \in 0 .. most, n # 0 PROVE f[w[n - 1]] = Step(w[n - 1])
    BY <1>1, <2>1, <2>2
  <2>3. w = [n \in 0 .. most |-> IF n = 0 THEN h ELSE f[w[n - 1]]]
    BY <2>1 DEF Walks
  <2>4. \A n \in 0 .. most : (IF n = 0 THEN h ELSE f[w[n - 1]]) = (IF n = 0 THEN h ELSE Step(w[n - 1]))
    BY <2>2
  <2>5. [n \in 0 .. most |-> IF n = 0 THEN h ELSE f[w[n - 1]]]
        = [n \in 0 .. most |-> IF n = 0 THEN h ELSE Step(w[n - 1])]
    <3> HIDE DEF f
    <3> QED
      BY <2>4
  <2> QED
    BY <2>3, <2>5
<1>5. run = [n \in 0 .. most |-> IF n = 0 THEN h ELSE Step(run[n - 1])]
  BY <1>4
<1> HIDE DEF run, f
<1>6. run[0] = h /\ \A n \in 0 .. most : n # 0 => run[n] = Step(run[n - 1])
  BY <1>1, <1>5
<1> DEFINE T == {n \in 0 .. most : run[n] \in I /\ (run[n].todo = <<>> \/ W[run[n]] <= most - n)}
<1>7. 0 \in T
  BY <1>1, <1>6 DEF most
<1>8. ASSUME NEW n \in 0 .. most, n # most, n \in T PROVE n + 1 \in T
  <2>1. n + 1 \in 0 .. most /\ n + 1 # 0 /\ (n + 1) - 1 = n
    BY <1>1, <1>8
  <2>2. run[n] \in I /\ run[n + 1] = Step(run[n])
    BY <1>6, <1>8, <2>1
  <2>3. CASE run[n].todo = <<>>
    <3>1. Step(run[n]) = run[n]
      BY <2>3 DEF Step
    <3> QED
      BY <2>1, <2>2, <2>3, <3>1
  <2>4. CASE run[n].todo # <<>>
    <3>1. Step(run[n]) \in I /\ W[Step(run[n])] < W[run[n]] /\ W[run[n]] <= most - n
      BY <1>8, <2>2, <2>4
    <3>2. W[Step(run[n])] \in Nat /\ W[run[n]] \in Nat
      BY <2>2, <3>1
    <3>3. W[Step(run[n])] <= most - (n + 1)
      BY <1>1, <3>1, <3>2
    <3> QED
      BY <2>1, <2>2, <3>1, <3>3
  <2> QED
    BY <2>3, <2>4
<1>9. 0 .. most \subseteq T
  <2> HIDE DEF T
  <2> QED
    BY <1>1, <1>7, <1>8, UpTo
<1>10. run[most] \in I /\ (run[most].todo = <<>> \/ W[run[most]] <= 0)
  BY <1>1, <1>9
<1>11. ASSUME run[most].todo # <<>> PROVE FALSE
  <2>1. Step(run[most]) \in I /\ W[Step(run[most])] < W[run[most]] /\ W[run[most]] <= 0
    BY <1>10, <1>11
  <2>2. W[Step(run[most])] \in Nat /\ W[run[most]] \in Nat
    BY <1>10, <2>1
  <2> QED
    BY <2>1, <2>2
<1> QED
  BY <1>3, <1>10, <1>11

-----------------------------------------------------------------------------
(* The calls that are to be made, each of them once.                        *)
CallNames == {"mark_root", "mark", "scan_root", "scan", "black", "collect_root", "collect"}

\* Calls for a root, and for what a link leads to.
RootCalls == {<<c, x>> : c \in CallNames, x \in Node}
LinkCalls == {<<c, x, y>> : c \in CallNames, x \in Node, y \in Node}
CallSet == RootCalls \cup LinkCalls

\* The calls that are to be made.
Members(s) == {s[i] : i \in 1 .. Len(s)}

\* None is to be made twice.
Once(s) == \A i, j \in 1 .. Len(s) : s[i] = s[j] => i = j

\* The heaps in the course of a collection that began with h.
Midway(h) ==
    [type : {h.type}, obj : {h.obj}, kids : {h.kids}, rc : [Node -> Int],
     col : [Node -> {"black", "purple", "grey", "white"}],
     addr : [Node -> {"null", "root", "list"}],
     roots : SUBSET Node, list : SUBSET Node, todo : Seq(CallSet)]

\* Links stay as they are in the course of a collection.
LEMMA OutMidway ==
    ASSUME NEW h, NEW g \in Midway(h), NEW x PROVE Out(g, x) = Out(h, x)
  BY DEF Midway, Out

\* The last call is taken off.
LEMMA PopTodo ==
    ASSUME NEW s \in Seq(CallSet), s # <<>>, Once(s)
    PROVE  LET n == Len(s)  p == SubSeq(s, 1, n - 1)
           IN  /\ n \in 1 .. Len(s) /\ p \in Seq(CallSet) /\ Len(p) = n - 1 /\ Once(p)
               /\ s[n] \in CallSet /\ s[n] \in Members(s) /\ Members(p) = Members(s) \ {s[n]}
<1> DEFINE n == Len(s)  p == SubSeq(s, 1, n - 1)
<1>1. n \in Nat /\ n # 0 /\ n \in 1 .. Len(s)
  BY EmptySeq
<1>2. p \in Seq(CallSet) /\ Len(p) = n - 1 /\ \A i \in 1 .. n - 1 : p[i] = s[i]
  <2>1. /\ Len(p) = n - 1 /\ p \in Seq(CallSet)
        /\ \A i \in 1 .. n - 1 + 1 - 1 : p[i] = s[1 + i - 1]
    BY SMTT(60), <1>1, SubSeqProperties
  <2> HIDE DEF p
  <2>2. \A i \in 1 .. n - 1 : i \in 1 .. n - 1 + 1 - 1 /\ 1 + i - 1 = i
    BY <1>1
  <2> QED
    BY <1>1, <2>1, <2>2
<1>3. s[n] \in CallSet
  BY <1>1
<1> HIDE DEF p
<1>4. Once(p)
  BY <1>1, <1>2 DEF Once
<1>5. Members(p) = Members(s) \ {s[n]}
  <2>1. ASSUME NEW i \in 1 .. n - 1 PROVE p[i] \in Members(s) \ {s[n]}
    BY <1>1, <1>2 DEF Members, Once
  <2>2. ASSUME NEW i \in 1 .. n, s[i] # s[n] PROVE s[i] \in Members(p)
    <3>1. i \in 1 .. n - 1
      BY <1>1, <2>2
    <3> QED
      BY <1>2, <3>1 DEF Members
  <2> QED
    BY <1>2, <2>1, <2>2 DEF Members
<1> QED
  BY <1>1, <1>2, <1>3, <1>4, <1>5 DEF Members, p

\* More calls are put on top.
LEMMA PushTodo ==
    ASSUME NEW s \in Seq(CallSet), NEW v \in Seq(CallSet), Once(s), Once(v),
           Members(s) \cap Members(v) = {}
    PROVE  /\ s \o v \in Seq(CallSet) /\ Len(s \o v) = Len(s) + Len(v) /\ Once(s \o v)
           /\ Members(s \o v) = Members(s) \cup Members(v)
<1> DEFINE w == s \o v  m == Len(s)  n == Len(v)
<1>1. w \in Seq(CallSet) /\ Len(w) = m + n /\ m \in Nat /\ n \in Nat
      /\ \A i \in 1 .. m + n : w[i] = IF i <= m THEN s[i] ELSE v[i - m]
  BY ConcatProperties
<1> HIDE DEF w
<1>2. ASSUME NEW i \in 1 .. m PROVE w[i] = s[i] /\ i \in 1 .. m + n
  BY <1>1
<1>3. ASSUME NEW i \in 1 .. n PROVE w[i + m] = v[i] /\ i + m \in 1 .. m + n
  BY <1>1
<1>4. ASSUME NEW i \in 1 .. m + n
      PROVE  (i \in 1 .. m /\ w[i] = s[i]) \/ (i - m \in 1 .. n /\ w[i] = v[i - m])
  BY <1>1
<1>5. Members(w) = Members(s) \cup Members(v)
  <2>1. ASSUME NEW i \in 1 .. m + n PROVE w[i] \in Members(s) \cup Members(v)
    BY <1>4 DEF Members
  <2>2. ASSUME NEW i \in 1 .. m PROVE s[i] \in Members(w)
    BY <1>1, <1>2 DEF Members
  <2>3. ASSUME NEW i \in 1 .. n PROVE v[i] \in Members(w)
    BY <1>1, <1>3 DEF Members
  <2>4. ASSUME NEW c \in Members(w) PROVE c \in Members(s) \cup Members(v)
    <3>1. PICK i \in 1 .. m + n : c = w[i]
      BY <1>1 DEF Members
    <3> QED
      BY <2>1, <3>1
  <2>5. ASSUME NEW c \in Members(s) \cup Members(v) PROVE c \in Members(w)
    BY <2>2, <2>3 DEF Members
  <2> QED
    BY <2>4, <2>5
<1>6. Once(w)
  <2> SUFFICES ASSUME NEW i \in 1 .. m + n, NEW j \in 1 .. m + n, w[i] = w[j] PROVE i = j
    BY <1>1 DEF Once
  <2>1. CASE i \in 1 .. m /\ w[i] = s[i] /\ j \in 1 .. m /\ w[j] = s[j]
    BY <2>1 DEF Once
  <2>2. CASE i - m \in 1 .. n /\ w[i] = v[i - m] /\ j - m \in 1 .. n /\ w[j] = v[j - m]
    <3>1. i - m = j - m
      BY <2>2 DEF Once
    <3> QED
      BY <1>1, <3>1
  <2>3. CASE i \in 1 .. m /\ w[i] = s[i] /\ j - m \in 1 .. n /\ w[j] = v[j - m]
    BY <2>3 DEF Members
  <2>4. CASE i - m \in 1 .. n /\ w[i] = v[i - m] /\ j \in 1 .. m /\ w[j] = s[j]
    BY <2>4 DEF Members
  <2> QED
    BY <1>4, <2>1, <2>2, <2>3, <2>4
<1> QED
  BY <1>1, <1>5, <1>6 DEF w

\* An order of a set has each of its members once.
LEMMA OrderHas ==
    ASSUME NEW S \in SUBSET Node, NEW l \in Orders(S)
    PROVE  LET n == Cardinality(S)
           IN  /\ n \in Nat /\ l \in Seq(Node) /\ Len(l) = n
               /\ \A k \in 1 .. n : l[k] \in S
               /\ \A k, m \in 1 .. n : l[k] = l[m] => k = m
               /\ \A z \in S : \E k \in 1 .. n : l[k] = z
<1> DEFINE n == Cardinality(S)
<1>1. IsFiniteSet(S) /\ n \in Nat
  BY NodesFinite, FS_CardinalityType
<1>2. IsFiniteSet(1 .. n) /\ Cardinality(1 .. n) = n
  BY <1>1, FS_Interval
<1>3. l \in [1 .. n -> S] /\ \A z \in S : \E k \in 1 .. n : l[k] = z
  BY DEF Orders
<1>4. l \in Surjection(1 .. n, S)
  BY <1>3 DEF Surjection
<1>5. l \in Injection(1 .. n, S)
  BY <1>1, <1>2, <1>4, FS_SurjSameCardinalityImpliesInj
<1>6. \A k, m \in 1 .. n : l[k] = l[m] => k = m
  BY <1>5 DEF Injection, IsInjective
<1>7. l \in Seq(Node) /\ Len(l) = n
  <2> HIDE DEF n
  <2>1. l \in [1 .. n -> Node]
    BY <1>3
  <2> QED
    BY <1>1, <2>1
<1> QED
  BY <1>1, <1>3, <1>6, <1>7 DEF n

\* There is an order.
LEMMA SomeOrder ==
    ASSUME NEW S \in SUBSET Node PROVE \E l : l \in Orders(S)
<1> DEFINE n == Cardinality(S)
<1>1. IsFiniteSet(S)
  BY NodesFinite
<1>2. ExistsBijection(1 .. n, S)
  BY <1>1, FS_CardinalityType
<1>3. PICK l : l \in Bijection(1 .. n, S)
  BY <1>2 DEF ExistsBijection
<1>4. l \in [1 .. n -> S] /\ \A z \in S : \E k \in 1 .. n : l[k] = z
  BY <1>3 DEF Bijection, Surjection
<1>5. DOMAIN l = 1 .. n
  BY <1>4
<1> QED
  BY <1>4, <1>5 DEF Orders

\* A call for each root.
LEMMA RootsTodo ==
    ASSUME NEW S \in SUBSET Node, NEW l \in Orders(S), NEW c \in CallNames
    PROVE  LET v == [k \in 1 .. Len(l) |-> <<c, l[k]>>]
           IN  /\ v \in Seq(CallSet) /\ Len(v) = Cardinality(S) /\ Once(v)
               /\ Members(v) = {<<c, z>> : z \in S}
<1> DEFINE n == Cardinality(S)  v == [k \in 1 .. n |-> <<c, l[k]>>]
<1>1. /\ n \in Nat /\ Len(l) = n /\ \A k \in 1 .. n : l[k] \in S
      /\ \A k, m \in 1 .. n : l[k] = l[m] => k = m
      /\ \A z \in S : \E k \in 1 .. n : l[k] = z
  BY OrderHas
<1> HIDE DEF n
<1>2. \A k \in 1 .. n : <<c, l[k]>> \in CallSet
  BY <1>1 DEF CallSet, RootCalls
<1>3. v \in [1 .. n -> CallSet]
  BY <1>2
<1>4. \A k \in 1 .. n : v[k] = <<c, l[k]>>
  OBVIOUS
<1> HIDE DEF v
<1>5. v \in Seq(CallSet) /\ Len(v) = n
  BY <1>1, <1>3
<1>6. Once(v)
  <2> SUFFICES ASSUME NEW k \in 1 .. n, NEW m \in 1 .. n, v[k] = v[m] PROVE k = m
    BY <1>5 DEF Once
  <2>1. <<c, l[k]>> = <<c, l[m]>>
    BY <1>4
  <2>2. l[k] = l[m]
    BY <2>1
  <2> QED
    BY <1>1, <2>2
<1>7. ASSUME NEW z \in S PROVE <<c, z>> \in Members(v)
  <2>1. PICK k \in 1 .. n : l[k] = z
    BY <1>1
  <2>2. v[k] = <<c, z>>
    BY <1>4, <2>1
  <2> QED
    BY <1>5, <2>2 DEF Members
<1>8. ASSUME NEW t \in Members(v) PROVE \E z \in S : t = <<c, z>>
  <2>1. PICK k \in 1 .. n : t = v[k]
    BY <1>5 DEF Members
  <2> QED
    BY <1>1, <1>4, <2>1
<1>9. Members(v) = {<<c, z>> : z \in S}
  BY <1>7, <1>8
<1> QED
  BY <1>1, <1>5, <1>6, <1>9 DEF n, v

\* A call for each node that x refers to.
LEMMA VisitsAre ==
    ASSUME NEW h, NEW x \in Node, NEW c \in CallNames, Out(h, x) \in SUBSET Node
    PROVE  LET v == Visits(c, h, x)
           IN  /\ v \in Seq(CallSet) /\ Len(v) = Cardinality(Out(h, x)) /\ Once(v)
               /\ Members(v) = {<<c, z, x>> : z \in Out(h, x)}
<1> DEFINE S == Out(h, x)  n == Cardinality(S)  l == CHOOSE l \in Orders(S) : TRUE
           v == [k \in 1 .. n |-> <<c, l[k], x>>]
<1>0. l \in Orders(S)
  BY SomeOrder
<1>a. Visits(c, h, x) = v
  BY DEF Visits
<1> HIDE DEF l
<1>1. /\ n \in Nat /\ \A k \in 1 .. n : l[k] \in S
      /\ \A k, m \in 1 .. n : l[k] = l[m] => k = m
      /\ \A z \in S : \E k \in 1 .. n : l[k] = z
  BY <1>0, OrderHas
<1> HIDE DEF n
<1>2. \A k \in 1 .. n : <<c, l[k], x>> \in CallSet
  <2>1. \A k \in 1 .. n : l[k] \in Node
    BY <1>1
  <2> QED
    BY <2>1 DEF CallSet, LinkCalls
<1>3. v \in [1 .. n -> CallSet]
  BY <1>2
<1>4. \A k \in 1 .. n : v[k] = <<c, l[k], x>>
  OBVIOUS
<1> HIDE DEF v
<1>5. v \in Seq(CallSet) /\ Len(v) = n
  BY <1>1, <1>3
<1>6. Once(v)
  <2> SUFFICES ASSUME NEW k \in 1 .. n, NEW m \in 1 .. n, v[k] = v[m] PROVE k = m
    BY <1>5 DEF Once
  <2>1. <<c, l[k], x>> = <<c, l[m], x>>
    BY <1>4
  <2>2. l[k] = l[m]
    BY <2>1
  <2> QED
    BY <1>1, <2>2
<1>7. ASSUME NEW z \in S PROVE <<c, z, x>> \in Members(v)
  <2>1. PICK k \in 1 .. n : l[k] = z
    BY <1>1
  <2>2. v[k] = <<c, z, x>>
    BY <1>4, <2>1
  <2> QED
    BY <1>5, <2>2 DEF Members
<1>8. ASSUME NEW t \in Members(v) PROVE \E z \in S : t = <<c, z, x>>
  <2>1. PICK k \in 1 .. n : t = v[k]
    BY <1>5 DEF Members
  <2> QED
    BY <1>1, <1>4, <2>1
<1>9. Members(v) = {<<c, z, x>> : z \in S}
  BY <1>7, <1>8
<1> QED
  BY <1>a, <1>5, <1>9, <1>6 DEF n

-----------------------------------------------------------------------------
(* The steps of the traversals.                                             *)

\* Nothing but counts, colours and the buffer changes, and no call is due twice.
Calm(h, g) == g \in Midway(h) /\ Once(g.todo)

\* f is g without its last call, t.
Popped(h, g, f, t) ==
    /\ Calm(h, f) /\ t \in CallSet /\ t \in Members(g.todo)
    /\ Members(f.todo) = Members(g.todo) \ {t}
    /\ Len(g.todo) \in Nat /\ Len(f.todo) \in Nat /\ Len(f.todo) = Len(g.todo) - 1
    /\ f.rc = g.rc /\ f.col = g.col /\ f.addr = g.addr /\ f.roots = g.roots /\ f.list = g.list

\* g is f with x painted, and the calls for what x refers to.
Painted(h, f, g, x, colour, call) ==
    /\ Calm(h, g) /\ Members(g.todo) = Members(f.todo) \cup {<<call, z, x>> : z \in Out(h, x)}
    /\ Len(g.todo) \in Nat /\ Len(g.todo) = Len(f.todo) + Cardinality(Out(h, x))
    /\ g.col = [f.col EXCEPT ![x] = colour]
    /\ g.rc = f.rc /\ g.addr = f.addr /\ g.roots = f.roots /\ g.list = f.list

\* The number of calls that are left is one.
LEMMA CalmLength ==
    ASSUME NEW h, NEW g, Calm(h, g) PROVE g.todo \in Seq(CallSet) /\ Len(g.todo) \in Nat
<1>1. g.todo \in Seq(CallSet)
  BY DEF Calm, Midway
<1> QED
  BY <1>1

\* A step takes the last call off and makes it.
LEMMA StepOf ==
    ASSUME NEW h, NEW g, Calm(h, g), g.todo # <<>>
    PROVE  \E f, t : Popped(h, g, f, t) /\ Step(g) = Call(f, t[1], t[2])
<1> DEFINE s == g.todo  n == Len(s)  p == SubSeq(s, 1, n - 1)  t == s[n]
           f == [g EXCEPT !.todo = p]
<1>1. g \in Midway(h) /\ s \in Seq(CallSet) /\ Once(s)
  BY DEF Calm, Midway
<1>2. /\ n \in 1 .. Len(s) /\ p \in Seq(CallSet) /\ Len(p) = n - 1 /\ Once(p)
      /\ t \in CallSet /\ t \in Members(s) /\ Members(p) = Members(s) \ {t}
  BY <1>1, PopTodo
<1>3. Step(g) = Call([g EXCEPT !.todo = SubSeq(@, 1, n - 1)], t[1], t[2])
  BY DEF Step
<1>4. [g EXCEPT !.todo = SubSeq(@, 1, n - 1)] = f
  OBVIOUS
<1>5. n \in Nat /\ Len(p) \in Nat
  BY <1>1, <1>2
<1> HIDE DEF p, t
<1>6. f.todo = p /\ f \in Midway(h)
  BY <1>1, <1>2 DEF Midway
<1>7. f.rc = g.rc /\ f.col = g.col /\ f.addr = g.addr /\ f.roots = g.roots /\ f.list = g.list
  BY <1>1 DEF Midway
<1> HIDE DEF f
<1>8. Popped(h, g, f, t)
  BY <1>1, <1>2, <1>5, <1>6, <1>7 DEF Popped, Calm
<1> QED
  BY <1>3, <1>4, <1>8

\* What painting a node comes to.
LEMMA PaintOf ==
    ASSUME NEW h, NEW f, Calm(h, f), NEW x \in Node, Out(h, x) \in SUBSET Node,
           NEW colour \in {"black", "purple", "grey", "white"}, NEW call \in CallNames,
           \A z \in Out(h, x) : <<call, z, x>> \notin Members(f.todo)
    PROVE  Painted(h, f, Paint(f, x, colour, call), x, colour, call)
<1> DEFINE v == Visits(call, f, x)  g == [f EXCEPT !.col[x] = colour, !.todo = f.todo \o v]
<1>1. f \in Midway(h) /\ f.todo \in Seq(CallSet) /\ Once(f.todo) /\ f.col \in [Node -> {"black", "purple", "grey", "white"}]
  BY DEF Calm, Midway
<1>2. Out(f, x) = Out(h, x)
  BY <1>1, OutMidway
<1>3. /\ v \in Seq(CallSet) /\ Len(v) = Cardinality(Out(h, x)) /\ Once(v)
      /\ Members(v) = {<<call, z, x>> : z \in Out(h, x)}
  BY <1>2, VisitsAre
<1>4. Paint(f, x, colour, call) = g
  BY DEF Paint
<1> HIDE DEF v
<1>5. Members(f.todo) \cap Members(v) = {}
  BY <1>3
<1>6. /\ f.todo \o v \in Seq(CallSet) /\ Len(f.todo \o v) = Len(f.todo) + Len(v) /\ Once(f.todo \o v)
      /\ Members(f.todo \o v) = Members(f.todo) \cup Members(v)
  BY <1>1, <1>3, <1>5, PushTodo
<1> DEFINE w == f.todo \o v
<1> HIDE DEF w
<1>7. w \in Seq(CallSet) /\ g = [f EXCEPT !.col[x] = colour, !.todo = w]
  BY <1>6 DEF w
<1> HIDE DEF g
<1>8. /\ g \in Midway(h) /\ g.todo = w /\ g.col = [f.col EXCEPT ![x] = colour]
      /\ g.rc = f.rc /\ g.addr = f.addr /\ g.roots = f.roots /\ g.list = f.list
  BY <1>1, <1>7 DEF Midway
<1>9. Len(w) \in Nat
  BY <1>7
<1>10. Painted(h, f, g, x, colour, call)
  BY <1>3, <1>6, <1>8, <1>9 DEF Painted, Calm, w
<1> QED
  BY <1>4, <1>10

\* A count, and the root that leaves the buffer.
LEMMA CountOf ==
    ASSUME NEW h, NEW f, Calm(h, f), NEW x \in Node, NEW n \in Int
    PROVE  LET g == Count(f, x, n)
           IN  /\ Calm(h, g) /\ g.todo = f.todo /\ g.rc = [f.rc EXCEPT ![x] = f.rc[x] + n]
               /\ f.rc[x] \in Int
               /\ g.col = f.col /\ g.addr = f.addr /\ g.roots = f.roots /\ g.list = f.list
<1> DEFINE g == Count(f, x, n)
<1>1. f \in Midway(h) /\ f.rc \in [Node -> Int] /\ f.rc[x] \in Int /\ f.rc[x] + n \in Int
  BY DEF Calm, Midway
<1>2. g = [f EXCEPT !.rc[x] = f.rc[x] + n]
  BY DEF Count
<1> HIDE DEF g
<1>3. /\ g \in Midway(h) /\ g.todo = f.todo /\ g.rc = [f.rc EXCEPT ![x] = f.rc[x] + n]
      /\ g.col = f.col /\ g.addr = f.addr /\ g.roots = f.roots /\ g.list = f.list
  BY <1>1, <1>2 DEF Midway
<1>4. Calm(h, g)
  BY <1>3 DEF Calm
<1> QED
  BY <1>1, <1>3, <1>4 DEF g

\* The root that leaves the buffer.
LEMMA UnbufferOf ==
    ASSUME NEW h, NEW f, Calm(h, f), NEW x \in Node
    PROVE  LET g == Unbuffer(f, x)
           IN  /\ Calm(h, g) /\ g.todo = f.todo /\ g.rc = f.rc /\ g.col = f.col
               /\ g.addr = [f.addr EXCEPT ![x] = "null"] /\ g.roots = f.roots \ {x} /\ g.list = f.list
<1> DEFINE g == Unbuffer(f, x)
<1>1. f \in Midway(h) /\ Once(f.todo)
  BY DEF Calm
<1>2. /\ g \in Midway(h) /\ g.todo = f.todo /\ g.rc = f.rc /\ g.col = f.col
      /\ g.addr = [f.addr EXCEPT ![x] = "null"] /\ g.roots = f.roots \ {x} /\ g.list = f.list
  BY <1>1 DEF Unbuffer, Midway
<1> HIDE DEF g
<1>3. Calm(h, g)
  BY <1>1, <1>2 DEF Calm
<1> QED
  BY <1>2, <1>3 DEF g

-----------------------------------------------------------------------------
(* gc_mark_roots.                                                           *)

\* What a set leads to has the set, and all that its nodes refer to.
LEMMA ReachGrows ==
    ASSUME NEW next \in [Node -> SUBSET Node], NEW S \in SUBSET Node, NEW T \in SUBSET Node, S \subseteq T
    PROVE  Reach(next, S) \subseteq Reach(next, T)
<1>1. T \subseteq Reach(next, T) /\ Reach(next, T) \subseteq Node
  BY ReachContains
<1>2. \A x \in Reach(next, T) \cap Node : next[x] \subseteq Reach(next, T)
  BY ReachClosed
<1>3. S \subseteq Reach(next, T)
  BY <1>1
<1> DEFINE U == Reach(next, T)
<1> HIDE DEF U
<1> QED
  BY <1>2, <1>3, ReachLeast DEF U

\* The nodes that gc_mark_roots has visited.
Grey(g) == {x \in Node : g.col[x] = "grey"}

\* The roots that a phase has taken.
Started(g, call) == {x \in g.roots : <<call, x>> \notin Members(g.todo)}
\* The references to x that have been taken away.
Taken(h, g, x) == {y \in Grey(g) : x \in Out(h, y) /\ <<"mark", x, y>> \notin Members(g.todo)}

\* The marking of h, but for the nodes of X, whose call is being made.
Marking(h, g, X) ==
    /\ Calm(h, g) /\ g.list = {} /\ g.roots \subseteq h.roots
    /\ \A t \in Members(g.todo) :
          \/ \E x \in g.roots : t = <<"mark_root", x>>
          \/ \E y \in Grey(g) : \E x \in Out(h, y) : t = <<"mark", x, y>>
    /\ \A x \in Node : g.rc[x] = h.rc[x] - Cardinality(Taken(h, g, x))
    /\ \A x \in Node \ Grey(g) : g.col[x] = h.col[x]
    /\ \A y \in Grey(g) : \A x \in Out(h, y) : x \in Grey(g) \cup X \/ <<"mark", x, y>> \in Members(g.todo)
    /\ \A x \in h.roots : x \in Grey(g) \cup X \/ <<"mark_root", x>> \in Members(g.todo)
    /\ Grey(g) \cup X \subseteq Reach(Links(h), Started(g, "mark_root"))
    /\ \A x \in Node : g.addr[x] = IF x \in h.roots \ g.roots THEN "null" ELSE h.addr[x]

\* At most so many calls are still to be made, and to come of them.
ToMark(h, g) == Len(g.todo) + Cardinality(LinkSet(h, Node \ Grey(g)))

\* gc_mark_roots visits a node that is not grey: its links become calls.
LEMMA MarkGreyStep ==
    ASSUME NEW h \in Heaps, Kinds(h), NEW x \in Node, NEW f, Marking(h, f, {x})
    PROVE  LET g == MarkGrey(f, x) IN Marking(h, g, {}) /\ ToMark(h, g) <= ToMark(h, f) /\ ToMark(h, f) \in Nat
<1>1. CASE f.col[x] = "grey"
  <2>1. MarkGrey(f, x) = f /\ x \in Grey(f)
    BY <1>1 DEF MarkGrey, Grey
  <2>2. Marking(h, f, {})
    BY <2>1 DEF Marking
  <2>3. Len(f.todo) \in Nat
    BY CalmLength DEF Marking
  <2>4. ToMark(h, f) \in Nat
    BY <2>3, LinksFinite DEF ToMark
  <2> QED
    BY <2>1, <2>2, <2>4
<1>2. CASE f.col[x] # "grey"
  <2> DEFINE g == Paint(f, x, "grey", "mark")  V == Grey(f)  P == Members(f.todo)
             S == Started(f, "mark_root")
  <2>1. MarkGrey(f, x) = g /\ x \notin V /\ V \in SUBSET Node
    BY <1>2 DEF MarkGrey, Grey
  <2>2. /\ Calm(h, f) /\ f.list = {} /\ f.roots \subseteq h.roots
        /\ \A t \in P :
              \/ \E r \in f.roots : t = <<"mark_root", r>>
              \/ \E y \in V : \E z \in Out(h, y) : t = <<"mark", z, y>>
        /\ \A z \in Node : f.rc[z] = h.rc[z] - Cardinality(Taken(h, f, z))
        /\ \A z \in Node \ V : f.col[z] = h.col[z]
        /\ \A y \in V : \A z \in Out(h, y) : z \in V \cup {x} \/ <<"mark", z, y>> \in P
        /\ \A z \in h.roots : z \in V \cup {x} \/ <<"mark_root", z>> \in P
        /\ V \cup {x} \subseteq Reach(Links(h), S)
        /\ \A z \in Node : f.addr[z] = IF z \in h.roots \ f.roots THEN "null" ELSE h.addr[z]
    BY DEF Marking
  <2>3. \A z \in Node : Out(h, z) \in SUBSET Node
    BY LinksType
  <2>4. \A z : <<"mark", z, x>> \notin P
    <3> SUFFICES ASSUME NEW z, <<"mark", z, x>> \in P PROVE FALSE
      OBVIOUS
    <3> HIDE DEF P, V
    <3>1. \A r : <<"mark", z, x>> # <<"mark_root", r>>
      OBVIOUS
    <3>2. PICK y \in V : \E w \in Out(h, y) : <<"mark", z, x>> = <<"mark", w, y>>
      BY <2>2, <3>1
    <3>3. x = y
      BY <3>2
    <3> QED
      BY <2>1, <3>3
  <2>5. Painted(h, f, g, x, "grey", "mark")
    BY <2>2, <2>3, <2>4, PaintOf DEF CallNames
  <2> DEFINE N == {<<"mark", z, x>> : z \in Out(h, x)}
  <2>6. /\ Calm(h, g) /\ Members(g.todo) = P \cup N
        /\ Len(g.todo) \in Nat /\ Len(g.todo) = Len(f.todo) + Cardinality(Out(h, x))
        /\ g.col = [f.col EXCEPT ![x] = "grey"]
        /\ g.rc = f.rc /\ g.addr = f.addr /\ g.roots = f.roots /\ g.list = f.list
    BY <2>5 DEF Painted
  <2> HIDE DEF g
  <2>7. /\ Grey(g) = V \cup {x} /\ \A z \in Node \ (V \cup {x}) : g.col[z] = f.col[z]
    <3>1. f.col \in [Node -> {"black", "purple", "grey", "white"}]
      BY <2>2 DEF Calm, Midway
    <3> QED
      BY <2>6, <3>1 DEF Grey
  <2>8. /\ \A r : <<"mark_root", r>> \notin N
        /\ \A z, y : <<"mark", z, y>> \in N <=> y = x /\ z \in Out(h, x)
    OBVIOUS
  <2> HIDE DEF N, P, V
  <2>9. Started(g, "mark_root") = S
    BY <2>6, <2>8 DEF Started, P
  <2>10. \A z \in Node : Taken(h, g, z) = Taken(h, f, z)
    <3>1. \A z : Taken(h, f, z) = {y \in V : z \in Out(h, y) /\ <<"mark", z, y>> \notin P}
      BY DEF Taken, P, V
    <3>2. \A z : Taken(h, g, z) = {y \in V \cup {x} : z \in Out(h, y) /\ <<"mark", z, y>> \notin P \cup N}
      BY <2>6, <2>7 DEF Taken
    <3>3. ASSUME NEW z \in Node, NEW y \in V PROVE <<"mark", z, y>> \notin N
      <4>1. y # x
        BY <2>1
      <4> QED
        BY <4>1 DEF N
    <3>4. ASSUME NEW z \in Node PROVE ~(z \in Out(h, x) /\ <<"mark", z, x>> \notin P \cup N)
      BY <2>8
    <3>5. ASSUME NEW z \in Node PROVE Taken(h, g, z) = Taken(h, f, z)
      BY <3>1, <3>2, <3>3, <3>4
    <3> QED
      BY <3>5
  <2>11. \A t \in P \cup N :
              \/ \E r \in g.roots : t = <<"mark_root", r>>
              \/ \E y \in Grey(g) : \E z \in Out(h, y) : t = <<"mark", z, y>>
    <3>1. ASSUME NEW t \in P
          PROVE  \/ \E r \in g.roots : t = <<"mark_root", r>>
                 \/ \E y \in Grey(g) : \E z \in Out(h, y) : t = <<"mark", z, y>>
      BY <2>2, <2>6, <2>7
    <3>2. ASSUME NEW t \in N PROVE \E z \in Out(h, x) : t = <<"mark", z, x>>
      BY DEF N
    <3> QED
      BY <2>7, <3>1, <3>2
  <2>12. \A y \in Grey(g) : \A z \in Out(h, y) : z \in Grey(g) \cup {} \/ <<"mark", z, y>> \in P \cup N
    BY <2>2, <2>7, <2>8
  <2>13. Marking(h, g, {})
    BY <2>2, <2>6, <2>7, <2>9, <2>10, <2>11, <2>12 DEF Marking
  <2>14. LinkSet(h, Node \ Grey(g)) = LinkSet(h, (Node \ V) \ {x})
    BY <2>7 DEF LinkSet
  <2>15. Cardinality(LinkSet(h, (Node \ V) \ {x})) = Cardinality(LinkSet(h, Node \ V)) - Cardinality(Out(h, x))
    BY <2>1, <2>3, LinksLess
  <2>16. Cardinality(Out(h, x)) \in Nat /\ Cardinality(LinkSet(h, Node \ V)) \in Nat /\ Len(f.todo) \in Nat
    BY <2>2, <2>3, LinksFinite, NodesFinite, FS_CardinalityType, CalmLength
  <2>17. ToMark(h, g) = ToMark(h, f) /\ ToMark(h, f) \in Nat
    BY <2>6, <2>14, <2>15, <2>16 DEF ToMark, V
  <2> QED
    BY <2>1, <2>13, <2>17
<1> QED
  BY <1>1, <1>2

\* gc_zobj_possible_root buffers what it has made purple.
PurpleRoots(h) == \A x \in h.roots : h.col[x] = "purple"

\* There is always so much left to mark, a natural number.
LEMMA MarkingNat ==
    ASSUME NEW h, NEW g, NEW X, Marking(h, g, X) PROVE ToMark(h, g) \in Nat
<1>1. Len(g.todo) \in Nat
  BY CalmLength DEF Marking
<1>2. Cardinality(LinkSet(h, Node \ Grey(g))) \in Nat
  BY LinksFinite
<1> QED
  BY <1>1, <1>2 DEF ToMark

\* A root is visited, or leaves the buffer when it has been visited already.
LEMMA MarkRootStep ==
    ASSUME NEW h \in Heaps, Kinds(h), PurpleRoots(h), NEW g, Marking(h, g, {}),
           NEW f, NEW t, Popped(h, g, f, t), NEW x \in g.roots, t = <<"mark_root", x>>
    PROVE  LET u == Call(f, t[1], t[2]) IN Marking(h, u, {}) /\ ToMark(h, u) < ToMark(h, g)
<1> DEFINE u == Call(f, t[1], t[2])  P == Members(g.todo)  Q == Members(f.todo)  V == Grey(g)
           S == Started(g, "mark_root")
<1>1. u = IF f.col[x] = "purple" THEN MarkGrey(f, x) ELSE Unbuffer(f, x)
  BY DEF Call
<1>2. /\ Calm(h, g) /\ g.list = {} /\ g.roots \subseteq h.roots
      /\ \A s \in P :
            \/ \E r \in g.roots : s = <<"mark_root", r>>
            \/ \E y \in V : \E z \in Out(h, y) : s = <<"mark", z, y>>
      /\ \A z \in Node : g.rc[z] = h.rc[z] - Cardinality(Taken(h, g, z))
      /\ \A z \in Node \ V : g.col[z] = h.col[z]
      /\ \A y \in V : \A z \in Out(h, y) : z \in V \/ <<"mark", z, y>> \in P
      /\ \A z \in h.roots : z \in V \/ <<"mark_root", z>> \in P
      /\ V \subseteq Reach(Links(h), S)
      /\ \A z \in Node : g.addr[z] = IF z \in h.roots \ g.roots THEN "null" ELSE h.addr[z]
  BY DEF Marking
<1>3. /\ Calm(h, f) /\ t \in P /\ Q = P \ {t}
      /\ Len(g.todo) \in Nat /\ Len(f.todo) \in Nat /\ Len(f.todo) = Len(g.todo) - 1
      /\ f.rc = g.rc /\ f.col = g.col /\ f.addr = g.addr /\ f.roots = g.roots /\ f.list = g.list
  BY DEF Popped
<1>3b. Len(g.todo) \in Nat /\ Len(f.todo) \in Nat /\ Len(f.todo) = Len(g.todo) - 1
  BY DEF Popped
<1>3c. /\ Calm(h, f) /\ f.rc = g.rc /\ f.col = g.col /\ f.addr = g.addr /\ f.roots = g.roots
       /\ f.list = g.list
  BY DEF Popped
<1>4. x \in Node /\ x \in h.roots /\ h.roots \in SUBSET Node /\ g.roots \in SUBSET Node
  BY <1>2 DEF Heaps
<1>5. Grey(f) = V
  BY <1>3 DEF Grey
<1>6. \A z, y : <<"mark", z, y>> # t /\ \A r : <<"mark_root", r>> = t <=> r = x
  OBVIOUS
<1> HIDE DEF P, Q, V, u
<1>7. \A z \in Node : Taken(h, f, z) = Taken(h, g, z)
  <2>1. \A z : Taken(h, f, z) = {y \in V : z \in Out(h, y) /\ <<"mark", z, y>> \notin Q}
    BY <1>5 DEF Taken, Q
  <2>2. \A z : Taken(h, g, z) = {y \in V : z \in Out(h, y) /\ <<"mark", z, y>> \notin P}
    BY DEF Taken, P, V
  <2> QED
    BY <1>3, <1>6, <2>1, <2>2
<1>8. /\ S = {r \in g.roots : <<"mark_root", r>> \notin P} /\ S \in SUBSET Node
      /\ Started(f, "mark_root") = S \cup {x}
  <2>1. Started(f, "mark_root") = {r \in g.roots : <<"mark_root", r>> \notin Q}
    BY <1>3 DEF Started, Q
  <2>2. S = {r \in g.roots : <<"mark_root", r>> \notin P}
    BY DEF Started, P
  <2> QED
    BY <1>3, <1>4, <1>6, <2>1, <2>2
<1>10. ToMark(h, f) < ToMark(h, g) /\ ToMark(h, f) \in Nat /\ ToMark(h, g) \in Nat
  <2> DEFINE n == Cardinality(LinkSet(h, Node \ V))
  <2>1. n \in Nat
    BY LinksFinite
  <2>2. ToMark(h, f) = Len(f.todo) + n /\ ToMark(h, g) = Len(g.todo) + n
    BY <1>5 DEF ToMark, V
  <2> HIDE DEF n
  <2> QED
    BY <1>3b, <2>1, <2>2
<1>11. ASSUME f.col[x] = "purple" PROVE Marking(h, u, {}) /\ ToMark(h, u) < ToMark(h, g)
  <2>1. V \cup {x} \subseteq Reach(Links(h), S \cup {x})
    <3>1. Links(h) \in [Node -> SUBSET Node]
      BY LinksType
    <3>2. Reach(Links(h), S) \subseteq Reach(Links(h), S \cup {x})
      BY <1>4, <1>8, <3>1, ReachGrows
    <3>3. S \cup {x} \subseteq Reach(Links(h), S \cup {x})
      BY <1>4, <1>8, <3>1, ReachContains
    <3> QED
      BY <1>2, <3>2, <3>3
  <2>2. \A s \in Q :
            \/ \E r \in g.roots : s = <<"mark_root", r>>
            \/ \E y \in V : \E z \in Out(h, y) : s = <<"mark", z, y>>
    BY <1>2, <1>3
  <2>3. \A y \in V : \A z \in Out(h, y) : z \in V \cup {x} \/ <<"mark", z, y>> \in Q
    BY <1>2, <1>3, <1>6
  <2>4. \A z \in h.roots : z \in V \cup {x} \/ <<"mark_root", z>> \in Q
    BY <1>2, <1>3, <1>6
  <2>5. Marking(h, f, {x})
    BY <1>2, <1>3, <1>5, <1>7, <1>8, <2>1, <2>2, <2>3, <2>4 DEF Marking, Q
  <2>6. Marking(h, u, {}) /\ ToMark(h, u) <= ToMark(h, f)
    BY <1>1, <1>4, <1>11, <2>5, MarkGreyStep
  <2>7. ToMark(h, u) \in Nat
    BY <2>6, MarkingNat
  <2>8. Marking(h, u, {}) /\ ToMark(h, u) < ToMark(h, g)
    BY <1>10, <2>6, <2>7
  <2> QED
    BY <2>8
<1>12. ASSUME f.col[x] # "purple" PROVE Marking(h, u, {}) /\ ToMark(h, u) < ToMark(h, g)
  <2>1. x \in V
    BY <1>2, <1>3, <1>4, <1>12 DEF PurpleRoots
  <2>0. u = Unbuffer(f, x)
    BY <1>1, <1>12
  <2>2. /\ Calm(h, u) /\ u.todo = f.todo /\ u.rc = g.rc /\ u.col = g.col
        /\ u.addr = [g.addr EXCEPT ![x] = "null"] /\ u.roots = g.roots \ {x} /\ u.list = g.list
    BY <1>3c, <1>4, <2>0, UnbufferOf
  <2>3. Grey(u) = V
    BY <2>2 DEF Grey, V
  <2>4. \A z \in Node : Taken(h, u, z) = Taken(h, g, z)
    <3>1. \A z \in Node : Taken(h, u, z) = Taken(h, f, z)
      BY <1>5, <2>2, <2>3 DEF Taken
    <3> QED
      BY <1>7, <3>1
  <2>5. Started(u, "mark_root") = S
    <3>1. Started(u, "mark_root") = {r \in g.roots \ {x} : <<"mark_root", r>> \notin Q}
      BY <2>2 DEF Started, Q
    <3> QED
      BY <1>3, <1>6, <1>8, <3>1
  <2>6. \A s \in Q :
            \/ \E r \in u.roots : s = <<"mark_root", r>>
            \/ \E y \in V : \E z \in Out(h, y) : s = <<"mark", z, y>>
    BY <1>2, <1>3, <2>2
  <2>7. \A y \in V : \A z \in Out(h, y) : z \in V \/ <<"mark", z, y>> \in Q
    BY <1>2, <1>3, <1>6
  <2>8. \A z \in h.roots : z \in V \/ <<"mark_root", z>> \in Q
    BY <1>2, <1>3, <1>6, <2>1
  <2>9. \A z \in Node : u.addr[z] = IF z \in h.roots \ u.roots THEN "null" ELSE h.addr[z]
    <3>1. g.addr \in [Node -> {"null", "root", "list"}]
      BY <1>2 DEF Calm, Midway
    <3> QED
      BY <1>2, <1>4, <2>2, <3>1
  <2>10. Marking(h, u, {})
    BY <1>2, <2>2, <2>3, <2>4, <2>5, <2>6, <2>7, <2>8, <2>9 DEF Marking, Q
  <2>11. ToMark(h, u) = ToMark(h, f)
    BY <1>5, <2>2, <2>3 DEF ToMark
  <2> QED
    BY <1>10, <2>10, <2>11
<1> QED
  BY <1>11, <1>12 DEF u

\* A link is followed and its reference taken away.
LEMMA MarkLinkStep ==
    ASSUME NEW h \in Heaps, Kinds(h), NEW g, Marking(h, g, {}), NEW f, NEW t, Popped(h, g, f, t),
           NEW y \in Grey(g), NEW x \in Out(h, y), t = <<"mark", x, y>>
    PROVE  LET u == Call(f, t[1], t[2]) IN Marking(h, u, {}) /\ ToMark(h, u) < ToMark(h, g)
<1> DEFINE u == Call(f, t[1], t[2])  P == Members(g.todo)  Q == Members(f.todo)  V == Grey(g)
           S == Started(g, "mark_root")  e == Count(f, x, -1)
<1>1. u = MarkGrey(e, x)
  BY DEF Call
<1>2. /\ Calm(h, g) /\ g.list = {} /\ g.roots \subseteq h.roots
      /\ \A s \in P :
            \/ \E r \in g.roots : s = <<"mark_root", r>>
            \/ \E w \in V : \E z \in Out(h, w) : s = <<"mark", z, w>>
      /\ \A z \in Node : g.rc[z] = h.rc[z] - Cardinality(Taken(h, g, z))
      /\ \A z \in Node \ V : g.col[z] = h.col[z]
      /\ \A w \in V : \A z \in Out(h, w) : z \in V \/ <<"mark", z, w>> \in P
      /\ \A z \in h.roots : z \in V \/ <<"mark_root", z>> \in P
      /\ V \subseteq Reach(Links(h), S)
      /\ \A z \in Node : g.addr[z] = IF z \in h.roots \ g.roots THEN "null" ELSE h.addr[z]
  BY DEF Marking
<1>3. /\ Calm(h, f) /\ t \in P /\ Q = P \ {t}
      /\ Len(g.todo) \in Nat /\ Len(f.todo) \in Nat /\ Len(f.todo) = Len(g.todo) - 1
      /\ f.rc = g.rc /\ f.col = g.col /\ f.addr = g.addr /\ f.roots = g.roots /\ f.list = g.list
  BY DEF Popped
<1>3b. Len(g.todo) \in Nat /\ Len(f.todo) \in Nat /\ Len(f.todo) = Len(g.todo) - 1
  BY DEF Popped
<1>4. y \in Node /\ V \in SUBSET Node
  BY DEF Grey
<1>5. x \in Node /\ Links(h) \in [Node -> SUBSET Node] /\ \A z \in Node : Links(h)[z] = Out(h, z)
  BY <1>4, LinksType
<1>6. /\ Calm(h, e) /\ e.todo = f.todo /\ e.rc = [g.rc EXCEPT ![x] = g.rc[x] - 1] /\ g.rc[x] \in Int
      /\ e.col = g.col /\ e.addr = g.addr /\ e.roots = g.roots /\ e.list = g.list
  <2>1. -1 \in Int
    OBVIOUS
  <2>2. /\ Calm(h, e) /\ e.todo = f.todo /\ e.rc = [f.rc EXCEPT ![x] = f.rc[x] + -1]
        /\ f.rc[x] \in Int
        /\ e.col = f.col /\ e.addr = f.addr /\ e.roots = f.roots /\ e.list = f.list
    BY <1>3, <1>5, <2>1, CountOf
  <2>3. f.rc[x] + -1 = f.rc[x] - 1
    BY <2>2
  <2> QED
    BY <1>3, <2>2, <2>3
<1>7. /\ \A r : <<"mark_root", r>> # t
      /\ \A z, w : <<"mark", z, w>> = t <=> (z = x /\ w = y)
  OBVIOUS
<1> HIDE DEF P, Q, V, e, u
<1>8. Grey(e) = V
  BY <1>6 DEF Grey, V
<1>9. \A z : Taken(h, e, z) = {w \in V : z \in Out(h, w) /\ <<"mark", z, w>> \notin Q}
  BY <1>6, <1>8 DEF Taken, Q
<1>10. \A z : Taken(h, g, z) = {w \in V : z \in Out(h, w) /\ <<"mark", z, w>> \notin P}
  BY DEF Taken, P, V
<1>11. \A z \in Node \ {x} : Taken(h, e, z) = Taken(h, g, z)
  BY <1>3, <1>7, <1>9, <1>10
<1>12. Taken(h, e, x) = Taken(h, g, x) \cup {y} /\ y \notin Taken(h, g, x) /\ Taken(h, g, x) \in SUBSET Node
  <2>1. ASSUME NEW w \in V
        PROVE  w \in Taken(h, e, x) <=> (w \in Taken(h, g, x) \/ w = y)
    BY <1>3, <1>7, <1>9, <1>10
  <2>2. y \in V /\ y \notin Taken(h, g, x)
    BY <1>3, <1>10 DEF V
  <2>3. Taken(h, e, x) \in SUBSET V /\ Taken(h, g, x) \in SUBSET V
    BY <1>9, <1>10
  <2> QED
    BY <1>4, <2>1, <2>2, <2>3
<1>13. Cardinality(Taken(h, e, x)) = Cardinality(Taken(h, g, x)) + 1 /\ Cardinality(Taken(h, g, x)) \in Nat
  BY <1>4, <1>12, NodesFinite, PartCount
<1>14. \A z \in Node : e.rc[z] = h.rc[z] - Cardinality(Taken(h, e, z))
  <2>1. ASSUME NEW z \in Node, z # x PROVE e.rc[z] = h.rc[z] - Cardinality(Taken(h, e, z))
    <3>1. e.rc[z] = g.rc[z]
      BY <1>5, <1>6, <2>1
    <3> QED
      BY <1>2, <1>11, <2>1, <3>1
  <2>2. e.rc[x] = h.rc[x] - Cardinality(Taken(h, e, x))
    <3>1. g.rc \in [Node -> Int] /\ h.rc[x] \in Int
      BY <1>2, <1>5 DEF Calm, Midway, Heaps
    <3>2. e.rc[x] = g.rc[x] - 1
      BY <1>5, <1>6, <3>1
    <3>3. g.rc[x] = h.rc[x] - Cardinality(Taken(h, g, x))
      BY <1>2, <1>5
    <3> QED
      BY <1>13, <3>1, <3>2, <3>3
  <2> QED
    BY <2>1, <2>2
<1>15. Started(e, "mark_root") = S
  <2>1. Started(e, "mark_root") = {r \in g.roots : <<"mark_root", r>> \notin Q}
    BY <1>6 DEF Started, Q
  <2>2. S = {r \in g.roots : <<"mark_root", r>> \notin P}
    BY DEF Started, P
  <2> QED
    BY <1>3, <1>7, <2>1, <2>2
<1>16. x \in Reach(Links(h), S)
  <2>1. S \in SUBSET Node
    BY <1>2 DEF Started, Heaps
  <2>2. y \in Reach(Links(h), S)
    BY <1>2 DEF V
  <2> QED
    BY <1>4, <1>5, <2>1, <2>2, ReachClosed
<1>17. \A s \in Q :
            \/ \E r \in g.roots : s = <<"mark_root", r>>
            \/ \E w \in V : \E z \in Out(h, w) : s = <<"mark", z, w>>
  BY <1>2, <1>3
<1>18. \A w \in V : \A z \in Out(h, w) : z \in V \cup {x} \/ <<"mark", z, w>> \in Q
  BY <1>2, <1>3, <1>7
<1>19. \A z \in h.roots : z \in V \cup {x} \/ <<"mark_root", z>> \in Q
  BY <1>2, <1>3, <1>7
<1>20. Marking(h, e, {x})
  <2>1. Members(e.todo) = Q
    BY <1>6 DEF Q
  <2>2. Grey(e) \cup {x} \subseteq Reach(Links(h), Started(e, "mark_root"))
    BY <1>2, <1>8, <1>15, <1>16
  <2>3. Calm(h, e) /\ e.list = {} /\ e.roots = g.roots /\ e.addr = g.addr /\ e.col = g.col
    BY <1>2, <1>6
  <2>4. /\ g.roots \subseteq h.roots /\ \A z \in Node \ V : g.col[z] = h.col[z]
        /\ \A z \in Node : g.addr[z] = IF z \in h.roots \ g.roots THEN "null" ELSE h.addr[z]
    BY <1>2
  <2> QED
    BY <1>8, <1>14, <1>17, <1>18, <1>19, <2>1, <2>2, <2>3, <2>4 DEF Marking
<1>21. Marking(h, u, {}) /\ ToMark(h, u) <= ToMark(h, e)
  BY <1>1, <1>5, <1>20, MarkGreyStep
<1>22. ToMark(h, u) \in Nat
  BY <1>21, MarkingNat
<1>23. ToMark(h, e) < ToMark(h, g) /\ ToMark(h, e) \in Nat /\ ToMark(h, g) \in Nat
  <2> DEFINE n == Cardinality(LinkSet(h, Node \ V))
  <2>1. n \in Nat
    BY LinksFinite
  <2>2. ToMark(h, e) = Len(f.todo) + n /\ ToMark(h, g) = Len(g.todo) + n
    BY <1>6, <1>8 DEF ToMark, V
  <2> HIDE DEF n
  <2> QED
    BY <1>3b, <2>1, <2>2
<1>24. ToMark(h, u) < ToMark(h, g)
  BY <1>21, <1>22, <1>23
<1> QED
  BY <1>21, <1>24 DEF u

\* What a phase has to do at most.
LEMMA LinksSame ==
    ASSUME NEW h, NEW g \in Midway(h), NEW S PROVE LinkSet(g, S) = LinkSet(h, S)
  BY OutMidway DEF LinkSet

\* They stay within the nodes.
LEMMA OutNodes ==
    ASSUME NEW h \in Heaps, Kinds(h), NEW g, Calm(h, g)
    PROVE  \A x \in Node : Out(g, x) \in SUBSET Node
  BY LinksType, OutMidway DEF Calm

\* The heap at the start of a collection.
LEMMA DuringType ==
    ASSUME NEW h \in Heaps
    PROVE  LET g == During(h)
           IN  /\ g \in Midway(h) /\ g.rc = h.rc /\ g.col = h.col /\ g.addr = h.addr
               /\ g.roots = h.roots /\ g.list = {}
  BY DEF Heaps, Midway, During

\* A phase begins with its calls for the roots.
LEMMA PhaseStart ==
    ASSUME NEW h, NEW g \in Midway(h), NEW S \in SUBSET Node, NEW order \in Orders(S), NEW call \in CallNames
    PROVE  \E f : /\ Calm(h, f) /\ Phase(call, g, order) = Traverse(f)
                  /\ Members(f.todo) = {<<call, x>> : x \in S}
                  /\ f.rc = g.rc /\ f.col = g.col /\ f.addr = g.addr /\ f.roots = g.roots /\ f.list = g.list
<1> DEFINE v == [k \in 1 .. Len(order) |-> <<call, order[k]>>]  f == [g EXCEPT !.todo = v]
<1>1. v \in Seq(CallSet) /\ Once(v) /\ Members(v) = {<<call, x>> : x \in S}
  BY RootsTodo
<1>2. Phase(call, g, order) = Traverse(f)
  BY DEF Phase
<1> HIDE DEF v
<1>3. /\ f \in Midway(h) /\ f.todo = v
      /\ f.rc = g.rc /\ f.col = g.col /\ f.addr = g.addr /\ f.roots = g.roots /\ f.list = g.list
  BY <1>1 DEF Midway
<1> HIDE DEF f
<1>4. Calm(h, f)
  BY <1>1, <1>3 DEF Calm
<1> QED
  BY <1>1, <1>2, <1>3, <1>4

\* Nothing is left to be done when no call is.
LEMMA NoCalls ==
    ASSUME NEW h, NEW g, g.todo = <<>> PROVE Members(g.todo) = {}
<1>1. Len(g.todo) = 0
  OBVIOUS
<1>2. 1 .. 0 = {}
  OBVIOUS
<1> QED
  BY <1>1, <1>2 DEF Members

\* Either call keeps the marking in order, and leaves less to be marked.
LEMMA MarkStep ==
    ASSUME NEW h \in Heaps, Kinds(h), PurpleRoots(h), NEW g, Marking(h, g, {}), g.todo # <<>>
    PROVE  Marking(h, Step(g), {}) /\ ToMark(h, Step(g)) < ToMark(h, g)
<1>1. PICK f, t : Popped(h, g, f, t) /\ Step(g) = Call(f, t[1], t[2])
  BY StepOf DEF Marking
<1>2. \/ \E x \in g.roots : t = <<"mark_root", x>>
      \/ \E y \in Grey(g) : \E x \in Out(h, y) : t = <<"mark", x, y>>
  BY <1>1 DEF Marking, Popped
<1> QED
  BY <1>1, <1>2, MarkRootStep, MarkLinkStep

\* What gc_mark_roots leaves.
Marked(h, m) ==
    /\ Calm(h, m) /\ m.todo = <<>> /\ m.list = {} /\ m.roots \subseteq h.roots
    /\ Found(h) = Reach(Links(h), m.roots)
    /\ \A x \in Node : /\ m.col[x] = IF x \in Found(h) THEN "grey" ELSE h.col[x]
                       /\ m.rc[x] = h.rc[x] - Cardinality(Inside(h, x))
                       /\ m.addr[x] = IF x \in h.roots \ m.roots THEN "null" ELSE h.addr[x]

\* When no call is left, all that the roots lead to is grey and has lost its
\* references from inside.
LEMMA MarkingEnds ==
    ASSUME NEW h \in Heaps, Kinds(h), NEW m, Marking(h, m, {}), m.todo = <<>>
    PROVE  Marked(h, m)
<1> DEFINE V == Grey(m)
<1>1. Members(m.todo) = {}
  BY NoCalls
<1>2. /\ Calm(h, m) /\ m.list = {} /\ m.roots \subseteq h.roots
      /\ \A x \in Node : m.rc[x] = h.rc[x] - Cardinality(Taken(h, m, x))
      /\ \A x \in Node \ V : m.col[x] = h.col[x]
      /\ \A y \in V : \A x \in Out(h, y) : x \in V
      /\ h.roots \subseteq V
      /\ V \subseteq Reach(Links(h), Started(m, "mark_root"))
      /\ \A x \in Node : m.addr[x] = IF x \in h.roots \ m.roots THEN "null" ELSE h.addr[x]
  BY <1>1 DEF Marking
<1>3. Started(m, "mark_root") = m.roots
  BY <1>1 DEF Started
<1>4. /\ Links(h) \in [Node -> SUBSET Node] /\ h.roots \in SUBSET Node /\ m.roots \in SUBSET Node
      /\ \A x \in Node : Links(h)[x] = Out(h, x)
  BY <1>2, LinksType
<1>5. V \in SUBSET Node /\ \A x \in V : m.col[x] = "grey"
  BY DEF Grey
<1> HIDE DEF V
<1>6. Found(h) \subseteq V
  <2>1. \A x \in V \cap Node : Links(h)[x] \subseteq V
    BY <1>2, <1>4
  <2> QED
    BY <1>2, <1>4, <2>1, ReachLeast DEF Found
<1>7. Reach(Links(h), m.roots) \subseteq Found(h)
  BY <1>2, <1>4, ReachGrows DEF Found
<1>8. V = Found(h) /\ Found(h) = Reach(Links(h), m.roots)
  BY <1>2, <1>3, <1>6, <1>7
<1>9. \A x : Taken(h, m, x) = Inside(h, x)
  BY <1>1, <1>8 DEF Taken, Inside, V
<1> QED
  BY <1>2, <1>5, <1>8, <1>9 DEF Marked

\* So does gc_mark_roots end, in whatever order it takes the roots.
LEMMA MarkPhase ==
    ASSUME NEW h \in Heaps, Kinds(h), PurpleRoots(h), NEW order \in Orders(h.roots)
    PROVE  Marked(h, Phase("mark_root", During(h), order))
<1> DEFINE d == During(h)
<1>1. /\ d \in Midway(h) /\ d.rc = h.rc /\ d.col = h.col /\ d.addr = h.addr
      /\ d.roots = h.roots /\ d.list = {}
  BY DuringType
<1>2. h.roots \in SUBSET Node /\ h.col \in [Node -> {"black", "purple"}] /\ h.rc \in [Node -> Int]
  BY DEF Heaps
<1> HIDE DEF d
<1>3. "mark_root" \in CallNames
  BY DEF CallNames
<1>4. PICK f : /\ Calm(h, f) /\ Phase("mark_root", d, order) = Traverse(f)
               /\ Members(f.todo) = {<<"mark_root", x>> : x \in h.roots}
               /\ f.rc = d.rc /\ f.col = d.col /\ f.addr = d.addr /\ f.roots = d.roots /\ f.list = d.list
  BY <1>1, <1>2, <1>3, PhaseStart
<1>5. Grey(f) = {}
  BY <1>1, <1>2, <1>4 DEF Grey
<1>6. \A x : Taken(h, f, x) = {} /\ Cardinality(Taken(h, f, x)) = 0
  BY <1>5, FS_EmptySet DEF Taken
<1>7. Marking(h, f, {})
  BY <1>1, <1>2, <1>4, <1>5, <1>6 DEF Marking
<1> DEFINE I == {g \in Midway(h) : Marking(h, g, {})}  W == [g \in I |-> ToMark(h, g)]
<1>8. f \in I /\ W \in [I -> Nat] /\ W[f] = ToMark(h, f)
  BY <1>4, <1>7, MarkingNat DEF Calm
<1>9. ASSUME NEW g \in I, g.todo # <<>> PROVE Step(g) \in I /\ W[Step(g)] < W[g]
  <2>1. Marking(h, g, {})
    OBVIOUS
  <2>2. Marking(h, Step(g), {}) /\ ToMark(h, Step(g)) < ToMark(h, g)
    BY <1>9, <2>1, MarkStep
  <2>3. Step(g) \in Midway(h)
    BY <2>2 DEF Marking, Calm
  <2> QED
    BY <2>2, <2>3
<1>10. W[f] <= Len(f.todo) + 2 * Cardinality(LinkSet(f, Node)) /\ Len(f.todo) \in Nat
  <2> DEFINE n == Cardinality(LinkSet(h, Node))
  <2>1. ToMark(h, f) = Len(f.todo) + n
    BY <1>5 DEF ToMark
  <2>2. n \in Nat /\ Len(f.todo) \in Nat
    BY <1>4, LinksFinite, CalmLength
  <2>3. Cardinality(LinkSet(f, Node)) = n
    BY <1>4, LinksSame DEF Calm
  <2> HIDE DEF n, W
  <2> QED
    BY <1>8, <2>1, <2>2, <2>3
<1>0. \A x \in Node : Out(f, x) \in SUBSET Node
  BY <1>2, <1>4, OutNodes
<1> HIDE DEF I, W
<1>11. Traverse(f) \in I /\ Traverse(f).todo = <<>>
  BY <1>8, <1>9, <1>10, <1>0, TraverseEnds
<1>12. Marking(h, Traverse(f), {})
  BY <1>11 DEF I
<1>13. Marked(h, Traverse(f))
  BY <1>11, <1>12, MarkingEnds
<1> QED
  BY <1>4, <1>13 DEF d

-----------------------------------------------------------------------------
(* gc_scan_roots.                                                           *)

\* The nodes that are found and black.
BlackOf(h, g) == {x \in Found(h) : g.col[x] = "black"}
\* The references to x that have been given back.
Given(h, g, x) == {y \in BlackOf(h, g) : x \in Out(h, y) /\ <<"black", x, y>> \notin Members(g.todo)}

\* The scan of m, the marked h, but for the call that is being made, which
\* makes the nodes of B black, or scans those of S.
Scanning(h, m, g, B, S) ==
    /\ Calm(h, g) /\ g.list = {} /\ g.roots = m.roots /\ g.addr = m.addr
    /\ \A t \in Members(g.todo) :
          \/ \E x \in h.roots : t = <<"scan_root", x>>
          \/ \E y \in Found(h) : g.col[y] # "grey" /\ \E x \in Out(h, y) : t = <<"scan", x, y>>
          \/ \E y \in BlackOf(h, g) : \E x \in Out(h, y) : t = <<"black", x, y>>
    /\ \A x \in Node : g.rc[x] = m.rc[x] + Cardinality(Given(h, g, x))
    /\ \A x \in Node \ Found(h) : g.col[x] = h.col[x]
    /\ \A x \in Found(h) : g.col[x] \in {"grey", "black", "white"}
    /\ \A y \in BlackOf(h, g) : \A x \in Out(h, y) :
          x \in BlackOf(h, g) \cup B \/ <<"black", x, y>> \in Members(g.todo)
    /\ \A y \in Found(h) : g.col[y] = "white" => \A x \in Out(h, y) :
          g.col[x] # "grey" \/ x \in S \/ <<"scan", x, y>> \in Members(g.todo)
    /\ \A x \in g.roots : g.col[x] # "grey" \/ x \in S \/ <<"scan_root", x>> \in Members(g.todo)
    /\ BlackOf(h, g) \cup B \subseteq Live(h)
    /\ \A x \in Found(h) : g.col[x] = "white" => m.rc[x] <= 0

\* Each link may be scanned, and once more given back.
ToScan(h, g) ==
    Len(g.todo) + Cardinality(LinkSet(h, Found(h) \ BlackOf(h, g))) + Cardinality(LinkSet(h, Grey(g)))

\* There is always so much left to scan, a natural number.
LEMMA ScanningNat ==
    ASSUME NEW h, NEW m, NEW g, NEW B, NEW S, Scanning(h, m, g, B, S) PROVE ToScan(h, g) \in Nat
<1>1. Len(g.todo) \in Nat
  BY CalmLength DEF Scanning
<1>2. /\ Cardinality(LinkSet(h, Found(h) \ BlackOf(h, g))) \in Nat
      /\ Cardinality(LinkSet(h, Grey(g))) \in Nat
  BY LinksFinite
<1> QED
  BY <1>1, <1>2 DEF ToScan

\* A node becomes black, and gives back the references that it has.
LEMMA PaintBlackStep ==
    ASSUME NEW h \in Heaps, Kinds(h), NEW m, Marked(h, m), NEW x \in Found(h), NEW S, S \subseteq {x},
           NEW f, Scanning(h, m, f, {x}, S), f.col[x] # "black"
    PROVE  LET g == Paint(f, x, "black", "black")
           IN  Scanning(h, m, g, {}, {}) /\ ToScan(h, g) <= ToScan(h, f)
<1> DEFINE g == Paint(f, x, "black", "black")  F == Found(h)  V == BlackOf(h, f)  P == Members(f.todo)
           N == {<<"black", z, x>> : z \in Out(h, x)}
<1>1. /\ Calm(h, f) /\ f.list = {} /\ f.roots = m.roots /\ f.addr = m.addr
      /\ \A z \in Node : f.rc[z] = m.rc[z] + Cardinality(Given(h, f, z))
  BY DEF Scanning
<1>2. \A t \in P :
          \/ \E z \in h.roots : t = <<"scan_root", z>>
          \/ \E y \in F : f.col[y] # "grey" /\ \E z \in Out(h, y) : t = <<"scan", z, y>>
          \/ \E y \in V : \E z \in Out(h, y) : t = <<"black", z, y>>
  BY DEF Scanning
<1>3. /\ \A z \in Node \ F : f.col[z] = h.col[z]
      /\ \A z \in F : f.col[z] \in {"grey", "black", "white"}
      /\ \A y \in V : \A z \in Out(h, y) : z \in V \cup {x} \/ <<"black", z, y>> \in P
      /\ V \cup {x} \subseteq Live(h)
      /\ \A z \in F : f.col[z] = "white" => m.rc[z] <= 0
  BY DEF Scanning
<1>4. /\ \A y \in F : f.col[y] = "white" => \A z \in Out(h, y) :
            f.col[z] # "grey" \/ z \in S \/ <<"scan", z, y>> \in P
      /\ \A z \in f.roots : f.col[z] # "grey" \/ z \in S \/ <<"scan_root", z>> \in P
  BY DEF Scanning
<1>5. F \in SUBSET Node /\ \A z \in F : Out(h, z) \subseteq F
  BY FoundIs
<1>6. x \in Node /\ x \notin V /\ Out(h, x) \in SUBSET Node /\ V \in SUBSET F
  BY <1>5 DEF BlackOf
<1> HIDE DEF P, V
<1>7. \A z : <<"black", z, x>> \notin P
  <2> SUFFICES ASSUME NEW z, <<"black", z, x>> \in P PROVE FALSE
    OBVIOUS
  <2>1. PICK y \in V : \E w \in Out(h, y) : <<"black", z, x>> = <<"black", w, y>>
    <3>1. \A r : <<"black", z, x>> # <<"scan_root", r>>
      OBVIOUS
    <3>2. \A w, y : <<"black", z, x>> # <<"scan", w, y>>
      OBVIOUS
    <3> QED
      BY <1>2, <3>1, <3>2
  <2>2. x = y
    BY <2>1
  <2> QED
    BY <1>6, <2>2
<1>8. Painted(h, f, g, x, "black", "black")
  BY <1>1, <1>6, <1>7, PaintOf DEF CallNames, P
<1>9. /\ Calm(h, g) /\ Members(g.todo) = P \cup N
      /\ Len(g.todo) \in Nat /\ Len(g.todo) = Len(f.todo) + Cardinality(Out(h, x))
      /\ g.rc = f.rc /\ g.addr = f.addr /\ g.roots = f.roots /\ g.list = f.list
  BY <1>8 DEF Painted, P
<1> HIDE DEF g
<1>10. g.col[x] = "black" /\ \A z \in Node \ {x} : g.col[z] = f.col[z]
  <2>1. f.col \in [Node -> {"black", "purple", "grey", "white"}]
    BY <1>1 DEF Calm, Midway
  <2> QED
    BY <1>6, <1>8, <2>1 DEF Painted
<1>11. BlackOf(h, g) = V \cup {x}
  BY <1>5, <1>6, <1>10 DEF BlackOf, V
<1>12. /\ \A r : <<"scan_root", r>> \notin N
       /\ \A z, y : <<"scan", z, y>> \notin N
       /\ \A z \in Out(h, x) : <<"black", z, x>> \in N
       /\ \A z, y : y # x => <<"black", z, y>> \notin N
  OBVIOUS
<1>13. \A t \in N : \E z \in Out(h, x) : t = <<"black", z, x>>
  OBVIOUS
<1> HIDE DEF N, F
<1>14. \A z \in Node : Given(h, g, z) = Given(h, f, z)
  <2>1. \A z : Given(h, f, z) = {y \in V : z \in Out(h, y) /\ <<"black", z, y>> \notin P}
    BY DEF Given, P, V
  <2>2. \A z : Given(h, g, z) = {y \in V \cup {x} : z \in Out(h, y) /\ <<"black", z, y>> \notin P \cup N}
    BY <1>9, <1>11 DEF Given
  <2>3. ASSUME NEW z \in Node, NEW y \in V PROVE <<"black", z, y>> \notin N
    <3>1. y # x
      BY <1>6
    <3> QED
      BY <1>12, <3>1
  <2>4. ASSUME NEW z \in Node PROVE ~(z \in Out(h, x) /\ <<"black", z, x>> \notin P \cup N)
    BY <1>12
  <2>5. ASSUME NEW z \in Node PROVE Given(h, g, z) = Given(h, f, z)
    BY <2>1, <2>2, <2>3, <2>4
  <2> QED
    BY <2>5
<1>15. \A t \in P \cup N :
          \/ \E z \in h.roots : t = <<"scan_root", z>>
          \/ \E y \in F : g.col[y] # "grey" /\ \E z \in Out(h, y) : t = <<"scan", z, y>>
          \/ \E y \in BlackOf(h, g) : \E z \in Out(h, y) : t = <<"black", z, y>>
  <2>1. \A y \in F : f.col[y] # "grey" => g.col[y] # "grey"
    BY <1>5, <1>10
  <2>2. ASSUME NEW t \in P
        PROVE  \/ \E z \in h.roots : t = <<"scan_root", z>>
               \/ \E y \in F : g.col[y] # "grey" /\ \E z \in Out(h, y) : t = <<"scan", z, y>>
               \/ \E y \in BlackOf(h, g) : \E z \in Out(h, y) : t = <<"black", z, y>>
    BY <1>2, <1>11, <2>1
  <2>3. ASSUME NEW t \in N PROVE \E z \in Out(h, x) : t = <<"black", z, x>>
    BY <1>13
  <2> QED
    BY <1>11, <2>2, <2>3
<1>16. \A y \in BlackOf(h, g) : \A z \in Out(h, y) :
          z \in BlackOf(h, g) \cup {} \/ <<"black", z, y>> \in P \cup N
  BY <1>3, <1>11, <1>12
<1>17. \A y \in F : g.col[y] = "white" => \A z \in Out(h, y) :
          g.col[z] # "grey" \/ z \in {} \/ <<"scan", z, y>> \in P \cup N
  <2> SUFFICES ASSUME NEW y \in F, g.col[y] = "white", NEW z \in Out(h, y), g.col[z] = "grey"
               PROVE  <<"scan", z, y>> \in P
    OBVIOUS
  <2>1. y # x /\ z # x /\ y \in Node /\ z \in Node
    BY <1>5, <1>10
  <2>2. f.col[y] = "white" /\ f.col[z] = "grey" /\ z \notin S
    BY <1>10, <2>1
  <2> QED
    BY <1>4, <2>2
<1>18. \A z \in g.roots : g.col[z] # "grey" \/ z \in {} \/ <<"scan_root", z>> \in P \cup N
  <2> SUFFICES ASSUME NEW z \in g.roots, g.col[z] = "grey" PROVE <<"scan_root", z>> \in P
    OBVIOUS
  <2>1. z \in Node
    BY <1>9 DEF Calm, Midway
  <2>2. z # x /\ f.col[z] = "grey" /\ z \in f.roots /\ z \notin S
    BY <1>9, <1>10, <2>1
  <2> QED
    BY <1>4, <2>2
<1>19. /\ \A z \in Node \ F : g.col[z] = h.col[z]
       /\ \A z \in F : g.col[z] \in {"grey", "black", "white"}
       /\ \A z \in F : g.col[z] = "white" => m.rc[z] <= 0
  <2>1. x \in F
    BY DEF F
  <2>2. ASSUME NEW z \in Node \ F PROVE g.col[z] = h.col[z]
    BY <1>3, <1>10, <2>1
  <2>3. ASSUME NEW z \in F
        PROVE  g.col[z] \in {"grey", "black", "white"} /\ (g.col[z] = "white" => m.rc[z] <= 0)
    <3>1. CASE z = x
      BY <1>10, <3>1
    <3>2. CASE z # x
      BY <1>3, <1>5, <1>10, <3>2
    <3> QED
      BY <3>1, <3>2
  <2> QED
    BY <2>2, <2>3
<1>20. BlackOf(h, g) \cup {} \subseteq Live(h)
  BY <1>3, <1>11
<1>21. \A z \in Node : g.rc[z] = m.rc[z] + Cardinality(Given(h, g, z))
  BY <1>1, <1>9, <1>14
<1>22. g.list = {} /\ g.roots = m.roots /\ g.addr = m.addr
  BY <1>1, <1>9
<1>23. Scanning(h, m, g, {}, {})
  BY <1>9, <1>15, <1>16, <1>17, <1>18, <1>19, <1>20, <1>21, <1>22 DEF Scanning, F
<1> DEFINE a == Cardinality(LinkSet(h, F \ V))  b == Cardinality(LinkSet(h, Grey(f)))
           c == Cardinality(Out(h, x))  d == Cardinality(LinkSet(h, Grey(g)))
<1>24. a \in Nat /\ b \in Nat /\ c \in Nat /\ d \in Nat /\ Len(f.todo) \in Nat
  BY <1>1, <1>6, LinksFinite, NodesFinite, FS_CardinalityType, CalmLength
<1>25. Cardinality(LinkSet(h, F \ BlackOf(h, g))) = a - c
  <2>1. F \ BlackOf(h, g) = (F \ V) \ {x} /\ x \in (F \ V) \cap Node
    BY <1>6, <1>11 DEF F
  <2> QED
    BY <1>6, <2>1, LinksLess
<1>26. d <= b
  <2>1. LinkSet(h, Grey(g)) \subseteq LinkSet(h, Grey(f))
    <3>1. Grey(g) \subseteq Grey(f)
      BY <1>10 DEF Grey
    <3> QED
      BY <3>1 DEF LinkSet
  <2>2. IsFiniteSet(LinkSet(h, Grey(f)))
    BY LinksFinite
  <2> QED
    BY <2>1, <2>2, FS_Subset
<1>27. /\ ToScan(h, g) = Len(g.todo) + Cardinality(LinkSet(h, F \ BlackOf(h, g))) + d
       /\ ToScan(h, f) = Len(f.todo) + a + b
  BY DEF ToScan, F, V
<1> HIDE DEF a, b, c, d
<1>28. ToScan(h, g) <= ToScan(h, f)
  <2>1. Len(g.todo) = Len(f.todo) + c
    BY <1>9 DEF c
  <2> QED
    BY <1>24, <1>25, <1>26, <1>27, <2>1
<1> QED
  BY <1>23, <1>28 DEF g

\* A grey node without references becomes white, and its links are scanned.
LEMMA PaintWhiteStep ==
    ASSUME NEW h \in Heaps, Kinds(h), NEW m, Marked(h, m), NEW x \in Found(h),
           NEW f, Scanning(h, m, f, {}, {x}), f.col[x] = "grey", m.rc[x] <= 0
    PROVE  LET g == Paint(f, x, "white", "scan")
           IN  Scanning(h, m, g, {}, {}) /\ ToScan(h, g) <= ToScan(h, f)
<1> DEFINE g == Paint(f, x, "white", "scan")  F == Found(h)  V == BlackOf(h, f)  P == Members(f.todo)
           N == {<<"scan", z, x>> : z \in Out(h, x)}
<1>1. /\ Calm(h, f) /\ f.list = {} /\ f.roots = m.roots /\ f.addr = m.addr
      /\ \A z \in Node : f.rc[z] = m.rc[z] + Cardinality(Given(h, f, z))
  BY DEF Scanning
<1>2. \A t \in P :
          \/ \E z \in h.roots : t = <<"scan_root", z>>
          \/ \E y \in F : f.col[y] # "grey" /\ \E z \in Out(h, y) : t = <<"scan", z, y>>
          \/ \E y \in V : \E z \in Out(h, y) : t = <<"black", z, y>>
  BY DEF Scanning
<1>3. /\ \A z \in Node \ F : f.col[z] = h.col[z]
      /\ \A z \in F : f.col[z] \in {"grey", "black", "white"}
      /\ \A y \in V : \A z \in Out(h, y) : z \in V \/ <<"black", z, y>> \in P
      /\ V \subseteq Live(h)
      /\ \A z \in F : f.col[z] = "white" => m.rc[z] <= 0
  BY DEF Scanning
<1>4. /\ \A y \in F : f.col[y] = "white" => \A z \in Out(h, y) :
            f.col[z] # "grey" \/ z = x \/ <<"scan", z, y>> \in P
      /\ \A z \in f.roots : f.col[z] # "grey" \/ z = x \/ <<"scan_root", z>> \in P
  BY DEF Scanning
<1>5. F \in SUBSET Node /\ \A z \in F : Out(h, z) \subseteq F
  BY FoundIs
<1>6. x \in Node /\ x \notin V /\ Out(h, x) \in SUBSET Node /\ V \in SUBSET F
  BY <1>5 DEF BlackOf
<1> HIDE DEF P, V
<1>7. \A z : <<"scan", z, x>> \notin P
  <2> SUFFICES ASSUME NEW z, <<"scan", z, x>> \in P PROVE FALSE
    OBVIOUS
  <2>1. PICK y \in F : f.col[y] # "grey" /\ \E w \in Out(h, y) : <<"scan", z, x>> = <<"scan", w, y>>
    <3>1. \A r : <<"scan", z, x>> # <<"scan_root", r>>
      OBVIOUS
    <3>2. \A w, y : <<"scan", z, x>> # <<"black", w, y>>
      OBVIOUS
    <3> QED
      BY <1>2, <3>1, <3>2
  <2>2. x = y
    BY <2>1
  <2> QED
    BY <2>1, <2>2
<1>8. Painted(h, f, g, x, "white", "scan")
  BY <1>1, <1>6, <1>7, PaintOf DEF CallNames, P
<1>9. /\ Calm(h, g) /\ Members(g.todo) = P \cup N
      /\ Len(g.todo) \in Nat /\ Len(g.todo) = Len(f.todo) + Cardinality(Out(h, x))
      /\ g.rc = f.rc /\ g.addr = f.addr /\ g.roots = f.roots /\ g.list = f.list
  BY <1>8 DEF Painted, P
<1> HIDE DEF g
<1>10. g.col[x] = "white" /\ \A z \in Node \ {x} : g.col[z] = f.col[z]
  <2>1. f.col \in [Node -> {"black", "purple", "grey", "white"}]
    BY <1>1 DEF Calm, Midway
  <2> QED
    BY <1>6, <1>8, <2>1 DEF Painted
<1>11. BlackOf(h, g) = V
  BY <1>5, <1>6, <1>10 DEF BlackOf, V
<1>12. /\ \A r : <<"scan_root", r>> \notin N
       /\ \A z, y : <<"black", z, y>> \notin N
       /\ \A z \in Out(h, x) : <<"scan", z, x>> \in N
  OBVIOUS
<1>13. \A t \in N : \E z \in Out(h, x) : t = <<"scan", z, x>>
  OBVIOUS
<1> HIDE DEF N, F
<1>14. \A z \in Node : Given(h, g, z) = Given(h, f, z)
  <2>1. \A z : Given(h, f, z) = {y \in V : z \in Out(h, y) /\ <<"black", z, y>> \notin P}
    BY DEF Given, P, V
  <2>2. \A z : Given(h, g, z) = {y \in V : z \in Out(h, y) /\ <<"black", z, y>> \notin P \cup N}
    BY <1>9, <1>11 DEF Given
  <2> QED
    BY <1>12, <2>1, <2>2
<1>15. \A t \in P \cup N :
          \/ \E z \in h.roots : t = <<"scan_root", z>>
          \/ \E y \in F : g.col[y] # "grey" /\ \E z \in Out(h, y) : t = <<"scan", z, y>>
          \/ \E y \in BlackOf(h, g) : \E z \in Out(h, y) : t = <<"black", z, y>>
  <2>1. \A y \in F : f.col[y] # "grey" => g.col[y] # "grey"
    BY <1>5, <1>10
  <2>2. ASSUME NEW t \in P
        PROVE  \/ \E z \in h.roots : t = <<"scan_root", z>>
               \/ \E y \in F : g.col[y] # "grey" /\ \E z \in Out(h, y) : t = <<"scan", z, y>>
               \/ \E y \in BlackOf(h, g) : \E z \in Out(h, y) : t = <<"black", z, y>>
    BY <1>2, <1>11, <2>1
  <2>3. ASSUME NEW t \in N
        PROVE  \E y \in F : g.col[y] # "grey" /\ \E z \in Out(h, y) : t = <<"scan", z, y>>
    <3>1. x \in F /\ g.col[x] # "grey"
      BY <1>10 DEF F
    <3> QED
      BY <1>13, <3>1
  <2> QED
    BY <2>2, <2>3
<1>16. \A y \in BlackOf(h, g) : \A z \in Out(h, y) :
          z \in BlackOf(h, g) \cup {} \/ <<"black", z, y>> \in P \cup N
  BY <1>3, <1>11
<1>17. \A y \in F : g.col[y] = "white" => \A z \in Out(h, y) :
          g.col[z] # "grey" \/ z \in {} \/ <<"scan", z, y>> \in P \cup N
  <2> SUFFICES ASSUME NEW y \in F, g.col[y] = "white", NEW z \in Out(h, y), g.col[z] = "grey"
               PROVE  <<"scan", z, y>> \in P \cup N
    OBVIOUS
  <2>1. z # x /\ y \in Node /\ z \in Node
    BY <1>5, <1>10
  <2>2. f.col[z] = "grey"
    BY <1>10, <2>1
  <2>3. CASE y = x
    BY <1>12, <2>3
  <2>4. CASE y # x
    <3>1. f.col[y] = "white"
      BY <1>10, <2>1, <2>4
    <3> QED
      BY <1>4, <2>1, <2>2, <3>1
  <2> QED
    BY <2>3, <2>4
<1>18. \A z \in g.roots : g.col[z] # "grey" \/ z \in {} \/ <<"scan_root", z>> \in P \cup N
  <2> SUFFICES ASSUME NEW z \in g.roots, g.col[z] = "grey" PROVE <<"scan_root", z>> \in P
    OBVIOUS
  <2>1. z \in Node
    BY <1>9 DEF Calm, Midway
  <2>2. z # x /\ f.col[z] = "grey" /\ z \in f.roots
    BY <1>9, <1>10, <2>1
  <2> QED
    BY <1>4, <2>2
<1>19. /\ \A z \in Node \ F : g.col[z] = h.col[z]
       /\ \A z \in F : g.col[z] \in {"grey", "black", "white"}
       /\ \A z \in F : g.col[z] = "white" => m.rc[z] <= 0
  <2>1. x \in F
    BY DEF F
  <2>2. ASSUME NEW z \in Node \ F PROVE g.col[z] = h.col[z]
    BY <1>3, <1>10, <2>1
  <2>3. ASSUME NEW z \in F
        PROVE  g.col[z] \in {"grey", "black", "white"} /\ (g.col[z] = "white" => m.rc[z] <= 0)
    <3>1. CASE z = x
      BY <1>10, <3>1
    <3>2. CASE z # x
      BY <1>3, <1>5, <1>10, <3>2
    <3> QED
      BY <3>1, <3>2
  <2> QED
    BY <2>2, <2>3
<1>20. BlackOf(h, g) \cup {} \subseteq Live(h)
  BY <1>3, <1>11
<1>21. \A z \in Node : g.rc[z] = m.rc[z] + Cardinality(Given(h, g, z))
  BY <1>1, <1>9, <1>14
<1>22. g.list = {} /\ g.roots = m.roots /\ g.addr = m.addr
  BY <1>1, <1>9
<1>23. Scanning(h, m, g, {}, {})
  BY <1>9, <1>15, <1>16, <1>17, <1>18, <1>19, <1>20, <1>21, <1>22 DEF Scanning, F
<1> DEFINE a == Cardinality(LinkSet(h, F \ V))  b == Cardinality(LinkSet(h, Grey(f)))
           c == Cardinality(Out(h, x))
<1>24. a \in Nat /\ b \in Nat /\ c \in Nat /\ Len(f.todo) \in Nat
  BY <1>1, <1>6, LinksFinite, NodesFinite, FS_CardinalityType, CalmLength
<1>25. Cardinality(LinkSet(h, Grey(g))) = b - c
  <2>1. Grey(g) = Grey(f) \ {x} /\ x \in Grey(f) \cap Node
    BY <1>6, <1>10 DEF Grey
  <2> QED
    BY <1>6, <2>1, LinksLess
<1>26. /\ ToScan(h, g) = Len(g.todo) + a + Cardinality(LinkSet(h, Grey(g)))
       /\ ToScan(h, f) = Len(f.todo) + a + b
  BY <1>11 DEF ToScan, F, V
<1> HIDE DEF a, b, c
<1>27. ToScan(h, g) <= ToScan(h, f)
  <2>1. Len(g.todo) = Len(f.todo) + c
    BY <1>9 DEF c
  <2> QED
    BY <1>24, <1>25, <1>26, <2>1
<1> QED
  BY <1>23, <1>27 DEF g

\* What a scan does to x.
LEMMA ScanNodeStep ==
    ASSUME NEW h \in Heaps, Kinds(h), NEW m, Marked(h, m), NEW x \in Found(h),
           NEW f, Scanning(h, m, f, {}, {x})
    PROVE  Scanning(h, m, Scan(f, x), {}, {}) /\ ToScan(h, Scan(f, x)) <= ToScan(h, f)
<1>1. x \in Node /\ Found(h) \in SUBSET Node
  BY FoundIs
<1>2. ToScan(h, f) \in Nat
  BY ScanningNat
<1>3. f.rc[x] = m.rc[x] + Cardinality(Given(h, f, x)) /\ BlackOf(h, f) \subseteq Live(h)
  BY <1>1 DEF Scanning
<1>4. /\ m.rc[x] \in Int /\ m.rc[x] = h.rc[x] - Cardinality(Inside(h, x)) /\ h.rc[x] \in Int
      /\ Cardinality(Inside(h, x)) \in Nat
  <2>1. Inside(h, x) \in SUBSET Node
    BY <1>1 DEF Inside
  <2> QED
    BY <1>1, <2>1, NodesFinite, FS_CardinalityType DEF Marked, Calm, Midway, Heaps
<1>5. /\ Given(h, f, x) \in SUBSET Node /\ Cardinality(Given(h, f, x)) \in Nat
      /\ Cardinality(Given(h, f, x)) = 0 <=> Given(h, f, x) = {}
  <2>1. Given(h, f, x) \in SUBSET Node
    BY <1>1 DEF Given, BlackOf
  <2> QED
    BY <2>1, NodesFinite, PartCount
<1>6. CASE f.col[x] # "grey"
  <2>1. Scan(f, x) = f
    BY <1>6 DEF Scan
  <2>2. Scanning(h, m, f, {}, {})
    BY <1>6 DEF Scanning
  <2> QED
    BY <1>2, <2>1, <2>2
<1>7. CASE f.col[x] = "grey" /\ f.rc[x] > 0
  <2>1. Scan(f, x) = Paint(f, x, "black", "black")
    BY <1>7 DEF Scan
  <2>2. x \in Live(h)
    <3>1. CASE m.rc[x] > 0
      <4>1. h.rc[x] > Cardinality(Inside(h, x))
        BY <1>4, <3>1
      <4> QED
        BY <4>1, LiveIs DEF Outside
    <3>2. CASE ~(m.rc[x] > 0)
      <4>1. Given(h, f, x) # {}
        BY <1>3, <1>4, <1>5, <1>7, <3>2
      <4>2. PICK y \in BlackOf(h, f) : x \in Out(h, y)
        BY <4>1 DEF Given
      <4> QED
        BY <1>3, <4>2, LiveIs
    <3> QED
      BY <3>1, <3>2
  <2>3. Scanning(h, m, f, {x}, {x})
    BY <2>2 DEF Scanning
  <2> QED
    BY <1>7, <2>1, <2>3, PaintBlackStep
<1>8. CASE f.col[x] = "grey" /\ ~(f.rc[x] > 0)
  <2>1. Scan(f, x) = Paint(f, x, "white", "scan")
    BY <1>8 DEF Scan
  <2>2. m.rc[x] <= 0
    BY <1>3, <1>4, <1>5, <1>8
  <2> QED
    BY <1>8, <2>1, <2>2, PaintWhiteStep
<1> QED
  BY <1>6, <1>7, <1>8

\* A call that scans x is taken off.
LEMMA ScanPop ==
    ASSUME NEW h \in Heaps, Kinds(h), NEW m, Marked(h, m), NEW g, Scanning(h, m, g, {}, {}),
           NEW f, NEW t, Popped(h, g, f, t), NEW x,
           t = <<"scan_root", x>> \/ \E y : t = <<"scan", x, y>>
    PROVE  /\ Scanning(h, m, f, {}, {x}) /\ ToScan(h, f) < ToScan(h, g) /\ ToScan(h, f) \in Nat
           /\ t = <<"scan_root", x>> /\ x \notin g.roots => Scanning(h, m, f, {}, {})
<1> DEFINE F == Found(h)  V == BlackOf(h, g)  P == Members(g.todo)  Q == Members(f.todo)
<1>1. /\ Calm(h, g) /\ g.list = {} /\ g.roots = m.roots /\ g.addr = m.addr
      /\ \A z \in Node : g.rc[z] = m.rc[z] + Cardinality(Given(h, g, z))
      /\ \A z \in Node \ F : g.col[z] = h.col[z]
      /\ \A z \in F : g.col[z] \in {"grey", "black", "white"}
      /\ \A y \in V : \A z \in Out(h, y) : z \in V \/ <<"black", z, y>> \in P
      /\ V \subseteq Live(h)
      /\ \A z \in F : g.col[z] = "white" => m.rc[z] <= 0
  BY DEF Scanning
<1>2. /\ \A s \in P :
            \/ \E z \in h.roots : s = <<"scan_root", z>>
            \/ \E y \in F : g.col[y] # "grey" /\ \E z \in Out(h, y) : s = <<"scan", z, y>>
            \/ \E y \in V : \E z \in Out(h, y) : s = <<"black", z, y>>
      /\ \A y \in F : g.col[y] = "white" => \A z \in Out(h, y) :
            g.col[z] # "grey" \/ <<"scan", z, y>> \in P
      /\ \A z \in g.roots : g.col[z] # "grey" \/ <<"scan_root", z>> \in P
  BY DEF Scanning
<1>3. Calm(h, f) /\ t \in P /\ Q = P \ {t}
  BY DEF Popped
<1>4. Len(g.todo) \in Nat /\ Len(f.todo) \in Nat /\ Len(f.todo) = Len(g.todo) - 1
  BY DEF Popped
<1>5. f.rc = g.rc /\ f.col = g.col /\ f.addr = g.addr /\ f.roots = g.roots /\ f.list = g.list
  BY DEF Popped
<1>6. BlackOf(h, f) = V /\ Grey(f) = Grey(g)
  BY <1>5 DEF BlackOf, Grey
<1>7. /\ \A z, y : <<"black", z, y>> # t
      /\ \A z, y : <<"scan", z, y>> = t => z = x
      /\ \A z : <<"scan_root", z>> = t => z = x
      /\ t = <<"scan_root", x>> => \A z, y : <<"scan", z, y>> # t
  OBVIOUS
<1> HIDE DEF F, V, P, Q
<1>8. \A z \in Node : Given(h, f, z) = Given(h, g, z)
  <2>1. \A z : Given(h, f, z) = {y \in V : z \in Out(h, y) /\ <<"black", z, y>> \notin Q}
    BY <1>6 DEF Given, Q
  <2>2. \A z : Given(h, g, z) = {y \in V : z \in Out(h, y) /\ <<"black", z, y>> \notin P}
    BY DEF Given, P, V
  <2>3. \A z, y : <<"black", z, y>> \in Q <=> <<"black", z, y>> \in P
    BY <1>3, <1>7
  <2> QED
    BY <2>1, <2>2, <2>3
<1>9. /\ \A s \in Q :
            \/ \E z \in h.roots : s = <<"scan_root", z>>
            \/ \E y \in F : f.col[y] # "grey" /\ \E z \in Out(h, y) : s = <<"scan", z, y>>
            \/ \E y \in V : \E z \in Out(h, y) : s = <<"black", z, y>>
  BY <1>2, <1>3, <1>5
<1>10. \A y \in V : \A z \in Out(h, y) : z \in V \cup {} \/ <<"black", z, y>> \in Q
  BY <1>1, <1>3, <1>7
<1>11. /\ \A y \in F : f.col[y] = "white" => \A z \in Out(h, y) :
             f.col[z] # "grey" \/ z \in {x} \/ <<"scan", z, y>> \in Q
       /\ \A z \in f.roots : f.col[z] # "grey" \/ z \in {x} \/ <<"scan_root", z>> \in Q
  BY <1>2, <1>3, <1>5, <1>7
<1>12. /\ f.list = {} /\ f.roots = m.roots /\ f.addr = m.addr
       /\ \A z \in Node : f.rc[z] = m.rc[z] + Cardinality(Given(h, f, z))
       /\ \A z \in Node \ F : f.col[z] = h.col[z]
       /\ \A z \in F : f.col[z] \in {"grey", "black", "white"}
       /\ V \cup {} \subseteq Live(h)
       /\ \A z \in F : f.col[z] = "white" => m.rc[z] <= 0
  BY <1>1, <1>5, <1>8
<1>13. Scanning(h, m, f, {}, {x})
  BY <1>3, <1>6, <1>9, <1>10, <1>11, <1>12 DEF Scanning, F, Q
<1>14. ASSUME t = <<"scan_root", x>>, x \notin g.roots PROVE Scanning(h, m, f, {}, {})
  <2>1. /\ \A y \in F : f.col[y] = "white" => \A z \in Out(h, y) :
              f.col[z] # "grey" \/ z \in {} \/ <<"scan", z, y>> \in Q
        /\ \A z \in f.roots : f.col[z] # "grey" \/ z \in {} \/ <<"scan_root", z>> \in Q
    BY <1>2, <1>3, <1>5, <1>7, <1>14
  <2> QED
    BY <1>3, <1>6, <1>9, <1>10, <1>12, <2>1 DEF Scanning, F, Q
<1>15. ToScan(h, f) < ToScan(h, g) /\ ToScan(h, f) \in Nat
  <2> DEFINE a == Cardinality(LinkSet(h, F \ V))  b == Cardinality(LinkSet(h, Grey(g)))
  <2>1. a \in Nat /\ b \in Nat
    BY LinksFinite
  <2>2. ToScan(h, f) = Len(f.todo) + a + b /\ ToScan(h, g) = Len(g.todo) + a + b
    BY <1>6 DEF ToScan, F, V
  <2> HIDE DEF a, b
  <2> QED
    BY <1>4, <2>1, <2>2
<1> QED
  BY <1>13, <1>14, <1>15

\* A call that gives a reference back.
LEMMA ScanBlackStep ==
    ASSUME NEW h \in Heaps, Kinds(h), NEW m, Marked(h, m), NEW g, Scanning(h, m, g, {}, {}),
           NEW f, NEW t, Popped(h, g, f, t), NEW y \in BlackOf(h, g), NEW x \in Out(h, y),
           t = <<"black", x, y>>
    PROVE  Scanning(h, m, ScanBlack(f, x), {}, {}) /\ ToScan(h, ScanBlack(f, x)) < ToScan(h, g)
<1> DEFINE F == Found(h)  V == BlackOf(h, g)  P == Members(g.todo)  Q == Members(f.todo)  e == Count(f, x, 1)
<1>1. /\ Calm(h, g) /\ g.list = {} /\ g.roots = m.roots /\ g.addr = m.addr
      /\ \A z \in Node : g.rc[z] = m.rc[z] + Cardinality(Given(h, g, z))
      /\ \A z \in Node \ F : g.col[z] = h.col[z]
      /\ \A z \in F : g.col[z] \in {"grey", "black", "white"}
      /\ \A w \in V : \A z \in Out(h, w) : z \in V \/ <<"black", z, w>> \in P
      /\ V \subseteq Live(h)
      /\ \A z \in F : g.col[z] = "white" => m.rc[z] <= 0
  BY DEF Scanning
<1>2. /\ \A s \in P :
            \/ \E z \in h.roots : s = <<"scan_root", z>>
            \/ \E w \in F : g.col[w] # "grey" /\ \E z \in Out(h, w) : s = <<"scan", z, w>>
            \/ \E w \in V : \E z \in Out(h, w) : s = <<"black", z, w>>
      /\ \A w \in F : g.col[w] = "white" => \A z \in Out(h, w) :
            g.col[z] # "grey" \/ <<"scan", z, w>> \in P
      /\ \A z \in g.roots : g.col[z] # "grey" \/ <<"scan_root", z>> \in P
  BY DEF Scanning
<1>3. Calm(h, f) /\ t \in P /\ Q = P \ {t}
  BY DEF Popped
<1>4. Len(g.todo) \in Nat /\ Len(f.todo) \in Nat /\ Len(f.todo) = Len(g.todo) - 1
  BY DEF Popped
<1>5. f.rc = g.rc /\ f.col = g.col /\ f.addr = g.addr /\ f.roots = g.roots /\ f.list = g.list
  BY DEF Popped
<1>6. /\ F \in SUBSET Node /\ V \in SUBSET F /\ y \in V /\ x \in Live(h) /\ x \in F /\ x \in Node
  <2>1. F \in SUBSET Node /\ V \in SUBSET F
    BY FoundIs DEF BlackOf
  <2>2. x \in Live(h)
    BY <1>1, LiveIs
  <2>3. x \in F
    BY <2>1, FoundIs
  <2> QED
    BY <2>1, <2>2, <2>3
<1>7. /\ Calm(h, e) /\ e.todo = f.todo /\ e.rc = [g.rc EXCEPT ![x] = g.rc[x] + 1] /\ g.rc[x] \in Int
      /\ e.col = g.col /\ e.addr = g.addr /\ e.roots = g.roots /\ e.list = g.list
  <2>1. 1 \in Int
    OBVIOUS
  <2>2. /\ Calm(h, e) /\ e.todo = f.todo /\ e.rc = [f.rc EXCEPT ![x] = f.rc[x] + 1]
        /\ f.rc[x] \in Int
        /\ e.col = f.col /\ e.addr = f.addr /\ e.roots = f.roots /\ e.list = f.list
    BY <1>3, <1>6, <2>1, CountOf
  <2> HIDE DEF e
  <2> QED
    BY <1>5, <2>2
<1>8. e.col = g.col /\ e.addr = g.addr /\ e.roots = g.roots /\ e.list = g.list
  BY <1>7
<1>9. /\ \A z, w : <<"black", z, w>> = t <=> (z = x /\ w = y)
      /\ \A z, w : <<"scan", z, w>> # t
      /\ \A z : <<"scan_root", z>> # t
  OBVIOUS
<1> HIDE DEF F, V, P, Q, e
<1>10. BlackOf(h, e) = V /\ Grey(e) = Grey(g) /\ Members(e.todo) = Q
  BY <1>7, <1>8 DEF BlackOf, Grey, V, Q
<1>11. \A z : Given(h, e, z) = {w \in V : z \in Out(h, w) /\ <<"black", z, w>> \notin Q}
  BY <1>10 DEF Given
<1>12. \A z : Given(h, g, z) = {w \in V : z \in Out(h, w) /\ <<"black", z, w>> \notin P}
  BY DEF Given, P, V
<1>13. \A z \in Node \ {x} : Given(h, e, z) = Given(h, g, z)
  BY <1>3, <1>9, <1>11, <1>12
<1>14. Given(h, e, x) = Given(h, g, x) \cup {y} /\ y \notin Given(h, g, x) /\ Given(h, g, x) \in SUBSET Node
  <2>1. ASSUME NEW w \in V
        PROVE  w \in Given(h, e, x) <=> (w \in Given(h, g, x) \/ w = y)
    BY <1>3, <1>9, <1>11, <1>12
  <2>2. y \in V /\ y \notin Given(h, g, x)
    BY <1>3, <1>6, <1>12
  <2>3. Given(h, e, x) \in SUBSET V /\ Given(h, g, x) \in SUBSET V
    BY <1>11, <1>12
  <2> QED
    BY <1>6, <2>1, <2>2, <2>3
<1>15. Cardinality(Given(h, e, x)) = Cardinality(Given(h, g, x)) + 1 /\ Cardinality(Given(h, g, x)) \in Nat
  <2>1. y \in Node
    BY <1>6
  <2> QED
    BY <1>14, <2>1, NodesFinite, PartCount
<1>16. \A z \in Node : e.rc[z] = m.rc[z] + Cardinality(Given(h, e, z))
  <2>0. g.rc \in [Node -> Int] /\ m.rc[x] \in Int
    BY <1>1, <1>6 DEF Calm, Midway, Marked
  <2>1. ASSUME NEW z \in Node, z # x PROVE e.rc[z] = m.rc[z] + Cardinality(Given(h, e, z))
    <3>1. e.rc[z] = g.rc[z]
      BY <1>7, <2>0, <2>1
    <3> QED
      BY <1>1, <1>13, <2>1, <3>1
  <2>2. e.rc[x] = m.rc[x] + Cardinality(Given(h, e, x))
    <3>1. e.rc[x] = g.rc[x] + 1
      BY <1>6, <1>7, <2>0
    <3>2. g.rc[x] = m.rc[x] + Cardinality(Given(h, g, x))
      BY <1>1, <1>6
    <3> QED
      BY <1>15, <2>0, <3>1, <3>2
  <2> QED
    BY <2>1, <2>2
<1>17. \A s \in Q :
            \/ \E z \in h.roots : s = <<"scan_root", z>>
            \/ \E w \in F : e.col[w] # "grey" /\ \E z \in Out(h, w) : s = <<"scan", z, w>>
            \/ \E w \in V : \E z \in Out(h, w) : s = <<"black", z, w>>
  BY <1>2, <1>3, <1>8
<1>18. \A w \in V : \A z \in Out(h, w) : z \in V \cup {x} \/ <<"black", z, w>> \in Q
  BY <1>1, <1>3, <1>9
<1>19. /\ \A w \in F : e.col[w] = "white" => \A z \in Out(h, w) :
             e.col[z] # "grey" \/ z \in {} \/ <<"scan", z, w>> \in Q
       /\ \A z \in e.roots : e.col[z] # "grey" \/ z \in {} \/ <<"scan_root", z>> \in Q
  BY <1>2, <1>3, <1>8, <1>9
<1>20. /\ e.list = {} /\ e.roots = m.roots /\ e.addr = m.addr
       /\ \A z \in Node \ F : e.col[z] = h.col[z]
       /\ \A z \in F : e.col[z] \in {"grey", "black", "white"}
       /\ V \cup {x} \subseteq Live(h)
       /\ \A z \in F : e.col[z] = "white" => m.rc[z] <= 0
  BY <1>1, <1>6, <1>8
<1>21. Scanning(h, m, e, {x}, {})
  BY <1>7, <1>10, <1>16, <1>17, <1>18, <1>19, <1>20 DEF Scanning, F
<1>22. ToScan(h, e) < ToScan(h, g) /\ ToScan(h, e) \in Nat /\ ToScan(h, g) \in Nat
  <2> DEFINE a == Cardinality(LinkSet(h, F \ V))  b == Cardinality(LinkSet(h, Grey(g)))
  <2>1. a \in Nat /\ b \in Nat
    BY LinksFinite
  <2>2. ToScan(h, e) = Len(f.todo) + a + b /\ ToScan(h, g) = Len(g.todo) + a + b
    BY <1>7, <1>10 DEF ToScan, F, V
  <2> HIDE DEF a, b
  <2> QED
    BY <1>4, <2>1, <2>2
<1>23. ScanBlack(f, x) = IF e.col[x] = "black" THEN e ELSE Paint(e, x, "black", "black")
  BY DEF ScanBlack, e
<1>24. CASE e.col[x] = "black"
  <2>1. x \in BlackOf(h, e)
    BY <1>6, <1>24 DEF BlackOf, F
  <2>2. Scanning(h, m, e, {}, {})
    BY <1>21, <2>1 DEF Scanning
  <2> QED
    BY <1>22, <1>23, <1>24, <2>2
<1>25. CASE e.col[x] # "black"
  <2> DEFINE u == Paint(e, x, "black", "black")
  <2>1. Scanning(h, m, u, {}, {}) /\ ToScan(h, u) <= ToScan(h, e)
    BY <1>6, <1>21, <1>25, PaintBlackStep DEF F
  <2>2. ToScan(h, u) \in Nat
    BY <2>1, ScanningNat
  <2>3. ScanBlack(f, x) = u
    BY <1>23, <1>25
  <2> HIDE DEF u
  <2>4. Scanning(h, m, u, {}, {}) /\ ToScan(h, u) < ToScan(h, g)
    BY <1>22, <2>1, <2>2
  <2> QED
    BY <2>3, <2>4
<1> QED
  BY <1>24, <1>25

\* Every call keeps the scan in order, and leaves less to be scanned.
LEMMA ScanStep ==
    ASSUME NEW h \in Heaps, Kinds(h), NEW m, Marked(h, m), NEW g, Scanning(h, m, g, {}, {}), g.todo # <<>>
    PROVE  Scanning(h, m, Step(g), {}, {}) /\ ToScan(h, Step(g)) < ToScan(h, g)
<1>1. PICK f, t : Popped(h, g, f, t) /\ Step(g) = Call(f, t[1], t[2])
  BY StepOf DEF Scanning
<1>2. ToScan(h, g) \in Nat
  BY ScanningNat
<1>3. \/ \E x \in h.roots : t = <<"scan_root", x>>
      \/ \E y \in Found(h) : \E x \in Out(h, y) : t = <<"scan", x, y>>
      \/ \E y \in BlackOf(h, g) : \E x \in Out(h, y) : t = <<"black", x, y>>
  BY <1>1 DEF Scanning, Popped
<1>4. /\ h.roots \subseteq Found(h) /\ \A y \in Found(h) : Out(h, y) \subseteq Found(h)
  BY FoundIs
<1>5. ASSUME NEW x \in Found(h), Scanning(h, m, f, {}, {x}), ToScan(h, f) < ToScan(h, g), ToScan(h, f) \in Nat
      PROVE  Scanning(h, m, Scan(f, x), {}, {}) /\ ToScan(h, Scan(f, x)) < ToScan(h, g)
  <2> DEFINE u == Scan(f, x)
  <2>1. Scanning(h, m, u, {}, {}) /\ ToScan(h, u) <= ToScan(h, f)
    BY <1>5, ScanNodeStep
  <2>2. ToScan(h, u) \in Nat
    BY <2>1, ScanningNat
  <2> HIDE DEF u
  <2>3. Scanning(h, m, u, {}, {}) /\ ToScan(h, u) < ToScan(h, g)
    BY <1>2, <1>5, <2>1, <2>2
  <2> QED
    BY <2>3 DEF u
<1>6. ASSUME NEW x \in h.roots, t = <<"scan_root", x>>
      PROVE  Scanning(h, m, Step(g), {}, {}) /\ ToScan(h, Step(g)) < ToScan(h, g)
  <2>1. Step(g) = IF x \in f.roots THEN Scan(f, x) ELSE f
    BY <1>1, <1>6 DEF Call
  <2>2. f.roots = g.roots
    BY <1>1 DEF Popped
  <2>3. /\ Scanning(h, m, f, {}, {x}) /\ ToScan(h, f) < ToScan(h, g) /\ ToScan(h, f) \in Nat
        /\ x \notin g.roots => Scanning(h, m, f, {}, {})
    BY <1>1, <1>6, ScanPop
  <2>4. CASE x \in f.roots
    BY <1>4, <1>5, <2>1, <2>3, <2>4
  <2>5. CASE x \notin f.roots
    BY <2>1, <2>2, <2>3, <2>5
  <2> QED
    BY <2>4, <2>5
<1>7. ASSUME NEW y \in Found(h), NEW x \in Out(h, y), t = <<"scan", x, y>>
      PROVE  Scanning(h, m, Step(g), {}, {}) /\ ToScan(h, Step(g)) < ToScan(h, g)
  <2>1. Step(g) = Scan(f, x)
    BY <1>1, <1>7 DEF Call
  <2>2. Scanning(h, m, f, {}, {x}) /\ ToScan(h, f) < ToScan(h, g) /\ ToScan(h, f) \in Nat
    BY <1>1, <1>7, ScanPop
  <2> QED
    BY <1>4, <1>5, <2>1, <2>2
<1>8. ASSUME NEW y \in BlackOf(h, g), NEW x \in Out(h, y), t = <<"black", x, y>>
      PROVE  Scanning(h, m, Step(g), {}, {}) /\ ToScan(h, Step(g)) < ToScan(h, g)
  <2>1. Step(g) = ScanBlack(f, x)
    BY <1>1, <1>8 DEF Call
  <2> QED
    BY <1>1, <1>8, <2>1, ScanBlackStep
<1> QED
  BY <1>3, <1>6, <1>7, <1>8

\* What gc_scan_roots leaves.
Scanned(h, m, s) ==
    /\ Calm(h, s) /\ s.todo = <<>> /\ s.list = {} /\ s.roots = m.roots /\ s.addr = m.addr
    /\ \A x \in Node :
          /\ s.col[x] = IF x \in Garbage(h) THEN "white" ELSE IF x \in Found(h) THEN "black" ELSE h.col[x]
          /\ s.rc[x] = m.rc[x] + Cardinality({y \in Live(h) : x \in Out(h, y)})

\* What lives on is found.
LEMMA LiveFound ==
    ASSUME NEW h \in Heaps, Kinds(h) PROVE Live(h) \subseteq Found(h)
<1>1. Links(h) \in [Node -> SUBSET Node] /\ \A x \in Node : Links(h)[x] = Out(h, x)
  BY LinksType
<1>2. Outside(h) \in SUBSET Node /\ Live(h) = Reach(Links(h), Outside(h)) /\ Outside(h) \subseteq Found(h)
  BY FoundIs, LiveOutside DEF Outside
<1>3. \A x \in Found(h) \cap Node : Links(h)[x] \subseteq Found(h)
  BY <1>1, FoundIs
<1> DEFINE F == Found(h)  O == Outside(h)
<1> HIDE DEF F, O
<1>4. Reach(Links(h), O) \subseteq F
  BY <1>1, <1>2, <1>3, ReachLeast DEF F, O
<1> QED
  BY <1>2, <1>4 DEF F, O

\* When no call is left, what lives on is black, and the garbage white.
LEMMA ScanningEnds ==
    ASSUME NEW h \in Heaps, Kinds(h), NEW m, Marked(h, m), NEW s, Scanning(h, m, s, {}, {}), s.todo = <<>>
    PROVE  Scanned(h, m, s)
<1> DEFINE F == Found(h)  L == Live(h)  V == BlackOf(h, s)  U == {x \in F : s.col[x] # "grey"}
<1>1. Members(s.todo) = {}
  BY NoCalls
<1>2. /\ Calm(h, s) /\ s.list = {} /\ s.roots = m.roots /\ s.addr = m.addr
      /\ \A x \in Node : s.rc[x] = m.rc[x] + Cardinality(Given(h, s, x))
      /\ \A x \in Node \ F : s.col[x] = h.col[x]
      /\ \A x \in F : s.col[x] \in {"grey", "black", "white"}
      /\ \A y \in V : \A x \in Out(h, y) : x \in V
      /\ \A y \in F : s.col[y] = "white" => \A x \in Out(h, y) : s.col[x] # "grey"
      /\ \A x \in s.roots : s.col[x] # "grey"
      /\ V \subseteq L
      /\ \A x \in F : s.col[x] = "white" => m.rc[x] <= 0
  BY <1>1 DEF Scanning
<1>3. /\ Links(h) \in [Node -> SUBSET Node] /\ h.roots \in SUBSET Node /\ m.roots \subseteq h.roots
      /\ \A x \in Node : Links(h)[x] = Out(h, x)
      /\ F = Reach(Links(h), m.roots)
      /\ \A x \in Node : m.rc[x] = h.rc[x] - Cardinality(Inside(h, x))
  BY LinksType DEF Marked
<1>4. F \in SUBSET Node /\ h.roots \subseteq F /\ \A x \in F : Out(h, x) \subseteq F
  BY FoundIs
<1>5. L \subseteq F /\ L = Reach(Links(h), Outside(h)) /\ Garbage(h) = F \ L
  BY LiveFound, LiveOutside DEF Garbage
<1>6. V = {x \in F : s.col[x] = "black"}
  BY DEF BlackOf
<1> HIDE DEF F, L, V
<1>7. F \subseteq U
  <2>1. m.roots \subseteq U
    BY <1>2, <1>3, <1>4
  <2>2. ASSUME NEW x \in U \cap Node PROVE Links(h)[x] \subseteq U
    <3>1. x \in F /\ s.col[x] \in {"black", "white"}
      BY <1>2
    <3>2. \A z \in Out(h, x) : s.col[z] # "grey"
      BY <1>2, <1>6, <3>1
    <3> QED
      BY <1>3, <1>4, <3>1, <3>2
  <2>3. m.roots \in SUBSET Node
    BY <1>3
  <2> HIDE DEF U
  <2>4. Reach(Links(h), m.roots) \subseteq U
    BY <1>3, <2>1, <2>2, <2>3, ReachLeast
  <2> QED
    BY <1>3, <2>4
<1>8. \A x \in F : s.col[x] \in {"black", "white"}
  BY <1>2, <1>7
<1>9. L \subseteq V
  <2>1. Outside(h) \subseteq V
    <3> SUFFICES ASSUME NEW x \in Outside(h) PROVE x \in V
      OBVIOUS
    <3>1. x \in F /\ x \in Node /\ h.rc[x] > Cardinality(Inside(h, x))
      BY <1>4 DEF Outside, F
    <3>2. h.rc[x] \in Int /\ Cardinality(Inside(h, x)) \in Nat
      <4>1. Inside(h, x) \in SUBSET Node
        BY FoundIs DEF Inside
      <4> QED
        BY <3>1, <4>1, NodesFinite, FS_CardinalityType DEF Heaps
    <3>3. ~(m.rc[x] <= 0)
      BY <1>3, <3>1, <3>2
    <3> QED
      BY <1>2, <1>6, <1>8, <3>1, <3>3
  <2>2. Outside(h) \in SUBSET Node
    BY FoundIs DEF Outside
  <2>3. \A x \in V \cap Node : Links(h)[x] \subseteq V
    BY <1>2, <1>3
  <2>4. Reach(Links(h), Outside(h)) \subseteq V
    BY <1>3, <2>1, <2>2, <2>3, ReachLeast
  <2> QED
    BY <1>5, <2>4
<1>10. V = L
  BY <1>2, <1>9
<1>11. \A x : Given(h, s, x) = {y \in L : x \in Out(h, y)}
  BY <1>1, <1>10 DEF Given, V
<1>12. ASSUME NEW x \in Node
       PROVE  s.col[x] = IF x \in Garbage(h) THEN "white" ELSE IF x \in F THEN "black" ELSE h.col[x]
  BY <1>2, <1>5, <1>6, <1>8, <1>10
<1> QED
  BY <1>2, <1>11, <1>12 DEF Scanned, F, L

\* So does gc_scan_roots end.
LEMMA ScanPhase ==
    ASSUME NEW h \in Heaps, Kinds(h), NEW m, Marked(h, m), NEW order \in Orders(h.roots)
    PROVE  Scanned(h, m, Phase("scan_root", m, order))
<1>1. /\ Calm(h, m) /\ m \in Midway(h) /\ m.list = {} /\ m.roots \subseteq h.roots
      /\ \A x \in Node : m.col[x] = IF x \in Found(h) THEN "grey" ELSE h.col[x]
  BY DEF Marked, Calm
<1>2. h.roots \in SUBSET Node /\ h.col \in [Node -> {"black", "purple"}] /\ m.rc \in [Node -> Int]
  BY <1>1 DEF Heaps, Midway
<1>3. "scan_root" \in CallNames
  BY DEF CallNames
<1>4. PICK f : /\ Calm(h, f) /\ Phase("scan_root", m, order) = Traverse(f)
               /\ Members(f.todo) = {<<"scan_root", x>> : x \in h.roots}
               /\ f.rc = m.rc /\ f.col = m.col /\ f.addr = m.addr /\ f.roots = m.roots /\ f.list = m.list
  BY <1>1, <1>2, <1>3, PhaseStart
<1>5. Found(h) \in SUBSET Node
  BY FoundIs
<1>6. BlackOf(h, f) = {}
  BY <1>1, <1>4, <1>5 DEF BlackOf
<1>7. \A x : Cardinality(Given(h, f, x)) = 0
  <2>1. \A x : Given(h, f, x) = {}
    BY <1>6 DEF Given
  <2> QED
    BY <2>1, FS_EmptySet
<1>8. Scanning(h, m, f, {}, {})
  <2>1. \A x \in Found(h) : f.col[x] = "grey"
    BY <1>1, <1>4, <1>5
  <2>2. \A x \in Node : f.rc[x] = m.rc[x] + Cardinality(Given(h, f, x))
    BY <1>2, <1>4, <1>7
  <2>3. \A x \in f.roots : <<"scan_root", x>> \in Members(f.todo)
    BY <1>1, <1>4
  <2> QED
    BY <1>1, <1>4, <1>6, <2>1, <2>2, <2>3 DEF Scanning
<1> DEFINE I == {g \in Midway(h) : Scanning(h, m, g, {}, {})}  W == [g \in I |-> ToScan(h, g)]
<1>9. f \in I /\ W \in [I -> Nat] /\ W[f] = ToScan(h, f)
  BY <1>4, <1>8, ScanningNat DEF Calm
<1>10. ASSUME NEW g \in I, g.todo # <<>> PROVE Step(g) \in I /\ W[Step(g)] < W[g]
  <2>1. Scanning(h, m, g, {}, {})
    OBVIOUS
  <2>2. Scanning(h, m, Step(g), {}, {}) /\ ToScan(h, Step(g)) < ToScan(h, g)
    BY <1>10, <2>1, ScanStep
  <2>3. Step(g) \in Midway(h)
    BY <2>2 DEF Scanning, Calm
  <2> QED
    BY <2>2, <2>3
<1>11. W[f] <= Len(f.todo) + 2 * Cardinality(LinkSet(f, Node)) /\ Len(f.todo) \in Nat
  <2> DEFINE n == Cardinality(LinkSet(h, Node))
             a == Cardinality(LinkSet(h, Found(h) \ BlackOf(h, f)))  b == Cardinality(LinkSet(h, Grey(f)))
  <2>1. ToScan(h, f) = Len(f.todo) + a + b
    BY DEF ToScan
  <2>2. n \in Nat /\ a \in Nat /\ b \in Nat /\ Len(f.todo) \in Nat
    BY <1>4, LinksFinite, CalmLength
  <2>3. \A S \in SUBSET Node : Cardinality(LinkSet(h, S)) <= n
    <3>1. \A S \in SUBSET Node : LinkSet(h, S) \subseteq LinkSet(h, Node)
      BY DEF LinkSet
    <3> QED
      BY <3>1, LinksFinite, FS_Subset
  <2>4. a <= n /\ b <= n
    <3>1. Found(h) \ BlackOf(h, f) \in SUBSET Node /\ Grey(f) \in SUBSET Node
      BY <1>5 DEF Grey
    <3> QED
      BY <2>3, <3>1
  <2>5. Cardinality(LinkSet(f, Node)) = n
    BY <1>4, LinksSame DEF Calm
  <2> HIDE DEF n, a, b, W
  <2>6. a + b <= 2 * n
    BY <2>2, <2>4
  <2>7. 2 * Cardinality(LinkSet(f, Node)) = 2 * n /\ 2 * n \in Nat
    BY <2>2, <2>5
  <2> QED
    BY <1>9, <2>1, <2>2, <2>6, <2>7
<1>0. \A x \in Node : Out(f, x) \in SUBSET Node
  BY <1>2, <1>4, OutNodes
<1> HIDE DEF I, W
<1>12. Traverse(f) \in I /\ Traverse(f).todo = <<>>
  BY <1>9, <1>10, <1>11, <1>0, TraverseEnds
<1>13. Scanning(h, m, Traverse(f), {}, {})
  BY <1>12 DEF I
<1>14. Scanned(h, m, Traverse(f))
  BY <1>12, <1>13, ScanningEnds
<1> QED
  BY <1>4, <1>14

-----------------------------------------------------------------------------
(* gc_collect_roots.                                                        *)

\* What the phases rely on.
Fit(h) ==
    /\ h \in Heaps /\ Kinds(h) /\ Rooted(h) /\ PurpleRoots(h)
    /\ \A x \in Garbage(h) : h.addr[x] # "list"

\* The garbage that has been visited.
Seen(h, g) == {x \in Garbage(h) : g.col[x] # "white"}

\* The references to x that zvals and objects have got back.
Returned(h, g, x) == {y \in Seen(h, g) : x \in Out(h, y) /\ <<"collect", x, y>> \notin Members(g.todo)}

\* What is collected of s, the scanned h, but for the nodes of X, which are
\* being visited.
Collecting(h, s, g, X) ==
    /\ Calm(h, g) /\ g.roots \subseteq s.roots /\ Seen(h, g) \cap g.roots = {}
    /\ \A t \in Members(g.todo) :
          \/ \E x \in h.roots : t = <<"collect_root", x>>
          \/ \E y \in Seen(h, g) : \E x \in Out(h, y) : t = <<"collect", x, y>>
    /\ \A x \in Zval :
          g.rc[x] = s.rc[x] + Cardinality(Returned(h, g, x)) + (IF x \in Seen(h, g) THEN 1 ELSE 0)
    /\ \A x \in Object : g.rc[x] = s.rc[x]
    /\ \A x \in Node : g.col[x] = IF x \in Seen(h, g) THEN IF x \in Zval THEN "black" ELSE "purple"
                                  ELSE s.col[x]
    /\ \A y \in Seen(h, g) : \A x \in Out(h, y) \cap Garbage(h) :
          x \in Seen(h, g) \cup X \/ x \in g.roots \/ <<"collect", x, y>> \in Members(g.todo)
    /\ \A x \in s.roots \cap Garbage(h) : x \in Seen(h, g) \cup X \/ x \in g.roots
    /\ \A x \in g.roots : <<"collect_root", x>> \in Members(g.todo)
    /\ \A x \in Node : g.addr[x] = IF x \in Seen(h, g) \cap Zval THEN "list"
                                   ELSE IF x \in h.roots \ g.roots THEN "null" ELSE h.addr[x]
    /\ g.list = Seen(h, g) \cap Zval

\* What is white still has its links.
ToCollect(h, g) == Len(g.todo) + Cardinality(LinkSet(h, Garbage(h) \ Seen(h, g)))

\* There is always so much left to collect, a natural number.
LEMMA CollectingNat ==
    ASSUME NEW h, NEW s, NEW g, NEW X, Collecting(h, s, g, X) PROVE ToCollect(h, g) \in Nat
<1>1. Len(g.todo) \in Nat
  BY CalmLength DEF Collecting
<1>2. Cardinality(LinkSet(h, Garbage(h) \ Seen(h, g))) \in Nat
  BY LinksFinite
<1> QED
  BY <1>1, <1>2 DEF ToCollect

\* What visiting x does.
Visited(h, f, g, x) ==
    /\ Calm(h, g) /\ Members(g.todo) = Members(f.todo) \cup {<<"collect", z, x>> : z \in Out(h, x)}
    /\ Len(g.todo) \in Nat /\ Len(g.todo) = Len(f.todo) + Cardinality(Out(h, x))
    /\ g.col = [f.col EXCEPT ![x] = IF x \in Zval THEN "black" ELSE "purple"]
    /\ g.rc = IF x \in Zval THEN [f.rc EXCEPT ![x] = f.rc[x] + 1] ELSE f.rc
    /\ g.addr = IF x \in Zval THEN [f.addr EXCEPT ![x] = "list"] ELSE f.addr
    /\ g.list = IF x \in Zval THEN f.list \cup {x} ELSE f.list
    /\ g.roots = f.roots

\* A white node that is visited.
LEMMA VisitedIs ==
    ASSUME NEW h, NEW f, Calm(h, f), NEW x \in Node, Out(h, x) \in SUBSET Node,
           \A z \in Out(h, x) : <<"collect", z, x>> \notin Members(f.todo),
           f.col[x] = "white", f.addr[x] = "null"
    PROVE  Visited(h, f, CollectWhite(f, x), x)
<1>1. "collect" \in CallNames /\ "black" \in {"black", "purple", "grey", "white"}
      /\ "purple" \in {"black", "purple", "grey", "white"} /\ 1 \in Int
  BY DEF CallNames
<1>2. CASE x \notin Zval
  <2> DEFINE g == Paint(f, x, "purple", "collect")
  <2>1. CollectWhite(f, x) = g
    BY <1>2 DEF CollectWhite
  <2>2. Painted(h, f, g, x, "purple", "collect")
    BY <1>1, PaintOf
  <2> HIDE DEF g
  <2>3. Visited(h, f, g, x)
    BY <1>2, <2>2 DEF Visited, Painted
  <2> QED
    BY <2>1, <2>3
<1>3. CASE x \in Zval
  <2> DEFINE e == Count(f, x, 1)  p == Paint(e, x, "black", "collect")
             g == [p EXCEPT !.addr[x] = "list", !.list = @ \cup {x}]
  <2>1. CollectWhite(f, x) = g
    BY <1>3 DEF CollectWhite
  <2>2. /\ Calm(h, e) /\ e.todo = f.todo /\ e.rc = [f.rc EXCEPT ![x] = f.rc[x] + 1] /\ f.rc[x] \in Int
        /\ e.col = f.col /\ e.addr = f.addr /\ e.roots = f.roots /\ e.list = f.list
    BY <1>1, CountOf
  <2> HIDE DEF e
  <2>3. Painted(h, e, p, x, "black", "collect")
    BY <1>1, <2>2, PaintOf
  <2> HIDE DEF p
  <2>4. /\ Calm(h, p) /\ Members(p.todo) = Members(f.todo) \cup {<<"collect", z, x>> : z \in Out(h, x)}
        /\ Len(p.todo) \in Nat /\ Len(p.todo) = Len(f.todo) + Cardinality(Out(h, x))
        /\ p.col = [f.col EXCEPT ![x] = "black"]
        /\ p.rc = [f.rc EXCEPT ![x] = f.rc[x] + 1]
        /\ p.addr = f.addr /\ p.roots = f.roots /\ p.list = f.list
    BY <2>2, <2>3 DEF Painted
  <2>5. p \in Midway(h) /\ Once(p.todo)
    BY <2>4 DEF Calm
  <2>6. /\ g \in Midway(h) /\ g.todo = p.todo /\ g.rc = p.rc /\ g.col = p.col
        /\ g.addr = [p.addr EXCEPT ![x] = "list"] /\ g.roots = p.roots /\ g.list = p.list \cup {x}
    BY <2>5 DEF Midway
  <2> HIDE DEF g
  <2>7. Calm(h, g)
    BY <2>5, <2>6 DEF Calm
  <2>8. Visited(h, f, g, x)
    BY <1>3, <2>4, <2>6, <2>7 DEF Visited
  <2> QED
    BY <2>1, <2>8
<1> QED
  BY <1>2, <1>3

\* Where a white node is.
LEMMA WhiteIs ==
    ASSUME NEW h, Fit(h), NEW m, Marked(h, m), NEW s, Scanned(h, m, s),
           NEW X, NEW f, Collecting(h, s, f, X), NEW x \in Node
    PROVE  /\ f.col[x] = "white" <=> x \in Garbage(h) \ Seen(h, f)
           /\ f.col[x] = "white" => (f.addr[x] = "null" <=> x \notin f.roots)
<1>1. /\ h.col \in [Node -> {"black", "purple"}] /\ h.addr \in [Node -> {"null", "root", "list"}]
      /\ \A z \in Garbage(h) : h.addr[z] # "list"
      /\ \A z \in Node : z \in h.roots <=> h.addr[z] = "root"
  BY DEF Fit, Heaps, Rooted
<1>2. s.col[x] = IF x \in Garbage(h) THEN "white" ELSE IF x \in Found(h) THEN "black" ELSE h.col[x]
  BY DEF Scanned
<1>3. /\ f.col[x] = IF x \in Seen(h, f) THEN IF x \in Zval THEN "black" ELSE "purple" ELSE s.col[x]
      /\ f.addr[x] = IF x \in Seen(h, f) \cap Zval THEN "list"
                     ELSE IF x \in h.roots \ f.roots THEN "null" ELSE h.addr[x]
      /\ f.roots \subseteq s.roots
  BY DEF Collecting
<1>4. f.col[x] = "white" <=> x \in Garbage(h) \ Seen(h, f)
  BY <1>1, <1>2, <1>3 DEF Seen
<1>5. ASSUME f.col[x] = "white" PROVE f.addr[x] = "null" <=> x \notin f.roots
  <2>1. x \in Garbage(h) /\ x \notin Seen(h, f)
    BY <1>4, <1>5
  <2>2. f.addr[x] = IF x \in h.roots \ f.roots THEN "null" ELSE h.addr[x]
    BY <1>3, <2>1
  <2>3. h.addr[x] \in {"null", "root"} /\ (x \in h.roots <=> h.addr[x] = "root")
    BY <1>1, <2>1
  <2>4. x \in f.roots => x \in h.roots
    BY <1>3 DEF Marked, Scanned
  <2> QED
    BY <2>2, <2>3, <2>4
<1> QED
  BY <1>4, <1>5

\* gc_collect_roots visits a white node: its links become calls.
LEMMA CollectWhiteStep ==
    ASSUME NEW h, Fit(h), NEW m, Marked(h, m), NEW s, Scanned(h, m, s), NEW x \in Node,
           NEW f, Collecting(h, s, f, {x})
    PROVE  LET g == CollectWhite(f, x) IN Collecting(h, s, g, {}) /\ ToCollect(h, g) <= ToCollect(h, f)
<1> DEFINE g == CollectWhite(f, x)  G == Garbage(h)  V == Seen(h, f)  P == Members(f.todo)
           N == {<<"collect", z, x>> : z \in Out(h, x)}
<1>0. ToCollect(h, f) \in Nat
  BY CollectingNat
<1>1. /\ Calm(h, f) /\ f.roots \subseteq s.roots /\ V \cap f.roots = {}
      /\ \A z \in Zval : f.rc[z] = s.rc[z] + Cardinality(Returned(h, f, z)) + (IF z \in V THEN 1 ELSE 0)
      /\ \A z \in Object : f.rc[z] = s.rc[z]
  BY DEF Collecting
<1>2. \A t \in P :
          \/ \E z \in h.roots : t = <<"collect_root", z>>
          \/ \E y \in V : \E z \in Out(h, y) : t = <<"collect", z, y>>
  BY DEF Collecting
<1>3. /\ \A z \in Node : f.col[z] = IF z \in V THEN IF z \in Zval THEN "black" ELSE "purple" ELSE s.col[z]
      /\ \A z \in f.roots : <<"collect_root", z>> \in P
      /\ \A z \in Node : f.addr[z] = IF z \in V \cap Zval THEN "list"
                                     ELSE IF z \in h.roots \ f.roots THEN "null" ELSE h.addr[z]
      /\ f.list = V \cap Zval
  BY DEF Collecting
<1>4. /\ \A y \in V : \A z \in Out(h, y) \cap G :
            z \in V \cup {x} \/ z \in f.roots \/ <<"collect", z, y>> \in P
      /\ \A z \in s.roots \cap G : z \in V \cup {x} \/ z \in f.roots
  BY DEF Collecting
<1>5. /\ G \in SUBSET Node /\ \A z \in Node : Out(h, z) \in SUBSET Node
      /\ V \in SUBSET G
  BY FoundIs, LinksType DEF Fit, Garbage, Seen
<1>6. /\ f.col[x] = "white" <=> x \in G \ V
      /\ f.col[x] = "white" => (f.addr[x] = "null" <=> x \notin f.roots)
  BY WhiteIs
<1>7. CASE f.col[x] # "white" \/ f.addr[x] # "null"
  <2>1. g = f
    BY <1>7 DEF CollectWhite
  <2>2. x \notin G \/ x \in V \/ x \in f.roots
    BY <1>6, <1>7
  <2>3. /\ \A y \in V : \A z \in Out(h, y) \cap G :
            z \in V \cup {} \/ z \in f.roots \/ <<"collect", z, y>> \in P
        /\ \A z \in s.roots \cap G : z \in V \cup {} \/ z \in f.roots
    BY <1>4, <2>2
  <2>4. Collecting(h, s, f, {})
    BY <1>1, <1>2, <1>3, <2>3 DEF Collecting
  <2> QED
    BY <1>0, <2>1, <2>4
<1>8. CASE f.col[x] = "white" /\ f.addr[x] = "null"
  <2>1. x \in G /\ x \notin V /\ x \notin f.roots /\ Out(h, x) \in SUBSET Node
    BY <1>5, <1>6, <1>8
  <2> HIDE DEF P, V
  <2>2. \A z : <<"collect", z, x>> \notin P
    <3> SUFFICES ASSUME NEW z, <<"collect", z, x>> \in P PROVE FALSE
      OBVIOUS
    <3>1. \A r : <<"collect", z, x>> # <<"collect_root", r>>
      OBVIOUS
    <3>2. PICK y \in V : \E w \in Out(h, y) : <<"collect", z, x>> = <<"collect", w, y>>
      BY <1>2, <3>1
    <3>3. x = y
      BY <3>2
    <3> QED
      BY <2>1, <3>3
  <2>3. Visited(h, f, g, x)
    BY <1>1, <1>8, <2>1, <2>2, VisitedIs DEF P
  <2> HIDE DEF g
  <2>4. /\ Calm(h, g) /\ Members(g.todo) = P \cup N
        /\ Len(g.todo) \in Nat /\ Len(g.todo) = Len(f.todo) + Cardinality(Out(h, x)) /\ g.roots = f.roots
    BY <2>3 DEF Visited, P
  <2>5. /\ f.col \in [Node -> {"black", "purple", "grey", "white"}] /\ f.rc \in [Node -> Int]
        /\ f.addr \in [Node -> {"null", "root", "list"}]
    BY <1>1 DEF Calm, Midway
  <2>6. /\ g.col[x] = IF x \in Zval THEN "black" ELSE "purple"
        /\ \A z \in Node \ {x} : g.col[z] = f.col[z] /\ g.rc[z] = f.rc[z] /\ g.addr[z] = f.addr[z]
        /\ g.rc[x] = IF x \in Zval THEN f.rc[x] + 1 ELSE f.rc[x]
        /\ g.addr[x] = IF x \in Zval THEN "list" ELSE f.addr[x]
        /\ g.list = IF x \in Zval THEN f.list \cup {x} ELSE f.list
    BY <2>3, <2>5 DEF Visited
  <2>7. Seen(h, g) = V \cup {x}
    <3>1. ASSUME NEW z \in G, z # x PROVE g.col[z] # "white" <=> z \in V
      <4>1. g.col[z] = f.col[z]
        BY <1>5, <2>6, <3>1
      <4> QED
        BY <4>1 DEF V, Seen
    <3>2. g.col[x] # "white"
      BY <2>6
    <3> QED
      BY <1>5, <2>1, <3>1, <3>2 DEF Seen
  <2>8. /\ \A r : <<"collect_root", r>> \notin N
        /\ \A z \in Out(h, x) : <<"collect", z, x>> \in N
        /\ \A z, y : y # x => <<"collect", z, y>> \notin N
    OBVIOUS
  <2>9. \A t \in N : \E z \in Out(h, x) : t = <<"collect", z, x>>
    OBVIOUS
  <2> HIDE DEF N, G
  <2>10. \A z \in Node : Returned(h, g, z) = Returned(h, f, z)
    <3>1. \A z : Returned(h, f, z) = {y \in V : z \in Out(h, y) /\ <<"collect", z, y>> \notin P}
      BY DEF Returned, P, V
    <3>2. \A z : Returned(h, g, z) = {y \in V \cup {x} : z \in Out(h, y) /\ <<"collect", z, y>> \notin P \cup N}
      BY <2>4, <2>7 DEF Returned
    <3>3. ASSUME NEW z \in Node, NEW y \in V PROVE <<"collect", z, y>> \notin N
      <4>1. y # x
        BY <2>1
      <4> QED
        BY <2>8, <4>1
    <3>4. ASSUME NEW z \in Node PROVE ~(z \in Out(h, x) /\ <<"collect", z, x>> \notin P \cup N)
      BY <2>8
    <3>5. ASSUME NEW z \in Node PROVE Returned(h, g, z) = Returned(h, f, z)
      BY <3>1, <3>2, <3>3, <3>4
    <3> QED
      BY <3>5
  <2>11. \A t \in P \cup N :
          \/ \E z \in h.roots : t = <<"collect_root", z>>
          \/ \E y \in Seen(h, g) : \E z \in Out(h, y) : t = <<"collect", z, y>>
    BY <1>2, <2>7, <2>9
  <2>12. \A z \in Zval : g.rc[z] = s.rc[z] + Cardinality(Returned(h, g, z))
                                   + (IF z \in Seen(h, g) THEN 1 ELSE 0)
    <3> SUFFICES ASSUME NEW z \in Zval
                 PROVE  g.rc[z] = s.rc[z] + Cardinality(Returned(h, g, z)) + (IF z \in Seen(h, g) THEN 1 ELSE 0)
      OBVIOUS
    <3>1. /\ z \in Node /\ Returned(h, g, z) = Returned(h, f, z)
          /\ f.rc[z] = s.rc[z] + Cardinality(Returned(h, f, z)) + (IF z \in V THEN 1 ELSE 0)
      BY <1>1, <2>10, Apartness
    <3>2. CASE z # x
      <4>1. g.rc[z] = f.rc[z] /\ (z \in Seen(h, g) <=> z \in V)
        BY <2>6, <2>7, <3>1, <3>2
      <4> QED
        BY <3>1, <4>1
    <3>3. CASE z = x
      <4>1. g.rc[z] = f.rc[z] + 1 /\ z \in Seen(h, g) /\ z \notin V
        BY <2>1, <2>6, <2>7, <3>3
      <4>2. s.rc[z] \in Int /\ Cardinality(Returned(h, f, z)) \in Nat
        <5>1. Returned(h, f, z) \in SUBSET Node
          BY <1>5 DEF Returned, V
        <5> QED
          BY <3>1, <5>1, NodesFinite, FS_CardinalityType DEF Scanned, Calm, Midway
      <4> QED
        BY <3>1, <4>1, <4>2
    <3> QED
      BY <3>2, <3>3
  <2>13. \A z \in Object : g.rc[z] = s.rc[z]
    <3> SUFFICES ASSUME NEW z \in Object PROVE g.rc[z] = f.rc[z]
      BY <1>1
    <3>1. z \in Node /\ z \notin Zval
      BY Apartness
    <3> QED
      BY <2>6, <3>1
  <2>14. \A z \in Node : g.col[z] = IF z \in Seen(h, g) THEN IF z \in Zval THEN "black" ELSE "purple"
                                    ELSE s.col[z]
    BY <1>3, <2>6, <2>7
  <2>15. \A z \in Node : g.addr[z] = IF z \in Seen(h, g) \cap Zval THEN "list"
                                     ELSE IF z \in h.roots \ g.roots THEN "null" ELSE h.addr[z]
    <3> SUFFICES ASSUME NEW z \in Node
                 PROVE  g.addr[z] = IF z \in Seen(h, g) \cap Zval THEN "list"
                                    ELSE IF z \in h.roots \ g.roots THEN "null" ELSE h.addr[z]
      OBVIOUS
    <3>1. f.addr[z] = IF z \in V \cap Zval THEN "list"
                      ELSE IF z \in h.roots \ f.roots THEN "null" ELSE h.addr[z]
      BY <1>3
    <3>2. CASE z # x
      <4>1. g.addr[z] = f.addr[z] /\ (z \in Seen(h, g) <=> z \in V)
        BY <2>6, <2>7, <3>2
      <4> QED
        BY <2>4, <3>1, <4>1
    <3>3. CASE z = x
      BY <2>1, <2>4, <2>6, <2>7, <3>1, <3>3
    <3> QED
      BY <3>2, <3>3
  <2>16. g.list = Seen(h, g) \cap Zval
    BY <1>3, <2>6, <2>7
  <2>17. \A y \in Seen(h, g) : \A z \in Out(h, y) \cap G :
            z \in Seen(h, g) \cup {} \/ z \in g.roots \/ <<"collect", z, y>> \in P \cup N
    BY <1>4, <2>4, <2>7, <2>8
  <2>18. /\ \A z \in s.roots \cap G : z \in Seen(h, g) \cup {} \/ z \in g.roots
         /\ \A z \in g.roots : <<"collect_root", z>> \in P \cup N
         /\ g.roots \subseteq s.roots /\ Seen(h, g) \cap g.roots = {}
    BY <1>1, <1>3, <1>4, <2>1, <2>4, <2>7
  <2>19. Collecting(h, s, g, {})
    BY <2>4, <2>11, <2>12, <2>13, <2>14, <2>15, <2>16, <2>17, <2>18 DEF Collecting, G
  <2> DEFINE a == Cardinality(LinkSet(h, G \ V))  c == Cardinality(Out(h, x))
  <2>20. a \in Nat /\ c \in Nat /\ Len(f.todo) \in Nat
    BY <1>1, <2>1, LinksFinite, NodesFinite, FS_CardinalityType, CalmLength
  <2>21. Cardinality(LinkSet(h, G \ Seen(h, g))) = a - c
    <3>1. G \ Seen(h, g) = (G \ V) \ {x} /\ x \in (G \ V) \cap Node
      BY <2>1, <2>7
    <3> QED
      BY <2>1, <3>1, LinksLess
  <2>22. /\ ToCollect(h, g) = Len(g.todo) + Cardinality(LinkSet(h, G \ Seen(h, g)))
         /\ ToCollect(h, f) = Len(f.todo) + a
    BY DEF ToCollect, G, V
  <2>23. Len(g.todo) = Len(f.todo) + c
    BY <2>4
  <2> HIDE DEF a, c
  <2>24. ToCollect(h, g) <= ToCollect(h, f)
    BY <2>20, <2>21, <2>22, <2>23
  <2> QED
    BY <2>19, <2>24 DEF g
<1> QED
  BY <1>7, <1>8

\* A root leaves the buffer, and is visited if it is white still.
LEMMA CollectRootStep ==
    ASSUME NEW h, Fit(h), NEW m, Marked(h, m), NEW s, Scanned(h, m, s), NEW g, Collecting(h, s, g, {}),
           NEW f, NEW t, Popped(h, g, f, t), NEW x \in h.roots, t = <<"collect_root", x>>
    PROVE  LET u == Call(f, t[1], t[2]) IN Collecting(h, s, u, {}) /\ ToCollect(h, u) < ToCollect(h, g)
<1> DEFINE u == Call(f, t[1], t[2])  G == Garbage(h)  V == Seen(h, g)  P == Members(g.todo)
           Q == Members(f.todo)  b == Unbuffer(f, x)
<1>0. u = IF x \in f.roots THEN CollectWhite(b, x) ELSE f
  BY DEF Call
<1>1. /\ Calm(h, g) /\ g.roots \subseteq s.roots /\ V \cap g.roots = {}
      /\ \A z \in Zval : g.rc[z] = s.rc[z] + Cardinality(Returned(h, g, z)) + (IF z \in V THEN 1 ELSE 0)
      /\ \A z \in Object : g.rc[z] = s.rc[z]
      /\ \A z \in Node : g.col[z] = IF z \in V THEN IF z \in Zval THEN "black" ELSE "purple" ELSE s.col[z]
      /\ g.list = V \cap Zval
  BY DEF Collecting
<1>2. /\ \A c \in P :
            \/ \E z \in h.roots : c = <<"collect_root", z>>
            \/ \E y \in V : \E z \in Out(h, y) : c = <<"collect", z, y>>
      /\ \A z \in g.roots : <<"collect_root", z>> \in P
      /\ \A y \in V : \A z \in Out(h, y) \cap G : z \in V \/ z \in g.roots \/ <<"collect", z, y>> \in P
      /\ \A z \in s.roots \cap G : z \in V \/ z \in g.roots
  BY DEF Collecting
<1>3. \A z \in Node : g.addr[z] = IF z \in V \cap Zval THEN "list"
                                  ELSE IF z \in h.roots \ g.roots THEN "null" ELSE h.addr[z]
  BY DEF Collecting
<1>4. Calm(h, f) /\ t \in P /\ Q = P \ {t}
  BY DEF Popped
<1>5. Len(g.todo) \in Nat /\ Len(f.todo) \in Nat /\ Len(f.todo) = Len(g.todo) - 1
  BY DEF Popped
<1>6. f.rc = g.rc /\ f.col = g.col /\ f.addr = g.addr /\ f.roots = g.roots /\ f.list = g.list
  BY DEF Popped
<1>7. x \in Node
  BY DEF Fit, Heaps
<1>8. /\ Calm(h, b) /\ b.todo = f.todo /\ b.rc = g.rc /\ b.col = g.col
      /\ b.addr = [g.addr EXCEPT ![x] = "null"] /\ b.roots = g.roots \ {x} /\ b.list = g.list
  <2>1. /\ Calm(h, b) /\ b.todo = f.todo /\ b.rc = f.rc /\ b.col = f.col
        /\ b.addr = [f.addr EXCEPT ![x] = "null"] /\ b.roots = f.roots \ {x} /\ b.list = f.list
    BY <1>4, <1>7, UnbufferOf
  <2> HIDE DEF b
  <2> QED
    BY <1>6, <2>1
<1>9. /\ \A z, y : <<"collect", z, y>> # t
      /\ \A z : <<"collect_root", z>> = t => z = x
  OBVIOUS
<1> HIDE DEF u, P, Q, V, G, b
<1>10. Seen(h, f) = V /\ Seen(h, b) = V
  BY <1>6, <1>8 DEF Seen, V
<1>11. \A z, y : <<"collect", z, y>> \in Q <=> <<"collect", z, y>> \in P
  BY <1>4, <1>9
<1>12. Members(b.todo) = Q
  BY <1>8 DEF Q
<1>13. \A z : Returned(h, f, z) = Returned(h, g, z) /\ Returned(h, b, z) = Returned(h, g, z)
  <2>1. \A z : Returned(h, f, z) = {y \in V : z \in Out(h, y) /\ <<"collect", z, y>> \notin Q}
    BY <1>10 DEF Returned, Q
  <2>2. \A z : Returned(h, b, z) = {y \in V : z \in Out(h, y) /\ <<"collect", z, y>> \notin Q}
    BY <1>10, <1>12 DEF Returned
  <2>3. \A z : Returned(h, g, z) = {y \in V : z \in Out(h, y) /\ <<"collect", z, y>> \notin P}
    BY DEF Returned, P, V
  <2> QED
    BY <1>11, <2>1, <2>2, <2>3
<1>14. \A c \in Q :
            \/ \E z \in h.roots : c = <<"collect_root", z>>
            \/ \E y \in V : \E z \in Out(h, y) : c = <<"collect", z, y>>
  BY <1>2, <1>4
<1>15. ToCollect(h, f) < ToCollect(h, g) /\ ToCollect(h, f) \in Nat /\ ToCollect(h, b) = ToCollect(h, f)
  <2> DEFINE a == Cardinality(LinkSet(h, G \ V))
  <2>1. a \in Nat
    BY LinksFinite
  <2>2. ToCollect(h, f) = Len(f.todo) + a /\ ToCollect(h, g) = Len(g.todo) + a /\ ToCollect(h, b) = Len(f.todo) + a
    BY <1>8, <1>10 DEF ToCollect, G, V
  <2> HIDE DEF a
  <2> QED
    BY <1>5, <2>1, <2>2
<1>16. ASSUME x \notin f.roots PROVE Collecting(h, s, u, {}) /\ ToCollect(h, u) < ToCollect(h, g)
  <2>1. u = f
    BY <1>0, <1>16
  <2>2. /\ \A z \in f.roots : <<"collect_root", z>> \in Q
        /\ \A y \in V : \A z \in Out(h, y) \cap G : z \in V \cup {} \/ z \in f.roots \/ <<"collect", z, y>> \in Q
        /\ \A z \in s.roots \cap G : z \in V \cup {} \/ z \in f.roots
    BY <1>2, <1>4, <1>6, <1>9, <1>11, <1>16
  <2>3. /\ f.roots \subseteq s.roots /\ V \cap f.roots = {} /\ f.list = V \cap Zval
        /\ \A z \in Zval : f.rc[z] = s.rc[z] + Cardinality(Returned(h, f, z)) + (IF z \in V THEN 1 ELSE 0)
        /\ \A z \in Object : f.rc[z] = s.rc[z]
        /\ \A z \in Node : f.col[z] = IF z \in V THEN IF z \in Zval THEN "black" ELSE "purple" ELSE s.col[z]
        /\ \A z \in Node : f.addr[z] = IF z \in V \cap Zval THEN "list"
                                       ELSE IF z \in h.roots \ f.roots THEN "null" ELSE h.addr[z]
    BY <1>1, <1>3, <1>6, <1>13
  <2>4. Collecting(h, s, f, {})
    BY <1>4, <1>10, <1>14, <2>2, <2>3 DEF Collecting, G, Q
  <2> QED
    BY <1>15, <2>1, <2>4
<1>17. ASSUME x \in f.roots PROVE Collecting(h, s, u, {}) /\ ToCollect(h, u) < ToCollect(h, g)
  <2>1. u = CollectWhite(b, x)
    BY <1>0, <1>17
  <2>2. /\ \A z \in b.roots : <<"collect_root", z>> \in Q
        /\ \A y \in V : \A z \in Out(h, y) \cap G : z \in V \cup {x} \/ z \in b.roots \/ <<"collect", z, y>> \in Q
        /\ \A z \in s.roots \cap G : z \in V \cup {x} \/ z \in b.roots
    BY <1>2, <1>4, <1>8, <1>9, <1>11
  <2>3. /\ b.roots \subseteq s.roots /\ V \cap b.roots = {} /\ b.list = V \cap Zval
        /\ \A z \in Zval : b.rc[z] = s.rc[z] + Cardinality(Returned(h, b, z)) + (IF z \in V THEN 1 ELSE 0)
        /\ \A z \in Object : b.rc[z] = s.rc[z]
        /\ \A z \in Node : b.col[z] = IF z \in V THEN IF z \in Zval THEN "black" ELSE "purple" ELSE s.col[z]
    BY <1>1, <1>8, <1>13
  <2>4. \A z \in Node : b.addr[z] = IF z \in V \cap Zval THEN "list"
                                    ELSE IF z \in h.roots \ b.roots THEN "null" ELSE h.addr[z]
    <3> SUFFICES ASSUME NEW z \in Node
                 PROVE  b.addr[z] = IF z \in V \cap Zval THEN "list"
                                    ELSE IF z \in h.roots \ b.roots THEN "null" ELSE h.addr[z]
      OBVIOUS
    <3>0. g.addr \in [Node -> {"null", "root", "list"}]
      BY <1>1 DEF Calm, Midway
    <3>1. CASE z # x
      <4>1. b.addr[z] = g.addr[z] /\ (z \in b.roots <=> z \in g.roots)
        BY <1>8, <3>0, <3>1
      <4> QED
        BY <1>3, <4>1
    <3>2. CASE z = x
      <4>1. b.addr[z] = "null" /\ z \notin b.roots /\ z \in h.roots /\ z \notin V
        BY <1>1, <1>6, <1>7, <1>8, <1>17, <3>0, <3>2
      <4> QED
        BY <4>1
    <3> QED
      BY <3>1, <3>2
  <2>5. Collecting(h, s, b, {x})
    BY <1>8, <1>10, <1>12, <1>14, <2>2, <2>3, <2>4 DEF Collecting, G
  <2>6. Collecting(h, s, u, {}) /\ ToCollect(h, u) <= ToCollect(h, b)
    BY <1>7, <2>1, <2>5, CollectWhiteStep
  <2>7. ToCollect(h, u) \in Nat /\ ToCollect(h, g) \in Nat
    BY <2>6, CollectingNat
  <2> QED
    BY <1>15, <2>6, <2>7
<1> QED
  BY <1>16, <1>17 DEF u

\* A link is followed; a zval gets its reference back.
LEMMA CollectLinkStep ==
    ASSUME NEW h, Fit(h), NEW m, Marked(h, m), NEW s, Scanned(h, m, s), NEW g, Collecting(h, s, g, {}),
           NEW f, NEW t, Popped(h, g, f, t), NEW y \in Seen(h, g), NEW x \in Out(h, y), t = <<"collect", x, y>>
    PROVE  LET u == Call(f, t[1], t[2]) IN Collecting(h, s, u, {}) /\ ToCollect(h, u) < ToCollect(h, g)
<1> DEFINE u == Call(f, t[1], t[2])  G == Garbage(h)  V == Seen(h, g)  P == Members(g.todo)
           Q == Members(f.todo)  e == IF x \in Zval THEN Count(f, x, 1) ELSE f
<1>0. u = CollectWhite(e, x)
  BY DEF Call
<1>1. /\ Calm(h, g) /\ g.roots \subseteq s.roots /\ V \cap g.roots = {}
      /\ \A z \in Zval : g.rc[z] = s.rc[z] + Cardinality(Returned(h, g, z)) + (IF z \in V THEN 1 ELSE 0)
      /\ \A z \in Object : g.rc[z] = s.rc[z]
      /\ \A z \in Node : g.col[z] = IF z \in V THEN IF z \in Zval THEN "black" ELSE "purple" ELSE s.col[z]
      /\ g.list = V \cap Zval
  BY DEF Collecting
<1>2. /\ \A c \in P :
            \/ \E z \in h.roots : c = <<"collect_root", z>>
            \/ \E w \in V : \E z \in Out(h, w) : c = <<"collect", z, w>>
      /\ \A z \in g.roots : <<"collect_root", z>> \in P
      /\ \A w \in V : \A z \in Out(h, w) \cap G : z \in V \/ z \in g.roots \/ <<"collect", z, w>> \in P
      /\ \A z \in s.roots \cap G : z \in V \/ z \in g.roots
  BY DEF Collecting
<1>3. \A z \in Node : g.addr[z] = IF z \in V \cap Zval THEN "list"
                                  ELSE IF z \in h.roots \ g.roots THEN "null" ELSE h.addr[z]
  BY DEF Collecting
<1>4. Calm(h, f) /\ t \in P /\ Q = P \ {t}
  BY DEF Popped
<1>5. Len(g.todo) \in Nat /\ Len(f.todo) \in Nat /\ Len(f.todo) = Len(g.todo) - 1
  BY DEF Popped
<1>6. f.rc = g.rc /\ f.col = g.col /\ f.addr = g.addr /\ f.roots = g.roots /\ f.list = g.list
  BY DEF Popped
<1>7. G \in SUBSET Node /\ V \in SUBSET Node /\ y \in Node /\ x \in Node
  <2>1. G \in SUBSET Node /\ V \in SUBSET G /\ y \in V
    BY FoundIs DEF Fit, Garbage, Seen
  <2>2. Out(h, y) \in SUBSET Node
    BY <2>1, LinksType DEF Fit
  <2> QED
    BY <2>1, <2>2
<1>8. /\ Calm(h, e) /\ e.todo = f.todo
      /\ e.rc = IF x \in Zval THEN [g.rc EXCEPT ![x] = g.rc[x] + 1] ELSE g.rc
      /\ e.col = g.col /\ e.addr = g.addr /\ e.roots = g.roots /\ e.list = g.list
  <2>1. CASE x \in Zval
    <3> DEFINE d == Count(f, x, 1)
    <3>1. 1 \in Int /\ e = d
      BY <2>1
    <3>2. /\ Calm(h, d) /\ d.todo = f.todo /\ d.rc = [f.rc EXCEPT ![x] = f.rc[x] + 1]
          /\ d.col = f.col /\ d.addr = f.addr /\ d.roots = f.roots /\ d.list = f.list
      BY <1>4, <1>7, <3>1, CountOf
    <3> HIDE DEF d, e
    <3> QED
      BY <1>6, <2>1, <3>1, <3>2
  <2>2. CASE x \notin Zval
    BY <1>4, <1>6, <2>2
  <2> QED
    BY <2>1, <2>2
<1>9. /\ \A z, w : <<"collect", z, w>> = t <=> (z = x /\ w = y)
      /\ \A z : <<"collect_root", z>> # t
  OBVIOUS
<1> HIDE DEF u, P, Q, V, G, e
<1>10. Seen(h, e) = V /\ Members(e.todo) = Q
  BY <1>8 DEF Seen, V, Q
<1>11. \A z : Returned(h, e, z) = {w \in V : z \in Out(h, w) /\ <<"collect", z, w>> \notin Q}
  BY <1>10 DEF Returned
<1>12. \A z : Returned(h, g, z) = {w \in V : z \in Out(h, w) /\ <<"collect", z, w>> \notin P}
  BY DEF Returned, P, V
<1>13. \A z : z # x => Returned(h, e, z) = Returned(h, g, z)
  <2>1. \A z, w : z # x => (<<"collect", z, w>> \in Q <=> <<"collect", z, w>> \in P)
    BY <1>4, <1>9
  <2> QED
    BY <1>11, <1>12, <2>1
<1>14. Returned(h, e, x) = Returned(h, g, x) \cup {y} /\ y \notin Returned(h, g, x) /\ Returned(h, g, x) \in SUBSET Node
  <2>1. ASSUME NEW w \in V
        PROVE  w \in Returned(h, e, x) <=> (w \in Returned(h, g, x) \/ w = y)
    BY <1>4, <1>9, <1>11, <1>12
  <2>2. y \in V /\ y \notin Returned(h, g, x)
    BY <1>4, <1>12 DEF V
  <2>3. Returned(h, e, x) \in SUBSET V /\ Returned(h, g, x) \in SUBSET V
    BY <1>11, <1>12
  <2> QED
    BY <1>7, <2>1, <2>2, <2>3
<1>15. Cardinality(Returned(h, e, x)) = Cardinality(Returned(h, g, x)) + 1 /\ Cardinality(Returned(h, g, x)) \in Nat
  BY <1>7, <1>14, NodesFinite, PartCount
<1>16. ASSUME NEW z \in Zval
       PROVE  e.rc[z] = s.rc[z] + Cardinality(Returned(h, e, z)) + (IF z \in V THEN 1 ELSE 0)
  <2>0. /\ g.rc \in [Node -> Int] /\ s.rc[z] \in Int /\ z \in Node
        /\ g.rc[z] = s.rc[z] + Cardinality(Returned(h, g, z)) + (IF z \in V THEN 1 ELSE 0)
    BY <1>1, Apartness DEF Calm, Midway, Scanned
  <2>1. CASE z # x
    <3>1. e.rc[z] = g.rc[z]
      BY <1>8, <2>0, <2>1
    <3> QED
      BY <1>13, <2>0, <2>1, <3>1
  <2>2. CASE z = x
    <3>1. e.rc[z] = g.rc[z] + 1
      BY <1>8, <2>0, <2>2
    <3> QED
      BY <1>15, <2>0, <2>2, <3>1
  <2> QED
    BY <2>1, <2>2
<1>17. ASSUME NEW z \in Object PROVE e.rc[z] = s.rc[z]
  <2>1. z \in Node /\ z \notin Zval /\ g.rc \in [Node -> Int]
    BY <1>1, Apartness DEF Calm, Midway
  <2>2. e.rc[z] = g.rc[z]
    BY <1>8, <2>1
  <2> QED
    BY <1>1, <2>2
<1>18. \A c \in Q :
            \/ \E z \in h.roots : c = <<"collect_root", z>>
            \/ \E w \in V : \E z \in Out(h, w) : c = <<"collect", z, w>>
  BY <1>2, <1>4
<1>19. /\ \A z \in e.roots : <<"collect_root", z>> \in Q
       /\ \A w \in V : \A z \in Out(h, w) \cap G : z \in V \cup {x} \/ z \in e.roots \/ <<"collect", z, w>> \in Q
       /\ \A z \in s.roots \cap G : z \in V \cup {x} \/ z \in e.roots
  BY <1>2, <1>4, <1>8, <1>9
<1>20. /\ e.roots \subseteq s.roots /\ V \cap e.roots = {} /\ e.list = V \cap Zval
       /\ \A z \in Node : e.col[z] = IF z \in V THEN IF z \in Zval THEN "black" ELSE "purple" ELSE s.col[z]
       /\ \A z \in Node : e.addr[z] = IF z \in V \cap Zval THEN "list"
                                      ELSE IF z \in h.roots \ e.roots THEN "null" ELSE h.addr[z]
  BY <1>1, <1>3, <1>8
<1>21. Collecting(h, s, e, {x})
  <2>1. Calm(h, e)
    BY <1>8
  <2> QED
    BY <1>10, <1>16, <1>17, <1>18, <1>19, <1>20, <2>1 DEF Collecting, G
<1>22. Collecting(h, s, u, {}) /\ ToCollect(h, u) <= ToCollect(h, e)
  BY <1>0, <1>7, <1>21, CollectWhiteStep
<1>23. ToCollect(h, u) \in Nat
  BY <1>22, CollectingNat
<1>24. ToCollect(h, e) < ToCollect(h, g) /\ ToCollect(h, e) \in Nat /\ ToCollect(h, g) \in Nat
  <2> DEFINE a == Cardinality(LinkSet(h, G \ V))
  <2>1. a \in Nat
    BY LinksFinite
  <2>2. ToCollect(h, e) = Len(f.todo) + a /\ ToCollect(h, g) = Len(g.todo) + a
    BY <1>8, <1>10 DEF ToCollect, G, V
  <2> HIDE DEF a
  <2> QED
    BY <1>5, <2>1, <2>2
<1>25. ToCollect(h, u) < ToCollect(h, g)
  BY <1>22, <1>23, <1>24
<1> QED
  BY <1>22, <1>25 DEF u

\* Either call keeps the collection in order, and leaves less to be collected.
LEMMA CollectCallStep ==
    ASSUME NEW h, Fit(h), NEW m, Marked(h, m), NEW s, Scanned(h, m, s), NEW g, Collecting(h, s, g, {}),
           g.todo # <<>>
    PROVE  Collecting(h, s, Step(g), {}) /\ ToCollect(h, Step(g)) < ToCollect(h, g)
<1>1. PICK f, t : Popped(h, g, f, t) /\ Step(g) = Call(f, t[1], t[2])
  BY StepOf DEF Collecting
<1>2. \/ \E x \in h.roots : t = <<"collect_root", x>>
      \/ \E y \in Seen(h, g) : \E x \in Out(h, y) : t = <<"collect", x, y>>
  BY <1>1 DEF Collecting, Popped
<1> QED
  BY <1>1, <1>2, CollectRootStep, CollectLinkStep

\* The references inside that are given back, and those that are not.
LEMMA InsideParts ==
    ASSUME NEW h \in Heaps, Kinds(h), NEW x
    PROVE  LET live == {y \in Live(h) : x \in Out(h, y)}
           IN  /\ Cardinality(Inside(h, x)) \in Nat /\ Cardinality(live) \in Nat /\ Cardinality(Lost(h, x)) \in Nat
               /\ Cardinality(Inside(h, x)) = Cardinality(live) + Cardinality(Lost(h, x))
<1> DEFINE live == {y \in Live(h) : x \in Out(h, y)}  I == Inside(h, x)
<1>1. /\ Live(h) \subseteq Found(h) /\ Found(h) \in SUBSET Node
  BY LiveFound, FoundIs
<1>2. I \in SUBSET Node /\ live \subseteq I /\ Lost(h, x) = I \ live
  BY <1>1 DEF Inside, Lost, Garbage
<1> HIDE DEF I, live
<1>3. IsFiniteSet(I) /\ IsFiniteSet(live) /\ IsFiniteSet(Lost(h, x)) /\ I \cap live = live
  BY <1>2, NodesFinite
<1>4. Cardinality(I \ live) = Cardinality(I) - Cardinality(I \cap live)
  BY <1>3, FS_Difference
<1>5. Cardinality(I) \in Nat /\ Cardinality(live) \in Nat /\ Cardinality(Lost(h, x)) \in Nat
  BY <1>3, FS_CardinalityType
<1>6. Cardinality(I) = Cardinality(live) + Cardinality(Lost(h, x))
  BY <1>2, <1>3, <1>4, <1>5
<1> QED
  BY <1>5, <1>6 DEF I, live

\* The colours that ZendGc gives.
LEMMA CollectedPaint ==
    ASSUME NEW h \in Heaps, NEW x \in Node
    PROVE  Collected(h).col[x] = IF x \in Garbage(h) \cap Object THEN "purple"
                                 ELSE IF x \in Found(h) THEN "black" ELSE h.col[x]
  BY DEF Collected, Heaps

\* What gc_collect_roots leaves.
LEMMA CollectingEnds ==
    ASSUME NEW h, Fit(h), NEW m, Marked(h, m), NEW s, Scanned(h, m, s), NEW g, Collecting(h, s, g, {}),
           g.todo = <<>>
    PROVE  LET c == Collected(h)
           IN  /\ g.list = Garbage(h) \cap Zval /\ g.roots = c.roots
               /\ g.rc = c.rc /\ g.col = c.col /\ g.addr = c.addr
<1> DEFINE c == Collected(h)  G == Garbage(h)  V == Seen(h, g)
<1>1. Members(g.todo) = {}
  BY NoCalls
<1>2. /\ Calm(h, g) /\ g.roots = {} /\ g.list = V \cap Zval
      /\ \A z \in Zval : g.rc[z] = s.rc[z] + Cardinality(Returned(h, g, z)) + (IF z \in V THEN 1 ELSE 0)
      /\ \A z \in Object : g.rc[z] = s.rc[z]
      /\ \A z \in Node : g.col[z] = IF z \in V THEN IF z \in Zval THEN "black" ELSE "purple" ELSE s.col[z]
      /\ \A y \in V : \A z \in Out(h, y) \cap G : z \in V
      /\ \A z \in s.roots \cap G : z \in V
      /\ \A z \in Node : g.addr[z] = IF z \in V \cap Zval THEN "list"
                                     ELSE IF z \in h.roots \ g.roots THEN "null" ELSE h.addr[z]
  BY <1>1 DEF Collecting
<1>3. h \in Heaps /\ Kinds(h)
  BY DEF Fit
<1>4. CollectedOf(c, h)
  BY <1>3, CollectedFields
<1>5. /\ Links(h) \in [Node -> SUBSET Node] /\ \A z \in Node : Links(h)[z] = Out(h, z)
      /\ Found(h) = Reach(Links(h), m.roots) /\ m.roots \in SUBSET Node /\ s.roots = m.roots
      /\ m.roots \subseteq Found(h)
  <2>1. Links(h) \in [Node -> SUBSET Node] /\ \A z \in Node : Links(h)[z] = Out(h, z)
    BY <1>3, LinksType
  <2>2. h.roots \in SUBSET Node /\ h.roots \subseteq Found(h)
    BY <1>3, FoundIs
  <2> QED
    BY <2>1, <2>2 DEF Marked, Scanned
<1>6. /\ Found(h) \in SUBSET Node /\ Live(h) \subseteq Found(h) /\ G = Found(h) \ Live(h)
      /\ \A z \in Live(h) : Out(h, z) \subseteq Live(h)
      /\ \A z \in Found(h) : Out(h, z) \subseteq Found(h)
  BY <1>3, FoundIs, LiveFound, LiveIs DEF Garbage
<1>7. V \subseteq G
  BY DEF Seen
<1>8. V = G
  <2> DEFINE U == Live(h) \cup V  F == Found(h)
  <2>1. m.roots \subseteq U
    BY <1>2, <1>5, <1>6
  <2>2. ASSUME NEW z \in U \cap Node PROVE Links(h)[z] \subseteq U
    <3>1. CASE z \in Live(h)
      BY <1>5, <1>6, <3>1
    <3>2. CASE z \in V
      <4>1. Out(h, z) \subseteq Found(h) /\ \A w \in Out(h, z) \cap G : w \in V
        BY <1>2, <1>6, <1>7, <3>2
      <4> QED
        BY <1>5, <1>6, <4>1
    <3> QED
      BY <3>1, <3>2
  <2> HIDE DEF U
  <2>3. Reach(Links(h), m.roots) \subseteq U
    BY <1>5, <2>1, <2>2, ReachLeast
  <2>4. Found(h) \subseteq Live(h) \cup V
    BY <1>5, <2>3 DEF U
  <2> QED
    BY <1>6, <1>7, <2>4
<1> HIDE DEF V, c
<1>9. \A z : Returned(h, g, z) = Lost(h, z)
  <2>1. \A z : Returned(h, g, z) = {y \in V : z \in Out(h, y)}
    BY <1>1 DEF Returned, V
  <2> QED
    BY <1>8, <2>1 DEF Lost
<1>10. ASSUME NEW z \in Node
       PROVE  /\ s.rc[z] = h.rc[z] - Cardinality(Lost(h, z)) /\ h.rc[z] \in Int
              /\ Cardinality(Lost(h, z)) \in Nat
  <2> DEFINE live == {y \in Live(h) : z \in Out(h, y)}
  <2>1. s.rc[z] = m.rc[z] + Cardinality(live) /\ m.rc[z] = h.rc[z] - Cardinality(Inside(h, z)) /\ h.rc[z] \in Int
    BY <1>3 DEF Scanned, Marked, Heaps
  <2>2. /\ Cardinality(Inside(h, z)) \in Nat /\ Cardinality(live) \in Nat /\ Cardinality(Lost(h, z)) \in Nat
        /\ Cardinality(Inside(h, z)) = Cardinality(live) + Cardinality(Lost(h, z))
    BY <1>3, InsideParts
  <2> HIDE DEF live
  <2> QED
    BY <2>1, <2>2
<1>11. /\ g.rc \in [Node -> Int] /\ c.rc \in [Node -> Int]
       /\ DOMAIN g.col = Node /\ DOMAIN g.addr = Node /\ DOMAIN c.col = Node /\ DOMAIN c.addr = Node
       /\ \E A : g.col \in [Node -> A] /\ \E B : c.col \in [Node -> B]
       /\ \E A : g.addr \in [Node -> A] /\ \E B : c.addr \in [Node -> B]
  BY <1>2, <1>4 DEF Calm, Midway, CollectedOf, Heaps
<1>12. ASSUME NEW z \in Node PROVE g.rc[z] = c.rc[z]
  <2>1. CASE z \in Zval
    <3>1. c.rc[z] = IF z \in G THEN h.rc[z] + 1 ELSE h.rc[z]
      BY <1>4, <2>1 DEF CollectedOf
    <3>2. g.rc[z] = s.rc[z] + Cardinality(Lost(h, z)) + (IF z \in G THEN 1 ELSE 0)
      BY <1>2, <1>8, <1>9, <2>1
    <3> QED
      BY <1>10, <3>1, <3>2
  <2>2. CASE z \in Object
    <3>1. c.rc[z] = h.rc[z] - Cardinality(Lost(h, z))
      BY <1>4, <2>2 DEF CollectedOf
    <3> QED
      BY <1>2, <1>10, <2>2, <3>1
  <2> QED
    BY <2>1, <2>2 DEF Node
<1>13. ASSUME NEW z \in Node PROVE g.col[z] = c.col[z]
  <2>1. c.col[z] = IF z \in G \cap Object THEN "purple" ELSE IF z \in Found(h) THEN "black" ELSE h.col[z]
    BY <1>3, CollectedPaint DEF c
  <2>2. s.col[z] = IF z \in G THEN "white" ELSE IF z \in Found(h) THEN "black" ELSE h.col[z]
    BY DEF Scanned
  <2>3. g.col[z] = IF z \in G THEN IF z \in Zval THEN "black" ELSE "purple" ELSE s.col[z]
    BY <1>2, <1>8
  <2>4. (z \in Zval /\ z \notin Object) \/ (z \in Object /\ z \notin Zval)
    BY Apartness DEF Node
  <2> QED
    BY <1>6, <2>1, <2>2, <2>3, <2>4
<1>14. ASSUME NEW z \in Node PROVE g.addr[z] = c.addr[z]
  <2>1. c.addr[z] = IF z \in G \cap Zval THEN "list" ELSE IF z \in h.roots THEN "null" ELSE h.addr[z]
    BY <1>4 DEF CollectedOf
  <2> QED
    BY <1>2, <1>8, <2>1
<1>15. c.roots = {}
  BY <1>4 DEF CollectedOf
<1>16. g.rc = c.rc
  BY <1>11, <1>12
<1>17. g.col = c.col
  <2>1. g.col \in [Node -> {"black", "purple", "grey", "white"}] /\ c.col \in [Node -> {"black", "purple"}]
    BY <1>2, <1>4 DEF Calm, Midway, CollectedOf, Heaps
  <2> QED
    BY <1>13, <2>1
<1>18. g.addr = c.addr
  <2>1. g.addr \in [Node -> {"null", "root", "list"}] /\ c.addr \in [Node -> {"null", "root", "list"}]
    BY <1>2, <1>4 DEF Calm, Midway, CollectedOf, Heaps
  <2> QED
    BY <1>14, <2>1
<1>19. /\ g.list = G \cap Zval /\ g.roots = c.roots
       /\ g.rc = c.rc /\ g.col = c.col /\ g.addr = c.addr
  BY <1>2, <1>8, <1>15, <1>16, <1>17, <1>18
<1> QED
  BY <1>19 DEF c

\* So does gc_collect_roots end.
LEMMA CollectPhase ==
    ASSUME NEW h, Fit(h), NEW m, Marked(h, m), NEW s, Scanned(h, m, s), NEW order \in Orders(h.roots)
    PROVE  LET g == Phase("collect_root", s, order)
           IN  Collecting(h, s, g, {}) /\ g.todo = <<>>
<1>1. /\ Calm(h, s) /\ s \in Midway(h) /\ s.list = {} /\ s.roots = m.roots /\ m.roots \subseteq h.roots /\ s.addr = m.addr
      /\ \A x \in Node : s.col[x] = IF x \in Garbage(h) THEN "white"
                                    ELSE IF x \in Found(h) THEN "black" ELSE h.col[x]
      /\ \A x \in Node : m.addr[x] = IF x \in h.roots \ m.roots THEN "null" ELSE h.addr[x]
  BY DEF Marked, Scanned, Calm
<1>2. /\ h \in Heaps /\ Kinds(h) /\ h.roots \in SUBSET Node /\ s.rc \in [Node -> Int]
      /\ Garbage(h) \in SUBSET Node
  BY <1>1, FoundIs DEF Fit, Heaps, Midway, Garbage
<1>3. "collect_root" \in CallNames
  BY DEF CallNames
<1>4. PICK f : /\ Calm(h, f) /\ Phase("collect_root", s, order) = Traverse(f)
               /\ Members(f.todo) = {<<"collect_root", x>> : x \in h.roots}
               /\ f.rc = s.rc /\ f.col = s.col /\ f.addr = s.addr /\ f.roots = s.roots /\ f.list = s.list
  BY <1>1, <1>2, <1>3, PhaseStart
<1>5. Seen(h, f) = {}
  BY <1>1, <1>2, <1>4 DEF Seen
<1>6. \A x : Cardinality(Returned(h, f, x)) = 0
  <2>1. \A x : Returned(h, f, x) = {}
    BY <1>5 DEF Returned
  <2> QED
    BY <2>1, FS_EmptySet
<1>7. Collecting(h, s, f, {})
  <2>1. \A x \in Zval : f.rc[x] = s.rc[x] + Cardinality(Returned(h, f, x)) + (IF x \in Seen(h, f) THEN 1 ELSE 0)
    <3> SUFFICES ASSUME NEW x \in Zval
                 PROVE  f.rc[x] = s.rc[x] + Cardinality(Returned(h, f, x)) + (IF x \in Seen(h, f) THEN 1 ELSE 0)
      OBVIOUS
    <3>1. s.rc[x] \in Int
      BY <1>2, Apartness
    <3> QED
      BY <1>4, <1>5, <1>6, <3>1
  <2>2. /\ \A x \in f.roots : <<"collect_root", x>> \in Members(f.todo)
        /\ \A t \in Members(f.todo) : \E x \in h.roots : t = <<"collect_root", x>>
    BY <1>1, <1>4
  <2>3. \A x \in Node : f.addr[x] = IF x \in h.roots \ f.roots THEN "null" ELSE h.addr[x]
    BY <1>1, <1>4
  <2> QED
    BY <1>1, <1>4, <1>5, <2>1, <2>2, <2>3 DEF Collecting
<1> DEFINE I == {g \in Midway(h) : Collecting(h, s, g, {})}  W == [g \in I |-> ToCollect(h, g)]
<1>8. f \in I /\ W \in [I -> Nat] /\ W[f] = ToCollect(h, f)
  BY <1>4, <1>7, CollectingNat DEF Calm
<1>9. ASSUME NEW g \in I, g.todo # <<>> PROVE Step(g) \in I /\ W[Step(g)] < W[g]
  <2>1. Collecting(h, s, g, {})
    OBVIOUS
  <2>2. Collecting(h, s, Step(g), {}) /\ ToCollect(h, Step(g)) < ToCollect(h, g)
    BY <1>9, <2>1, CollectCallStep
  <2>3. Step(g) \in Midway(h)
    BY <2>2 DEF Collecting, Calm
  <2> QED
    BY <2>2, <2>3
<1>10. W[f] <= Len(f.todo) + 2 * Cardinality(LinkSet(f, Node)) /\ Len(f.todo) \in Nat
  <2> DEFINE n == Cardinality(LinkSet(h, Node))  a == Cardinality(LinkSet(h, Garbage(h) \ Seen(h, f)))
  <2>1. ToCollect(h, f) = Len(f.todo) + a
    BY DEF ToCollect
  <2>2. n \in Nat /\ a \in Nat /\ Len(f.todo) \in Nat
    BY <1>4, LinksFinite, CalmLength
  <2>3. a <= n
    <3>1. LinkSet(h, Garbage(h) \ Seen(h, f)) \subseteq LinkSet(h, Node)
      BY <1>2 DEF LinkSet
    <3> QED
      BY <3>1, LinksFinite, FS_Subset
  <2>4. Cardinality(LinkSet(f, Node)) = n
    BY <1>4, LinksSame DEF Calm
  <2> HIDE DEF n, a, W
  <2>5. a <= 2 * n
    BY <2>2, <2>3
  <2>6. 2 * Cardinality(LinkSet(f, Node)) = 2 * n /\ 2 * n \in Nat
    BY <2>2, <2>4
  <2> QED
    BY <1>8, <2>1, <2>2, <2>5, <2>6
<1>0. \A x \in Node : Out(f, x) \in SUBSET Node
  BY <1>2, <1>4, OutNodes
<1> HIDE DEF I, W
<1>11. Traverse(f) \in I /\ Traverse(f).todo = <<>>
  BY <1>8, <1>9, <1>10, <1>0, TraverseEnds
<1>12. Collecting(h, s, Traverse(f), {})
  BY <1>11 DEF I
<1> QED
  BY <1>4, <1>11, <1>12

\* The traversals find what ZendGc says, in whatever order they visit the roots.
LEMMA PhasesRight ==
    ASSUME NEW h, Fit(h), NEW order \in Orders(h.roots) PROVE Agree(h, Collected(h), Garbage(h), order)
<1> DEFINE m == Phase("mark_root", During(h), order)  s == Phase("scan_root", m, order)
           g == Phase("collect_root", s, order)
<1>1. h \in Heaps /\ Kinds(h) /\ PurpleRoots(h)
  BY DEF Fit
<1>2. Marked(h, m)
  BY <1>1, MarkPhase
<1> HIDE DEF m
<1>3. Scanned(h, m, s)
  BY <1>1, <1>2, ScanPhase
<1> HIDE DEF s
<1>4. Collecting(h, s, g, {}) /\ g.todo = <<>>
  BY <1>2, <1>3, CollectPhase
<1> HIDE DEF g
<1>5. LET c == Collected(h)
      IN  /\ g.list = Garbage(h) \cap Zval /\ g.roots = c.roots
          /\ g.rc = c.rc /\ g.col = c.col /\ g.addr = c.addr
  BY <1>2, <1>3, <1>4, CollectingEnds
<1>6. m.todo = <<>> /\ s.todo = <<>>
  BY <1>2, <1>3 DEF Marked, Scanned
<1> QED
  BY <1>4, <1>5, <1>6 DEF Agree, m, s, g

-----------------------------------------------------------------------------
(* The roots are purple.                                                    *)

\* The roots of g are roots of h that have kept their colour.
Keeps(g, h) == g.roots \subseteq h.roots /\ \A x \in g.roots : g.col[x] = h.col[x]

\* Roots that have kept their colour are purple.
LEMMA KeptPurple ==
    ASSUME NEW h, NEW g, Keeps(g, h), PurpleRoots(h) PROVE PurpleRoots(g)
  BY DEF Keeps, PurpleRoots

\* Counts, types, elements and marks of destructors have nothing to do with it.
LEMMA SameRoots ==
    ASSUME NEW h \in Heaps, NEW x, NEW v, NEW y, NEW w
    PROVE  /\ Keeps([h EXCEPT !.rc[x] = v], h)
           /\ Keeps([h EXCEPT !.done[x] = v], h)
           /\ Keeps([h EXCEPT !.done[x] = v, !.rc[y] = w], h)
           /\ Keeps([h EXCEPT !.kids[x] = v], h)
           /\ Keeps([h EXCEPT !.kids[x] = v, !.rc[y] = w], h)
           /\ Keeps([h EXCEPT !.type[x] = v, !.kids[y] = w], h)
           /\ Keeps([h EXCEPT !.rc[x] = v, !.type[y] = w], h)
  BY DEF Heaps, Keeps

\* What leaves the buffer is black.
LEMMA UnlistKeeps ==
    ASSUME NEW h \in Heaps, NEW x
    PROVE  Keeps(Unlist(h, x), h) /\ DOMAIN Unlist(h, x) = DOMAIN h
<1>1. CASE h.addr[x] = "root"
  BY <1>1 DEF Heaps, Keeps, Unlist
<1>2. CASE h.addr[x] # "root"
  BY <1>2 DEF Keeps, Unlist
<1> QED
  BY <1>1, <1>2

\* What becomes a root is purple, and no other colour changes.
LEMMA AsRootPurple ==
    ASSUME NEW h \in Heaps, NEW x \in Node, PurpleRoots(h)
    PROVE  PurpleRoots(AsRoot(h, x)) /\ PurpleRoots([h EXCEPT !.col[x] = "purple"])
<1> DEFINE f == AsRoot(h, x)  g == [h EXCEPT !.col[x] = "purple"]
<1>1. f.roots = h.roots \cup {x} /\ f.col = g.col /\ g.roots = h.roots /\ h.roots \subseteq Node
  BY DEF AsRoot, Heaps
<1>2. \A y \in Node : g.col[y] = IF y = x THEN "purple" ELSE h.col[y]
  BY DEF Heaps
<1> HIDE DEF f, g
<1>3. PurpleRoots(f) /\ PurpleRoots(g)
  BY <1>1, <1>2 DEF PurpleRoots
<1> QED
  BY <1>3 DEF f, g

\* Nothing is left in the buffer by a collection.
LEMMA CollectPurple ==
    ASSUME NEW h, NEW g \in Heaps, DOMAIN h = DOMAIN g, NEW st, Collect(h, st) PROVE PurpleRoots(heap')
<1>1. "roots" \in DOMAIN h
  BY DEF Heaps
<1>2. Collected(h).roots = {}
  BY SMTT(60), <1>1 DEF Collected
<1> QED
  BY <1>2 DEF Collect, PurpleRoots

\* A node is purple before it is put into the buffer.
LEMMA BufferPurple ==
    ASSUME NEW h \in Heaps, NEW x \in Node, NEW z, NEW st, PurpleRoots(h), Buffer(h, x, z, st)
    PROVE  PurpleRoots(heap')
<1> DEFINE c == [h EXCEPT !.col[x] = "purple", !.rc[z] = @ + 1]
<1>1. heap' = Buffered(h, x) \/ Collect(c, st \o <<<<"buffer", x, z>>>>)
  BY DEF Buffer, Continues
<1>2. DOMAIN c = DOMAIN h
  OBVIOUS
<1> HIDE DEF c
<1>3. PurpleRoots(Buffered(h, x))
  BY AsRootPurple DEF Buffered
<1> QED
  BY <1>1, <1>2, <1>3, CollectPurple

\* _zval_ptr_dtor makes a node purple that it puts into the buffer.
LEMMA PtrDtorPurple ==
    ASSUME NEW h \in Heaps, Kinds(h), NEW z \in Zval, NEW st, PurpleRoots(h), PtrDtor(h, z, st)
    PROVE  PurpleRoots(heap')
<1> DEFINE v == h.rc[z] - 1
           f == SetRc(h, z, v)
           u == Unlist(f, z)
           g == [u EXCEPT !.type[z] = "null", !.kids[z] = {}]
<1>1. z \in Node /\ v \in Int
  BY Apartness DEF Heaps
<1>2. RcOf(f, h, z, v)
  <2> HIDE DEF v
  <2> QED
    BY <1>1, RcFields
<1>3. \/ PossibleRoot(f, z, st)
      \/ Continues(g, st, <<<<"efree", z>>, <<"check", z>>, <<"delref", f.obj[z]>>>>)
      \/ Continues(g, st, <<<<"efree", z>>>> \o Drops(f.kids[z]))
  BY DEF PtrDtor, SetRc
<1> HIDE DEF v, f
<1>4. f \in Heaps /\ PurpleRoots(f) /\ f.type = h.type /\ f.obj = h.obj
  BY <1>2 DEF RcOf, PurpleRoots
<1>5. Keeps(u, f) /\ DOMAIN u = DOMAIN f
  BY <1>4, UnlistKeeps
<1>6. PurpleRoots(u)
  BY <1>4, <1>5, KeptPurple
<1>7. PurpleRoots(g)
  <2> HIDE DEF u
  <2>1. g.roots = u.roots /\ g.col = u.col
    BY <1>4, <1>5 DEF Heaps
  <2> QED
    BY <1>6, <2>1 DEF PurpleRoots
<1> HIDE DEF g
<1>8. ASSUME PossibleRoot(f, z, st) PROVE PurpleRoots(heap')
  <2>1. CASE Continues(f, st, <<>>)
    BY <1>4, <2>1 DEF Continues
  <2>2. CASE f.type[z] = "object" /\ Buffer(f, f.obj[z], z, st)
    <3>1. f.obj[z] \in Node
      BY <1>4, <2>2, Apartness DEF Kinds
    <3> QED
      BY <1>4, <2>2, <3>1, BufferPurple
  <2>3. CASE Buffer(f, z, z, st)
    BY <1>1, <1>4, <2>3, BufferPurple
  <2> QED
    BY <1>8, <2>1, <2>2, <2>3 DEF PossibleRoot, BufferObject
<1> QED
  BY <1>3, <1>7, <1>8 DEF Continues

\* So does zend_objects_store_del_ref_by_handle_ex leave the roots.
LEMMA ReleasePurple ==
    ASSUME NEW h \in Heaps, NEW o, NEW st, PurpleRoots(h), Release(h, o, st)
    PROVE  PurpleRoots(heap')
<1> DEFINE u == Unlist(h, o)
           g == [u EXCEPT !.kids[o] = {}]
<1>1. \/ heap' = [h EXCEPT !.rc[o] = h.rc[o] - 1]
      \/ heap' = [h EXCEPT !.done[o] = TRUE, !.rc[o] = h.rc[o] + 1]
      \/ heap' = g
  BY DEF Release, Continues, Heaps
<1>2. Keeps(u, h) /\ DOMAIN u = DOMAIN h
  BY UnlistKeeps
<1>3. PurpleRoots(u)
  BY <1>2, KeptPurple
<1>4. PurpleRoots(g)
  <2> HIDE DEF u
  <2>1. g.roots = u.roots /\ g.col = u.col
    BY SMTT(60), <1>2 DEF Heaps
  <2> QED
    BY <1>3, <2>1 DEF PurpleRoots
<1> HIDE DEF g
<1>5. ASSUME NEW v, heap' = [h EXCEPT !.rc[o] = v] PROVE PurpleRoots(heap')
  BY ZenonT(60), <1>5, SameRoots, KeptPurple
<1>6. ASSUME NEW v, heap' = [h EXCEPT !.done[o] = TRUE, !.rc[o] = v] PROVE PurpleRoots(heap')
  BY Zenon, <1>6, SameRoots, KeptPurple
<1> QED
  BY <1>1, <1>4, <1>5, <1>6

\* What is freed is in no buffer.
LEMMA FreedPurple ==
    ASSUME NEW h \in Heaps, NEW S, S \cap h.roots = {}, PurpleRoots(h) PROVE PurpleRoots(Freed(h, S))
<1>1. FreedOf(Freed(h, S), h, S) /\ h.roots \subseteq Node
  BY FreedFields DEF Heaps
<1> QED
  BY <1>1 DEF FreedOf, PurpleRoots

\* What a destructor or a collection interrupts leaves the roots purple.
LEMMA WorkPurple ==
    ASSUME IsGood, PurpleRoots(heap), Work PROVE PurpleRoots(heap')
<1>1. /\ heap \in Heaps /\ Kinds(heap) /\ Rooted(heap) /\ stack \in Seq(Tasks)
      /\ Lists(heap, stack) /\ Calls(heap, stack) /\ Dying(heap, held, stack)
  BY DEF IsGood, Good, AlmostGood, Shape
<1>2. ASSUME Top # "none"
      PROVE  Task \in Tasks /\ Len(stack) \in 1 .. Len(stack) /\ stack[Len(stack)] = Task /\ Task[1] = Top
  <2>1. Task \in Tasks /\ Task[1] = Top
    BY <1>1, <1>2, TopTask
  <2>2. stack # <<>>
    BY <1>2 DEF Top
  <2> QED
    BY <1>1, <2>1, <2>2 DEF Task
<1>3. ASSUME NEW z \in Zval, Drop(z) PROVE PurpleRoots(heap')
  BY <1>1, <1>3, PtrDtorPurple DEF Drop
<1>4. ASSUME NEW z \in Zval, Check(z) PROVE PurpleRoots(heap')
  <2>1. Top = "check" /\ Top # "none" /\ z = Task[2] /\ BufferObject(heap, z, Below)
    BY <1>4 DEF Check
  <2> HIDE DEF Task
  <2>2. heap.obj[z] \in Object
    BY <1>1, <1>2, <2>1 DEF Dying
  <2> QED
    BY <1>1, <2>1, <2>2, BufferPurple, Apartness DEF BufferObject, Continues
<1>5. ASSUME NEW z \in Zval, Efree(z) PROVE PurpleRoots(heap')
  <2>1. Top = "efree" /\ Top # "none" /\ z = Task[2] /\ heap' = Freed(heap, {z})
    BY <1>5 DEF Efree, Becomes, Continues
  <2> HIDE DEF Task
  <2>2. heap.addr[z] = "null" /\ z \in Node
    BY <1>1, <1>2, <2>1, Apartness DEF Dying
  <2>3. {z} \cap heap.roots = {}
    BY <1>1, <2>2 DEF Rooted
  <2> QED
    BY <1>1, <2>1, <2>3, FreedPurple
<1>6. ASSUME NEW o \in Object, DelRef(o) PROVE PurpleRoots(heap')
  BY <1>1, <1>6, ReleasePurple DEF DelRef
<1>7. ASSUME NEW o \in Object, Gone(o) PROVE PurpleRoots(heap')
  <2>1. Top = "gone" /\ Top # "none" /\ o = Task[2] /\ heap' = Freed(heap, {o})
    BY <1>7 DEF Gone, Becomes, Continues
  <2> HIDE DEF Task
  <2>2. heap.addr[o] # "root" /\ o \in Node
    BY <1>1, <1>2, <2>1, Apartness DEF Calls
  <2>3. {o} \cap heap.roots = {}
    BY <1>1, <2>2 DEF Rooted
  <2> QED
    BY <1>1, <2>1, <2>3, FreedPurple
<1>8. ASSUME NEW x \in Node, NEW z \in Zval, BufferAfterCollect(x, z) PROVE PurpleRoots(heap')
  <2> DEFINE v == heap.rc[z] - 1
             h == [heap EXCEPT !.rc[z] = v]
  <2>1. heap' = h \/ heap' = AsRoot(h, x)
    BY <1>8 DEF BufferAfterCollect, Becomes, Continues
  <2>2. z \in Node /\ v \in Int
    BY <1>1, Apartness DEF Heaps
  <2>3. h \in Heaps /\ h.roots = heap.roots /\ h.col = heap.col
    <3> HIDE DEF v
    <3>1. RcOf(h, heap, z, v)
      BY <1>1, <2>2, RcFields DEF SetRc
    <3> HIDE DEF h
    <3> QED
      BY <3>1 DEF RcOf
  <2> HIDE DEF h
  <2>4. PurpleRoots(h)
    BY <1>8, <2>3 DEF PurpleRoots
  <2> QED
    BY <2>1, <2>3, <2>4, AsRootPurple
<1>9. ASSUME CallDestructors PROVE PurpleRoots(heap')
  <2>1. heap' = heap \/ \E o, v : heap' = [heap EXCEPT !.done[o] = TRUE, !.rc[o] = v]
    BY ZenonT(60), <1>9 DEF CallDestructors, Becomes, Continues
  <2>2. ASSUME NEW o, NEW v, heap' = [heap EXCEPT !.done[o] = TRUE, !.rc[o] = v] PROVE PurpleRoots(heap')
    BY ZenonT(60), <1>1, <2>2, SameRoots, KeptPurple
  <2> QED
    BY ZenonT(60), <2>1, <2>2
<1>10. ASSUME Destroy PROVE PurpleRoots(heap')
  <2>1. Top = "destroy" /\ Top # "none"
    BY <1>10 DEF Destroy
  <2>2. CASE heap' = Freed(heap, {Task[2][i] : i \in DOMAIN Task[2]})
    <3>1. InList(Task) = {Task[2][i] : i \in DOMAIN Task[2]} /\ Task[2] \in Seq(Zval)
      BY <1>2, <2>1, TaskType DEF InList
    <3>2. \A z \in InList(Task) : z \in Node /\ heap.addr[z] = "list"
      <4> HIDE DEF Task
      <4>1. InList(Task) \subseteq Zval
        BY <3>1
      <4> QED
        BY <1>1, <1>2, <2>1, <4>1, Apartness DEF Lists
    <3>3. InList(Task) \cap heap.roots = {}
      BY <1>1, <3>2 DEF Rooted
    <3> QED
      BY <1>1, <2>2, <3>1, <3>3, FreedPurple
  <2>3. ASSUME NEW z \in Zval, NEW next,
               Release([heap EXCEPT !.rc[heap.obj[z]] = 1, !.type[z] = "null"], heap.obj[z], next)
        PROVE  PurpleRoots(heap')
    <3> DEFINE h == [heap EXCEPT !.rc[heap.obj[z]] = 1, !.type[z] = "null"]
    <3>1. h \in Heaps
      <4>1. ASSUME NEW o PROVE [heap EXCEPT !.rc[o] = 1, !.type[z] = "null"] \in Heaps
        <5> DEFINE rc == [heap.rc EXCEPT ![o] = 1]  type == [heap.type EXCEPT ![z] = "null"]
        <5>1. rc \in [Node -> Int] /\ type \in [Node -> {"free", "array", "object", "null", "valid"}]
          <6>1. \A S, T, y : \A f \in [S -> T], w \in T : [f EXCEPT ![y] = w] \in [S -> T]
            OBVIOUS
          <6>2. /\ heap.rc \in [Node -> Int] /\ 1 \in Int
                /\ heap.type \in [Node -> {"free", "array", "object", "null", "valid"}]
                /\ "null" \in {"free", "array", "object", "null", "valid"}
            BY <1>1 DEF Heaps
          <6> QED
            BY <6>1, <6>2
        <5>2. [heap EXCEPT !.rc[o] = 1, !.type[z] = "null"] = [heap EXCEPT !.rc = rc, !.type = type]
          BY <1>1 DEF Heaps
        <5> HIDE DEF rc, type
        <5>3. [heap EXCEPT !.rc = rc, !.type = type] \in Heaps
          BY ZenonT(60), <1>1, <5>1 DEF Heaps
        <5> QED
          BY <5>2, <5>3
      <4> QED
        BY <4>1
    <3>2. PurpleRoots(h)
      BY Zenon, <1>1, SameRoots, KeptPurple
    <3> HIDE DEF h
    <3> QED
      BY <2>3, <3>1, <3>2, ReleasePurple DEF h
  <2>4. ASSUME NEW z \in Zval, heap' = [heap EXCEPT !.type[z] = "null", !.kids[z] = {}]
        PROVE  PurpleRoots(heap')
    BY ZenonT(60), <1>1, <2>4, SameRoots, KeptPurple
  <2>5. \/ heap' = Freed(heap, {Task[2][i] : i \in DOMAIN Task[2]})
        \/ \E i \in DOMAIN Task[3] : \E next :
              \/ Release([heap EXCEPT !.rc[heap.obj[Task[3][i]]] = 1, !.type[Task[3][i]] = "null"],
                         heap.obj[Task[3][i]], next)
              \/ heap' = [heap EXCEPT !.type[Task[3][i]] = "null", !.kids[Task[3][i]] = {}]
    <3> HIDE DEF Task
    <3> QED
      BY Zenon, <1>10 DEF Destroy, Becomes, Continues
  <2>6. \A i \in DOMAIN Task[3] : Task[3][i] \in Zval
    <3>1. Task[3] \in Seq(Zval)
      BY <1>2, <2>1, TaskType
    <3> QED
      BY <3>1
  <2> HIDE DEF Task
  <2> QED
    BY ZenonT(60), <2>2, <2>3, <2>4, <2>5, <2>6
<1>11. ASSUME NEW o \in Object, ReturnAfterCollect(o) PROVE PurpleRoots(heap')
  <2> DEFINE g == IF Cardinality(heap.roots) = MaxRoots THEN heap ELSE AsRoot(heap, o)
  <2>1. heap' = [g EXCEPT !.rc[o] = @ - 1]
    BY <1>11 DEF ReturnAfterCollect, Leaves, Continues
  <2>2. o \in Node
    BY Apartness
  <2>3. g \in Heaps
    <3>1. AsRoot(heap, o) \in Heaps
      BY <1>1, <2>2 DEF AsRoot, Heaps
    <3> QED
      BY <1>1, <3>1
  <2>4. PurpleRoots(g)
    BY <1>1, <2>2, AsRootPurple
  <2> HIDE DEF g
  <2>5. ASSUME NEW v, heap' = [g EXCEPT !.rc[o] = v] PROVE PurpleRoots(heap')
    BY Zenon, <2>3, <2>4, <2>5, SameRoots, KeptPurple
  <2> QED
    BY <2>1, <2>5
<1> QED
  BY <1>3, <1>4, <1>5, <1>6, <1>7, <1>8, <1>9, <1>10, <1>11 DEF Work

\* So does what the script does.
LEMMA ScriptPurple ==
    ASSUME IsGood, PurpleRoots(heap), Script PROVE PurpleRoots(heap')
<1>1. heap \in Heaps /\ Kinds(heap)
  BY DEF IsGood, Good, AlmostGood
<1>2. ASSUME NEW z \in Zval, NewArray(z) PROVE PurpleRoots(heap')
  <2>1. heap' = NewZval(heap, z, "array", NoObject)
    BY <1>2 DEF NewArray, New, NewZval
  <2>2. IsNew(heap', heap, z, "array", NoObject)
    BY <1>1, <2>1, NewFields
  <2> QED
    BY <2>2 DEF IsNew, NewOf, PurpleRoots
<1>3. ASSUME NEW z \in Zval, Unset(z) PROVE PurpleRoots(heap')
  BY <1>1, <1>3, PtrDtorPurple DEF Unset
<1>4. ASSUME NEW z \in Zval, NEW o \in Object, NewObject(z, o) \/ Copy(z, o) PROVE PurpleRoots(heap')
  <2>1. heap'.roots = heap.roots /\ heap'.col = heap.col
    BY ZenonT(60), <1>1, <1>4 DEF NewObject, Copy, New, Heaps
  <2> QED
    BY <2>1 DEF PurpleRoots
<1>5. ASSUME NEW c \in Node, NEW z \in Zval, Link(c, z) PROVE PurpleRoots(heap')
  <2>1. heap'.roots = heap.roots /\ heap'.col = heap.col
    BY <1>1, <1>5 DEF Link, Heaps
  <2> QED
    BY <2>1 DEF PurpleRoots
<1>6. ASSUME NEW c \in Node, NEW z \in Zval, Unlink(c, z) PROVE PurpleRoots(heap')
  <2> DEFINE S == heap.kids[c] \ {z}  h == SetKids(heap, c, S)
  <2>1. S \in SUBSET Zval /\ PtrDtor(h, z, stack)
    BY <1>1, <1>6 DEF Unlink, Heaps, SetKids
  <2>2. heap.type[c] \in {"array", "valid"}
    BY <1>1, <1>6 DEF Unlink, Kinds
  <2> HIDE DEF S
  <2>3. KidsOf(h, heap, c, S)
    BY <1>1, <2>1, KidsFields
  <2> HIDE DEF h
  <2>4. h \in Heaps /\ Kinds(h) /\ PurpleRoots(h)
    BY <1>1, <2>2, <2>3 DEF KidsOf, Kinds, PurpleRoots
  <2> QED
    BY <2>1, <2>4, PtrDtorPurple
<1>7. ASSUME CollectCycles PROVE PurpleRoots(heap')
  <2>1. heap'.roots = {}
    BY SMTT(60), <1>1, <1>7 DEF CollectCycles, Collect, Collected, Heaps
  <2> QED
    BY <2>1 DEF PurpleRoots
<1>8. ASSUME DestructorReturns PROVE PurpleRoots(heap')
  <2> DEFINE o == Task[2]  g == Buffered(heap, o)  c == [heap EXCEPT !.col[o] = "purple"]
  <2>1. heap' = [g EXCEPT !.rc[o] = @ - 1] \/ Collect(c, Append(stack, <<"return", o>>))
    BY <1>8 DEF DestructorReturns, Leaves, Continues
  <2>2. o \in Node
    <3>1. Top # "none" /\ Top = "user" /\ stack \in Seq(Tasks)
      BY <1>8 DEF DestructorReturns, IsGood, Good, AlmostGood
    <3>2. Task \in Tasks /\ Task[1] = "user"
      BY <3>1, TopTask
    <3> QED
      BY <3>2, TaskType, Apartness
  <2> HIDE DEF o
  <2>3. DOMAIN c = DOMAIN heap
    OBVIOUS
  <2> HIDE DEF c
  <2>4. g \in Heaps
    <3>1. AsRoot(heap, o) \in Heaps /\ [heap EXCEPT !.col[o] = "purple"] \in Heaps
      BY <1>1, <2>2 DEF AsRoot, Heaps
    <3> QED
      BY <1>1, <3>1 DEF Buffered
  <2>5. PurpleRoots(g)
    BY <1>1, <2>2, AsRootPurple DEF Buffered
  <2> HIDE DEF g
  <2>6. ASSUME NEW v, heap' = [g EXCEPT !.rc[o] = v] PROVE PurpleRoots(heap')
    BY Zenon, <2>4, <2>5, <2>6, SameRoots, KeptPurple
  <2> QED
    BY <1>1, <2>1, <2>3, <2>6, CollectPurple
<1> QED
  BY <1>2, <1>3, <1>4, <1>5, <1>6, <1>7, <1>8 DEF Script

-----------------------------------------------------------------------------
\* The roots are purple between two calls of the collector.
PurpleInv == spoilt \/ PurpleRoots(heap)

\* Every action leaves the roots purple.
LEMMA StepPurple ==
    ASSUME IInv, PurpleInv, [Next]_vars PROVE PurpleInv'
<1>1. CASE UNCHANGED vars
  BY <1>1 DEF vars, PurpleInv, PurpleRoots
<1>2. CASE Next
  BY <1>2, WorkPurple, ScriptPurple DEF Next, IInv, PurpleInv, PurpleRoots
<1> QED
  BY <1>1, <1>2

\* In every behaviour a node of the root buffer is purple whenever the
\* collector may be called: gc_mark_roots takes a root that is not for one that
\* another root has led to, and drops it from the buffer.
THEOREM RootsPurple == Spec => []PurpleInv
<1>1. Init => PurpleInv
  BY DEF Init, PurpleInv, PurpleRoots
<1> QED
  BY <1>1, StepPurple, AlwaysGood, PTL DEF Spec

\* In a state like that the traversals agree with what ZendGc says.
LEMMA GoodPhases == ASSUME IInv, PurpleInv PROVE PhasesAgree
<1> SUFFICES ASSUME ~spoilt, NEW order \in Orders(heap.roots) PROVE Agree(heap, Collected(heap), Garbage(heap), order)
  BY DEF PhasesAgree
<1>1. Good(heap, held, stack) /\ PurpleRoots(heap)
  BY DEF IInv, IsGood, PurpleInv
<1>2. heap \in Heaps /\ Kinds(heap) /\ Rooted(heap)
  BY <1>1 DEF Good, AlmostGood
<1>3. \A x \in Garbage(heap) : heap.addr[x] # "list"
  BY <1>1, GarbageIsolated
<1> QED
  BY <1>1, <1>2, <1>3, PhasesRight DEF Fit

\* Whenever gc_collect_cycles may be called, its three traversals end, whatever
\* the order of the roots, condemn the zvals that ZendGc says are garbage, and
\* leave counts, colours and the buffer as ZendGc says.
THEOREM TraversalsAgree == Spec => []PhasesAgree
<1> QED
  BY GoodPhases, RootsPurple, AlwaysGood, PTL

===============================================================================
