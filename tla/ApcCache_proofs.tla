--------------------------- MODULE ApcCache_proofs ---------------------------
(***************************************************************************)
(* Proofs about ApcCache for any processes, keys, values and memory: the   *)
(* lock, its private depth and busy agree, and until an expunge inside an  *)
(* insertion tears a bucket, the bucket is intact, what is read is not     *)
(* freed, no block is lost, and the cache implements EvictingMap.          *)
(***************************************************************************)
EXTENDS ApcCache, FiniteSetTheorems, TLAPS

-----------------------------------------------------------------------------
(* Types and the lock.                                                     *)

Allocating(p) == pc[p] \in {"alloc", "expunge", "wipe"}

\* The process fills the place of a slot in the bucket, under the lock.
Linking(p) == pc[p] = "link" \/ (Allocating(p) /\ want[p] = "slot")

\* How often the process has locked the cache: an insertion, and in it or
\* alone an expunge or a clear.
Depth(p) == (IF Linking(p) \/ pc[p] = "clear" THEN 1 ELSE 0) + (IF pc[p] = "wipe" THEN 1 ELSE 0)

\* The process has a pool that it fills or an entry that it reads, or has none.
HasPool(p) == pc[p] \in {"entry", "insert", "insertlock", "link", "holding"}
              \/ (Allocating(p) /\ want[p] \in {"entry", "slot"})
HasNone(p) == pc[p] \in {"idle", "find", "findlock", "clear"}
              \/ (Allocating(p) /\ want[p] = "pool")

LInv ==
    /\ \A p \in Proc : /\ has_lock[p] = Depth(p)
                       /\ HasPool(p) => ent[p] # NULL
                       /\ HasNone(p) => ent[p] = NULL
                       /\ Allocating(p) => want[p] # "none"
    /\ LockAgrees

\* What is freed keeps its type.
LEMMA FreeType ==
    ASSUME TypeOK, NEW S, Free(S)
    PROVE  /\ pool' \in [Block -> Block \cup {NULL}]
           /\ key' \in [Block -> Key \cup {NULL}] /\ val' \in [Block -> Val \cup {NULL}]
           /\ refs' \in [Block -> Int] /\ leaks' \in [Block -> Nat]
BY DEF TypeOK, Free

LEMMA NumberType ==
    ASSUME TypeOK, NEW S \in SUBSET Block
    PROVE  num_entries - Cardinality(S) \in Int
<1>1. Cardinality(S) \in Nat
  BY FiniteAssumption, FS_Subset, FS_CardinalityType DEF FiniteAssumption
<1> QED
  BY <1>1 DEF TypeOK

LEMMA PendingType ==
    ASSUME TypeOK, NEW G \in GcTtl, NEW S \in SUBSET linked, PendingAndRemove(G, S)
    PROVE  /\ pool' \in [Block -> Block \cup {NULL}]
           /\ key' \in [Block -> Key \cup {NULL}] /\ val' \in [Block -> Val \cup {NULL}]
           /\ refs' \in [Block -> Int] /\ leaks' \in [Block -> Nat]
           /\ linked' \subseteq Block /\ deleted' \subseteq Block /\ num_entries' \in Int
<1>1. S \in SUBSET Block
  BY DEF TypeOK
<1>2. num_entries' \in Int
  BY <1>1, NumberType DEF PendingAndRemove
<1>3. linked' \subseteq Block /\ deleted' \subseteq Block
  BY <1>1 DEF PendingAndRemove, TypeOK, InUse
<1> QED
  BY <1>2, <1>3, FreeType DEF PendingAndRemove

LEMMA RemoveType ==
    ASSUME TypeOK, NEW S \in SUBSET linked, Remove(S)
    PROVE  /\ pool' \in [Block -> Block \cup {NULL}]
           /\ key' \in [Block -> Key \cup {NULL}] /\ val' \in [Block -> Val \cup {NULL}]
           /\ refs' \in [Block -> Int] /\ leaks' \in [Block -> Nat]
           /\ linked' \subseteq Block /\ deleted' \subseteq Block /\ num_entries' \in Int
<1>1. S \in SUBSET Block
  BY DEF TypeOK
<1>2. num_entries' \in Int
  BY <1>1, NumberType DEF Remove
<1>3. linked' \subseteq Block /\ deleted' \subseteq Block
  BY <1>1 DEF Remove, TypeOK, InUse
<1> QED
  BY <1>2, <1>3, FreeType DEF Remove

\* Return leaves nothing of the call.
LEMMA ReturnType ==
    ASSUME TypeOK, NEW p \in Proc, Return(p)
    PROVE  /\ pc' = [pc EXCEPT ![p] = "idle"]
           /\ found' \in [Proc -> [k : Key \cup {NULL}, v : Val \cup {NULL}]]
           /\ ent' \in [Proc -> Block \cup {NULL}]
           /\ want' \in [Proc -> {"none", "pool", "entry", "slot"}]
           /\ tries' \in [Proc -> 0 .. 3]
           /\ at' \in [Proc -> {"head", "next"}] /\ rest' \in [Proc -> SUBSET Block]
<1>1. Nothing \in [k : Key \cup {NULL}, v : Val \cup {NULL}]
  BY DEF Nothing
<1> QED
  BY <1>1 DEF TypeOK, Return, Goto

\* Only the private depth can leave its type: the steps that count it.
LEMMA TypeStep ==
    ASSUME TypeOK, LInv, [Next]_vars
    PROVE  TypeOK'
<1> USE DEF shared, local, Frame
<1>1. ASSUME NEW p \in Proc, Store(p) \/ Fetch(p) PROVE TypeOK'
  <2>1. CASE Store(p)
    BY <2>1 DEF Store, CallAlloc, Goto, TypeOK
  <2>2. CASE Fetch(p)
    BY <2>2 DEF Fetch, Goto, TypeOK
  <2> QED
    BY <1>1, <2>1, <2>2
<1>2. ASSUME NEW p \in Proc, ClearBegins(p) PROVE TypeOK'
  BY <1>2 DEF ClearBegins, Goto, TypeOK
<1>3. ASSUME NEW p \in Proc, NEW k \in Key, Delete(p, k) PROVE TypeOK'
  <2>1. Remove(Same(k)) /\ Same(k) \in SUBSET linked
    BY <1>3 DEF Delete, Same
  <2> QED
    BY <1>3, <2>1, RemoveType DEF Delete, TypeOK
<1>4. ASSUME NEW p \in Proc, NEW b \in Block, AllocSucceeds(p, b) PROVE TypeOK'
  <2>1. PICK first \in Block \cup {NULL} : /\ pool' = [pool EXCEPT ![b] = first]
                                         /\ ent' = [ent EXCEPT ![p] = first]
    BY <1>4 DEF AllocSucceeds, TypeOK
  <2>2. PICK l \in {"entry", "insert", "link"} : pc' = [pc EXCEPT ![p] = l]
    BY <1>4 DEF AllocSucceeds, AllocReturns, Goto
  <2> QED
    BY <1>4, <2>1, <2>2 DEF AllocSucceeds, TypeOK
<1>5. ASSUME NEW p \in Proc, AllocRetries(p) \/ AllocFails(p) PROVE TypeOK'
  <2>1. CASE AllocRetries(p)
    <3>1. tries' \in [Proc -> 0 .. 3]
      BY <2>1 DEF AllocRetries, TypeOK
    <3> QED
      BY <2>1, <3>1 DEF AllocRetries, Goto, TypeOK
  <2>2. CASE AllocFails(p)
    BY <2>2 DEF AllocFails, Goto, TypeOK
  <2> QED
    BY <1>5, <2>1, <2>2
<1>6. ASSUME NEW p \in Proc, MakeSlotFails(p) PROVE TypeOK'
  <2>1. torn' \in BOOLEAN
    BY <1>6, Zenon DEF MakeSlotFails
  <2>2. linked' \subseteq Block
    BY <1>6 DEF MakeSlotFails, TypeOK
  <2> QED
    BY <1>6, <2>1, <2>2 DEF MakeSlotFails, Goto, TypeOK
<1>7. ASSUME NEW p \in Proc, NEW G \in GcTtl, ExpungeNotNeeded(p, G) PROVE TypeOK'
  <2>1. PendingAndRemove(G, {})
    BY <1>7 DEF ExpungeNotNeeded
  <2> QED
    BY <1>7, <2>1, PendingType DEF ExpungeNotNeeded, Goto, TypeOK
<1>8. ASSUME NEW p \in Proc, NEW G \in GcTtl, ExpungeBegins(p, G) PROVE TypeOK'
  <2>1. PendingAndRemove(G, {}) /\ pc[p] = "expunge"
    BY <1>8 DEF ExpungeBegins
  <2>2. has_lock[p] \in 0 .. 1
    BY <2>1 DEF LInv, Depth, Linking, Allocating
  <2>3. has_lock' \in [Proc -> 0 .. 2]
    BY <1>8, <2>2 DEF ExpungeBegins, TypeOK
  <2> QED
    BY <1>8, <2>1, <2>3, PendingType DEF ExpungeBegins, Goto, TypeOK
<1>9. ASSUME NEW p \in Proc, ExpungeEnds(p) PROVE TypeOK'
  <2>1. Remove(linked) /\ pc[p] = "wipe"
    BY <1>9 DEF ExpungeEnds
  <2>2. has_lock[p] \in 1 .. 2
    BY <2>1 DEF LInv, Depth, Linking, Allocating
  <2>3. has_lock' \in [Proc -> 0 .. 2]
    BY <1>9, <2>2 DEF ExpungeEnds, TypeOK
  <2>4. lock' \in Proc \cup {NULL}
    BY <1>9 DEF ExpungeEnds, TypeOK
  <2> QED
    BY <1>9, <2>1, <2>3, <2>4, RemoveType DEF ExpungeEnds, Goto, TypeOK
<1>10. ASSUME NEW p \in Proc, NEW k \in Key, NEW v \in Val, MakeEntry(p, k, v) PROVE TypeOK'
  <2>1. PICK l \in {"alloc", "insert"} : pc' = [pc EXCEPT ![p] = l]
    BY <1>10 DEF MakeEntry, CallAlloc, Goto
  <2>2. want' \in [Proc -> {"none", "pool", "entry", "slot"}] /\ tries' \in [Proc -> 0 .. 3]
    <3>1. CASE CallAlloc(p, "entry")
      BY <3>1 DEF CallAlloc, TypeOK
    <3>2. CASE UNCHANGED <<want, tries>>
      BY <3>2 DEF TypeOK
    <3> QED
      BY <1>10, <3>1, <3>2 DEF MakeEntry
  <2>3. /\ key' \in [Block -> Key \cup {NULL}] /\ val' \in [Block -> Val \cup {NULL}]
        /\ refs' \in [Block -> Int]
    <3>1. /\ key' = [key EXCEPT ![ent[p]] = k] /\ val' = [val EXCEPT ![ent[p]] = v]
          /\ refs' = [refs EXCEPT ![ent[p]] = 0]
      BY <1>10 DEF MakeEntry
    <3>2. /\ key \in [Block -> Key \cup {NULL}] /\ val \in [Block -> Val \cup {NULL}]
          /\ refs \in [Block -> Int]
      BY DEF TypeOK
    <3>3. key' \in [Block -> Key \cup {NULL}]
      BY <3>1, <3>2
    <3>4. val' \in [Block -> Val \cup {NULL}]
      BY <3>1, <3>2
    <3>5. refs' \in [Block -> Int]
      <4>1. ent[p] \in Block
        BY <1>10 DEF MakeEntry, LInv, HasPool, TypeOK
      <4> QED
        BY <3>1, <3>2, <4>1
    <3> QED
      BY <3>3, <3>4, <3>5
  <2> QED
    BY <1>10, <2>1, <2>2, <2>3 DEF MakeEntry, TypeOK
<1>11. ASSUME NEW p \in Proc, Refused(p) PROVE TypeOK'
  BY <1>11 DEF Refused, Goto, TypeOK
<1>12. ASSUME NEW p \in Proc, NotBusy(p) PROVE TypeOK'
  BY <1>12 DEF NotBusy, Goto, TypeOK
<1>13. ASSUME NEW p \in Proc, NEW G \in GcTtl, NEW X \in SUBSET linked, NEW behind \in SUBSET linked,
              InsertWalks(p, G, X, behind)
       PROVE  TypeOK'
  <2> DEFINE S == X \cup Same(key[ent[p]])
  <2>1. PendingAndRemove(G, S) /\ S \in SUBSET linked
    BY <1>13 DEF InsertWalks, Same
  <2>2. PICK h \in {"head", "next"} : at' = [at EXCEPT ![p] = h]
    BY <1>13 DEF InsertWalks
  <2>3. PICK l \in {"alloc", "link"} : pc' = [pc EXCEPT ![p] = l]
    BY <1>13 DEF InsertWalks, CallAlloc, Goto
  <2>4. want' \in [Proc -> {"none", "pool", "entry", "slot"}] /\ tries' \in [Proc -> 0 .. 3]
    <3>1. CASE CallAlloc(p, "slot")
      BY <3>1 DEF CallAlloc, TypeOK
    <3>2. CASE UNCHANGED <<want, tries>>
      BY <3>2 DEF TypeOK
    <3> QED
      BY <1>13, <3>1, <3>2 DEF InsertWalks
  <2>5. rest' \in [Proc -> SUBSET Block] /\ has_lock' \in [Proc -> 0 .. 2]
        /\ lock' \in Proc /\ UNCHANGED <<busy, ent, found, torn>>
    BY <1>13 DEF InsertWalks, TypeOK
  <2>6. /\ pool' \in [Block -> Block \cup {NULL}]
        /\ key' \in [Block -> Key \cup {NULL}] /\ val' \in [Block -> Val \cup {NULL}]
        /\ refs' \in [Block -> Int] /\ leaks' \in [Block -> Nat]
        /\ linked' \subseteq Block /\ deleted' \subseteq Block /\ num_entries' \in Int
    BY <2>1, PendingType
  <2> QED
    BY <2>2, <2>3, <2>4, <2>5, <2>6 DEF TypeOK
<1>14. ASSUME NEW p \in Proc, NEW G \in GcTtl, NEW X \in SUBSET linked, InsertExclusiveFails(p, G, X)
       PROVE  TypeOK'
  <2>1. PendingAndRemove(G, X)
    BY <1>14 DEF InsertExclusiveFails
  <2> QED
    BY <1>14, <2>1, PendingType DEF InsertExclusiveFails, Goto, TypeOK
<1>15. ASSUME NEW p \in Proc, LinkSlot(p) PROVE TypeOK'
  <2>1. torn' \in BOOLEAN
    BY <1>15, Zenon DEF LinkSlot
  <2>2. Return(p) /\ ent[p] \in Block
    BY <1>15 DEF LinkSlot, LInv, HasPool, TypeOK
  <2>3. linked' \subseteq Block
    BY <1>15, <2>2 DEF LinkSlot, TypeOK
  <2>4. /\ num_entries' \in Int /\ lock' = NULL /\ has_lock' \in [Proc -> 0 .. 2]
        /\ UNCHANGED <<pool, key, val, refs, deleted, busy, leaks>>
    BY <1>15 DEF LinkSlot, TypeOK
  <2>5. pc' = [pc EXCEPT ![p] = "idle"]
    BY <2>2, ReturnType
  <2> QED
    BY <1>15, <2>1, <2>2, <2>3, <2>4, <2>5, ReturnType DEF LinkSlot, TypeOK
<1>16. ASSUME NEW p \in Proc, FreePool(p) PROVE TypeOK'
  BY <1>16, FreeType, ReturnType DEF FreePool, TypeOK
<1>17. ASSUME NEW p \in Proc, FindRefused(p) \/ Release(p) \/ BailOut(p) PROVE TypeOK'
  <2>1. refs' \in [Block -> Int] /\ leaks' \in [Block -> Nat] /\ Return(p)
    BY <1>17 DEF FindRefused, Release, BailOut, TypeOK
  <2> QED
    BY <1>17, <2>1, ReturnType DEF FindRefused, Release, BailOut, TypeOK
<1>18. ASSUME NEW p \in Proc, NEW e \in Block, Find(p, e) PROVE TypeOK'
  <2>1. [k |-> key[e], v |-> val[e]] \in [k : Key \cup {NULL}, v : Val \cup {NULL}]
    BY DEF TypeOK
  <2> QED
    BY <1>18, <2>1 DEF Find, Goto, TypeOK
<1>19. ASSUME NEW p \in Proc, NEW k \in Key, FindMisses(p, k) PROVE TypeOK'
  <2>1. Remove(Same(k)) /\ Same(k) \in SUBSET linked /\ Return(p)
    BY <1>19 DEF FindMisses, Same
  <2> QED
    BY <1>19, <2>1, RemoveType, ReturnType DEF FindMisses, TypeOK
<1>20. ASSUME NEW p \in Proc, ClearEnds(p) PROVE TypeOK'
  <2>1. Remove(linked)
    BY <1>20 DEF ClearEnds
  <2>2. has_lock' \in [Proc -> 0 .. 2] /\ pc' = [pc EXCEPT ![p] = "idle"] /\ busy' = FALSE /\ lock' = NULL
    BY <1>20 DEF ClearEnds, Goto, TypeOK
  <2> QED
    BY <1>20, <2>1, <2>2, RemoveType DEF ClearEnds, TypeOK
<1>21. CASE UNCHANGED vars
  BY <1>21 DEF vars, TypeOK
<1> QED
  BY <1>1, <1>2, <1>3, <1>4, <1>5, <1>6, <1>7, <1>8, <1>9, <1>10, <1>11, <1>12, <1>13, <1>14,
     <1>15, <1>16, <1>17, <1>18, <1>19, <1>20, <1>21
     DEF Next, Calls, Allocates, Stores, Reads

\* A step of p that neither locks nor unlocks.
LEMMA QuietLock ==
    ASSUME TypeOK, LInv, NEW p \in Proc, UNCHANGED <<lock, has_lock, busy>>,
           \A q \in Proc \ {p} : pc'[q] = pc[q] /\ want'[q] = want[q] /\ ent'[q] = ent[q],
           Depth(p)' = Depth(p), pc[p] \notin {"wipe", "clear"}, pc'[p] \notin {"wipe", "clear"},
           HasPool(p)' => ent'[p] # NULL, HasNone(p)' => ent'[p] = NULL,
           Allocating(p)' => want'[p] # "none"
    PROVE  LInv'
<1>1. \A q \in Proc \ {p} : /\ Depth(q)' = Depth(q) /\ HasPool(q)' = HasPool(q)
                            /\ HasNone(q)' = HasNone(q) /\ Allocating(q)' = Allocating(q)
  BY DEF Depth, Linking, Allocating, HasPool, HasNone
<1>2. \A q \in Proc : /\ has_lock'[q] = Depth(q)' /\ (HasPool(q)' => ent'[q] # NULL)
                     /\ (HasNone(q)' => ent'[q] = NULL) /\ (Allocating(q)' => want'[q] # "none")
  BY <1>1 DEF LInv
<1>3. \A q \in Proc : pc'[q] \in {"wipe", "clear"} <=> pc[q] \in {"wipe", "clear"}
  OBVIOUS
<1>4. LockAgrees'
  BY <1>3 DEF LockAgrees, LInv
<1> QED
  BY <1>2, <1>4 DEF LInv

(***************************************************************************)
(* A step of p that locks or unlocks, or sets busy or clears it: nobody    *)
(* else has the lock.                                                      *)
(***************************************************************************)
LEMMA OwnLock ==
    ASSUME TypeOK, LInv, NEW p \in Proc, lock \in {NULL, p},
           \A q \in Proc \ {p} : /\ pc'[q] = pc[q] /\ want'[q] = want[q] /\ ent'[q] = ent[q]
                                 /\ has_lock'[q] = has_lock[q],
           has_lock'[p] = Depth(p)', lock' = IF Depth(p)' > 0 THEN p ELSE NULL,
           busy' <=> pc'[p] \in {"wipe", "clear"},
           HasPool(p)' => ent'[p] # NULL, HasNone(p)' => ent'[p] = NULL,
           Allocating(p)' => want'[p] # "none"
    PROVE  LInv'
<1>0. p # NULL
  BY NullAssumption DEF NullAssumption
<1>1. \A q \in Proc \ {p} : /\ Depth(q)' = Depth(q) /\ HasPool(q)' = HasPool(q)
                            /\ HasNone(q)' = HasNone(q) /\ Allocating(q)' = Allocating(q)
  BY DEF Depth, Linking, Allocating, HasPool, HasNone
<1>2. \A q \in Proc : /\ has_lock'[q] = Depth(q)' /\ (HasPool(q)' => ent'[q] # NULL)
                     /\ (HasNone(q)' => ent'[q] = NULL) /\ (Allocating(q)' => want'[q] # "none")
  BY <1>1 DEF LInv
<1>3. \A q \in Proc \ {p} : ~(has_lock[q] > 0)
  BY NullAssumption DEF NullAssumption, LInv, LockAgrees
<1>4. \A q \in Proc \ {p} : pc[q] \notin {"wipe", "clear"}
  <2> SUFFICES ASSUME NEW q \in Proc \ {p}, pc[q] \in {"wipe", "clear"}
               PROVE  FALSE
    OBVIOUS
  <2>1. has_lock[q] = Depth(q) /\ Depth(q) > 0
    BY DEF LInv, Depth
  <2> QED
    BY <1>3, <2>1
<1>5. \A q \in Proc : has_lock'[q] > 0 <=> lock' = q
  <2>1. has_lock'[p] > 0 <=> lock' = p
    BY <1>0
  <2>2. \A q \in Proc \ {p} : ~(has_lock'[q] > 0) /\ lock' # q
    <3>1. \A q \in Proc \ {p} : q # NULL
      BY NullAssumption DEF NullAssumption
    <3> QED
      BY <1>3, <3>1
  <2> QED
    BY <2>1, <2>2
<1>6. busy' <=> \E q \in Proc : pc'[q] \in {"wipe", "clear"}
  BY <1>4
<1> QED
  BY <1>2, <1>5, <1>6 DEF LInv, LockAgrees

LEMMA LockStep ==
    ASSUME TypeOK, LInv, [Next]_vars
    PROVE  LInv'
<1> USE DEF shared, local, Frame
<1> USE DEF Depth, Linking, Allocating, HasPool, HasNone
<1>l. ASSUME NEW p \in Proc, has_lock[p] > 0 PROVE lock = p
  BY <1>l DEF LInv, LockAgrees
<1>d. \A p \in Proc : /\ has_lock[p] = Depth(p) /\ (HasPool(p) => ent[p] # NULL)
                     /\ (HasNone(p) => ent[p] = NULL) /\ (Allocating(p) => want[p] # "none")
  BY DEF LInv
<1>b. ASSUME NEW p \in Proc, lock \in {NULL, p} PROVE busy <=> pc[p] \in {"wipe", "clear"}
  <2>1. \A q \in Proc : pc[q] \in {"wipe", "clear"} => has_lock[q] > 0
    BY <1>d
  <2>2. \A q \in Proc : q # NULL
    BY NullAssumption DEF NullAssumption
  <2>3. \A q \in Proc : pc[q] \in {"wipe", "clear"} => q = p
    BY <1>b, <1>l, <2>1, <2>2
  <2>4. busy <=> \E q \in Proc : pc[q] \in {"wipe", "clear"}
    BY DEF LInv, LockAgrees
  <2> QED
    BY <2>3, <2>4
<1>1. ASSUME NEW p \in Proc, Store(p) \/ Fetch(p) PROVE LInv'
  <2>1. CASE Store(p)
    BY <2>1, <1>d, QuietLock DEF Store, CallAlloc, Goto, TypeOK
  <2>2. CASE Fetch(p)
    BY <2>2, <1>d, QuietLock DEF Fetch, Goto, TypeOK
  <2> QED
    BY <1>1, <2>1, <2>2
<1>2. ASSUME NEW p \in Proc, ClearBegins(p) PROVE LInv'
  BY <1>2, <1>d, OwnLock DEF ClearBegins, Goto, TypeOK
<1>3. ASSUME NEW p \in Proc, NEW k \in Key, Delete(p, k) PROVE LInv'
  BY <1>3, <1>d DEF Delete, LInv, LockAgrees
<1>4. ASSUME NEW p \in Proc, NEW b \in Block, AllocSucceeds(p, b) PROVE LInv'
  <2>1. /\ UNCHANGED <<lock, has_lock, busy, want>> /\ pc[p] = "alloc"
        /\ ent' = [ent EXCEPT ![p] = IF want[p] = "pool" THEN b ELSE ent[p]]
        /\ pc' = [pc EXCEPT ![p] = AllocReturns(want[p])]
    BY <1>4 DEF AllocSucceeds, Goto
  <2>2. b # NULL /\ want[p] \in {"pool", "entry", "slot"}
    BY <2>1, <1>d, NullAssumption DEF TypeOK, NullAssumption
  <2>3. CASE want[p] = "pool"
    BY <2>1, <2>2, <2>3, <1>d, QuietLock DEF AllocReturns, TypeOK
  <2>4. CASE want[p] = "entry"
    BY <2>1, <2>2, <2>4, <1>d, QuietLock DEF AllocReturns, TypeOK
  <2>5. CASE want[p] = "slot"
    BY <2>1, <2>2, <2>5, <1>d, QuietLock DEF AllocReturns, TypeOK
  <2> QED
    BY <2>2, <2>3, <2>4, <2>5
<1>5. ASSUME NEW p \in Proc, AllocRetries(p) PROVE LInv'
  BY <1>5, <1>d, QuietLock DEF AllocRetries, Goto, TypeOK
<1>6. ASSUME NEW p \in Proc, AllocFails(p) PROVE LInv'
  BY <1>6, <1>d, QuietLock DEF AllocFails, Goto, TypeOK
<1>7. ASSUME NEW p \in Proc, MakeSlotFails(p) PROVE LInv'
  <2>1. lock = p
    BY <1>7, <1>d, <1>l DEF MakeSlotFails
  <2>2. /\ pc[p] = "alloc" /\ pc' = [pc EXCEPT ![p] = "freepool"] /\ UNCHANGED <<busy, want, ent>>
        /\ lock' = NULL /\ has_lock' = [has_lock EXCEPT ![p] = 0]
    BY <1>7 DEF MakeSlotFails, Goto
  <2>3. has_lock'[p] = Depth(p)' /\ lock' = IF Depth(p)' > 0 THEN p ELSE NULL
    BY <2>1, <2>2 DEF TypeOK
  <2>4. \A q \in Proc \ {p} : /\ pc'[q] = pc[q] /\ want'[q] = want[q] /\ ent'[q] = ent[q]
                              /\ has_lock'[q] = has_lock[q]
    BY <2>2 DEF TypeOK
  <2>5. busy' <=> pc'[p] \in {"wipe", "clear"}
    BY <1>b, <2>1, <2>2 DEF TypeOK
  <2>6. /\ HasPool(p)' => ent'[p] # NULL
        /\ HasNone(p)' => ent'[p] = NULL
        /\ Allocating(p)' => want'[p] # "none"
    BY <1>d, <2>2 DEF TypeOK
  <2> QED
    BY <2>1, <2>3, <2>4, <2>5, <2>6, OwnLock
<1>8. ASSUME NEW p \in Proc, NEW G \in GcTtl, ExpungeNotNeeded(p, G) PROVE LInv'
  BY <1>8, <1>d, QuietLock DEF ExpungeNotNeeded, Goto, TypeOK
<1>9. ASSUME NEW p \in Proc, NEW G \in GcTtl, ExpungeBegins(p, G) PROVE LInv'
  <2>1. lock \in {NULL, p}
    BY <1>9, <1>d, <1>l DEF ExpungeBegins
  <2>2. has_lock'[p] = Depth(p)' /\ Depth(p)' > 0
    BY <1>9, <1>d DEF ExpungeBegins, Goto, TypeOK
  <2> QED
    BY <1>9, <1>d, <2>1, <2>2, OwnLock DEF ExpungeBegins, Goto, TypeOK
<1>10. ASSUME NEW p \in Proc, ExpungeEnds(p) PROVE LInv'
  <2>1. lock = p
    BY <1>10, <1>d, <1>l DEF ExpungeEnds
  <2>2. has_lock'[p] = Depth(p)'
    BY <1>10, <1>d DEF ExpungeEnds, Goto, TypeOK
  <2>3. lock' = IF Depth(p)' > 0 THEN p ELSE NULL
    BY <1>10, <1>d, <2>1 DEF ExpungeEnds, Goto, TypeOK
  <2> QED
    BY <1>10, <1>d, <2>1, <2>2, <2>3, OwnLock DEF ExpungeEnds, Goto, TypeOK
<1>11. ASSUME NEW p \in Proc, NEW k \in Key, NEW v \in Val, MakeEntry(p, k, v) PROVE LInv'
  <2>1. CASE CallAlloc(p, "entry")
    BY <1>11, <2>1, <1>d, QuietLock DEF MakeEntry, CallAlloc, Goto, TypeOK
  <2>2. CASE Goto(p, "insert") /\ UNCHANGED <<want, tries>>
    BY <1>11, <2>2, <1>d, QuietLock DEF MakeEntry, Goto, TypeOK
  <2> QED
    BY <1>11, <2>1, <2>2 DEF MakeEntry
<1>12. ASSUME NEW p \in Proc, Refused(p) PROVE LInv'
  BY <1>12, <1>d, QuietLock DEF Refused, Goto, TypeOK
<1>13. ASSUME NEW p \in Proc, NotBusy(p) PROVE LInv'
  BY <1>13, <1>d, QuietLock DEF NotBusy, Goto, TypeOK
<1>14. ASSUME NEW p \in Proc, NEW G, NEW X, NEW behind, InsertWalks(p, G, X, behind) PROVE LInv'
  <2>1. /\ pc[p] = "insertlock" /\ lock = NULL /\ lock' = p /\ has_lock' = [has_lock EXCEPT ![p] = 1]
        /\ UNCHANGED <<busy, ent>>
    BY <1>14 DEF InsertWalks
  <2>2. ~busy /\ ent[p] # NULL
    BY <2>1, <1>b, <1>d
  <2>3. CASE CallAlloc(p, "slot")
    <3>1. pc' = [pc EXCEPT ![p] = "alloc"] /\ want' = [want EXCEPT ![p] = "slot"]
      BY <2>3 DEF CallAlloc, Goto
    <3>2. has_lock'[p] = Depth(p)' /\ lock' = IF Depth(p)' > 0 THEN p ELSE NULL
      BY <2>1, <3>1 DEF TypeOK
    <3> QED
      BY <2>1, <2>2, <3>1, <3>2, OwnLock DEF TypeOK
  <2>4. CASE Goto(p, "link") /\ UNCHANGED <<want, tries>>
    BY <2>1, <2>2, <2>4, <1>d, OwnLock DEF Goto, TypeOK
  <2> QED
    BY <1>14, <2>3, <2>4 DEF InsertWalks
<1>15. ASSUME NEW p \in Proc, NEW G, NEW X, InsertExclusiveFails(p, G, X) PROVE LInv'
  BY <1>15, <1>d, QuietLock DEF InsertExclusiveFails, Goto, TypeOK
<1>16. ASSUME NEW p \in Proc, LinkSlot(p) PROVE LInv'
  <2>1. lock = p
    BY <1>16, <1>d, <1>l DEF LinkSlot
  <2>2. /\ pc[p] = "link" /\ pc' = [pc EXCEPT ![p] = "idle"] /\ ent' = [ent EXCEPT ![p] = NULL]
        /\ want' = [want EXCEPT ![p] = "none"] /\ UNCHANGED busy
        /\ lock' = NULL /\ has_lock' = [has_lock EXCEPT ![p] = 0]
    BY <1>16 DEF LinkSlot, Return, Goto
  <2>3. has_lock'[p] = Depth(p)' /\ lock' = IF Depth(p)' > 0 THEN p ELSE NULL
    BY <2>1, <2>2 DEF TypeOK
  <2>4. \A q \in Proc \ {p} : /\ pc'[q] = pc[q] /\ want'[q] = want[q] /\ ent'[q] = ent[q]
                              /\ has_lock'[q] = has_lock[q]
    BY <2>2 DEF TypeOK
  <2>5. busy' <=> pc'[p] \in {"wipe", "clear"}
    BY <1>b, <2>1, <2>2 DEF TypeOK
  <2>6. /\ HasPool(p)' => ent'[p] # NULL
        /\ HasNone(p)' => ent'[p] = NULL
        /\ Allocating(p)' => want'[p] # "none"
    BY <1>d, <2>2 DEF TypeOK
  <2> QED
    BY <2>1, <2>3, <2>4, <2>5, <2>6, OwnLock
<1>17. ASSUME NEW p \in Proc, FreePool(p) \/ FindRefused(p) \/ Release(p) \/ BailOut(p) PROVE LInv'
  <2>1. /\ Return(p) /\ UNCHANGED <<lock, has_lock, busy>>
        /\ pc[p] \in {"freepool", "find", "holding"}
    BY <1>17 DEF FreePool, FindRefused, Release, BailOut
  <2> QED
    BY <2>1, <1>d, QuietLock DEF Return, Goto, TypeOK
<1>18. ASSUME NEW p \in Proc, NEW e \in Block, Find(p, e) PROVE LInv'
  <2>1. e # NULL
    BY NullAssumption DEF NullAssumption
  <2> QED
    BY <1>18, <2>1, <1>d, QuietLock DEF Find, Goto, TypeOK
<1>19. ASSUME NEW p \in Proc, NEW k \in Key, FindMisses(p, k) PROVE LInv'
  BY <1>19, <1>d, QuietLock DEF FindMisses, Return, Goto, TypeOK
<1>20. ASSUME NEW p \in Proc, ClearEnds(p) PROVE LInv'
  <2>1. lock = p
    BY <1>20, <1>d, <1>l DEF ClearEnds
  <2>2. /\ pc[p] = "clear" /\ pc' = [pc EXCEPT ![p] = "idle"] /\ UNCHANGED <<ent, want>>
        /\ busy' = FALSE /\ lock' = NULL /\ has_lock' = [has_lock EXCEPT ![p] = 0]
    BY <1>20 DEF ClearEnds, Goto
  <2>3. has_lock'[p] = Depth(p)' /\ lock' = IF Depth(p)' > 0 THEN p ELSE NULL
    BY <2>1, <2>2 DEF TypeOK
  <2>4. \A q \in Proc \ {p} : /\ pc'[q] = pc[q] /\ want'[q] = want[q] /\ ent'[q] = ent[q]
                              /\ has_lock'[q] = has_lock[q]
    BY <2>2 DEF TypeOK
  <2>5. busy' <=> pc'[p] \in {"wipe", "clear"}
    BY <1>b, <2>1, <2>2 DEF TypeOK
  <2>6. /\ HasPool(p)' => ent'[p] # NULL
        /\ HasNone(p)' => ent'[p] = NULL
        /\ Allocating(p)' => want'[p] # "none"
    BY <1>d, <2>2 DEF TypeOK
  <2> QED
    BY <2>1, <2>3, <2>4, <2>5, <2>6, OwnLock
<1>21. CASE UNCHANGED vars
  BY <1>21, <1>d DEF vars, LInv, LockAgrees
<1> QED
  BY <1>1, <1>2, <1>3, <1>4, <1>5, <1>6, <1>7, <1>8, <1>9, <1>10, <1>11, <1>12, <1>13, <1>14,
     <1>15, <1>16, <1>17, <1>18, <1>19, <1>20, <1>21
     DEF Next, Calls, Allocates, Stores, Reads

-----------------------------------------------------------------------------
(* Memory: what holds until an expunge inside an insertion tears a bucket. *)

Cached == linked \cup deleted

\* The key and the value are in the pool that p fills.
Made(p) == pc[p] \in {"insert", "insertlock", "link"}
           \/ (Allocating(p) /\ want[p] \in {"entry", "slot"})

(***************************************************************************)
(* What is in the cache is complete, counts its readers, has its own       *)
(* memory and its own key, and every block belongs to an entry of the      *)
(* cache or to one that a process is making.                               *)
(***************************************************************************)
Complete(e) == /\ Live(e) /\ key[e] # NULL /\ val[e] # NULL
               /\ refs[e] = Cardinality(Holders(e)) + leaks[e]
Memory ==
    /\ linked \cap deleted = {}
    /\ \A e \in Cached : Complete(e)
    /\ \A e \in Block \ Cached : leaks[e] = 0
    /\ \A e, f \in linked : key[e] = key[f] => e = f
    /\ num_entries = Cardinality(linked)
    /\ \A b \in Block : pool[b] # NULL => Live(pool[b]) /\ pool[b] \in Cached \cup Building
    /\ \A p, q \in Storing : ent[p] = ent[q] => p = q

(***************************************************************************)
(* What a process makes is its own and not yet in the cache, what it reads *)
(* is in the cache, and the place that it found for a slot stays what it   *)
(* was, unless its own expunge has emptied the bucket.                     *)
(***************************************************************************)
Place(p) == \/ linked = {}
            \/ rest[p] \subseteq linked /\ (at[p] = "head" => rest[p] = linked)
Private(p) ==
    /\ p \in Storing => Live(ent[p]) /\ ent[p] \notin Cached
    /\ Made(p) => key[ent[p]] # NULL /\ val[ent[p]] # NULL /\ refs[ent[p]] = 0
    /\ pc[p] = "holding" => /\ ent[p] \in Cached
                            /\ found[p] = [k |-> key[ent[p]], v |-> val[ent[p]]]
    /\ Linking(p) => Place(p) /\ \A e \in linked : key[e] # key[ent[p]]

MInv == torn \/ (Memory /\ \A p \in Proc : Private(p))

\* Who fills the place of a slot has the lock.
LEMMA LinkingLocks ==
    ASSUME LInv, NEW p \in Proc, Linking(p)
    PROVE  lock = p
BY DEF LInv, LockAgrees, Depth

\* Nobody reads an entry whose reference count is zero.
LEMMA NoReader ==
    ASSUME TypeOK, Memory, NEW e \in Cached, refs[e] <= 0
    PROVE  Holders(e) = {} /\ refs[e] = 0
<1>1. IsFiniteSet(Holders(e))
  BY FiniteAssumption, FS_Subset DEF FiniteAssumption, Holders
<1>2. Cardinality(Holders(e)) \in Nat
  BY <1>1, FS_CardinalityType
<1>3. e \in Block /\ leaks[e] \in Nat /\ refs[e] = Cardinality(Holders(e)) + leaks[e]
  BY DEF TypeOK, Memory, Cached, Complete
<1>4. Cardinality(Holders(e)) = 0 /\ refs[e] = 0
  BY <1>2, <1>3
<1> QED
  BY <1>1, <1>4, FS_EmptySet

\* A step frees the entries F of the cache, which nobody reads, and otherwise
\* only takes slots off the bucket.
Frees(F) ==
    /\ F \in SUBSET Cached /\ \A e \in F : Holders(e) = {} /\ leaks'[e] = 0
    /\ \A b \in Block : pool'[b] = IF pool[b] \in F THEN NULL ELSE pool[b]
    /\ \A e \in Block \ F : /\ key'[e] = key[e] /\ val'[e] = val[e]
                          /\ refs'[e] = refs[e] /\ leaks'[e] = leaks[e]
    /\ linked' \subseteq linked /\ linked' \cap deleted' = {} /\ Cached' = Cached \ F
    /\ num_entries' = Cardinality(linked')

(***************************************************************************)
(* A step of p, which is not reading, that frees entries of the cache: who *)
(* changes the bucket has the lock, or nobody has.                         *)
(***************************************************************************)
LEMMA FreesStep ==
    ASSUME TypeOK, LInv, Memory, \A q \in Proc : Private(q), NEW p \in Proc, NEW F,
           Frees(F),
           \A q \in Proc \ {p} : /\ pc'[q] = pc[q] /\ want'[q] = want[q] /\ found'[q] = found[q]
                                 /\ at'[q] = at[q] /\ rest'[q] = rest[q],
           ent' = ent, pc[p] # "holding", pc'[p] # "holding",
           Made(p)' => Made(p),
           Linking(p)' => Place(p)' /\ \A e \in linked' : key[e] # key[ent[p]],
           linked' = linked \/ lock \in {NULL, p}
    PROVE  MInv'
<1>0. /\ F \in SUBSET Cached /\ \A e \in F : Holders(e) = {} /\ leaks'[e] = 0
      /\ \A b \in Block : pool'[b] = IF pool[b] \in F THEN NULL ELSE pool[b]
      /\ \A e \in Block \ F : /\ key'[e] = key[e] /\ val'[e] = val[e]
                            /\ refs'[e] = refs[e] /\ leaks'[e] = leaks[e]
      /\ linked' \subseteq linked /\ linked' \cap deleted' = {} /\ Cached' = Cached \ F
      /\ num_entries' = Cardinality(linked')
  BY DEF Frees
<1> USE <1>0
<1>1. \A q \in Proc : pc'[q] = "holding" <=> pc[q] = "holding"
  OBVIOUS
<1>2. Storing' = Storing /\ Building' = Building
  BY <1>1 DEF Storing, Building
<1>3. \A e \in Block : Holders(e)' = Holders(e)
  BY <1>1 DEF Holders
<1>4. \A q \in Proc : ent[q] # NULL => ent[q] \in Block /\ ent[q] \notin F
  <2> SUFFICES ASSUME NEW q \in Proc, ent[q] # NULL PROVE ent[q] \in Block /\ ent[q] \notin F
    OBVIOUS
  <2>1. ent[q] \in Block
    BY DEF TypeOK
  <2>2. CASE pc[q] = "holding"
    BY <2>1, <2>2 DEF Holders
  <2>3. CASE pc[q] # "holding"
    BY <2>1, <2>3 DEF Private, Storing
  <2> QED
    BY <2>2, <2>3
<1>5. Cached \subseteq Block /\ Cached' \subseteq Block /\ linked' \subseteq Block \ F
  BY DEF Cached, TypeOK
<1>6. \A e \in Block \ F : Live(e) => Live(e)'
  BY DEF Live
<1>7. \A e \in Cached' : Complete(e)'
  BY <1>3, <1>5, <1>6 DEF Complete, Memory
<1>8. \A b \in Block : pool'[b] # NULL => Live(pool[b])' /\ pool'[b] = pool[b] /\ pool[b] \in Cached' \cup Building'
  <2> SUFFICES ASSUME NEW b \in Block, pool'[b] # NULL
               PROVE  Live(pool[b])' /\ pool'[b] = pool[b] /\ pool[b] \in Cached' \cup Building'
    OBVIOUS
  <2>1. pool'[b] = pool[b] /\ pool[b] \notin F /\ pool[b] \in Block
    BY DEF TypeOK
  <2>2. Live(pool[b]) /\ pool[b] \in Cached \cup Building
    BY <2>1 DEF Memory
  <2>3. pool'[pool[b]] = pool[pool[b]]
    BY <2>1, <2>2 DEF Live
  <2> QED
    BY <1>2, <2>1, <2>2, <2>3 DEF Live
<1>9. Memory'
  <2>1. \A e \in Block \ Cached' : leaks'[e] = 0
    BY DEF Memory
  <2>2. \A e, f \in linked' : key'[e] = key'[f] => e = f
    BY <1>5 DEF Memory
  <2>3. \A b \in Block : pool'[b] # NULL => pool'[pool'[b]] = pool'[b] /\ pool'[b] \in Cached' \cup Building'
    BY <1>8 DEF Live
  <2>4. \A q, r \in Storing' : ent'[q] = ent'[r] => q = r
    BY <1>2 DEF Memory
  <2> QED
    BY <1>7, <2>1, <2>2, <2>3, <2>4 DEF Memory, Live
<1>10. ASSUME NEW q \in Proc PROVE Private(q)'
  <2>1. q \in Storing' => Live(ent[q])' /\ ent[q] \notin Cached'
    <3> SUFFICES ASSUME q \in Storing PROVE Live(ent[q])' /\ ent[q] \notin Cached'
      BY <1>2
    <3>1. Live(ent[q]) /\ ent[q] \notin Cached
      BY DEF Private
    <3>2. ent[q] \in Block \ F
      BY <1>4 DEF Storing
    <3>3. pool'[ent[q]] = pool[ent[q]] /\ pool[ent[q]] = ent[q] /\ ent'[q] = ent[q]
      BY <3>1, <3>2 DEF Live
    <3> QED
      BY <3>1, <3>3 DEF Live
  <2>2. Made(q)' => Made(q)
    BY DEF Made, Allocating
  <2>3. Made(q) => ent[q] # NULL
    BY DEF Made, LInv, HasPool
  <2>4. Made(q)' => key'[ent[q]] # NULL /\ val'[ent[q]] # NULL /\ refs'[ent[q]] = 0
    <3> SUFFICES ASSUME Made(q) PROVE key'[ent[q]] # NULL /\ val'[ent[q]] # NULL /\ refs'[ent[q]] = 0
      BY <2>2
    <3>1. key[ent[q]] # NULL /\ val[ent[q]] # NULL /\ refs[ent[q]] = 0
      BY DEF Private
    <3>2. ent[q] \in Block \ F
      BY <1>4, <2>3
    <3> QED
      BY <3>1, <3>2
  <2>5. pc'[q] = "holding" => /\ ent[q] \in Cached'
                             /\ found'[q] = [k |-> key'[ent[q]], v |-> val'[ent[q]]]
    <3>1. pc'[q] = "holding" => ent[q] # NULL /\ pc[q] = "holding" /\ q # p
      BY <1>1 DEF LInv, HasPool
    <3> QED
      BY <1>4, <3>1 DEF Private
  <2>6. Linking(q)' => Place(q)' /\ \A e \in linked' : key'[e] # key'[ent[q]]
    <3>1. CASE q = p
      <4>1. Linking(p)' => ent[p] # NULL
        BY <2>2, <2>3, <3>1 DEF Linking, Made, Allocating
      <4> QED
        BY <1>4, <1>5, <3>1, <4>1
    <3>2. CASE q # p
      <4> SUFFICES ASSUME Linking(q)' PROVE Place(q)' /\ \A e \in linked' : key'[e] # key'[ent[q]]
        OBVIOUS
      <4>1. Linking(q) /\ lock = q
        BY <3>2, LinkingLocks DEF Linking, Allocating
      <4>2. linked' = linked /\ ent[q] # NULL
        BY <3>2, <4>1, <2>3, NullAssumption DEF Made, Linking, NullAssumption
      <4>3. Place(q) /\ \A e \in linked : key[e] # key[ent[q]]
        BY <4>1 DEF Private
      <4>4. Place(q)'
        BY <3>2, <4>2, <4>3 DEF Place
      <4>5. \A e \in linked' : key'[e] # key'[ent[q]]
        BY <1>4, <1>5, <4>2, <4>3
      <4> QED
        BY <4>4, <4>5
    <3> QED
      BY <3>1, <3>2
  <2> QED
    BY <2>1, <2>4, <2>5, <2>6 DEF Private
<1> QED
  BY <1>9, <1>10 DEF MInv

\* What the pending removals and a removal from the bucket free, and leave.
LEMMA Removal ==
    ASSUME TypeOK, Memory, NEW S \in SUBSET linked, NEW D \in SUBSET deleted,
           \A e \in D : refs[e] <= 0 \/ Holders(e) = {},
           Free(D \cup (S \ InUse(S))),
           deleted' = (deleted \ D) \cup InUse(S), linked' = linked \ S,
           num_entries' = num_entries - Cardinality(S)
    PROVE  Frees(D \cup (S \ InUse(S)))
<1> DEFINE F == D \cup (S \ InUse(S))
<1>1. F \in SUBSET Cached /\ F \subseteq Block /\ linked \subseteq Block
  BY DEF Cached, TypeOK
<1>2. \A e \in F : Holders(e) = {}
  <2> SUFFICES ASSUME NEW e \in F, refs[e] <= 0 \/ Holders(e) = {} PROVE Holders(e) = {}
    BY <1>1 DEF InUse, TypeOK
  <2> QED
    BY <1>1, NoReader
<1>3. InUse(S) \subseteq S /\ linked \cap deleted = {}
  BY DEF InUse, Memory
<1>4. linked' \cap deleted' = {} /\ Cached' = Cached \ F
  BY <1>3 DEF Cached
<1>5. num_entries' = Cardinality(linked')
  <2>1. IsFiniteSet(linked) /\ S = linked \cap S
    BY <1>1, FiniteAssumption, FS_Subset DEF FiniteAssumption
  <2>2. Cardinality(linked \ S) = Cardinality(linked) - Cardinality(linked \cap S)
    BY <2>1, FS_Difference
  <2> QED
    BY <2>1, <2>2 DEF Memory
<1>6. /\ \A b \in Block : pool'[b] = IF pool[b] \in F THEN NULL ELSE pool[b]
      /\ \A e \in Block \ F : /\ key'[e] = key[e] /\ val'[e] = val[e]
                            /\ refs'[e] = refs[e] /\ leaks'[e] = leaks[e]
      /\ \A e \in F : leaks'[e] = 0
  BY <1>1 DEF Free
<1> QED
  BY <1>1, <1>2, <1>4, <1>5, <1>6 DEF Frees

\* apc_cache_user_insert, the expunge and the exclusive insertion.
LEMMA PendingRemoval ==
    ASSUME TypeOK, Memory, NEW G \in GcTtl, NEW S \in SUBSET linked, PendingAndRemove(G, S)
    PROVE  Frees(Pending(G) \cup (S \ InUse(S)))
<1>1. Pending(G) \in SUBSET deleted /\ \A e \in Pending(G) : refs[e] <= 0 \/ Holders(e) = {}
  BY DEF Pending, GcTtl, Expired
<1> QED
  BY <1>1, Removal DEF PendingAndRemove

\* The other removals.
LEMMA PlainRemoval ==
    ASSUME TypeOK, Memory, NEW S \in SUBSET linked, Remove(S)
    PROVE  Frees(S \ InUse(S))
<1>1. {} \in SUBSET deleted /\ Free({} \cup (S \ InUse(S))) /\ deleted' = (deleted \ {}) \cup InUse(S)
  BY DEF Remove
<1>2. {} \cup (S \ InUse(S)) = S \ InUse(S)
  OBVIOUS
<1> QED
  BY <1>1, <1>2, Removal DEF Remove

\* A step of p that leaves the shared memory alone.
LEMMA LocalStep ==
    ASSUME TypeOK, LInv, Memory, \A q \in Proc : Private(q), NEW p \in Proc,
           UNCHANGED <<pool, key, val, refs, leaks, linked, deleted, num_entries>>,
           \A q \in Proc \ {p} : /\ pc'[q] = pc[q] /\ want'[q] = want[q] /\ found'[q] = found[q]
                                 /\ at'[q] = at[q] /\ rest'[q] = rest[q],
           ent' = ent, pc[p] # "holding", pc'[p] # "holding",
           Made(p)' => Made(p),
           Linking(p)' => Linking(p) /\ at'[p] = at[p] /\ rest'[p] = rest[p]
    PROVE  MInv'
<1>1. Frees({})
  BY DEF Frees, Cached, Memory
<1>3. Linking(p)' => Place(p)' /\ \A e \in linked' : key[e] # key[ent[p]]
  BY DEF Private, Place
<1> QED
  BY <1>1, <1>3, FreesStep

\* A reader begins or ends: only counts change, and those of the cache are right.
LEMMA ReaderStep ==
    ASSUME TypeOK, LInv, Memory, \A q \in Proc : Private(q), NEW p \in Proc,
           UNCHANGED <<pool, key, val, linked, deleted, num_entries>>,
           \A q \in Proc \ {p} : /\ pc'[q] = pc[q] /\ want'[q] = want[q] /\ found'[q] = found[q]
                                 /\ at'[q] = at[q] /\ rest'[q] = rest[q] /\ ent'[q] = ent[q],
           pc[p] \in {"findlock", "holding"}, pc'[p] \in {"idle", "holding"},
           pc'[p] = "idle" => ent'[p] = NULL,
           pc'[p] = "holding" => ent'[p] \in Cached
                                 /\ found'[p] = [k |-> key[ent'[p]], v |-> val[ent'[p]]],
           \A e \in Block \ Cached : refs'[e] = refs[e] /\ leaks'[e] = leaks[e],
           \A e \in Cached : refs'[e] = Cardinality(Holders(e)') + leaks'[e]
    PROVE  MInv'
<1>1. pc[p] = "findlock" => ent[p] = NULL
  BY DEF LInv, HasNone
<1>2. Storing' = Storing /\ p \notin Storing
  BY <1>1 DEF Storing
<1>3. Building' = Building /\ \A q \in Storing : ent'[q] = ent[q]
  BY <1>2 DEF Building, Storing
<1>4. Cached' = Cached
  BY DEF Cached
<1>5. \A e \in Block : Live(e)' = Live(e)
  BY DEF Live
<1>6. Cached \subseteq Block
  BY DEF Cached, TypeOK
<1>7. \A e \in Cached : Complete(e)'
  BY <1>5, <1>6 DEF Complete, Memory
<1>8. Memory'
  BY <1>2, <1>3, <1>4, <1>7 DEF Memory, Live
<1>9. ASSUME NEW q \in Proc PROVE Private(q)'
  <2>1. CASE q = p
    BY <1>2, <1>4, <2>1 DEF Private, Made, Linking, Allocating
  <2>2. CASE q # p
    <3>0. ent'[q] = ent[q]
      BY <2>2
    <3>1. q \in Storing => pool'[ent[q]] = ent[q] /\ ent[q] \notin Cached
      BY DEF Private, Live
    <3>2. Made(q)' = Made(q) /\ Linking(q)' = Linking(q) /\ (Linking(q) => Place(q)' = Place(q))
      BY <2>2 DEF Made, Linking, Allocating, Place
    <3>3. Made(q) => key[ent[q]] # NULL /\ val[ent[q]] # NULL /\ refs'[ent[q]] = 0
      <4> SUFFICES ASSUME Made(q) PROVE key[ent[q]] # NULL /\ val[ent[q]] # NULL /\ refs'[ent[q]] = 0
        OBVIOUS
      <4>1. q \in Storing /\ ent[q] \in Block
        BY DEF Made, Storing, LInv, HasPool, Allocating, TypeOK
      <4> QED
        BY <3>1, <4>1 DEF Private
    <3> QED
      BY <1>2, <1>4, <2>2, <3>0, <3>1, <3>2, <3>3 DEF Private, Live
  <2> QED
    BY <2>1, <2>2
<1> QED
  BY <1>8, <1>9 DEF MInv

LEMMA HoldersFinite ==
    ASSUME NEW e
    PROVE  IsFiniteSet(Holders(e)) /\ Cardinality(Holders(e)) \in Nat
<1>1. IsFiniteSet(Holders(e))
  BY FiniteAssumption, FS_Subset DEF FiniteAssumption, Holders
<1> QED
  BY <1>1, FS_CardinalityType

\* apc_cache_user_find takes a reference.
LEMMA FindStep ==
    ASSUME TypeOK, LInv, Memory, \A q \in Proc : Private(q), NEW p \in Proc, NEW e \in Block, Find(p, e)
    PROVE  MInv'
<1>1. /\ pc[p] = "findlock" /\ e \in linked /\ e \in Cached /\ refs' = [refs EXCEPT ![e] = @ + 1]
      /\ pc' = [pc EXCEPT ![p] = "holding"] /\ ent' = [ent EXCEPT ![p] = e]
      /\ found' = [found EXCEPT ![p] = [k |-> key[e], v |-> val[e]]]
      /\ UNCHANGED <<pool, key, val, linked, deleted, num_entries, want, at, rest, leaks>>
  BY DEF Find, Goto, Cached
<1>2. /\ Holders(e)' = Holders(e) \cup {p} /\ p \notin Holders(e)
      /\ \A f \in Block \ {e} : Holders(f)' = Holders(f)
  BY <1>1 DEF Holders, TypeOK
<1>3. Cardinality(Holders(e)') = Cardinality(Holders(e)) + 1
  BY <1>2, HoldersFinite, FS_AddElement
<1>4. \A f \in Cached : f \in Block /\ refs[f] = Cardinality(Holders(f)) + leaks[f]
  BY DEF Memory, Complete, Cached, TypeOK
<1>5. \A f \in Cached : refs'[f] = Cardinality(Holders(f)') + leaks'[f]
  <2> SUFFICES ASSUME NEW f \in Cached PROVE refs'[f] = Cardinality(Holders(f)') + leaks'[f]
    OBVIOUS
  <2>1. CASE f = e
    BY <1>1, <1>3, <1>4, <2>1, HoldersFinite DEF TypeOK
  <2>2. CASE f # e
    BY <1>1, <1>2, <1>4, <2>2 DEF TypeOK
  <2> QED
    BY <2>1, <2>2
<1>6. \A f \in Block \ Cached : refs'[f] = refs[f] /\ leaks'[f] = leaks[f]
  BY <1>1 DEF TypeOK
<1>7. /\ pc'[p] = "holding" /\ ent'[p] = e /\ found'[p] = [k |-> key[e], v |-> val[e]]
      /\ \A q \in Proc \ {p} : /\ pc'[q] = pc[q] /\ want'[q] = want[q] /\ found'[q] = found[q]
                              /\ at'[q] = at[q] /\ rest'[q] = rest[q] /\ ent'[q] = ent[q]
  BY <1>1 DEF TypeOK
<1> QED
  BY <1>1, <1>5, <1>6, <1>7, ReaderStep

\* apc_cache_release, or a bail-out that never releases.
LEMMA ReadEnds ==
    ASSUME TypeOK, LInv, Memory, \A q \in Proc : Private(q), NEW p \in Proc, Release(p) \/ BailOut(p)
    PROVE  MInv'
<1>0. ent[p] \in Cached
  BY DEF Release, BailOut, Private
<1>e. PICK e \in Cached : e = ent[p]
  BY <1>0
<1>1. /\ pc[p] = "holding" /\ Return(p)
      /\ \/ refs' = [refs EXCEPT ![e] = @ - 1] /\ leaks' = leaks
         \/ refs' = refs /\ leaks' = [leaks EXCEPT ![e] = @ + 1]
      /\ UNCHANGED <<pool, key, val, linked, deleted, num_entries>>
  BY <1>e DEF Release, BailOut, shared
<1>2. e \in Cached /\ e \in Block
  BY DEF Cached, TypeOK
<1>3. /\ pc'[p] = "idle" /\ ent'[p] = NULL
      /\ \A q \in Proc \ {p} : /\ pc'[q] = pc[q] /\ want'[q] = want[q] /\ found'[q] = found[q]
                              /\ at'[q] = at[q] /\ rest'[q] = rest[q] /\ ent'[q] = ent[q]
  BY <1>1 DEF Return, Goto, TypeOK
<1>4. /\ Holders(e)' = Holders(e) \ {p} /\ p \in Holders(e)
      /\ \A f \in Block \ {e} : Holders(f)' = Holders(f)
  <2>1. p \in Holders(e)
    BY <1>1, <1>e DEF Holders
  <2>2. \A f \in Block : \A q \in Proc : (pc'[q] = "holding" /\ ent'[q] = f)
                                     <=> (q # p /\ pc[q] = "holding" /\ ent[q] = f)
    BY <1>3
  <2>3. \A f \in Block : Holders(f)' = Holders(f) \ {p}
    BY <2>2 DEF Holders
  <2>4. \A f \in Block \ {e} : p \notin Holders(f)
    BY <1>e DEF Holders
  <2>5. \A f \in Block \ {e} : Holders(f)' = Holders(f)
    BY <2>3, <2>4
  <2> QED
    BY <1>2, <2>1, <2>3, <2>5
<1>5. Cardinality(Holders(e)') = Cardinality(Holders(e)) - 1
  BY <1>4, HoldersFinite, FS_RemoveElement
<1>6. \A f \in Cached : f \in Block /\ refs[f] = Cardinality(Holders(f)) + leaks[f]
  BY DEF Memory, Complete, Cached, TypeOK
<1>7. \A f \in Cached : refs'[f] = Cardinality(Holders(f)') + leaks'[f]
  <2> SUFFICES ASSUME NEW f \in Cached PROVE refs'[f] = Cardinality(Holders(f)') + leaks'[f]
    OBVIOUS
  <2>1. CASE f = e
    <3>1. refs[e] \in Int /\ leaks[e] \in Nat /\ Cardinality(Holders(e)) \in Nat
      BY <1>2, HoldersFinite DEF TypeOK
    <3>2. \/ refs'[e] = refs[e] - 1 /\ leaks'[e] = leaks[e]
          \/ refs'[e] = refs[e] /\ leaks'[e] = leaks[e] + 1
      BY <1>1, <1>2 DEF TypeOK
    <3>3. refs'[e] = Cardinality(Holders(e)) - 1 + leaks'[e]
      BY <1>2, <1>6, <3>1, <3>2
    <3> QED
      BY <1>5, <2>1, <3>3
  <2>2. CASE f # e
    BY <1>1, <1>4, <1>6, <2>2 DEF TypeOK
  <2> QED
    BY <2>1, <2>2
<1>8. \A f \in Block \ Cached : refs'[f] = refs[f] /\ leaks'[f] = leaks[f]
  BY <1>1, <1>2 DEF TypeOK
<1> QED
  BY <1>1, <1>3, <1>7, <1>8, ReaderStep

(***************************************************************************)
(* A step of a process that makes an entry: the cache and what the others  *)
(* make stay as they are, and a block belongs to the cache, to what        *)
(* another process makes, or to what this one has then.                    *)
(***************************************************************************)
Others(p) == {ent[q] : q \in Storing \ {p}}
LEMMA MakerStep ==
    ASSUME TypeOK, LInv, Memory, \A q \in Proc : Private(q), NEW p \in Proc,
           UNCHANGED <<linked, deleted, num_entries>>,
           \A q \in Proc \ {p} : /\ pc'[q] = pc[q] /\ want'[q] = want[q] /\ found'[q] = found[q]
                                 /\ at'[q] = at[q] /\ rest'[q] = rest[q] /\ ent'[q] = ent[q],
           pc[p] # "holding", pc'[p] # "holding",
           \A e \in Cached \cup Others(p) : /\ pool'[e] = e /\ key'[e] = key[e] /\ val'[e] = val[e]
                                            /\ refs'[e] = refs[e],
           \A e \in Cached : leaks'[e] = leaks[e],
           \A e \in Block \ Cached : leaks'[e] = 0,
           ent'[p] # NULL => pool'[ent'[p]] = ent'[p] /\ ent'[p] \notin Cached \cup Others(p),
           Made(p)' => key'[ent'[p]] # NULL /\ val'[ent'[p]] # NULL /\ refs'[ent'[p]] = 0,
           Linking(p)' => /\ Linking(p) /\ at'[p] = at[p] /\ rest'[p] = rest[p]
                          /\ key'[ent'[p]] = key[ent[p]],
           \A b \in Block : pool'[b] # NULL =>
               pool'[b] \in Cached \cup Others(p) \/ pool'[b] = ent'[p]
    PROVE  MInv'
<1>1. \A q \in Proc : pc'[q] = "holding" <=> pc[q] = "holding"
  OBVIOUS
<1>2. \A q \in Proc \ {p} : (q \in Storing' <=> q \in Storing) /\ (q \in Storing => ent[q] \in Others(p))
  BY DEF Storing, Others
<1>3. p \in Storing' <=> ent'[p] # NULL
  BY DEF Storing
<1>4. Cached' = Cached /\ Cached \subseteq Block /\ linked \subseteq Cached
  BY DEF Cached, TypeOK
<1>5. \A e \in Cached : Holders(e)' = Holders(e)
  <2> SUFFICES ASSUME NEW e \in Cached PROVE Holders(e)' = Holders(e)
    OBVIOUS
  <2>1. \A q \in Proc : (pc'[q] = "holding" /\ ent'[q] = e) <=> (pc[q] = "holding" /\ ent[q] = e)
    BY <1>1
  <2> QED
    BY <2>1 DEF Holders
<1>6. \A e \in Cached : Complete(e)'
  BY <1>5 DEF Complete, Live, Memory
<1>7. \A e \in Cached \cup Others(p) : pool'[e] = e
  OBVIOUS
<1>8. \A b \in Block : pool'[b] # NULL => pool'[pool'[b]] = pool'[b] /\ pool'[b] \in Cached' \cup Building'
  <2> SUFFICES ASSUME NEW b \in Block, pool'[b] # NULL
               PROVE  pool'[pool'[b]] = pool'[b] /\ pool'[b] \in Cached' \cup Building'
    OBVIOUS
  <2>1. CASE pool'[b] \in Cached
    BY <1>4, <1>7, <2>1
  <2>2. CASE pool'[b] \in Others(p)
    <3>1. PICK q \in Storing \ {p} : pool'[b] = ent[q]
      BY <2>2 DEF Others
    <3>2. q \in Storing' /\ ent'[q] = ent[q]
      BY <1>2, <3>1 DEF Storing
    <3> QED
      BY <1>7, <2>2, <3>1, <3>2 DEF Building
  <2>3. CASE pool'[b] = ent'[p]
    BY <1>3, <2>3 DEF Building
  <2> QED
    BY <2>1, <2>2, <2>3
<1>9. \A q, r \in Storing' : ent'[q] = ent'[r] => q = r
  <2> SUFFICES ASSUME NEW q \in Storing', NEW r \in Storing', ent'[q] = ent'[r] PROVE q = r
    OBVIOUS
  <2>1. q \in Proc /\ r \in Proc
    BY DEF Storing
  <2>2. CASE q # p /\ r # p
    BY <1>2, <2>1, <2>2 DEF Memory
  <2>3. CASE q = p /\ r # p
    BY <1>2, <1>3, <2>1, <2>3
  <2>4. CASE q # p /\ r = p
    BY <1>2, <1>3, <2>1, <2>4
  <2> QED
    BY <2>2, <2>3, <2>4
<1>10. Memory'
  <2>1. \A e, f \in linked' : key'[e] = key'[f] => e = f
    BY <1>4 DEF Memory
  <2>2. \A e \in Block \ Cached' : leaks'[e] = 0
    BY <1>4
  <2> QED
    BY <1>4, <1>6, <1>8, <1>9, <2>1, <2>2 DEF Memory, Live
<1>11. ASSUME NEW q \in Proc PROVE Private(q)'
  <2>1. CASE q = p
    <3>1. q \in Storing' => pool'[ent'[q]] = ent'[q] /\ ent'[q] \notin Cached'
      BY <1>3, <1>4, <2>1
    <3>2. Linking(p)' => Place(p)'
      BY DEF Private, Place
    <3>3. Linking(p)' => \A e \in linked' : key'[e] # key'[ent'[p]]
      <4> SUFFICES ASSUME Linking(p)', NEW e \in linked PROVE key'[e] # key'[ent'[p]]
        OBVIOUS
      <4>1. key[e] # key[ent[p]]
        BY DEF Private
      <4>2. key'[e] = key[e] /\ key'[ent'[p]] = key[ent[p]]
        BY <1>4
      <4> QED
        BY <4>1, <4>2
    <3> QED
      BY <2>1, <3>1, <3>2, <3>3 DEF Private, Live
  <2>2. CASE q # p
    <3>0. ent'[q] = ent[q]
      BY <2>2
    <3>1. q \in Storing' => pool'[ent[q]] = ent[q] /\ ent[q] \notin Cached'
      BY <1>2, <1>4, <1>7, <2>2 DEF Private
    <3>2. Made(q)' = Made(q) /\ Linking(q)' = Linking(q) /\ (Linking(q) => Place(q)' = Place(q))
      BY <2>2 DEF Made, Linking, Allocating, Place
    <3>3. Made(q) => ent[q] \in Others(p)
      BY <1>2, <2>2 DEF Made, Storing, LInv, HasPool, Allocating
    <3>4. Made(q) => key'[ent[q]] # NULL /\ val'[ent[q]] # NULL /\ refs'[ent[q]] = 0
      BY <3>3 DEF Private
    <3>5. pc'[q] = "holding" => /\ ent[q] \in Cached'
                               /\ found'[q] = [k |-> key'[ent[q]], v |-> val'[ent[q]]]
      BY <1>4, <2>2 DEF Private
    <3>6. Linking(q) => Made(q)
      BY DEF Linking, Made
    <3>7. Linking(q) => \A e \in linked' : key'[e] # key'[ent[q]]
      <4> SUFFICES ASSUME Linking(q), NEW e \in linked PROVE key'[e] # key'[ent[q]]
        OBVIOUS
      <4>1. key[e] # key[ent[q]]
        BY DEF Private
      <4>2. key'[e] = key[e]
        BY <1>4
      <4>3. key'[ent[q]] = key[ent[q]]
        BY <3>3, <3>6
      <4> QED
        BY <4>1, <4>2, <4>3
    <3>8. Linking(q) => Place(q)'
      BY <3>2 DEF Private
    <3> QED
      BY <3>0, <3>1, <3>2, <3>4, <3>5, <3>7, <3>8 DEF Private, Live
  <2> QED
    BY <2>1, <2>2
<1> QED
  BY <1>10, <1>11 DEF MInv

\* What the others make, and what p has, is live, apart, and not in the cache.
LEMMA Apart ==
    ASSUME TypeOK, LInv, Memory, \A q \in Proc : Private(q), NEW p \in Proc
    PROVE  /\ Others(p) \subseteq Block /\ Others(p) \cap Cached = {} /\ Cached \subseteq Block
           /\ \A e \in Cached \cup Others(p) : pool[e] = e
           /\ p \in Storing => /\ ent[p] \in Block /\ ent[p] \notin Cached \cup Others(p)
                               /\ pool[ent[p]] = ent[p]
           /\ \A b \in Block : pool[b] # NULL =>
                 pool[b] \in Cached \cup Others(p) \/ (p \in Storing /\ pool[b] = ent[p])
<1>1. \A q \in Storing : ent[q] \in Block /\ pool[ent[q]] = ent[q] /\ ent[q] \notin Cached
  BY DEF Private, Storing, TypeOK, Live
<1>2. Others(p) \subseteq Block /\ Others(p) \cap Cached = {} /\ \A e \in Others(p) : pool[e] = e
  BY <1>1 DEF Others
<1>3. Cached \subseteq Block /\ \A e \in Cached : pool[e] = e
  BY DEF Cached, TypeOK, Memory, Complete, Live
<1>4. p \in Storing => ent[p] \notin Others(p)
  BY DEF Memory, Others
<1>5. \A b \in Block : pool[b] # NULL =>
         pool[b] \in Cached \cup Others(p) \/ (p \in Storing /\ pool[b] = ent[p])
  BY DEF Memory, Building, Others
<1> QED
  BY <1>1, <1>2, <1>3, <1>4, <1>5

\* apc_sma_malloc_ex gives a block that belonged to nobody.
LEMMA AllocSucceedsStep ==
    ASSUME TypeOK, LInv, Memory, \A q \in Proc : Private(q), NEW p \in Proc, NEW b \in Block,
           AllocSucceeds(p, b)
    PROVE  MInv'
<1>1. /\ pc[p] = "alloc" /\ pool[b] = NULL
      /\ UNCHANGED <<key, val, refs, leaks, linked, deleted, num_entries, want, at, rest, found>>
      /\ pc' = [pc EXCEPT ![p] = AllocReturns(want[p])]
  BY DEF AllocSucceeds, Avail, Goto
<1>2. PICK first \in Block \cup {NULL} :
         /\ first = IF want[p] = "pool" THEN b ELSE ent[p]
         /\ pool' = [pool EXCEPT ![b] = first] /\ ent' = [ent EXCEPT ![p] = first]
  BY DEF AllocSucceeds, TypeOK
<1>3. b # NULL
  BY NullAssumption DEF NullAssumption
<1>4. /\ \A q \in Proc \ {p} : /\ pc'[q] = pc[q] /\ want'[q] = want[q] /\ found'[q] = found[q]
                               /\ at'[q] = at[q] /\ rest'[q] = rest[q] /\ ent'[q] = ent[q]
      /\ ent'[p] = first /\ pc'[p] = AllocReturns(want[p])
      /\ pc[p] # "holding" /\ pc'[p] # "holding"
  BY <1>1, <1>2 DEF AllocReturns, TypeOK
<1>5. \A e \in Cached \cup Others(p) : e \in Block /\ e # b /\ pool'[e] = e
  BY <1>1, <1>2, <1>3, Apart DEF TypeOK
<1>6. \A e \in Cached \cup Others(p) : /\ pool'[e] = e /\ key'[e] = key[e] /\ val'[e] = val[e]
                                       /\ refs'[e] = refs[e]
  BY <1>1, <1>5
<1>7. (\A e \in Cached : leaks'[e] = leaks[e]) /\ (\A e \in Block \ Cached : leaks'[e] = 0)
  BY <1>1 DEF Memory
<1>8. want[p] = "pool" \/ (want[p] \in {"entry", "slot"} /\ p \in Storing /\ Made(p))
  BY <1>1 DEF LInv, HasPool, Allocating, Storing, Made, TypeOK
<1>9. first # NULL => pool'[first] = first /\ first \notin Cached \cup Others(p)
  <2>1. CASE want[p] = "pool"
    BY <1>2, <1>5, <2>1 DEF TypeOK
  <2>2. CASE want[p] # "pool"
    <3>1. /\ first = ent[p] /\ ent[p] \in Block /\ ent[p] \notin Cached \cup Others(p)
          /\ pool[ent[p]] = ent[p]
      BY <1>2, <1>8, <2>2, Apart
    <3>2. first # b
      BY <1>1, <1>3, <3>1
    <3> QED
      BY <1>2, <3>1, <3>2 DEF TypeOK
  <2> QED
    BY <2>1, <2>2
<1>10. Made(p)' => /\ Made(p) /\ want[p] # "pool"
  BY <1>1, <1>4, <1>8 DEF Made, Allocating, AllocReturns
<1>11. Made(p)' => key'[ent'[p]] # NULL /\ val'[ent'[p]] # NULL /\ refs'[ent'[p]] = 0
  <2> SUFFICES ASSUME Made(p) /\ want[p] # "pool"
               PROVE  key'[ent'[p]] # NULL /\ val'[ent'[p]] # NULL /\ refs'[ent'[p]] = 0
    BY <1>10
  <2>1. key[ent[p]] # NULL /\ val[ent[p]] # NULL /\ refs[ent[p]] = 0
    BY DEF Private
  <2>2. ent'[p] = ent[p]
    BY <1>2, <1>4
  <2> QED
    BY <1>1, <2>1, <2>2
<1>12. Linking(p)' => want[p] = "slot"
  BY <1>1, <1>4, <1>8 DEF Linking, Allocating, AllocReturns
<1>13. Linking(p)' => /\ Linking(p) /\ at'[p] = at[p] /\ rest'[p] = rest[p]
                      /\ key'[ent'[p]] = key[ent[p]]
  <2> SUFFICES ASSUME want[p] = "slot"
               PROVE  /\ Linking(p) /\ at'[p] = at[p] /\ rest'[p] = rest[p]
                      /\ key'[ent'[p]] = key[ent[p]]
    BY <1>12
  <2> QED
    BY <1>1, <1>2, <1>4 DEF Linking, Allocating
<1>14. ent'[p] # NULL => pool'[ent'[p]] = ent'[p] /\ ent'[p] \notin Cached \cup Others(p)
  BY <1>4, <1>9
<1>15. \A c \in Block : pool'[c] # NULL => pool'[c] \in Cached \cup Others(p) \/ pool'[c] = ent'[p]
  <2> SUFFICES ASSUME NEW c \in Block, pool'[c] # NULL, c # b
               PROVE  pool[c] \in Cached \cup Others(p) \/ pool[c] = first
    BY <1>2, <1>4 DEF TypeOK
  <2>1. pool[c] # NULL
    BY <1>2 DEF TypeOK
  <2>2. pool[c] \in Cached \cup Others(p) \/ (p \in Storing /\ pool[c] = ent[p])
    BY <2>1, Apart
  <2>3. want[p] = "pool" => p \notin Storing
    BY <1>1 DEF LInv, HasNone, Allocating, Storing
  <2> QED
    BY <1>2, <2>2, <2>3
<1>16. UNCHANGED <<linked, deleted, num_entries>>
  BY <1>1
<1> QED
  BY <1>4, <1>6, <1>7, <1>11, <1>13, <1>14, <1>15, <1>16, MakerStep

\* apc_cache_make_user_key and apc_cache_make_user_entry.
LEMMA MakeEntryStep ==
    ASSUME TypeOK, LInv, Memory, \A q \in Proc : Private(q), NEW p \in Proc, NEW k \in Key, NEW v \in Val,
           MakeEntry(p, k, v)
    PROVE  MInv'
<1>1. /\ pc[p] = "entry"
      /\ key' = [key EXCEPT ![ent[p]] = k] /\ val' = [val EXCEPT ![ent[p]] = v]
      /\ refs' = [refs EXCEPT ![ent[p]] = 0]
      /\ UNCHANGED <<pool, leaks, linked, deleted, num_entries, ent, at, rest, found>>
  BY DEF MakeEntry
<1>2. \/ pc' = [pc EXCEPT ![p] = "alloc"] /\ want' = [want EXCEPT ![p] = "entry"]
      \/ pc' = [pc EXCEPT ![p] = "insert"] /\ want' = want
  BY DEF MakeEntry, CallAlloc, Goto
<1>3. p \in Storing
  BY <1>1 DEF Storing, LInv, HasPool
<1>4. /\ ent[p] \in Block /\ ent[p] \notin Cached \cup Others(p) /\ pool[ent[p]] = ent[p]
      /\ Others(p) \subseteq Block /\ Cached \subseteq Block
  BY <1>3, Apart
<1>5. k # NULL /\ v # NULL
  BY NullAssumption DEF NullAssumption
<1>6. /\ \A q \in Proc \ {p} : /\ pc'[q] = pc[q] /\ want'[q] = want[q] /\ found'[q] = found[q]
                               /\ at'[q] = at[q] /\ rest'[q] = rest[q] /\ ent'[q] = ent[q]
      /\ pc[p] # "holding" /\ pc'[p] # "holding"
  BY <1>1, <1>2 DEF TypeOK
<1>7. \A e \in Cached \cup Others(p) : /\ pool'[e] = e /\ key'[e] = key[e] /\ val'[e] = val[e]
                                       /\ refs'[e] = refs[e]
  BY <1>1, <1>4, Apart DEF TypeOK
<1>8. (\A e \in Cached : leaks'[e] = leaks[e]) /\ (\A e \in Block \ Cached : leaks'[e] = 0)
  BY <1>1 DEF Memory
<1>9. ent'[p] # NULL => pool'[ent'[p]] = ent'[p] /\ ent'[p] \notin Cached \cup Others(p)
  BY <1>1, <1>4
<1>10. Made(p)' => key'[ent'[p]] # NULL /\ val'[ent'[p]] # NULL /\ refs'[ent'[p]] = 0
  BY <1>1, <1>4, <1>5 DEF TypeOK
<1>11. ~Linking(p)'
  BY <1>1, <1>2 DEF Linking, Allocating, TypeOK
<1>12. \A b \in Block : pool'[b] # NULL => pool'[b] \in Cached \cup Others(p) \/ pool'[b] = ent'[p]
  BY <1>1, Apart
<1>13. UNCHANGED <<linked, deleted, num_entries>>
  BY <1>1
<1> QED
  BY <1>6, <1>7, <1>8, <1>9, <1>10, <1>11, <1>12, <1>13, MakerStep

\* _apc_store gives up and destroys its pool.
LEMMA FreePoolStep ==
    ASSUME TypeOK, LInv, Memory, \A q \in Proc : Private(q), NEW p \in Proc, FreePool(p)
    PROVE  MInv'
<1>1. /\ pc[p] = "freepool" /\ Free({ent[p]} \ {NULL})
      /\ pc' = [pc EXCEPT ![p] = "idle"] /\ ent' = [ent EXCEPT ![p] = NULL]
      /\ \A q \in Proc \ {p} : /\ want'[q] = want[q] /\ found'[q] = found[q]
                               /\ at'[q] = at[q] /\ rest'[q] = rest[q]
      /\ UNCHANGED <<linked, deleted, num_entries>>
  BY DEF FreePool, Return, Goto, TypeOK
<1>2. PICK S : S = {ent[p]} \ {NULL}
  OBVIOUS
<1>3. /\ \A b \in Block : pool'[b] = IF pool[b] \in S THEN NULL ELSE pool[b]
      /\ \A e \in Block \ S : /\ key'[e] = key[e] /\ val'[e] = val[e]
                              /\ refs'[e] = refs[e] /\ leaks'[e] = leaks[e]
      /\ \A e \in Block \cap S : leaks'[e] = 0
  BY <1>1, <1>2 DEF Free
<1>4. /\ \A q \in Proc \ {p} : /\ pc'[q] = pc[q] /\ want'[q] = want[q] /\ found'[q] = found[q]
                               /\ at'[q] = at[q] /\ rest'[q] = rest[q] /\ ent'[q] = ent[q]
      /\ pc[p] # "holding" /\ pc'[p] = "idle" /\ ent'[p] = NULL
  BY <1>1 DEF TypeOK
<1>5. p \in Storing <=> ent[p] # NULL
  BY <1>1 DEF Storing
<1>6. \A e \in Cached \cup Others(p) : e \in Block \ S /\ pool[e] = e
  BY <1>2, <1>5, Apart
<1>7. \A e \in Cached \cup Others(p) : /\ pool'[e] = e /\ key'[e] = key[e] /\ val'[e] = val[e]
                                       /\ refs'[e] = refs[e]
  BY <1>3, <1>6
<1>8. \A e \in Cached : leaks'[e] = leaks[e]
  BY <1>3, <1>6
<1>9. \A e \in Block \ Cached : leaks'[e] = 0
  BY <1>3 DEF Memory
<1>10. ~Made(p)' /\ ~Linking(p)'
  BY <1>4 DEF Made, Linking, Allocating
<1>11. \A b \in Block : pool'[b] # NULL => pool'[b] \in Cached \cup Others(p) \/ pool'[b] = ent'[p]
  <2> SUFFICES ASSUME NEW b \in Block, pool'[b] # NULL PROVE pool'[b] \in Cached \cup Others(p)
    OBVIOUS
  <2>1. pool'[b] = pool[b] /\ pool[b] \notin S
    BY <1>3
  <2> QED
    BY <1>2, <2>1, Apart
<1>12. UNCHANGED <<linked, deleted, num_entries>>
  BY <1>1
<1> QED
  BY <1>4, <1>7, <1>8, <1>9, <1>10, <1>11, <1>12, MakerStep

\* What is behind the place of the slot stays linked, unless the bucket is torn.
LEMMA LinkAdds ==
    ASSUME TypeOK, NEW p \in Proc, Private(p), LinkSlot(p), ~torn'
    PROVE  linked' = {ent[p]} \cup linked
<1>1. /\ linked' = IF at[p] = "head" THEN {ent[p]} \cup rest[p]
                   ELSE IF linked = {} THEN {} ELSE {ent[p]} \cup linked
      /\ ~(linked = {} /\ (at[p] = "next" \/ rest[p] # {}))
  BY DEF LinkSlot
<1>2. at[p] = "head" \/ at[p] = "next"
  BY DEF TypeOK
<1>3. Place(p)
  BY DEF LinkSlot, Private, Linking
<1> QED
  BY <1>1, <1>2, <1>3 DEF Place

(***************************************************************************)
(* The slot is linked where the walk has found its place.  Unless the      *)
(* bucket is torn, that adds the slot and loses none.                      *)
(***************************************************************************)
LEMMA LinkSlotStep ==
    ASSUME TypeOK, LInv, Memory, \A q \in Proc : Private(q), NEW p \in Proc, LinkSlot(p)
    PROVE  MInv'
<1> SUFFICES ASSUME ~torn' PROVE MInv'
  BY DEF MInv
<1>1. /\ pc[p] = "link" /\ Linking(p) /\ Made(p) /\ p \in Storing
      /\ pc' = [pc EXCEPT ![p] = "idle"] /\ ent' = [ent EXCEPT ![p] = NULL]
      /\ \A q \in Proc \ {p} : /\ want'[q] = want[q] /\ found'[q] = found[q]
                               /\ at'[q] = at[q] /\ rest'[q] = rest[q]
      /\ UNCHANGED <<pool, key, val, refs, deleted, leaks>> /\ num_entries' = num_entries + 1
  BY DEF LinkSlot, Return, Goto, TypeOK, Linking, Made, Storing, LInv, HasPool
<1>2. PICK e \in Block : e = ent[p]
  BY <1>1, Apart
<1>3. /\ e \notin Cached \cup Others(p) /\ pool[e] = e /\ Others(p) \subseteq Block
      /\ Others(p) \cap Cached = {} /\ Cached \subseteq Block
  BY <1>1, <1>2, Apart
<1>4. /\ key[e] # NULL /\ val[e] # NULL /\ refs[e] = 0
      /\ Place(p) /\ \A f \in linked : key[f] # key[e]
  BY <1>1, <1>2 DEF Private
<1>5. linked' = {e} \cup linked
  BY <1>1, <1>2, LinkAdds
<1>6. Cached' = Cached \cup {e} /\ linked' \subseteq Cached' /\ linked' \cap deleted' = {}
  BY <1>1, <1>3, <1>5 DEF Cached, Memory
<1>7. num_entries' = Cardinality(linked')
  <2>1. IsFiniteSet(linked) /\ e \notin linked
    BY <1>3, FiniteAssumption, FS_Subset DEF FiniteAssumption, Cached, TypeOK
  <2>2. linked' = linked \cup {e}
    BY <1>5
  <2>3. Cardinality(linked \cup {e}) = Cardinality(linked) + 1
    BY <2>1, FS_AddElement
  <2> QED
    BY <1>1, <2>2, <2>3 DEF Memory
<1>8. /\ \A q \in Proc \ {p} : /\ pc'[q] = pc[q] /\ ent'[q] = ent[q] /\ want'[q] = want[q]
                               /\ found'[q] = found[q] /\ at'[q] = at[q] /\ rest'[q] = rest[q]
      /\ pc'[p] = "idle" /\ ent'[p] = NULL
  BY <1>1 DEF TypeOK
<1>9. \A f \in Block : Holders(f)' = Holders(f)
  <2> SUFFICES ASSUME NEW f \in Block PROVE Holders(f)' = Holders(f)
    OBVIOUS
  <2>1. \A q \in Proc : (pc'[q] = "holding" /\ ent'[q] = f) <=> (pc[q] = "holding" /\ ent[q] = f)
    BY <1>1, <1>8
  <2> QED
    BY <2>1 DEF Holders
<1>10. Holders(e) = {}
  <2>1. \A q \in Proc : pc[q] = "holding" => ent[q] \in Cached
    BY DEF Private
  <2> QED
    BY <1>3, <2>1 DEF Holders
<1>11. leaks[e] = 0
  BY <1>3 DEF Memory
<1>12. \A f \in Cached' : Complete(f)'
  <2>1. Cardinality({}) = 0
    BY FS_EmptySet
  <2>2. refs'[e] = Cardinality(Holders(e)') + leaks'[e]
    <3>1. Holders(e)' = {}
      BY <1>9, <1>10
    <3>2. Cardinality(Holders(e)') = 0
      BY <2>1, <3>1
    <3>3. refs'[e] = 0 /\ leaks'[e] = 0
      BY <1>1, <1>4, <1>11
    <3> QED
      BY <3>2, <3>3
  <2>3. Complete(e)'
    BY <1>1, <1>3, <1>4, <2>2 DEF Complete, Live
  <2>4. \A f \in Cached : Complete(f)'
    BY <1>1, <1>3, <1>9 DEF Complete, Live, Memory
  <2> QED
    BY <1>6, <2>3, <2>4
<1>13. Storing' = Storing \ {p}
  <2>1. \A q \in Proc : (ent'[q] # NULL /\ pc'[q] # "holding") <=> (q # p /\ ent[q] # NULL /\ pc[q] # "holding")
    BY <1>8
  <2> QED
    BY <2>1 DEF Storing
<1>14. Building' = Others(p)
  BY <1>8, <1>13 DEF Building, Others, Storing
<1>15. \A b \in Block : pool'[b] # NULL => pool'[pool'[b]] = pool'[b] /\ pool'[b] \in Cached' \cup Building'
  <2> SUFFICES ASSUME NEW b \in Block, pool[b] # NULL
               PROVE  pool[pool[b]] = pool[b] /\ pool[b] \in Cached' \cup Building'
    BY <1>1
  <2>1. pool[b] \in Cached \cup Others(p) \/ pool[b] = e
    BY <1>2, Apart
  <2>2. pool[pool[b]] = pool[b]
    BY DEF Memory, Live
  <2> QED
    BY <1>6, <1>14, <2>1, <2>2
<1>16. Memory'
  <2>1. \A f, g \in linked' : key'[f] = key'[g] => f = g
    <3>1. \A f, g \in linked : key[f] = key[g] => f = g
      BY DEF Memory
    <3> QED
      BY <1>1, <1>4, <1>5, <3>1
  <2>2. \A f \in Block \ Cached' : leaks'[f] = 0
    BY <1>1, <1>6 DEF Memory
  <2>3. \A q, r \in Storing' : ent'[q] = ent'[r] => q = r
    BY <1>8, <1>13 DEF Memory, Storing
  <2> QED
    BY <1>6, <1>7, <1>12, <1>15, <2>1, <2>2, <2>3 DEF Memory, Live
<1>17. ASSUME NEW q \in Proc PROVE Private(q)'
  <2>1. CASE q = p
    <3>1. p \notin Storing' /\ ~Made(p)' /\ ~Linking(p)' /\ pc'[p] # "holding"
      BY <1>8, <1>13 DEF Made, Linking, Allocating
    <3> QED
      BY <2>1, <3>1 DEF Private
  <2>2. CASE q # p
    <3>0. ent'[q] = ent[q] /\ pc'[q] = pc[q] /\ found'[q] = found[q]
      BY <1>8, <2>2
    <3>1. q \in Storing' => pool'[ent[q]] = ent[q] /\ ent[q] \notin Cached'
      <4> SUFFICES ASSUME q \in Storing PROVE pool[ent[q]] = ent[q] /\ ent[q] \notin Cached'
        BY <1>1, <1>13
      <4>1. ent[q] \in Others(p)
        BY <2>2 DEF Others
      <4>2. pool[ent[q]] = ent[q] /\ ent[q] \notin Cached
        BY DEF Private, Live
      <4> QED
        BY <1>3, <1>6, <4>1, <4>2
    <3>2. Made(q)' = Made(q) /\ Linking(q)' = Linking(q)
      BY <1>8, <2>2 DEF Made, Linking, Allocating
    <3>3. ~Linking(q)
      <4>1. p # NULL /\ lock = p
        BY <1>1, LinkingLocks, NullAssumption DEF NullAssumption
      <4> QED
        BY <2>2, <4>1, LinkingLocks
    <3>4. Made(q) => key'[ent[q]] # NULL /\ val'[ent[q]] # NULL /\ refs'[ent[q]] = 0
      BY <1>1 DEF Private
    <3>5. pc'[q] = "holding" => /\ ent[q] \in Cached'
                               /\ found'[q] = [k |-> key'[ent[q]], v |-> val'[ent[q]]]
      BY <1>1, <1>6, <3>0 DEF Private
    <3> QED
      BY <3>0, <3>1, <3>2, <3>3, <3>4, <3>5 DEF Private, Live
  <2> QED
    BY <2>1, <2>2
<1> QED
  BY <1>16, <1>17 DEF MInv

\* A torn bucket stays torn.
LEMMA TornStays ==
    ASSUME [Next]_vars, torn
    PROVE  torn'
<1>1. ASSUME NEW p \in Proc, MakeSlotFails(p) \/ LinkSlot(p) PROVE torn'
  BY <1>1 DEF MakeSlotFails, LinkSlot
<1>2. ASSUME NEW p \in Proc, Calls(p) PROVE torn'
  BY <1>2 DEF Calls, Store, Fetch, ClearBegins, Delete
<1>3. ASSUME NEW p \in Proc, Allocates(p) PROVE torn'
  BY <1>1, <1>3 DEF Allocates, AllocSucceeds, AllocRetries, AllocFails, ExpungeNotNeeded, ExpungeBegins,
                    ExpungeEnds
<1>4. ASSUME NEW p \in Proc, Stores(p) PROVE torn'
  BY <1>1, <1>4 DEF Stores, MakeEntry, Refused, NotBusy, InsertWalks, InsertExclusiveFails, FreePool
<1>5. ASSUME NEW p \in Proc, Reads(p) PROVE torn'
  BY <1>5 DEF Reads, FindRefused, Release, BailOut, Find, FindMisses
<1>6. ASSUME NEW p \in Proc, ClearEnds(p) PROVE torn'
  BY <1>6 DEF ClearEnds
<1>7. CASE UNCHANGED vars
  BY <1>7 DEF vars
<1> QED
  BY <1>2, <1>3, <1>4, <1>5, <1>6, <1>7 DEF Next

\* The steps of the walk and of an expunge that collect the pending removals.
LEMMA WalkStep ==
    ASSUME TypeOK, LInv, Memory, \A q \in Proc : Private(q), NEW p \in Proc, NEW G \in GcTtl,
           NEW X \in SUBSET linked, NEW behind \in SUBSET linked, InsertWalks(p, G, X, behind)
    PROVE  MInv'
<1>1. PICK S \in SUBSET linked : S = X \cup Same(key[ent[p]])
  BY DEF Same
<1>2. /\ pc[p] = "insertlock" /\ lock = NULL /\ PendingAndRemove(G, S)
      /\ behind \subseteq linked \ S
      /\ at' = [at EXCEPT ![p] = IF behind = linked \ S THEN "head" ELSE "next"]
      /\ rest' = [rest EXCEPT ![p] = behind] /\ UNCHANGED <<ent, found>>
  BY <1>1 DEF InsertWalks
<1>3. \/ pc' = [pc EXCEPT ![p] = "alloc"] /\ want' = [want EXCEPT ![p] = "slot"]
      \/ pc' = [pc EXCEPT ![p] = "link"] /\ want' = want
  BY DEF InsertWalks, CallAlloc, Goto
<1>4. Frees(Pending(G) \cup (S \ InUse(S))) /\ linked' = linked \ S
  BY <1>2, PendingRemoval DEF PendingAndRemove
<1>5. Place(p)'
  BY <1>2, <1>4 DEF Place, TypeOK
<1>6. \A e \in linked' : key[e] # key[ent[p]]
  BY <1>1, <1>4 DEF Same
<1>7. /\ \A q \in Proc \ {p} : /\ pc'[q] = pc[q] /\ want'[q] = want[q] /\ found'[q] = found[q]
                               /\ at'[q] = at[q] /\ rest'[q] = rest[q]
      /\ ent' = ent /\ pc[p] # "holding" /\ pc'[p] # "holding" /\ Made(p) /\ lock \in {NULL, p}
  BY <1>2, <1>3 DEF TypeOK, Made
<1> QED
  BY <1>4, <1>5, <1>6, <1>7, FreesStep

LEMMA ExpungeStep ==
    ASSUME TypeOK, LInv, Memory, \A q \in Proc : Private(q), NEW p \in Proc, NEW G \in GcTtl,
           ExpungeNotNeeded(p, G) \/ ExpungeBegins(p, G)
    PROVE  MInv'
<1>1. PICK S \in SUBSET linked : S = {}
  OBVIOUS
<1>2. /\ pc[p] = "expunge" /\ PendingAndRemove(G, S)
      /\ UNCHANGED <<ent, want, at, rest, found>>
      /\ pc' = [pc EXCEPT ![p] = "alloc"] \/ pc' = [pc EXCEPT ![p] = "wipe"]
  BY <1>1 DEF ExpungeNotNeeded, ExpungeBegins, Goto, Frame
<1>3. Frees(Pending(G) \cup (S \ InUse(S))) /\ linked' = linked
  BY <1>1, <1>2, PendingRemoval DEF PendingAndRemove
<1>4. /\ \A q \in Proc \ {p} : /\ pc'[q] = pc[q] /\ want'[q] = want[q] /\ found'[q] = found[q]
                               /\ at'[q] = at[q] /\ rest'[q] = rest[q]
      /\ ent' = ent /\ pc[p] # "holding" /\ pc'[p] # "holding"
  BY <1>2 DEF TypeOK
<1>5. Made(p)' => Made(p)
  BY <1>2 DEF Made, Allocating, TypeOK
<1>6. Linking(p)' => Linking(p)
  BY <1>2 DEF Linking, Allocating, TypeOK
<1>7. Linking(p)' => Place(p)' /\ \A e \in linked' : key[e] # key[ent[p]]
  BY <1>2, <1>3, <1>6 DEF Private, Place
<1> QED
  BY <1>3, <1>4, <1>5, <1>7, FreesStep

(***************************************************************************)
(* The other removals: a clear and the wiping of an expunge, the deletion  *)
(* of a key, a reader that finds an entry that has outlived its ttl.       *)
(***************************************************************************)
LEMMA RemoveStep ==
    ASSUME TypeOK, LInv, Memory, \A q \in Proc : Private(q), NEW p \in Proc,
           \/ ExpungeEnds(p) \/ ClearEnds(p)
           \/ \E k \in Key : FindMisses(p, k) \/ Delete(p, k)
    PROVE  MInv'
<1> DEFINE Removes(S, l) ==
      /\ Remove(S) /\ S \in SUBSET linked /\ lock \in {NULL, p}
      /\ \A q \in Proc \ {p} : /\ pc'[q] = pc[q] /\ want'[q] = want[q] /\ found'[q] = found[q]
                               /\ at'[q] = at[q] /\ rest'[q] = rest[q]
      /\ ent' = ent /\ pc[p] # "holding" /\ pc'[p] = l
<1>1. ASSUME NEW S, Removes(S, "idle") PROVE MInv'
  <2>1. Frees(S \ InUse(S))
    BY <1>1, PlainRemoval
  <2>2. ~Made(p)' /\ ~Linking(p)' /\ pc'[p] # "holding"
    BY <1>1 DEF Made, Linking, Allocating
  <2> QED
    BY <1>1, <2>1, <2>2, FreesStep
<1>2. CASE ExpungeEnds(p)
  <2>1. /\ pc[p] = "wipe" /\ Remove(linked) /\ UNCHANGED <<ent, want, at, rest, found>>
        /\ pc' = [pc EXCEPT ![p] = "alloc"]
    BY <1>2 DEF ExpungeEnds, Goto, Frame
  <2>2. lock \in {NULL, p}
    BY <2>1 DEF LInv, LockAgrees, Depth
  <2>3. Frees(linked \ InUse(linked)) /\ linked' = {}
    BY <2>1, PlainRemoval DEF Remove
  <2>4. /\ \A q \in Proc \ {p} : /\ pc'[q] = pc[q] /\ want'[q] = want[q] /\ found'[q] = found[q]
                                 /\ at'[q] = at[q] /\ rest'[q] = rest[q]
        /\ ent' = ent /\ pc[p] # "holding" /\ pc'[p] # "holding"
    BY <2>1 DEF TypeOK
  <2>5. Made(p)' => Made(p)
    BY <2>1 DEF Made, Allocating, TypeOK
  <2>6. Place(p)' /\ \A e \in linked' : key[e] # key[ent[p]]
    BY <2>3 DEF Place
  <2> QED
    BY <2>2, <2>3, <2>4, <2>5, <2>6, FreesStep
<1>3. CASE ClearEnds(p)
  <2>1. /\ pc[p] = "clear" /\ Remove(linked) /\ UNCHANGED <<ent, want, at, rest, found>>
        /\ pc' = [pc EXCEPT ![p] = "idle"]
    BY <1>3 DEF ClearEnds, Goto, Frame
  <2>2. lock \in {NULL, p}
    BY <2>1 DEF LInv, LockAgrees, Depth
  <2>3. Removes(linked, "idle")
    BY <2>1, <2>2 DEF TypeOK
  <2> QED
    BY <1>1, <2>3
<1>4. ASSUME NEW k \in Key, FindMisses(p, k) PROVE MInv'
  <2>1. /\ pc[p] = "findlock" /\ Remove(Same(k)) /\ lock = NULL /\ Return(p)
    BY <1>4 DEF FindMisses
  <2>2. ent[p] = NULL
    BY <2>1 DEF LInv, HasNone
  <2>3. ent' = ent
    BY <2>1, <2>2 DEF Return, TypeOK
  <2>4. Removes(Same(k), "idle")
    BY <2>1, <2>3 DEF Return, Goto, TypeOK, Same
  <2> QED
    BY <1>1, <2>4
<1>5. ASSUME NEW k \in Key, Delete(p, k) PROVE MInv'
  <2>1. Removes(Same(k), "idle")
    BY <1>5 DEF Delete, local, Same
  <2> QED
    BY <1>1, <2>1
<1> QED
  BY <1>2, <1>3, <1>4, <1>5

LEMMA MemoryStep ==
    ASSUME TypeOK, LInv, MInv, [Next]_vars
    PROVE  MInv'
<1>0. CASE torn
  BY <1>0, TornStays DEF MInv
<1> SUFFICES ASSUME Memory, \A q \in Proc : Private(q) PROVE MInv'
  BY <1>0 DEF MInv
<1> DEFINE Quiet(p) ==
      /\ UNCHANGED <<pool, key, val, refs, leaks, linked, deleted, num_entries>>
      /\ \A q \in Proc \ {p} : /\ pc'[q] = pc[q] /\ want'[q] = want[q] /\ found'[q] = found[q]
                               /\ at'[q] = at[q] /\ rest'[q] = rest[q]
      /\ ent' = ent /\ pc[p] # "holding" /\ pc'[p] # "holding"
      /\ Made(p)' => Made(p)
      /\ Linking(p)' => Linking(p) /\ at'[p] = at[p] /\ rest'[p] = rest[p]
<1>1. ASSUME NEW p \in Proc, Quiet(p) PROVE MInv'
  BY <1>1, LocalStep
<1>2. ASSUME NEW p \in Proc, Store(p) \/ Fetch(p) \/ ClearBegins(p) PROVE MInv'
  <2>1. CASE Store(p)
    <3>1. Quiet(p)
      BY <2>1 DEF Store, CallAlloc, Goto, shared, Made, Linking, Allocating, TypeOK
    <3> QED
      BY <1>1, <3>1
  <2>2. CASE Fetch(p)
    <3>1. Quiet(p)
      BY <2>2 DEF Fetch, Goto, shared, Frame, Made, Linking, Allocating, TypeOK
    <3> QED
      BY <1>1, <3>1
  <2>3. CASE ClearBegins(p)
    <3>1. Quiet(p)
      BY <2>3 DEF ClearBegins, Goto, Frame, Made, Linking, Allocating, TypeOK
    <3> QED
      BY <1>1, <3>1
  <2> QED
    BY <1>2, <2>1, <2>2, <2>3
<1>3. ASSUME NEW p \in Proc, AllocRetries(p) \/ AllocFails(p) PROVE MInv'
  <2>1. CASE AllocRetries(p)
    <3>1. Quiet(p)
      BY <2>1 DEF AllocRetries, Goto, shared, Made, Linking, Allocating, TypeOK
    <3> QED
      BY <1>1, <3>1
  <2>2. CASE AllocFails(p)
    <3>1. Quiet(p)
      BY <2>2 DEF AllocFails, Goto, shared, Frame, Made, Linking, Allocating, TypeOK
    <3> QED
      BY <1>1, <3>1
  <2> QED
    BY <1>3, <2>1, <2>2
<1>4. ASSUME NEW p \in Proc, MakeSlotFails(p) PROVE MInv'
  <2> SUFFICES ASSUME ~torn' PROVE MInv'
    BY DEF MInv
  <2>1. linked' = linked
    BY <1>4 DEF MakeSlotFails
  <2>2. Quiet(p)
    BY <1>4, <2>1 DEF MakeSlotFails, Goto, Frame, Made, Linking, Allocating, TypeOK
  <2> QED
    BY <1>1, <2>2
<1>5. ASSUME NEW p \in Proc, Refused(p) \/ NotBusy(p) PROVE MInv'
  <2>1. CASE Refused(p)
    <3>1. Quiet(p)
      BY <2>1 DEF Refused, Goto, shared, Frame, Made, Linking, Allocating, TypeOK
    <3> QED
      BY <1>1, <3>1
  <2>2. CASE NotBusy(p)
    <3>1. Quiet(p)
      BY <2>2 DEF NotBusy, Goto, shared, Frame, Made, Linking, Allocating, TypeOK
    <3> QED
      BY <1>1, <3>1
  <2> QED
    BY <1>5, <2>1, <2>2
<1>6. ASSUME NEW p \in Proc, FindRefused(p) PROVE MInv'
  <2>1. pc[p] = "find" /\ Return(p) /\ UNCHANGED <<shared, leaks>>
    BY <1>6 DEF FindRefused
  <2>2. ent' = ent
    BY <2>1 DEF LInv, HasNone, Return, TypeOK
  <2>3. Quiet(p)
    BY <2>1, <2>2 DEF Return, Goto, shared, Made, Linking, Allocating, TypeOK
  <2> QED
    BY <1>1, <2>3
<1>7. ASSUME NEW p \in Proc, Calls(p) PROVE MInv'
  BY <1>2, <1>7, RemoveStep DEF Calls
<1>8. ASSUME NEW p \in Proc, Allocates(p) PROVE MInv'
  BY <1>3, <1>4, <1>8, AllocSucceedsStep, ExpungeStep, RemoveStep DEF Allocates
<1>9. ASSUME NEW p \in Proc, Stores(p) PROVE MInv'
  <2>1. ASSUME NEW G \in GcTtl, NEW X \in SUBSET linked, InsertExclusiveFails(p, G, X) PROVE MInv'
    <3>1. /\ pc[p] = "insertlock" /\ lock = NULL /\ PendingAndRemove(G, X)
          /\ UNCHANGED <<ent, want, at, rest, found>> /\ pc' = [pc EXCEPT ![p] = "freepool"]
      BY <2>1 DEF InsertExclusiveFails, Goto, Frame
    <3>2. Frees(Pending(G) \cup (X \ InUse(X)))
      BY <3>1, PendingRemoval
    <3>3. /\ \A q \in Proc \ {p} : /\ pc'[q] = pc[q] /\ want'[q] = want[q] /\ found'[q] = found[q]
                                   /\ at'[q] = at[q] /\ rest'[q] = rest[q]
          /\ ent' = ent /\ pc[p] # "holding" /\ pc'[p] # "holding" /\ lock \in {NULL, p}
          /\ ~Made(p)' /\ ~Linking(p)'
      BY <3>1 DEF TypeOK, Made, Linking, Allocating
    <3> QED
      BY <3>2, <3>3, FreesStep
  <2> QED
    BY <1>5, <1>9, <2>1, MakeEntryStep, WalkStep, LinkSlotStep, FreePoolStep DEF Stores
<1>10. ASSUME NEW p \in Proc, Reads(p) PROVE MInv'
  BY <1>6, <1>10, FindStep, ReadEnds, RemoveStep DEF Reads
<1>11. ASSUME NEW p \in Proc, ClearEnds(p) PROVE MInv'
  BY <1>11, RemoveStep
<1>12. CASE UNCHANGED vars
  BY <1>12 DEF vars, shared, local, MInv, Memory, Private, Cached, Building, Storing, Complete, Live,
               Holders, Made, Linking, Allocating, Place
<1> QED
  BY <1>7, <1>8, <1>9, <1>10, <1>11, <1>12 DEF Next

-----------------------------------------------------------------------------
(* The theorems.                                                           *)

IInv == TypeOK /\ LInv /\ MInv

LEMMA Initially == Init => IInv
<1> SUFFICES ASSUME Init PROVE IInv
  OBVIOUS
<1>1. TypeOK
  <2>1. Nothing \in [k : Key \cup {NULL}, v : Val \cup {NULL}]
    BY DEF Nothing
  <2>2. found \in [Proc -> [k : Key \cup {NULL}, v : Val \cup {NULL}]]
    BY <2>1 DEF Init
  <2>3. busy \in BOOLEAN /\ torn \in BOOLEAN /\ lock \in Proc \cup {NULL}
    BY DEF Init
  <2>4. /\ pool \in [Block -> Block \cup {NULL}]
        /\ key \in [Block -> Key \cup {NULL}] /\ val \in [Block -> Val \cup {NULL}]
        /\ refs \in [Block -> Int] /\ leaks \in [Block -> Nat]
        /\ linked \subseteq Block /\ deleted \subseteq Block /\ num_entries \in Int
    BY DEF Init
  <2>5. {} \in SUBSET Block
    OBVIOUS
  <2>6. rest \in [Proc -> SUBSET Block] /\ at \in [Proc -> {"head", "next"}]
    BY <2>5 DEF Init
  <2>7. /\ has_lock \in [Proc -> 0 .. 2] /\ tries \in [Proc -> 0 .. 3]
        /\ ent \in [Proc -> Block \cup {NULL}] /\ want \in [Proc -> {"none", "pool", "entry", "slot"}]
    BY DEF Init
  <2> QED
    BY <2>2, <2>3, <2>4, <2>6, <2>7 DEF Init, TypeOK
<1>2. LInv
  BY NullAssumption DEF Init, LInv, LockAgrees, Depth, Linking, Allocating, HasPool, HasNone, NullAssumption
<1>3. Cached = {} /\ Storing = {} /\ Building = {}
  BY DEF Init, Cached, Storing, Building
<1>4. Memory
  BY <1>3, FS_EmptySet DEF Init, Memory
<1>5. \A p \in Proc : Private(p)
  BY <1>3 DEF Init, Private, Made, Linking, Allocating
<1> QED
  BY <1>1, <1>2, <1>4, <1>5 DEF IInv, MInv

LEMMA IInvAlways == Spec => []IInv
<1>1. IInv /\ [Next]_vars => IInv'
  BY TypeStep, LockStep, MemoryStep DEF IInv
<1> QED
  BY <1>1, Initially, PTL DEF Spec

(***************************************************************************)
(* The variables of the cache keep their types; above all the private      *)
(* depth of the lock never leaves 0 .. 2, however an expunge nests in an   *)
(* insertion.                                                              *)
(***************************************************************************)
THEOREM TypeCorrect == Spec => []TypeOK
<1>1. IInv => TypeOK
  BY DEF IInv
<1> QED
  BY <1>1, IInvAlways, PTL

(***************************************************************************)
(* CACHE_SAFE_LOCK and CACHE_SAFE_UNLOCK keep has_lock, the lock and busy  *)
(* together, for any processes: an expunge inside an insertion gives the   *)
(* lock back to the insertion, and no path leaves busy set.                *)
(***************************************************************************)
THEOREM LocksAgree == Spec => []LockAgrees
<1>1. IInv => LockAgrees
  BY DEF IInv, LInv
<1> QED
  BY <1>1, IInvAlways, PTL

(***************************************************************************)
(* Until a bucket is torn, every slot that apc_cache_user_find can walk to *)
(* is complete, live, not on the deleted list and the only one of its key. *)
(***************************************************************************)
THEOREM ChainStaysIntact == Spec => []ChainIntact
<1>1. ASSUME Memory, \A p \in Proc : Private(p) PROVE Intact
  <2>1. \A e \in linked : Live(e) /\ key[e] # NULL /\ e \notin deleted
    BY <1>1 DEF Memory, Cached, Complete
  <2>2. \A e \in linked : e \notin Building
    <3>1. \A p \in Storing : ent[p] \notin linked
      BY <1>1 DEF Private, Storing, Cached
    <3> QED
      BY <3>1 DEF Building
  <2> QED
    BY <1>1, <2>1, <2>2 DEF Intact, Memory
<1>2. IInv => ChainIntact
  BY <1>1 DEF IInv, MInv, ChainIntact
<1> QED
  BY <1>2, IInvAlways, PTL

(***************************************************************************)
(* Until a bucket is torn, what apc_fetch copies outside the lock is what  *)
(* apc_cache_user_find found, whatever expunges, deletions and clears      *)
(* there are meanwhile, and the reference counts count.                    *)
(***************************************************************************)
THEOREM InUseStaysIntact == Spec => []InUseIntact
<1>1. ASSUME Memory, \A p \in Proc : Private(p) PROVE InUseIntact
  BY <1>1 DEF InUseIntact, Memory, Private, Cached, Complete
<1>2. IInv => InUseIntact
  BY <1>1 DEF IInv, MInv, InUseIntact
<1> QED
  BY <1>2, IInvAlways, PTL

(***************************************************************************)
(* Until a bucket is torn, no path of _apc_store, of the garbage list or   *)
(* of an expunge loses a block of shared memory, no two stores share one,  *)
(* and num_entries counts the slots.                                       *)
(***************************************************************************)
THEOREM MemoryIsConserved == Spec => []MemoryConserved
<1>1. ASSUME Memory PROVE MemoryConserved
  BY <1>1 DEF MemoryConserved, Memory, Cached
<1>2. IInv => MemoryConserved
  BY <1>1 DEF IInv, MInv, MemoryConserved
<1> QED
  BY <1>2, IInvAlways, PTL

-----------------------------------------------------------------------------
\* What a walk of the slots L finds for the key k.
Lookup(L, ks, vs, k) ==
    IF {e \in L : ks[e] = k} = {} THEN NULL ELSE vs[CHOOSE e \in {f \in L : ks[f] = k} : TRUE]

Map(k) == Lookup(linked, key, val, k)
Taken(p) == IF pc[p] = "holding" THEN val[ent[p]] ELSE NULL

\* A key is in the bucket once at most: the walk finds that slot.
LEMMA LookupFinds ==
    ASSUME NEW L, NEW ks, NEW vs, \A e, f \in L : ks[e] = ks[f] => e = f
    PROVE  /\ \A e \in L : Lookup(L, ks, vs, ks[e]) = vs[e]
           /\ \A k : (\A e \in L : ks[e] # k) => Lookup(L, ks, vs, k) = NULL
<1>1. ASSUME NEW e \in L PROVE Lookup(L, ks, vs, ks[e]) = vs[e]
  <2>1. {f \in L : ks[f] = ks[e]} = {e}
    OBVIOUS
  <2>2. (CHOOSE f \in {e} : TRUE) = e
    OBVIOUS
  <2> QED
    BY <2>1, <2>2 DEF Lookup
<1>2. ASSUME NEW k, \A e \in L : ks[e] # k PROVE Lookup(L, ks, vs, k) = NULL
  BY <1>2 DEF Lookup
<1> QED
  BY <1>1, <1>2

LEMMA MapFinds ==
    ASSUME Memory
    PROVE  /\ \A e \in linked : Map(key[e]) = val[e] /\ val[e] # NULL
           /\ \A k : (\A e \in linked : key[e] # k) => Map(k) = NULL
<1>1. \A e, f \in linked : key[e] = key[f] => e = f
  BY DEF Memory
<1>2. \A e \in linked : val[e] # NULL
  BY DEF Memory, Cached, Complete
<1> QED
  BY <1>1, <1>2, LookupFinds DEF Map

\* The same after a step.
NewMap(k) == Lookup(linked', key', val', k)
NewTaken(p) == IF pc'[p] = "holding" THEN val'[ent'[p]] ELSE NULL

LEMMA NewMapFinds ==
    ASSUME Memory'
    PROVE  /\ \A e \in linked' : NewMap(key'[e]) = val'[e] /\ val'[e] # NULL
           /\ \A k : (\A e \in linked' : key'[e] # k) => NewMap(k) = NULL
<1>1. \A e, f \in linked' : key'[e] = key'[f] => e = f
  BY DEF Memory
<1>2. \A e \in linked' : val'[e] # NULL
  BY DEF Memory, Cached, Complete
<1>3. \A e \in linked' : NewMap(key'[e]) = val'[e]
  BY <1>1, LookupFinds DEF NewMap
<1>4. \A k : (\A e \in linked' : key'[e] # k) => NewMap(k) = NULL
  BY <1>1, LookupFinds DEF NewMap
<1> QED
  BY <1>2, <1>3, <1>4

\* What a reader has is what it found.
LEMMA TakenFound ==
    ASSUME NEW p \in Proc, Private(p)
    PROVE  Taken(p) = IF pc[p] = "holding" THEN found[p].v ELSE NULL
BY DEF Private, Taken

LEMMA NewTakenFound ==
    ASSUME NEW p \in Proc, Private(p)'
    PROVE  NewTaken(p) = IF pc'[p] = "holding" THEN found'[p].v ELSE NULL
BY DEF Private, NewTaken

\* The steps of the map, in these terms.
LEMMA PromiseSteps ==
    /\ \A k \in Key, v \in Val :
          (\A j \in Key : NewMap(j) = IF j = k THEN v ELSE Map(j)) /\ (\A p \in Proc : NewTaken(p) = Taken(p))
          => Promise!Next
    /\ \A K \in SUBSET Key :
          (\A j \in Key : NewMap(j) = IF j \in K THEN NULL ELSE Map(j)) /\ (\A p \in Proc : NewTaken(p) = Taken(p))
          => Promise!Next
    /\ \A p \in Proc, k \in Key :
          /\ Taken(p) = NULL /\ Map(k) # NULL /\ \A j \in Key : NewMap(j) = Map(j)
          /\ \A q \in Proc : NewTaken(q) = IF q = p THEN Map(k) ELSE Taken(q)
          => Promise!Next
    /\ \A p \in Proc :
          /\ \A j \in Key : NewMap(j) = Map(j)
          /\ \A q \in Proc : NewTaken(q) = IF q = p THEN NULL ELSE Taken(q)
          => Promise!Next
<1>1. ASSUME NEW k \in Key, NEW v \in Val,
             \A j \in Key : NewMap(j) = IF j = k THEN v ELSE Map(j), \A p \in Proc : NewTaken(p) = Taken(p)
      PROVE  Promise!Next
  <2>1. [j \in Key |-> NewMap(j)] = [[j \in Key |-> Map(j)] EXCEPT ![k] = v]
    BY <1>1
  <2>2. [p \in Proc |-> NewTaken(p)] = [p \in Proc |-> Taken(p)]
    BY <1>1
  <2>3. Promise!Put(k, v)
    BY <2>1, <2>2 DEF Promise!Put, Map, NewMap, Lookup, Taken, NewTaken, Same
  <2> QED
    BY <2>3 DEF Promise!Next
<1>2. ASSUME NEW K \in SUBSET Key,
             \A j \in Key : NewMap(j) = IF j \in K THEN NULL ELSE Map(j), \A p \in Proc : NewTaken(p) = Taken(p)
      PROVE  Promise!Next
  <2>1. Promise!Evict(K)
    BY <1>2 DEF Promise!Evict, Map, NewMap, Lookup, Taken, NewTaken, Same
  <2> QED
    BY <2>1 DEF Promise!Next
<1>3. ASSUME NEW p \in Proc, NEW k \in Key,
             Taken(p) = NULL, Map(k) # NULL, \A j \in Key : NewMap(j) = Map(j),
             \A q \in Proc : NewTaken(q) = IF q = p THEN Map(k) ELSE Taken(q)
      PROVE  Promise!Next
  <2>1. [q \in Proc |-> NewTaken(q)] = [[q \in Proc |-> Taken(q)] EXCEPT ![p] = [j \in Key |-> Map(j)][k]]
    BY <1>3
  <2>2. [j \in Key |-> NewMap(j)] = [j \in Key |-> Map(j)]
    BY <1>3
  <2>3. [q \in Proc |-> Taken(q)][p] = NULL /\ [j \in Key |-> Map(j)][k] # NULL
    BY <1>3
  <2>4. Promise!Take(p, k)
    BY <2>1, <2>2, <2>3 DEF Promise!Take, Map, NewMap, Lookup, Taken, NewTaken, Same
  <2> QED
    BY <2>4 DEF Promise!Next
<1>4. ASSUME NEW p \in Proc, \A j \in Key : NewMap(j) = Map(j),
             \A q \in Proc : NewTaken(q) = IF q = p THEN NULL ELSE Taken(q)
      PROVE  Promise!Next
  <2>1. [q \in Proc |-> NewTaken(q)] = [[q \in Proc |-> Taken(q)] EXCEPT ![p] = NULL]
    BY <1>4
  <2>2. [j \in Key |-> NewMap(j)] = [j \in Key |-> Map(j)]
    BY <1>4
  <2>3. Promise!Drop(p)
    BY <2>1, <2>2 DEF Promise!Drop, Map, NewMap, Lookup, Taken, NewTaken, Same
  <2> QED
    BY <2>3 DEF Promise!Next
<1> HIDE DEF Promise!Next
<1> QED
  BY <1>1, <1>2, <1>3, <1>4, Zenon

-----------------------------------------------------------------------------
(***************************************************************************)
(* Most steps take slots off the bucket at most, and no reader begins or   *)
(* ends: keys are evicted, at most.                                        *)
(***************************************************************************)
Shrinks ==
    /\ linked' \subseteq linked /\ \A e \in linked' : key'[e] = key[e] /\ val'[e] = val[e]
    /\ \A q \in Proc : /\ pc'[q] = "holding" <=> pc[q] = "holding"
                       /\ pc[q] = "holding" => found'[q] = found[q]

LEMMA ShrinksEvicts ==
    ASSUME TypeOK, Memory, \A q \in Proc : Private(q), Memory', \A q \in Proc : Private(q)', Shrinks
    PROVE  Promise!Next
<1>1. /\ linked' \subseteq linked /\ \A e \in linked' : key'[e] = key[e] /\ val'[e] = val[e]
      /\ \A q \in Proc : /\ pc'[q] = "holding" <=> pc[q] = "holding"
                         /\ pc[q] = "holding" => found'[q] = found[q]
  BY DEF Shrinks
<1>2. \A q \in Proc : NewTaken(q) = Taken(q)
  BY <1>1, TakenFound, NewTakenFound
<1>3. PICK K \in SUBSET Key : K = {k \in Key : \A e \in linked' : key'[e] # k}
  OBVIOUS
<1>4. ASSUME NEW j \in Key PROVE NewMap(j) = IF j \in K THEN NULL ELSE Map(j)
  <2>1. CASE j \in K
    BY <1>3, <2>1, NewMapFinds
  <2>2. CASE j \notin K
    <3>1. PICK e \in linked' : key'[e] = j
      BY <1>3, <2>2
    <3>2. NewMap(j) = val'[e]
      BY <3>1, NewMapFinds
    <3>3. e \in linked /\ key[e] = j /\ val'[e] = val[e]
      BY <1>1, <3>1
    <3>4. Map(j) = val[e]
      BY <3>3, MapFinds
    <3> QED
      BY <2>2, <3>2, <3>3, <3>4
  <2> QED
    BY <2>1, <2>2
<1> QED
  BY <1>2, <1>4, PromiseSteps

\* What is removed or collected is not in the bucket any more.
LEMMA RemovalKeeps ==
    ASSUME TypeOK, Memory, NEW S \in SUBSET linked
    PROVE  /\ Remove(S) => /\ linked' \subseteq linked
                           /\ \A e \in linked' : key'[e] = key[e] /\ val'[e] = val[e]
           /\ \A G \in GcTtl : PendingAndRemove(G, S) =>
                 /\ linked' \subseteq linked
                 /\ \A e \in linked' : key'[e] = key[e] /\ val'[e] = val[e]
<1>1. linked \cap deleted = {} /\ linked \subseteq Block
  BY DEF Memory, TypeOK
<1>2. ASSUME Remove(S)
      PROVE  linked' \subseteq linked /\ \A e \in linked' : key'[e] = key[e] /\ val'[e] = val[e]
  BY <1>1, <1>2 DEF Remove, Free
<1>3. ASSUME NEW G \in GcTtl, PendingAndRemove(G, S)
      PROVE  linked' \subseteq linked /\ \A e \in linked' : key'[e] = key[e] /\ val'[e] = val[e]
  <2>1. Pending(G) \subseteq deleted
    BY DEF Pending, GcTtl
  <2>2. /\ linked' = linked \ S
        /\ \A e \in Block \ (Pending(G) \cup (S \ InUse(S))) : key'[e] = key[e] /\ val'[e] = val[e]
    BY <1>3 DEF PendingAndRemove, Free
  <2> QED
    BY <1>1, <2>1, <2>2
<1> QED
  BY <1>2, <1>3

LEMMA StoreShrinks ==
    ASSUME TypeOK, LInv, Memory, \A q \in Proc : Private(q), NEW p \in Proc,
           \/ Calls(p) \/ ClearEnds(p)
           \/ Allocates(p) /\ ~torn'
    PROVE  Shrinks
<1> USE DEF shared, local, Frame, Goto
<1>1. CASE Calls(p)
  <2>1. CASE Store(p) \/ Fetch(p) \/ ClearBegins(p)
    BY <2>1 DEF Store, Fetch, ClearBegins, CallAlloc, Shrinks, TypeOK
  <2>2. ASSUME NEW k \in Key, Delete(p, k) PROVE Shrinks
    <3>1. Same(k) \in SUBSET linked /\ Remove(Same(k)) /\ UNCHANGED <<pc, found>>
      BY <2>2 DEF Delete, Same
    <3> QED
      BY <3>1, RemovalKeeps DEF Shrinks
  <2> QED
    BY <1>1, <2>1, <2>2 DEF Calls
<1>2. CASE ClearEnds(p)
  <2>1. Remove(linked) /\ pc[p] = "clear" /\ pc' = [pc EXCEPT ![p] = "idle"] /\ UNCHANGED found
    BY <1>2 DEF ClearEnds
  <2>2. linked' \subseteq linked /\ \A e \in linked' : key'[e] = key[e] /\ val'[e] = val[e]
    BY <2>1, RemovalKeeps
  <2> QED
    BY <2>1, <2>2 DEF Shrinks, TypeOK
<1>3. CASE Allocates(p) /\ ~torn'
  <2>1. ASSUME NEW b \in Block, AllocSucceeds(p, b) PROVE Shrinks
    <3>1. /\ pc[p] = "alloc" /\ pc' = [pc EXCEPT ![p] = AllocReturns(want[p])]
          /\ UNCHANGED <<linked, key, val, found>>
      BY <2>1 DEF AllocSucceeds
    <3> QED
      BY <3>1 DEF Shrinks, AllocReturns, TypeOK
  <2>2. CASE AllocRetries(p) \/ AllocFails(p)
    BY <2>2 DEF AllocRetries, AllocFails, Shrinks, TypeOK
  <2>3. CASE MakeSlotFails(p)
    <3>1. linked' = linked
      BY <1>3, <2>3 DEF MakeSlotFails
    <3> QED
      BY <2>3, <3>1 DEF MakeSlotFails, Shrinks, TypeOK
  <2>4. ASSUME NEW G \in GcTtl, ExpungeNotNeeded(p, G) \/ ExpungeBegins(p, G) PROVE Shrinks
    <3>1. /\ PendingAndRemove(G, {}) /\ pc[p] = "expunge" /\ UNCHANGED found
          /\ pc' = [pc EXCEPT ![p] = "alloc"] \/ pc' = [pc EXCEPT ![p] = "wipe"]
      BY <2>4 DEF ExpungeNotNeeded, ExpungeBegins
    <3>2. linked' \subseteq linked /\ \A e \in linked' : key'[e] = key[e] /\ val'[e] = val[e]
      BY <3>1, RemovalKeeps
    <3> QED
      BY <3>1, <3>2 DEF Shrinks, TypeOK
  <2>5. CASE ExpungeEnds(p)
    <3>1. /\ Remove(linked) /\ pc[p] = "wipe" /\ UNCHANGED found /\ pc' = [pc EXCEPT ![p] = "alloc"]
      BY <2>5 DEF ExpungeEnds
    <3>2. linked' \subseteq linked /\ \A e \in linked' : key'[e] = key[e] /\ val'[e] = val[e]
      BY <3>1, RemovalKeeps
    <3> QED
      BY <3>1, <3>2 DEF Shrinks, TypeOK
  <2> QED
    BY <1>3, <2>1, <2>2, <2>3, <2>4, <2>5 DEF Allocates
<1> QED
  BY <1>1, <1>2, <1>3

\* What an insertion puts under its key.
LEMMA LinkPuts ==
    ASSUME TypeOK, LInv, Memory, \A q \in Proc : Private(q), Memory', \A q \in Proc : Private(q)',
           NEW p \in Proc, LinkSlot(p), ~torn'
    PROVE  Promise!Next
<1>1. /\ linked' = {ent[p]} \cup linked /\ UNCHANGED <<key, val>> /\ pc[p] = "link"
      /\ pc' = [pc EXCEPT ![p] = "idle"] /\ found' = [found EXCEPT ![p] = Nothing]
  BY LinkAdds DEF LinkSlot, Return, Goto
<1>2. ent[p] \in Block /\ key[ent[p]] \in Key /\ val[ent[p]] \in Val
  BY <1>1 DEF Private, Made, LInv, HasPool, TypeOK
<1>3. PICK k \in Key, v \in Val : k = key[ent[p]] /\ v = val[ent[p]]
  BY <1>2
<1>4. \A q \in Proc : NewTaken(q) = Taken(q)
  BY <1>1, TakenFound, NewTakenFound DEF TypeOK
<1>5. ASSUME NEW j \in Key PROVE NewMap(j) = IF j = k THEN v ELSE Map(j)
  <2>1. CASE j = k
    <3>1. ent[p] \in linked' /\ key'[ent[p]] = k /\ val'[ent[p]] = v
      BY <1>1, <1>3
    <3> QED
      BY <2>1, <3>1, NewMapFinds
  <2>2. CASE j # k /\ \E e \in linked : key[e] = j
    <3>1. PICK e \in linked : key[e] = j
      BY <2>2
    <3>2. e \in linked' /\ key'[e] = j /\ val'[e] = val[e]
      BY <1>1, <3>1
    <3> QED
      BY <2>2, <3>1, <3>2, MapFinds, NewMapFinds
  <2>3. CASE j # k /\ \A e \in linked : key[e] # j
    <3>1. \A e \in linked' : key'[e] # j
      BY <1>1, <1>3, <2>3
    <3> QED
      BY <2>3, <3>1, MapFinds, NewMapFinds
  <2> QED
    BY <2>1, <2>2, <2>3
<1> QED
  BY <1>4, <1>5, PromiseSteps

LEMMA InsertShrinks ==
    ASSUME TypeOK, LInv, Memory, \A q \in Proc : Private(q), NEW p \in Proc, Stores(p), ~LinkSlot(p)
    PROVE  Shrinks
<1> USE DEF shared, local, Frame, Goto
<1>1. ASSUME NEW k \in Key, NEW v \in Val, MakeEntry(p, k, v) PROVE Shrinks
  <2>1. pc[p] = "entry" /\ p \in Storing
    BY <1>1 DEF MakeEntry, Storing, LInv, HasPool
  <2>2. ent[p] \notin linked /\ linked \subseteq Block
    BY <2>1 DEF Private, Cached, TypeOK
  <2>3. /\ key' = [key EXCEPT ![ent[p]] = k] /\ val' = [val EXCEPT ![ent[p]] = v]
        /\ UNCHANGED <<linked, found>>
        /\ pc' = [pc EXCEPT ![p] = "alloc"] \/ pc' = [pc EXCEPT ![p] = "insert"]
    BY <1>1 DEF MakeEntry, CallAlloc
  <2> QED
    BY <2>1, <2>2, <2>3 DEF Shrinks, TypeOK
<1>2. CASE Refused(p)
  BY <1>2 DEF Refused, Shrinks, TypeOK
<1>3. CASE NotBusy(p)
  <2>1. /\ pc[p] \in {"insert", "find"} /\ UNCHANGED <<linked, key, val, found>>
        /\ pc' = [pc EXCEPT ![p] = "insertlock"] \/ pc' = [pc EXCEPT ![p] = "findlock"]
    BY <1>3 DEF NotBusy
  <2> QED
    BY <2>1 DEF Shrinks, TypeOK
<1>4. ASSUME NEW G \in GcTtl, NEW X \in SUBSET linked, NEW behind \in SUBSET linked, InsertWalks(p, G, X, behind)
      PROVE  Shrinks
  <2>1. /\ PendingAndRemove(G, X \cup Same(key[ent[p]])) /\ pc[p] = "insertlock" /\ UNCHANGED found
        /\ pc' = [pc EXCEPT ![p] = "alloc"] \/ pc' = [pc EXCEPT ![p] = "link"]
    BY <1>4 DEF InsertWalks, CallAlloc
  <2>2. X \cup Same(key[ent[p]]) \in SUBSET linked
    BY DEF Same
  <2>3. linked' \subseteq linked /\ \A e \in linked' : key'[e] = key[e] /\ val'[e] = val[e]
    BY <2>1, <2>2, RemovalKeeps
  <2> QED
    BY <2>1, <2>3 DEF Shrinks, TypeOK
<1>5. ASSUME NEW G \in GcTtl, NEW X \in SUBSET linked, InsertExclusiveFails(p, G, X) PROVE Shrinks
  <2>1. /\ PendingAndRemove(G, X) /\ pc[p] = "insertlock" /\ UNCHANGED found
        /\ pc' = [pc EXCEPT ![p] = "freepool"]
    BY <1>5 DEF InsertExclusiveFails
  <2>2. linked' \subseteq linked /\ \A e \in linked' : key'[e] = key[e] /\ val'[e] = val[e]
    BY <2>1, RemovalKeeps
  <2> QED
    BY <2>1, <2>2 DEF Shrinks, TypeOK
<1>6. CASE FreePool(p)
  <2>1. /\ pc[p] = "freepool" /\ Free({ent[p]} \ {NULL}) /\ UNCHANGED linked
        /\ pc' = [pc EXCEPT ![p] = "idle"] /\ found' = [found EXCEPT ![p] = Nothing]
    BY <1>6 DEF FreePool, Return
  <2>2. ent[p] # NULL => ent[p] \notin linked
    BY <2>1 DEF Private, Storing, Cached
  <2>3. \A e \in linked : e \in Block /\ e \notin {ent[p]} \ {NULL}
    BY <2>2 DEF TypeOK
  <2>4. \A e \in linked : key'[e] = key[e] /\ val'[e] = val[e]
    BY <2>1, <2>3 DEF Free
  <2> QED
    BY <2>1, <2>4 DEF Shrinks, TypeOK
<1> QED
  BY <1>1, <1>2, <1>3, <1>4, <1>5, <1>6 DEF Stores

\* What a reader takes and drops.
LEMMA ReadsTake ==
    ASSUME TypeOK, LInv, Memory, \A q \in Proc : Private(q), Memory', \A q \in Proc : Private(q)',
           NEW p \in Proc, Reads(p)
    PROVE  Promise!Next
<1>1. ASSUME linked' = linked, key' = key, val' = val
      PROVE  \A j \in Key : NewMap(j) = Map(j)
  BY <1>1 DEF NewMap, Map
<1>2. CASE FindRefused(p)
  <2>1. Shrinks
    BY <1>2 DEF FindRefused, Return, Goto, shared, Shrinks, TypeOK
  <2> QED
    BY <2>1, ShrinksEvicts
<1>3. CASE Release(p) \/ BailOut(p)
  <2>1. /\ UNCHANGED <<linked, key, val>> /\ pc' = [pc EXCEPT ![p] = "idle"]
        /\ found' = [found EXCEPT ![p] = Nothing]
    BY <1>3 DEF Release, BailOut, Return, Goto, shared
  <2>2. \A q \in Proc : NewTaken(q) = IF q = p THEN NULL ELSE Taken(q)
    BY <2>1, TakenFound, NewTakenFound DEF TypeOK
  <2> QED
    BY <1>1, <2>1, <2>2, PromiseSteps
<1>4. ASSUME NEW e \in Block, Find(p, e) PROVE Promise!Next
  <2>1. /\ UNCHANGED <<linked, key, val>> /\ pc[p] = "findlock" /\ e \in linked
        /\ pc' = [pc EXCEPT ![p] = "holding"]
        /\ found' = [found EXCEPT ![p] = [k |-> key[e], v |-> val[e]]]
    BY <1>4 DEF Find, Goto
  <2>2. key[e] # NULL /\ key[e] \in Key
    BY <2>1 DEF Memory, Cached, Complete, TypeOK
  <2>3. PICK k \in Key : k = key[e]
    BY <2>2
  <2>4. Map(k) = val[e] /\ Map(k) # NULL
    BY <2>1, <2>3, MapFinds
  <2>5. \A q \in Proc : NewTaken(q) = IF q = p THEN Map(k) ELSE Taken(q)
    BY <2>1, <2>4, TakenFound, NewTakenFound DEF TypeOK
  <2>6. Taken(p) = NULL
    BY <2>1 DEF Taken
  <2> QED
    BY <1>1, <2>1, <2>4, <2>5, <2>6, PromiseSteps
<1>5. ASSUME NEW k \in Key, FindMisses(p, k) PROVE Promise!Next
  <2>1. /\ Remove(Same(k)) /\ Same(k) \in SUBSET linked /\ pc[p] = "findlock"
        /\ pc' = [pc EXCEPT ![p] = "idle"] /\ found' = [found EXCEPT ![p] = Nothing]
    BY <1>5 DEF FindMisses, Return, Goto, Same
  <2>2. linked' \subseteq linked /\ \A e \in linked' : key'[e] = key[e] /\ val'[e] = val[e]
    BY <2>1, RemovalKeeps
  <2>3. Shrinks
    BY <2>1, <2>2 DEF Shrinks, TypeOK
  <2> QED
    BY <2>3, ShrinksEvicts
<1> QED
  BY <1>2, <1>3, <1>4, <1>5 DEF Reads

LEMMA PromiseStep ==
    ASSUME IInv, IInv', [Next]_vars
    PROVE  torn' \/ Promise!Next \/ UNCHANGED Promise!vars
<1> SUFFICES ASSUME ~torn' PROVE Promise!Next \/ UNCHANGED Promise!vars
  OBVIOUS
<1>1. ~torn
  BY TornStays
<1>2. /\ TypeOK /\ LInv /\ Memory /\ \A q \in Proc : Private(q)
      /\ Memory' /\ \A q \in Proc : Private(q)'
  BY <1>1 DEF IInv, MInv
<1>3. CASE UNCHANGED vars
  BY <1>3 DEF vars, shared, local, Promise!vars, Same
<1>4. ASSUME NEW p \in Proc, Calls(p) \/ Allocates(p) \/ Stores(p) \/ Reads(p) \/ ClearEnds(p)
      PROVE  Promise!Next
  <2>1. CASE Calls(p) \/ Allocates(p) \/ ClearEnds(p)
    <3>1. Shrinks
      BY <1>2, <2>1, StoreShrinks
    <3> QED
      BY <1>2, <3>1, ShrinksEvicts
  <2>2. CASE LinkSlot(p)
    BY <1>2, <2>2, LinkPuts
  <2>3. CASE Stores(p) /\ ~LinkSlot(p)
    <3>1. Shrinks
      BY <1>2, <2>3, InsertShrinks
    <3> QED
      BY <1>2, <3>1, ShrinksEvicts
  <2>4. CASE Reads(p)
    BY <1>2, <2>4, ReadsTake
  <2> QED
    BY <1>4, <2>1, <2>2, <2>3, <2>4
<1> QED
  BY <1>3, <1>4 DEF Next

(***************************************************************************)
(* Until a bucket is torn the user cache is an evicting map: apc_store     *)
(* puts a value under its own key in one step, anything else takes entries *)
(* away at most, and what apc_fetch copies outside the lock is one value   *)
(* that was under the key it asked for, and never changes.                 *)
(***************************************************************************)
THEOREM Implements == Spec => KeepsPromise
<1>1. Init => Promise!Init
  <2>1. Init => Memory /\ \A p \in Proc : Taken(p) = NULL
    BY Initially DEF Init, IInv, MInv, Taken
  <2>2. Init => \A k \in Key : Map(k) = NULL
    BY <2>1, MapFinds DEF Init
  <2> QED
    BY <2>1, <2>2 DEF Promise!Init, Map, Lookup, Taken, Same
<1>2. IInv /\ IInv' /\ [Next]_vars => [torn' \/ Promise!Next]_(Promise!vars)
  BY PromiseStep
<1> QED
  BY <1>1, <1>2, IInvAlways, PTL DEF Spec, KeepsPromise
=============================================================================
