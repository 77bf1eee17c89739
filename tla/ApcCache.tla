------------------------------ MODULE ApcCache ------------------------------
(***************************************************************************)
(* The user cache of APC (ext/apc/apc_cache.c, with _apc_store and         *)
(* apc_fetch of php_apc.c and apc_sma_malloc_ex of apc_sma.c): processes   *)
(* share a table of slots whose memory comes from one pool per entry.  A   *)
(* failing allocation calls back into the cache and expunges it, also from *)
(* inside an insertion.  Readers use an entry outside the lock and protect *)
(* it by its reference count.                                              *)
(*                                                                         *)
(* The build is the one with a mutex (USE_READ_LOCKS 0) and the setting    *)
(* apc.user_ttl = 0.  One bucket is modelled, as a set: no property tells  *)
(* the order of its slots apart.  Memory is a set of blocks of equal size. *)
(* An entry, its slot and its pool are named by the pool's first block.    *)
(***************************************************************************)
EXTENDS Integers, FiniteSets

CONSTANTS
    Proc,       \* processes that share the cache
    Key, Val,   \* keys, all in one bucket, and values
    Block,      \* blocks of shared memory
    NULL,       \* no process, no block, no key, no value
    Grows,      \* the parts of a store whose data may need another block of
                \* the pool: "entry" (the value), "slot" (slot_t and the key)
    MaxLeaks    \* bound: readers that bail out before they release

ASSUME NullAssumption == NULL \notin Proc \cup Key \cup Val \cup Block
ASSUME GrowsAssumption == Grows \subseteq {"entry", "slot"} /\ MaxLeaks \in Nat
ASSUME FiniteAssumption == IsFiniteSet(Proc) /\ IsFiniteSet(Block)

VARIABLES
    \* shared memory
    pool,        \* block -> the first block of the pool that owns it, or NULL
    key, val,    \* entry -> its key and value, Garbage in free memory
    refs,        \* entry -> value->ref_count
    linked,      \* the slots that a walk of the bucket reaches
    deleted,     \* header->deleted_list
    num_entries, \* header->num_entries
    busy,        \* header->busy
    lock,        \* the process that holds header->lock
    \* each process
    has_lock,    \* cache->has_lock, which is private to the process
    pc,          \* where it is
    ent,         \* the pool it fills, or the entry it reads
    want,        \* what its allocation is for
    tries,       \* the failed attempts of this allocation
    at,          \* where slot points to: "head" of the bucket or "next" of a slot
    rest,        \* *slot, and the slots behind it
    \* history
    leaks,       \* entry -> readers that will never release it
    found,       \* what a reader found: key and value
    torn         \* an expunge inside an insertion has torn the bucket

shared == <<pool, key, val, refs, linked, deleted, num_entries, busy, lock>>
local == <<has_lock, pc, ent, want, tries, at, rest>>
vars == <<shared, local, leaks, found, torn>>

Nothing == [k |-> NULL, v |-> NULL]
Avail == {b \in Block : pool[b] = NULL}
Live(e) == pool[e] = e
Holders(e) == {p \in Proc : pc[p] = "holding" /\ ent[p] = e}

Init ==
    /\ pool = [b \in Block |-> NULL]
    /\ key = [b \in Block |-> NULL] /\ val = [b \in Block |-> NULL]
    /\ refs = [b \in Block |-> 0] /\ leaks = [b \in Block |-> 0]
    /\ linked = {} /\ deleted = {} /\ num_entries = 0
    /\ busy = FALSE /\ lock = NULL /\ torn = FALSE
    /\ has_lock = [p \in Proc |-> 0]
    /\ pc = [p \in Proc |-> "idle"] /\ found = [p \in Proc |-> Nothing]
    /\ ent = [p \in Proc |-> NULL] /\ want = [p \in Proc |-> "none"]
    /\ tries = [p \in Proc |-> 0]
    /\ at = [p \in Proc |-> "head"] /\ rest = [p \in Proc |-> {}]

Goto(p, l) == pc' = [pc EXCEPT ![p] = l]

\* The call returns: nothing of its frame survives.
Return(p) ==
    /\ Goto(p, "idle")
    /\ found' = [found EXCEPT ![p] = Nothing] /\ ent' = [ent EXCEPT ![p] = NULL]
    /\ want' = [want EXCEPT ![p] = "none"] /\ tries' = [tries EXCEPT ![p] = 0]
    /\ at' = [at EXCEPT ![p] = "head"] /\ rest' = [rest EXCEPT ![p] = {}]

Frame == <<ent, want, tries, at, rest, found>>

-----------------------------------------------------------------------------
(***************************************************************************)
(* remove_slot on every slot of S: those in use go to the deleted list,    *)
(* the others are freed with their pools.  Pending is what                 *)
(* process_pending_removals frees of the deleted list.                     *)
(***************************************************************************)
\* Fault: remove_slot frees the slot whatever its reference count.
NoneInUse(S) == {}

InUse(S) == {e \in S : refs[e] > 0}
Free(S) ==
    /\ pool' = [b \in Block |-> IF pool[b] \in S THEN NULL ELSE pool[b]]
    /\ key' = [e \in Block |-> IF e \in S THEN NULL ELSE key[e]]
    /\ val' = [e \in Block |-> IF e \in S THEN NULL ELSE val[e]]
    /\ refs' = [e \in Block |-> IF e \in S THEN 0 ELSE refs[e]]
    /\ leaks' = [e \in Block |-> IF e \in S THEN 0 ELSE leaks[e]]

\* gc_ttl is longer than any read takes: it passes for an entry on the list
\* only when all its readers have bailed out.
Expired(e) == refs[e] > 0 /\ Holders(e) = {}
\* Fault: the deleted list is freed without a look at the reference counts.
AllPending(G) == deleted

Pending(G) == {e \in deleted : refs[e] <= 0} \cup G
GcTtl == SUBSET {e \in deleted : Expired(e)}

\* The pending removals, G having expired, and the removal of S from the bucket.
PendingAndRemove(G, S) ==
    /\ Free(Pending(G) \cup (S \ InUse(S)))
    /\ deleted' = (deleted \ Pending(G)) \cup InUse(S)
    /\ linked' = linked \ S
    /\ num_entries' = num_entries - Cardinality(S)
Remove(S) ==
    /\ Free(S \ InUse(S))
    /\ deleted' = deleted \cup InUse(S)
    /\ linked' = linked \ S
    /\ num_entries' = num_entries - Cardinality(S)

-----------------------------------------------------------------------------
(***************************************************************************)
(* apc_sma_malloc_ex with one segment: an attempt, an expunge of the       *)
(* current cache, an attempt, an expunge of both caches, and once more     *)
(* with one expunge, then NULL: four attempts and three expunges.          *)
(***************************************************************************)
CallAlloc(p, w) ==
    /\ Goto(p, "alloc")
    /\ want' = [want EXCEPT ![p] = w] /\ tries' = [tries EXCEPT ![p] = 0]

AllocReturns(w) == CASE w = "pool" -> "entry" [] w = "entry" -> "insert" [] OTHER -> "link"

AllocSucceeds(p, b) ==
    /\ pc[p] = "alloc" /\ b \in Avail
    /\ LET first == IF want[p] = "pool" THEN b ELSE ent[p]
       IN  pool' = [pool EXCEPT ![b] = first] /\ ent' = [ent EXCEPT ![p] = first]
    /\ Goto(p, AllocReturns(want[p]))
    /\ UNCHANGED <<key, val, refs, linked, deleted, num_entries, busy, lock,
                   has_lock, want, tries, at, rest, leaks, found, torn>>

\* Fault: the loop starts over for ever.
AllocNeverEnds(p) ==
    /\ pc[p] = "alloc" /\ Avail = {}
    /\ Goto(p, "expunge") /\ tries' = [tries EXCEPT ![p] = @ + 1]
    /\ UNCHANGED <<shared, has_lock, ent, want, at, rest, leaks, found, torn>>

AllocRetries(p) ==
    /\ pc[p] = "alloc" /\ Avail = {} /\ tries[p] < 3
    /\ Goto(p, "expunge") /\ tries' = [tries EXCEPT ![p] = @ + 1]
    /\ UNCHANGED <<shared, has_lock, ent, want, at, rest, leaks, found, torn>>

\* The last attempt fails: without a pool or an entry _apc_store gives up.
AllocFails(p) ==
    /\ pc[p] = "alloc" /\ Avail = {} /\ tries[p] = 3 /\ want[p] # "slot"
    /\ Goto(p, "freepool")
    /\ UNCHANGED <<shared, has_lock, Frame, leaks, torn>>

(***************************************************************************)
(* Without a slot, apc_cache_user_insert has stored the NULL of make_slot  *)
(* in *slot, and everything behind it is lost from the bucket, or NULL is  *)
(* in a slot that one of the expunges removed.                             *)
(***************************************************************************)
MakeSlotFails(p) ==
    /\ pc[p] = "alloc" /\ Avail = {} /\ tries[p] = 3 /\ want[p] = "slot"
    /\ linked' = linked \ rest[p]
    /\ torn' = (torn \/ linked \cap rest[p] # {} \/ (at[p] = "next" /\ linked = {}))
    /\ lock' = NULL /\ has_lock' = [has_lock EXCEPT ![p] = 0]
    /\ Goto(p, "freepool")
    /\ UNCHANGED <<pool, key, val, refs, deleted, num_entries, busy, Frame, leaks>>

\* CACHE_SAFE_LOCK, the pending removals, and the early return when more than
\* half of the memory is free, which is read without the allocator's lock.
HalfFree(gone) ==
    2 * Cardinality({b \in Block : pool[b] \in gone \cup {NULL}}) > Cardinality(Block)

ExpungeNotNeeded(p, G) ==
    /\ pc[p] = "expunge" /\ (has_lock[p] = 0 => lock = NULL)
    /\ HalfFree(Pending(G))
    /\ PendingAndRemove(G, {})
    /\ Goto(p, "alloc")
    /\ UNCHANGED <<lock, has_lock, busy, Frame, torn>>

ExpungeBegins(p, G) ==
    /\ pc[p] = "expunge" /\ (has_lock[p] = 0 => lock = NULL)
    /\ ~HalfFree(Pending(G))
    /\ PendingAndRemove(G, {})
    /\ lock' = p /\ has_lock' = [has_lock EXCEPT ![p] = @ + 1]
    /\ busy' = TRUE /\ Goto(p, "wipe")
    /\ UNCHANGED <<Frame, torn>>

\* Fault: the lock is given up although the insertion around has it.
ExpungeUnlocks(p) ==
    /\ pc[p] = "wipe"
    /\ Remove(linked)
    /\ busy' = FALSE
    /\ has_lock' = [has_lock EXCEPT ![p] = @ - 1]
    /\ lock' = NULL
    /\ Goto(p, "alloc")
    /\ UNCHANGED <<Frame, torn>>

\* clear_all and CACHE_SAFE_UNLOCK, which unlocks only the outermost time.
ExpungeEnds(p) ==
    /\ pc[p] = "wipe"
    /\ Remove(linked)
    /\ busy' = FALSE
    /\ has_lock' = [has_lock EXCEPT ![p] = @ - 1]
    /\ lock' = IF has_lock[p] = 1 THEN NULL ELSE lock
    /\ Goto(p, "alloc")
    /\ UNCHANGED <<Frame, torn>>

-----------------------------------------------------------------------------
(***************************************************************************)
(* _apc_store: the pool, the entry in it, the insertion; on any failure    *)
(* the pool is destroyed (freepool).                                       *)
(***************************************************************************)
Store(p) ==
    /\ pc[p] = "idle"
    /\ CallAlloc(p, "pool")
    /\ UNCHANGED <<shared, has_lock, ent, at, rest, leaks, found, torn>>

\* apc_cache_make_user_key and apc_cache_make_user_entry.
MakeEntry(p, k, v) ==
    /\ pc[p] = "entry"
    /\ key' = [key EXCEPT ![ent[p]] = k] /\ val' = [val EXCEPT ![ent[p]] = v]
    /\ refs' = [refs EXCEPT ![ent[p]] = 0]
    /\ \/ "entry" \in Grows /\ CallAlloc(p, "entry")
       \/ Goto(p, "insert") /\ UNCHANGED <<want, tries>>
    /\ UNCHANGED <<pool, linked, deleted, num_entries, busy, lock,
                   has_lock, ent, at, rest, leaks, found, torn>>

\* apc_cache_busy or apc_cache_is_last_key, both read without the lock: that
\* another process inserted the key in the same second may always be the case.
Refused(p) ==
    /\ pc[p] \in {"entry", "insert"}
    /\ Goto(p, "freepool")
    /\ UNCHANGED <<shared, has_lock, Frame, leaks, torn>>

NotBusy(p) ==
    /\ pc[p] \in {"insert", "find"} /\ ~busy
    /\ Goto(p, IF pc[p] = "insert" THEN "insertlock" ELSE "findlock")
    /\ UNCHANGED <<shared, has_lock, Frame, leaks, torn>>

(***************************************************************************)
(* apc_cache_user_insert up to make_slot: the pending removals, then the   *)
(* walk, which removes the slots X that it passes and that have outlived   *)
(* their own ttl, and the slot of the same key; apc_add (exclusive) goes   *)
(* on only if that one has outlived its ttl too, else it unlocks and       *)
(* fails.  The walk stops at the key or at the end of the bucket, with     *)
(* *slot and what follows in rest.  Any slot may have a ttl that is over.  *)
(***************************************************************************)
Same(k) == {e \in linked : key[e] = k}

\* Fault: the walk does not keep the lock until the slot is linked.
WalkUnlocked(p, G, X, behind) ==
    /\ pc[p] = "insertlock" /\ lock = NULL
    /\ LET same == Same(key[ent[p]])
           left == linked \ (X \cup same)
       IN  /\ X \subseteq linked \ same
           /\ behind \subseteq left /\ (same = {} => behind = {})
           /\ PendingAndRemove(G, X \cup same)
           /\ at' = [at EXCEPT ![p] = IF behind = left THEN "head" ELSE "next"]
    /\ rest' = [rest EXCEPT ![p] = behind]
    /\ UNCHANGED <<lock, has_lock>>
    /\ \/ "slot" \in Grows /\ CallAlloc(p, "slot")
       \/ Goto(p, "link") /\ UNCHANGED <<want, tries>>
    /\ UNCHANGED <<busy, ent, found, torn>>

InsertWalks(p, G, X, behind) ==
    /\ pc[p] = "insertlock" /\ lock = NULL
    /\ LET same == Same(key[ent[p]])
           left == linked \ (X \cup same)
       IN  /\ X \subseteq linked \ same
           /\ behind \subseteq left /\ (same = {} => behind = {})
           /\ PendingAndRemove(G, X \cup same)
           /\ at' = [at EXCEPT ![p] = IF behind = left THEN "head" ELSE "next"]
    /\ rest' = [rest EXCEPT ![p] = behind]
    /\ lock' = p /\ has_lock' = [has_lock EXCEPT ![p] = 1]
    /\ \/ "slot" \in Grows /\ CallAlloc(p, "slot")
       \/ Goto(p, "link") /\ UNCHANGED <<want, tries>>
    /\ UNCHANGED <<busy, ent, found, torn>>

InsertExclusiveFails(p, G, X) ==
    /\ pc[p] = "insertlock" /\ lock = NULL
    /\ Same(key[ent[p]]) # {} /\ X \subseteq linked \ Same(key[ent[p]])
    /\ PendingAndRemove(G, X)
    /\ Goto(p, "freepool")
    /\ UNCHANGED <<busy, lock, has_lock, Frame, torn>>

(***************************************************************************)
(* The end of make_slot and the assignment to *slot.  p->next was read     *)
(* before make_slot allocated.  If the bucket was wiped in between, slot   *)
(* points to the bucket's head, and what rest has is linked again, or into *)
(* a slot that has been removed, and nothing is linked.                    *)
(***************************************************************************)
LinkSlot(p) ==
    /\ pc[p] = "link"
    /\ linked' = IF at[p] = "head" THEN {ent[p]} \cup rest[p]
                 ELSE IF linked = {} THEN {} ELSE {ent[p]} \cup linked
    /\ torn' = (torn \/ (linked = {} /\ (at[p] = "next" \/ rest[p] # {})))
    /\ num_entries' = num_entries + 1
    /\ lock' = NULL /\ has_lock' = [has_lock EXCEPT ![p] = 0]
    /\ Return(p)
    /\ UNCHANGED <<pool, key, val, refs, deleted, busy, leaks>>

\* Fault: a store that has failed leaves its pool allocated.
LeakPool(p) ==
    /\ pc[p] = "freepool"
    /\ Return(p)
    /\ UNCHANGED <<shared, has_lock, leaks, torn>>

FreePool(p) ==
    /\ pc[p] = "freepool"
    /\ Free({ent[p]} \ {NULL})
    /\ Return(p)
    /\ UNCHANGED <<linked, deleted, num_entries, busy, lock, has_lock, torn>>

-----------------------------------------------------------------------------
(***************************************************************************)
(* apc_fetch: apc_cache_user_find takes a reference, the value is copied   *)
(* without the lock, apc_cache_release gives the reference back.           *)
(***************************************************************************)
Fetch(p) ==
    /\ pc[p] = "idle"
    /\ Goto(p, "find")
    /\ UNCHANGED <<shared, has_lock, Frame, leaks, torn>>

FindRefused(p) ==
    /\ pc[p] = "find" /\ busy
    /\ Return(p)
    /\ UNCHANGED <<shared, has_lock, leaks, torn>>

Find(p, e) ==
    /\ pc[p] = "findlock" /\ lock = NULL
    /\ e \in linked
    /\ refs' = [refs EXCEPT ![e] = @ + 1]
    /\ ent' = [ent EXCEPT ![p] = e]
    /\ found' = [found EXCEPT ![p] = [k |-> key[e], v |-> val[e]]]
    /\ Goto(p, "holding")
    /\ UNCHANGED <<pool, key, val, linked, deleted, num_entries, busy, lock,
                   has_lock, want, tries, at, rest, leaks, torn>>

\* There is no slot of the key, or it has outlived its own ttl and is removed.
FindMisses(p, k) ==
    /\ pc[p] = "findlock" /\ lock = NULL
    /\ Remove(Same(k))
    /\ Return(p)
    /\ UNCHANGED <<busy, lock, has_lock, torn>>

Release(p) ==
    /\ pc[p] = "holding" /\ lock = NULL
    /\ refs' = [refs EXCEPT ![ent[p]] = @ - 1]
    /\ Return(p)
    /\ UNCHANGED <<pool, key, val, linked, deleted, num_entries, busy, lock,
                   has_lock, leaks, torn>>

\* A time limit or a full memory limit leaves apc_fetch by longjmp.
BailOut(p) ==
    /\ pc[p] = "holding"
    /\ \A e \in Block : leaks[e] < MaxLeaks
    /\ leaks' = [leaks EXCEPT ![ent[p]] = @ + 1]
    /\ Return(p)
    /\ UNCHANGED <<shared, has_lock, torn>>

-----------------------------------------------------------------------------
\* apc_cache_user_delete, which neither asks for busy nor collects garbage.
Delete(p, k) ==
    /\ pc[p] = "idle" /\ lock = NULL /\ Same(k) # {}
    /\ Remove(Same(k))
    /\ UNCHANGED <<busy, lock, local, found, torn>>

\* apc_cache_clear.
ClearBegins(p) ==
    /\ pc[p] = "idle" /\ lock = NULL
    /\ lock' = p /\ has_lock' = [has_lock EXCEPT ![p] = 1]
    /\ busy' = TRUE /\ Goto(p, "clear")
    /\ UNCHANGED <<pool, key, val, refs, linked, deleted, num_entries, Frame, leaks, torn>>

ClearEnds(p) ==
    /\ pc[p] = "clear"
    /\ Remove(linked)
    /\ busy' = FALSE /\ lock' = NULL
    /\ has_lock' = [has_lock EXCEPT ![p] = 0]
    /\ Goto(p, "idle")
    /\ UNCHANGED <<Frame, torn>>

Calls(p) ==
    \/ Store(p) \/ Fetch(p) \/ ClearBegins(p)
    \/ \E k \in Key : Delete(p, k)

Allocates(p) ==
    \/ \E b \in Block : AllocSucceeds(p, b)
    \/ AllocRetries(p) \/ AllocFails(p) \/ MakeSlotFails(p)
    \/ \E G \in GcTtl : ExpungeNotNeeded(p, G) \/ ExpungeBegins(p, G)
    \/ ExpungeEnds(p)

Stores(p) ==
    \/ \E k \in Key, v \in Val : MakeEntry(p, k, v)
    \/ Refused(p) \/ NotBusy(p)
    \/ \E G \in GcTtl, X \in SUBSET linked :
          \/ \E behind \in SUBSET linked : InsertWalks(p, G, X, behind)
          \/ InsertExclusiveFails(p, G, X)
    \/ LinkSlot(p) \/ FreePool(p)

Reads(p) ==
    \/ FindRefused(p) \/ Release(p) \/ BailOut(p)
    \/ \E e \in Block : Find(p, e)
    \/ \E k \in Key : FindMisses(p, k)

Next == \E p \in Proc : Calls(p) \/ Allocates(p) \/ Stores(p) \/ Reads(p) \/ ClearEnds(p)

Spec == Init /\ [][Next]_vars

-----------------------------------------------------------------------------
TypeOK ==
    /\ pool \in [Block -> Block \cup {NULL}]
    /\ key \in [Block -> Key \cup {NULL}] /\ val \in [Block -> Val \cup {NULL}]
    /\ refs \in [Block -> Int] /\ leaks \in [Block -> Nat]
    /\ linked \subseteq Block /\ deleted \subseteq Block /\ num_entries \in Int
    /\ busy \in BOOLEAN /\ torn \in BOOLEAN /\ lock \in Proc \cup {NULL}
    /\ has_lock \in [Proc -> 0 .. 2]
    /\ pc \in [Proc -> {"idle", "alloc", "expunge", "wipe", "entry", "insert", "insertlock",
                        "link", "freepool", "find", "findlock", "holding", "clear"}]
    /\ found \in [Proc -> [k : Key \cup {NULL}, v : Val \cup {NULL}]]
    /\ ent \in [Proc -> Block \cup {NULL}]
    /\ want \in [Proc -> {"none", "pool", "entry", "slot"}]
    /\ tries \in [Proc -> 0 .. 3]
    /\ at \in [Proc -> {"head", "next"}] /\ rest \in [Proc -> SUBSET Block]

\* The processes that are between the creation of a pool and its insertion.
Storing == {p \in Proc : ent[p] # NULL /\ pc[p] # "holding"}
Building == {ent[p] : p \in Storing}

\* Every slot that a walk of the bucket reaches was completely made, its memory
\* is its own, it is not on the deleted list as well, and no key is there twice.
Intact ==
    /\ \A e \in linked : Live(e) /\ key[e] # NULL /\ e \notin deleted \cup Building
    /\ \A e, f \in linked : key[e] = key[f] => e = f

(***************************************************************************)
(* Memory is taken from one bucket's slots, expunged, deleted and reused   *)
(* while others insert: the bucket stays intact, since whatever frees a    *)
(* slot unlinks it under the same lock.  This holds until the bucket is    *)
(* torn by the defect that BucketNeverTorn is about.                       *)
(***************************************************************************)
ChainIntact == ~torn => Intact

(***************************************************************************)
(* An expunge wipes out the entire cache and leaves the table as it says,  *)
(* also when an allocation of make_slot inside apc_cache_user_insert has   *)
(* asked for it: no walk reaches a slot that was wiped out.                *)
(***************************************************************************)
BucketNeverTorn == Intact

(***************************************************************************)
(* An entry that a reader copies without the lock is not freed and not     *)
(* reused, whatever is deleted, expunged or cleared meanwhile: it still is *)
(* what the reader found.  Its reference count counts its readers and      *)
(* those that bailed out.                                                  *)
(***************************************************************************)
InUseIntact == ~torn =>
    /\ \A p \in Proc : pc[p] = "holding" =>
          /\ Live(ent[p]) /\ ent[p] \in linked \cup deleted
          /\ found[p] = [k |-> key[ent[p]], v |-> val[ent[p]]]
    /\ \A e \in linked \cup deleted : refs[e] = Cardinality(Holders(e)) + leaks[e]

(***************************************************************************)
(* No block is lost: each belongs to a pool that is linked, on the deleted *)
(* list or in the hands of one process, on every path by which a store can *)
(* fail.  num_entries counts the slots of the bucket.                      *)
(***************************************************************************)
MemoryConserved == ~torn =>
    /\ \A b \in Block : pool[b] # NULL =>
          Live(pool[b]) /\ pool[b] \in linked \cup deleted \cup Building
    /\ \A p, q \in Storing : ent[p] = ent[q] => p = q
    /\ num_entries = Cardinality(linked)

(***************************************************************************)
(* The lock, the private depth and busy agree, with expunges nested in     *)
(* insertions or not: the process that holds the lock knows, nobody else   *)
(* thinks so, and busy does not outlive the expunge, since every store and *)
(* fetch refuses to work while it is set.                                  *)
(***************************************************************************)
LockAgrees ==
    /\ \A p \in Proc : has_lock[p] > 0 <=> lock = p
    /\ busy <=> \E p \in Proc : pc[p] \in {"wipe", "clear"}

-----------------------------------------------------------------------------
\* The map that the cache is to its callers: what a walk of the bucket finds
\* for a key, and what a reader has.
Promise == INSTANCE EvictingMap WITH
    None <- NULL,
    map <- [k \in Key |-> IF Same(k) = {} THEN NULL ELSE val[CHOOSE e \in Same(k) : TRUE]],
    taken <- [p \in Proc |-> IF pc[p] = "holding" THEN val[ent[p]] ELSE NULL]

(***************************************************************************)
(* Every step of the cache is a step of the map it promises: above all,    *)
(* the value that apc_fetch copies never changes under it, and a value is  *)
(* found only under the key it was stored with.                            *)
(***************************************************************************)
KeepsPromise == Promise!Init /\ [][torn' \/ Promise!Next]_(Promise!vars)

=============================================================================
