------------------------------- MODULE ApcSma -------------------------------
(***************************************************************************)
(* The shared memory allocator of APC (ext/apc/apc_sma.c): one segment     *)
(* with boundary tags and a doubly linked list of free blocks, searched    *)
(* first fit.  A call holds the lock of the segment, so it is one step.    *)
(* Offsets and sizes are in words (ALIGNWORD).  Headers of blocks that     *)
(* were joined to a neighbour keep their last contents, as in memory.      *)
(***************************************************************************)
EXTENDS Integers, FiniteSets

CONSTANTS
    SegSize,    \* sma_segsize
    HdrSize,    \* sizeof(sma_header_t)
    BlkSize,    \* sizeof(block_t)
    Sizes       \* sizes that callers ask for

ASSUME SizesAssumption ==
    /\ HdrSize \in Nat \ {0} /\ BlkSize \in Nat \ {0} /\ SegSize \in Nat
    /\ Sizes \subseteq Nat
    /\ SegSize > HdrSize + 3 * BlkSize

MINBLOCKSIZE == 1 + BlkSize
First == HdrSize                \* the sentinels of the free list
Start == HdrSize + BlkSize      \* the first block
Last == SegSize - 2 * BlkSize   \* empty->size is one block_t less than avail
Off == 0 .. SegSize - 1

VARIABLES
    size, prev_size,    \* the tags of the block header at an offset
    list,               \* fnext and fprev of the block header at an offset
    avail,              \* header->avail
    free, used          \* history: offsets of the free and the allocated blocks

vars == <<size, prev_size, list, avail, free, used>>

Init ==
    /\ size = [o \in Off |-> IF o = Start THEN Last - Start ELSE 0]
    /\ prev_size = [o \in Off |-> IF o = Last THEN Last - Start ELSE 0]
    /\ list = [fnext |-> [o \in Off |-> IF o = First THEN Start ELSE IF o = Start THEN Last ELSE 0],
               fprev |-> [o \in Off |-> IF o = Start THEN First ELSE IF o = Last THEN Start ELSE 0]]
    /\ avail = SegSize - HdrSize - 2 * BlkSize
    /\ free = {Start} /\ used = {}

-----------------------------------------------------------------------------
\* The three changes to the free list: b leaves it, nxt takes the place of b,
\* b becomes its first block.
Unlink(l, b) ==
    [fnext |-> [l.fnext EXCEPT ![l.fprev[b]] = l.fnext[b]],
     fprev |-> [l.fprev EXCEPT ![l.fnext[b]] = l.fprev[b]]]

Replace(l, b, nxt) ==
    [fnext |-> [l.fnext EXCEPT ![nxt] = l.fnext[b], ![l.fprev[b]] = nxt],
     fprev |-> [l.fprev EXCEPT ![nxt] = l.fprev[b], ![l.fnext[b]] = nxt]]

\* Fault: the block that was the first one still points back to the sentinel.
PushOneSided(l, b) ==
    [fnext |-> [l.fnext EXCEPT ![b] = l.fnext[First], ![First] = b],
     fprev |-> [l.fprev EXCEPT ![b] = First]]

Push(l, b) ==
    [fnext |-> [l.fnext EXCEPT ![b] = l.fnext[First], ![First] = b],
     fprev |-> [l.fprev EXCEPT ![b] = First, ![l.fnext[First]] = b]]

Allocated(l, b) == [l EXCEPT !.fnext[b] = 0]
NEXT_SBLOCK(b) == b + size[b]

(***************************************************************************)
(* The search of sma_allocate along fnext: prv is the block before the     *)
(* first one that is large enough (the sentinel has size 0).               *)
(***************************************************************************)
Walk[i \in 0 .. SegSize] == IF i = 0 THEN First ELSE list.fnext[Walk[i - 1]]

\* Fault: a block of exactly the right size is passed over.
LargerFit(prv, realsize) ==
    /\ list.fnext[prv] # 0 /\ size[list.fnext[prv]] > realsize
    /\ \E i \in 0 .. Cardinality(free) :
          Walk[i] = prv /\ \A j \in 0 .. i : size[Walk[j]] <= realsize

FirstFit(prv, realsize) ==
    /\ list.fnext[prv] # 0 /\ size[list.fnext[prv]] >= realsize
    /\ \E i \in 0 .. Cardinality(free) :
          Walk[i] = prv /\ \A j \in 0 .. i : size[Walk[j]] < realsize

\* fragment is MINBLOCKSIZE in apc_sma_malloc.
Exact(cur, realsize) ==
    /\ size[cur] >= realsize
    /\ size[cur] < realsize + MINBLOCKSIZE + MINBLOCKSIZE

\* The block is too small to split, or of the right size: it is unlinked.
AllocateWhole(n, prv) ==
    LET realsize == n + BlkSize
        cur == list.fnext[prv]
    IN  /\ avail >= realsize /\ FirstFit(prv, realsize) /\ Exact(cur, realsize)
        /\ list' = Allocated(Unlink(list, cur), cur)
        /\ prev_size' = [prev_size EXCEPT ![NEXT_SBLOCK(cur)] = 0]
        /\ avail' = avail - size[cur]
        /\ free' = free \ {cur} /\ used' = used \cup {cur}
        /\ UNCHANGED size

\* Fault: the allocated part keeps the size of the whole.
SplitKeepsSize(n, prv) ==
    LET realsize == n + BlkSize
        cur == list.fnext[prv]
        nxt == cur + realsize
        left == size[cur] - realsize
    IN  /\ avail >= realsize /\ FirstFit(prv, realsize) /\ ~Exact(cur, realsize)
        /\ size' = [size EXCEPT ![nxt] = left]
        /\ prev_size' = [prev_size EXCEPT ![nxt] = 0, ![nxt + left] = left]
        /\ list' = Allocated(Replace(list, cur, nxt), cur)
        /\ avail' = avail - realsize
        /\ free' = (free \ {cur}) \cup {nxt} /\ used' = used \cup {cur}

\* Its first part is allocated, the other takes its place in the list.
AllocateSplit(n, prv) ==
    LET realsize == n + BlkSize
        cur == list.fnext[prv]
        nxt == cur + realsize
        left == size[cur] - realsize
    IN  /\ avail >= realsize /\ FirstFit(prv, realsize) /\ ~Exact(cur, realsize)
        /\ size' = [size EXCEPT ![cur] = realsize, ![nxt] = left]
        /\ prev_size' = [prev_size EXCEPT ![nxt] = 0, ![nxt + left] = left]
        /\ list' = Allocated(Replace(list, cur, nxt), cur)
        /\ avail' = avail - realsize
        /\ free' = (free \ {cur}) \cup {nxt} /\ used' = used \cup {cur}

\* -1 is returned, and apc_sma_malloc_ex expunges the caches.
NoFit(n) ==
    \/ avail < n + BlkSize
    \/ \A prv \in free \cup {First} : ~FirstFit(prv, n + BlkSize)

AllocateFails(n) == NoFit(n) /\ UNCHANGED vars

\* Fault: the blocks joined are counted as free a second time.
JoinCountsTwice(b) ==
    LET joinPrev == prev_size[b] # 0
        cur == IF joinPrev THEN b - prev_size[b] ELSE b
        nxt == NEXT_SBLOCK(b)
        joinNext == list.fnext[nxt] # 0
        s == (IF joinPrev THEN size[cur] ELSE 0) + size[b] + (IF joinNext THEN size[nxt] ELSE 0)
        l1 == IF joinPrev THEN Unlink(list, cur) ELSE list
        l2 == IF joinNext THEN Unlink(l1, nxt) ELSE l1
    IN  /\ b \in used
        /\ size' = [size EXCEPT ![cur] = s]
        /\ prev_size' = [prev_size EXCEPT ![cur + s] = s]
        /\ list' = Push(l2, cur)
        /\ avail' = avail + s
        /\ used' = used \ {b}
        /\ free' = (free \ {nxt}) \cup {cur}

(***************************************************************************)
(* sma_deallocate joins cur with the block before it when prev_size says   *)
(* that that one is free, and with the one behind it when its fnext says   *)
(* so, and puts the result at the head of the list.                        *)
(***************************************************************************)
Deallocate(b) ==
    LET joinPrev == prev_size[b] # 0
        cur == IF joinPrev THEN b - prev_size[b] ELSE b
        nxt == NEXT_SBLOCK(b)
        joinNext == list.fnext[nxt] # 0
        s == (IF joinPrev THEN size[cur] ELSE 0) + size[b] + (IF joinNext THEN size[nxt] ELSE 0)
        l1 == IF joinPrev THEN Unlink(list, cur) ELSE list
        l2 == IF joinNext THEN Unlink(l1, nxt) ELSE l1
    IN  /\ b \in used
        /\ size' = [size EXCEPT ![cur] = s]
        /\ prev_size' = [prev_size EXCEPT ![cur + s] = s]
        /\ list' = Push(l2, cur)
        /\ avail' = avail + size[b]
        /\ used' = used \ {b}
        /\ free' = (free \ {nxt}) \cup {cur}

Next ==
    \/ \E n \in Sizes :
          \/ \E prv \in free \cup {First} : AllocateWhole(n, prv) \/ AllocateSplit(n, prv)
          \/ AllocateFails(n)
    \/ \E b \in used : Deallocate(b)

Spec == Init /\ [][Next]_vars

-----------------------------------------------------------------------------
TypeOK ==
    /\ size \in [Off -> Nat] /\ prev_size \in [Off -> Nat]
    /\ list \in [fnext : [Off -> Off], fprev : [Off -> Off]]
    /\ avail \in Int /\ free \subseteq Off /\ used \subseteq Off

Blocks == free \cup used

(***************************************************************************)
(* The blocks lie one behind the other without a gap or an overlap, from   *)
(* the first one to the sentinel, whatever was split and joined before.    *)
(***************************************************************************)
Tiles(B, sz) ==
    /\ B \subseteq Start .. Last - 1 /\ Start \in B
    /\ \A b \in B : sz[b] > 0 /\ b + sz[b] \in B \cup {Last}
    /\ \A b, c \in B : b < c => b + sz[b] <= c
    /\ \A c \in B : c = Start \/ \E b \in B : b + sz[b] = c

Tiled == free \cap used = {} /\ Tiles(Blocks, size)

\* The tag behind a block tells whether it is free and where it begins, and no
\* two neighbours are free: that is what joining on both sides relies on.
Tagged ==
    /\ prev_size[Start] = 0
    /\ \A b \in Blocks : prev_size[NEXT_SBLOCK(b)] = IF b \in free THEN size[b] ELSE 0
    /\ \A b \in free : NEXT_SBLOCK(b) \notin free

\* fnext and fprev are inverse on the free blocks and the sentinels, and 0 is
\* in fnext of exactly the other blocks.
Linked(l, F) ==
    /\ \A b \in F \cup {First} : l.fnext[b] \in F \cup {Last} /\ l.fprev[l.fnext[b]] = b
    /\ \A b \in F \cup {Last} : l.fprev[b] \in F \cup {First} /\ l.fnext[l.fprev[b]] = b

ListConsistent ==
    /\ Linked(list, free)
    /\ \A b \in used \cup {Last} : list.fnext[b] = 0

\* Going back along fprev leaves any set of free blocks: there is no ring beside
\* the chain that begins at the sentinel.
Chained(l, F) == \A S \in SUBSET F : S # {} => \E b \in S : l.fprev[b] \notin S

\* The segment after any sequence of splits and joins: the blocks tile it, the
\* tags tell the truth about them, and the list is a chain of the free ones.
WellFormed == TypeOK /\ Tiled /\ Tagged /\ ListConsistent /\ Chained(list, free)

\* The sum of what a holds at the offsets.
Total(a) ==
    LET upto[i \in 0 .. SegSize] == IF i = 0 THEN 0 ELSE upto[i - 1] + a[i - 1]
    IN  upto[SegSize]

\* header->avail, read without the lock to decide whether the cache must be
\* expunged, is the sum of the free blocks and one block_t.
FreeSizes == [o \in Off |-> IF o \in free THEN size[o] ELSE 0]
AvailCounts == avail = BlkSize + Total(FreeSizes)

(***************************************************************************)
(* A call fails only when no free block is large enough: the list is one   *)
(* chain that reaches them all, not a chain beside a ring, and what        *)
(* apc_cache does after a failure (it wipes the cache) is needed.          *)
(***************************************************************************)
FailsOnlyWhenNoneFits ==
    \A n \in Sizes : NoFit(n) => \A b \in free : size[b] < n + BlkSize

Promise == INSTANCE RangeAllocator WITH
    Lo <- Start, Hi <- Last,
    given <- {<<b, NEXT_SBLOCK(b)>> : b \in used}

\* Every call of the allocator is a call of one that keeps disjoint ranges.
KeepsPromise == Promise!Spec

=============================================================================
