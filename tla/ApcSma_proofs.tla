---------------------------- MODULE ApcSma_proofs ----------------------------
(***************************************************************************)
(* Proofs about ApcSma for any size of the segment and of its headers and  *)
(* any sizes asked for: the blocks tile the segment, their tags and the    *)
(* free list agree with them, and the allocator implements RangeAllocator. *)
(***************************************************************************)
EXTENDS ApcSma, Iteration, FiniteSetTheorems, TLAPS

\* What the assumption on the constants says about the offsets.
LEMMA Layout ==
    /\ First \in Off /\ Start \in Off /\ Last \in Off
    /\ 0 < First /\ First < Start /\ Start < Last
    /\ Start .. Last - 1 \subseteq Off \ {0, First, Last}
    /\ BlkSize \in Nat \ {0}
BY SizesAssumption DEF SizesAssumption, First, Start, Last, Off

-----------------------------------------------------------------------------
(* The free list.                                                          *)

ListType == [fnext : [Off -> Off], fprev : [Off -> Off]]
Inner == Start .. Last - 1

LEMMA InnerApart ==
    /\ Inner \subseteq Off \ {0, First, Last}
    /\ First \in Off /\ Last \in Off /\ Start \in Inner /\ 0 \in Off
    /\ First # Last /\ First # 0 /\ Last # 0
BY Layout, SizesAssumption DEF Inner, Off, SizesAssumption

\* Unlink takes one block off the list and touches no other block's fnext.
LEMMA UnlinkLinked ==
    ASSUME NEW l \in ListType, NEW F \in SUBSET Inner, NEW b \in F, Linked(l, F)
    PROVE  /\ Unlink(l, b) \in ListType
           /\ Linked(Unlink(l, b), F \ {b})
           /\ \A c \in Off \ (F \cup {First}) : Unlink(l, b).fnext[c] = l.fnext[c]
BY InnerApart DEF Unlink, Linked, ListType

\* Push adds one block to the list and touches no other block's fnext.
LEMMA PushLinked ==
    ASSUME NEW l \in ListType, NEW F \in SUBSET Inner, NEW b \in Inner \ F, Linked(l, F)
    PROVE  /\ Push(l, b) \in ListType
           /\ Linked(Push(l, b), F \cup {b})
           /\ \A c \in Off \ (F \cup {b, First}) : Push(l, b).fnext[c] = l.fnext[c]
BY InnerApart DEF Push, Linked, ListType

\* Replace puts nxt where b was and touches no other block's fnext.
LEMMA ReplaceLinked ==
    ASSUME NEW l \in ListType, NEW F \in SUBSET Inner, NEW b \in F, NEW nxt \in Inner \ F,
           Linked(l, F), l.fnext[b] # b
    PROVE  /\ Replace(l, b, nxt) \in ListType
           /\ Linked(Replace(l, b, nxt), (F \ {b}) \cup {nxt})
           /\ \A c \in Off \ (F \cup {nxt, First}) : Replace(l, b, nxt).fnext[c] = l.fnext[c]
BY InnerApart DEF Replace, Linked, ListType

\* A block that is off the list is marked as allocated.
LEMMA AllocatedLinked ==
    ASSUME NEW l \in ListType, NEW F \in SUBSET Inner, NEW b \in Inner \ F, Linked(l, F)
    PROVE  /\ Allocated(l, b) \in ListType
           /\ Linked(Allocated(l, b), F)
           /\ Allocated(l, b).fnext[b] = 0
           /\ \A c \in Off \ {b} : Allocated(l, b).fnext[c] = l.fnext[c]
BY InnerApart DEF Allocated, Linked, ListType

-----------------------------------------------------------------------------
(* The tiling.                                                             *)

SizeType == [Off -> Nat]

\* A block is split in two.
LEMMA SplitTiles ==
    ASSUME NEW sz \in SizeType, NEW B \in SUBSET Inner, Tiles(B, sz), NEW b \in B, NEW r \in Nat,
           0 < r, r < sz[b],
           NEW c \in Off, c = b + r,
           NEW sz2 \in SizeType, sz2[b] = r, sz2[c] = sz[b] - r,
           \A d \in B \ {b} : sz2[d] = sz[d]
    PROVE  /\ c \in Inner \ B
           /\ Tiles(B \cup {c}, sz2)
<1>1. B \subseteq Inner /\ Inner \subseteq Off /\ Inner \subseteq Int /\ Last \in Int /\ Start \in Inner
  BY InnerApart, Layout DEF Tiles, Inner, Off
<1>2. b + sz[b] <= Last /\ b \in Int /\ sz[b] \in Int
  BY <1>1 DEF Tiles, SizeType, Inner
<1>3. c \in Inner /\ b < c /\ c < b + sz[b]
  BY <1>1, <1>2 DEF Inner
<1>4. c \notin B
  BY <1>3, <1>1, <1>2 DEF Tiles
<1>5. sz2[b] = r /\ sz2[c] = sz[b] - r /\ c = b + r
      /\ \A d \in B \ {b} : sz2[d] = sz[d]
  OBVIOUS
<1>6. \A d \in B \cup {c} : sz2[d] > 0 /\ d + sz2[d] \in B \cup {c} \cup {Last}
  <2>1. sz2[b] > 0 /\ b + sz2[b] = c
    BY <1>5
  <2>2. sz2[c] > 0 /\ c + sz2[c] = b + sz[b] /\ b + sz[b] \in B \cup {Last}
    BY <1>2, <1>5 DEF Tiles
  <2>3. \A d \in B \ {b} : sz2[d] > 0 /\ d + sz2[d] \in B \cup {Last}
    BY <1>5 DEF Tiles
  <2> QED
    BY <2>1, <2>2, <2>3
<1>7. \A d, e \in B \cup {c} : d < e => d + sz2[d] <= e
  <2> SUFFICES ASSUME NEW d \in B \cup {c}, NEW e \in B \cup {c}, d < e
               PROVE  d + sz2[d] <= e
    OBVIOUS
  <2>1. \A f, g \in B : f < g => f + sz[f] <= g
    BY DEF Tiles
  <2>2. sz[b] \in Nat /\ sz[d] \in Nat /\ sz2[d] \in Nat /\ d \in Int /\ e \in Int
    BY <1>1, <1>3, <1>5 DEF SizeType
  <2>3. CASE d = c
    BY <2>1, <2>2, <2>3, <1>1, <1>2, <1>3, <1>5
  <2>4. CASE d = b
    BY <2>1, <2>2, <2>4, <1>1, <1>2, <1>3, <1>5
  <2>5. CASE d # b /\ d # c
    <3>1. sz2[d] = sz[d] /\ d \in B
      BY <2>5, <1>5
    <3>2. CASE e = c
      <4>1. d < b
        BY <2>1, <2>2, <2>5, <3>1, <3>2, <1>2, <1>3
      <4> QED
        BY <2>1, <3>1, <3>2, <4>1, <1>2, <1>3, <2>2
    <3>3. CASE e # c
      BY <2>1, <3>1, <3>3
    <3> QED
      BY <3>2, <3>3
  <2> QED
    BY <2>3, <2>4, <2>5
<1>8. \A d \in B \cup {c} : d = Start \/ \E e \in B \cup {c} : e + sz2[e] = d
  <2> SUFFICES ASSUME NEW d \in B \cup {c}, d # Start
               PROVE  \E e \in B \cup {c} : e + sz2[e] = d
    OBVIOUS
  <2>1. CASE d = c
    BY <2>1, <1>5
  <2>2. CASE d # c
    <3>1. PICK e \in B : e + sz[e] = d
      BY <2>2 DEF Tiles
    <3>2. CASE e = b
      BY <3>1, <3>2, <1>1, <1>2, <1>5
    <3>3. CASE e # b
      BY <3>1, <3>3, <1>5
    <3> QED
      BY <3>2, <3>3
  <2> QED
    BY <2>1, <2>2
<1>9. Tiles(B \cup {c}, sz2)
  <2>1. B \cup {c} \subseteq Start .. Last - 1 /\ Start \in B \cup {c}
    BY <1>1, <1>3 DEF Tiles, Inner
  <2> QED
    BY <2>1, <1>6, <1>7, <1>8 DEF Tiles
<1> QED
  BY <1>3, <1>4, <1>5, <1>9

\* A block is joined with the one behind it.
LEMMA JoinTiles ==
    ASSUME NEW sz \in SizeType, NEW B \in SUBSET Inner, Tiles(B, sz), NEW b \in B, NEW c \in B,
           b + sz[b] = c,
           NEW sz2 \in SizeType, sz2[b] = sz[b] + sz[c],
           \A d \in B \ {b, c} : sz2[d] = sz[d]
    PROVE  /\ b < c
           /\ Tiles(B \ {c}, sz2)
<1>1. B \subseteq Inner /\ Inner \subseteq Off /\ Inner \subseteq Int /\ Last \in Int /\ Start \in Inner
  BY InnerApart, Layout DEF Tiles, Inner, Off
<1>2. sz[b] \in Nat /\ sz[c] \in Nat /\ sz[b] > 0 /\ sz[c] > 0 /\ b \in Int /\ c \in Int /\ b < c
  BY <1>1 DEF Tiles, SizeType
<1>3. sz2[b] = sz[b] + sz[c] /\ \A d \in B \ {b, c} : sz2[d] = sz[d]
  OBVIOUS
<1>4. c # Start
  BY <1>1, <1>2 DEF Inner
<1>5. \A d \in B \ {c} : sz2[d] > 0 /\ d + sz2[d] \in (B \ {c}) \cup {Last}
  <2> SUFFICES ASSUME NEW d \in B \ {c}
               PROVE  sz2[d] > 0 /\ d + sz2[d] \in (B \ {c}) \cup {Last}
    OBVIOUS
  <2>1. CASE d = b
    <3>1. sz2[d] > 0 /\ d + sz2[d] = c + sz[c]
      BY <2>1, <1>2, <1>3
    <3>2. c + sz[c] \in B \cup {Last} /\ c + sz[c] # c
      BY <1>2 DEF Tiles
    <3> QED
      BY <3>1, <3>2
  <2>2. CASE d # b
    <3>1. sz2[d] = sz[d] /\ sz[d] > 0 /\ d + sz[d] \in B \cup {Last} /\ sz[d] \in Nat /\ d \in Int
      BY <2>2, <1>1, <1>3 DEF Tiles, SizeType
    <3>2. d + sz[d] # c
      <4>1. CASE d < b
        BY <4>1, <3>1, <1>2 DEF Tiles
      <4>2. CASE b < d
        <5>1. b + sz[b] <= d
          BY <4>2 DEF Tiles
        <5> QED
          BY <5>1, <3>1, <1>2
      <4> QED
        BY <4>1, <4>2, <3>1, <2>2, <1>2
    <3> QED
      BY <3>1, <3>2
  <2> QED
    BY <2>1, <2>2
<1>6. \A d, e \in B \ {c} : d < e => d + sz2[d] <= e
  <2> SUFFICES ASSUME NEW d \in B \ {c}, NEW e \in B \ {c}, d < e
               PROVE  d + sz2[d] <= e
    OBVIOUS
  <2>1. \A f, g \in B : f < g => f + sz[f] <= g
    BY DEF Tiles
  <2>2. CASE d = b
    <3>1. c <= e /\ e # c /\ e \in Int
      BY <2>1, <2>2, <1>1
    <3>2. c + sz[c] <= e
      BY <2>1, <3>1, <1>2
    <3> QED
      BY <3>2, <2>2, <1>2, <1>3
  <2>3. CASE d # b
    BY <2>1, <2>3, <1>3
  <2> QED
    BY <2>2, <2>3
<1>7. \A d \in B \ {c} : d = Start \/ \E e \in B \ {c} : e + sz2[e] = d
  <2> SUFFICES ASSUME NEW d \in B \ {c}, d # Start
               PROVE  \E e \in B \ {c} : e + sz2[e] = d
    OBVIOUS
  <2>1. PICK e \in B : e + sz[e] = d
    BY DEF Tiles
  <2>2. CASE e = c
    BY <2>1, <2>2, <1>2, <1>3
  <2>3. CASE e # c
    <3>1. e # b
      BY <2>1, <2>3
    <3> QED
      BY <3>1, <2>1, <2>3, <1>3
  <2> QED
    BY <2>2, <2>3
<1>8. Tiles(B \ {c}, sz2)
  <2>1. B \ {c} \subseteq Start .. Last - 1 /\ Start \in B \ {c}
    BY <1>1, <1>4 DEF Tiles
  <2> QED
    BY <2>1, <1>5, <1>6, <1>7 DEF Tiles
<1> QED
  BY <1>2, <1>3, <1>8

\* Two blocks do not end at the same place.
LEMMA UniqueEnd ==
    ASSUME NEW sz \in SizeType, NEW B \in SUBSET Inner, Tiles(B, sz), NEW b \in B, NEW c \in B,
           b + sz[b] = c + sz[c]
    PROVE  b = c
<1>0. B \subseteq Inner /\ Inner \subseteq Off /\ Inner \subseteq Int
  BY InnerApart, Layout DEF Tiles, Inner, Off
<1>1. B \subseteq Int /\ sz[b] \in Nat /\ sz[c] \in Nat /\ sz[b] > 0 /\ sz[c] > 0
  BY <1>0 DEF Tiles, SizeType
<1>2. ~(b < c) /\ ~(c < b)
  BY <1>1 DEF Tiles
<1> QED
  BY <1>1, <1>2

-----------------------------------------------------------------------------
(* The inductive invariant: the three layouts agree, and the sentinel at   *)
(* the end has no size, so that it is never taken for a block.             *)

IInv == TypeOK /\ Tiled /\ Tagged /\ ListConsistent /\ size[Last] = 0

\* What the invariant says about places.
LEMMA Places ==
    ASSUME IInv
    PROVE  /\ size \in SizeType /\ prev_size \in SizeType /\ list \in ListType
           /\ free \in SUBSET Inner /\ used \subseteq Inner /\ free \cap used = {}
           /\ Blocks \subseteq Inner /\ Tiles(Blocks, size) /\ Linked(list, free)
           /\ \A b \in Blocks : /\ size[b] \in Nat /\ size[b] > 0 /\ b \in Int
                                /\ b + size[b] \in Blocks \cup {Last}
                                /\ b + size[b] \in Off /\ b + size[b] > Start
           /\ Inner \subseteq Off /\ Inner \subseteq Int /\ Start \in Off
           /\ Last \notin Inner /\ First \notin Inner /\ 0 \notin Inner /\ Last \in Off
           /\ Last # First /\ Last # 0 /\ First # 0 /\ Start \in Inner
<1>1. Blocks \subseteq Inner /\ Inner \subseteq Int /\ Inner \subseteq Off /\ Start \in Int
      /\ Start \in Inner /\ \A b \in Inner : Start <= b
  BY InnerApart, Layout DEF IInv, Tiled, Tiles, Inner, Off
<1>2. size \in SizeType /\ prev_size \in SizeType /\ list \in ListType
  BY DEF IInv, TypeOK, SizeType, ListType
<1>3. \A b \in Blocks : /\ size[b] \in Nat /\ size[b] > 0 /\ b \in Int
                        /\ b + size[b] \in Blocks \cup {Last}
  BY <1>1, <1>2 DEF IInv, Tiled, Tiles, SizeType
<1>4. \A b \in Blocks : b + size[b] \in Off /\ b + size[b] > Start
  BY <1>1, <1>3, InnerApart DEF Off
<1> QED
  BY <1>1, <1>2, <1>3, <1>4, InnerApart DEF IInv, Tiled, Blocks, ListConsistent

\* The block that sma_allocate chooses is free and large enough.
LEMMA Chosen ==
    ASSUME IInv, NEW n \in Sizes, NEW prv \in free \cup {First},
           FirstFit(prv, n + BlkSize)
    PROVE  /\ list.fnext[prv] \in free /\ list.fnext[prv] # prv
           /\ list.fprev[list.fnext[prv]] = prv
           /\ n + BlkSize \in Nat /\ n + BlkSize > 0
           /\ size[list.fnext[prv]] >= n + BlkSize
<1>1. n + BlkSize \in Nat /\ n + BlkSize > 0
  BY SizesAssumption DEF SizesAssumption
<1>2. list.fnext[prv] \in free \cup {Last} /\ list.fprev[list.fnext[prv]] = prv
  BY DEF IInv, ListConsistent, Linked
<1>3. size[list.fnext[prv]] >= n + BlkSize
  BY DEF FirstFit
<1>4. list.fnext[prv] # Last
  BY <1>1, <1>3 DEF IInv
<1>5. \E i \in 0 .. Cardinality(free) : Walk[i] = prv /\ \A j \in 0 .. i : size[Walk[j]] < n + BlkSize
  BY DEF FirstFit
<1>6. PICK i \in 0 .. Cardinality(free) :
         Walk[i] = prv /\ \A j \in 0 .. i : size[Walk[j]] < n + BlkSize
  BY <1>5
<1>7. size[prv] < n + BlkSize
  <2>1. i \in 0 .. i
    BY <1>6
  <2> QED
    BY <2>1, <1>6
<1>8. size[prv] \in Nat /\ size[list.fnext[prv]] \in Nat
  BY <1>2, Places, InnerApart DEF SizeType
<1> QED
  BY <1>1, <1>2, <1>3, <1>4, <1>7, <1>8

LEMMA InitInv == Init => IInv
<1> SUFFICES ASSUME Init PROVE IInv
  OBVIOUS
<1>1. Start \in Inner /\ Inner \subseteq Off /\ First \in Off /\ Last \in Off /\ 0 \in Off
      /\ First # Start /\ Start # Last /\ First # Last /\ Start # 0 /\ Last # 0 /\ First # 0
      /\ Last - Start \in Nat /\ Last - Start > 0 /\ Start + (Last - Start) = Last /\ Start \in Int
  BY InnerApart, Layout DEF Inner, Off
<1>2. TypeOK
  <2>1. size \in [Off -> Nat] /\ prev_size \in [Off -> Nat]
    BY <1>1 DEF Init
  <2>2. list \in [fnext : [Off -> Off], fprev : [Off -> Off]]
    BY <1>1 DEF Init
  <2>3. avail \in Int /\ free \subseteq Off /\ used \subseteq Off
    BY <1>1, SizesAssumption DEF Init, SizesAssumption
  <2> QED
    BY <2>1, <2>2, <2>3 DEF TypeOK
<1>3. free = {Start} /\ used = {} /\ Blocks = {Start} /\ size[Start] = Last - Start
      /\ size[Last] = 0 /\ prev_size[Start] = 0 /\ prev_size[Last] = Last - Start
  BY <1>1 DEF Init, Blocks
<1>4. Tiled
  BY <1>1, <1>3 DEF Tiled, Tiles, Inner
<1>5. Tagged
  BY <1>1, <1>3 DEF Tagged, NEXT_SBLOCK
<1>6. ListConsistent
  <2>1. list.fnext[First] = Start /\ list.fnext[Start] = Last /\ list.fnext[Last] = 0
        /\ list.fprev[Start] = First /\ list.fprev[Last] = Start
    BY <1>1 DEF Init
  <2> QED
    BY <2>1, <1>1, <1>3 DEF ListConsistent, Linked
<1> QED
  BY <1>2, <1>3, <1>4, <1>5, <1>6 DEF IInv

-----------------------------------------------------------------------------
(* The steps.                                                              *)

LEMMA WholeInv ==
    ASSUME IInv, NEW n \in Sizes, NEW prv \in free \cup {First}, AllocateWhole(n, prv)
    PROVE  IInv'
<1> DEFINE cur == list.fnext[prv]
<1>1. cur \in free /\ FirstFit(prv, n + BlkSize)
  BY Chosen DEF AllocateWhole
<1>2. /\ list' = Allocated(Unlink(list, cur), cur)
      /\ prev_size' = [prev_size EXCEPT ![cur + size[cur]] = 0]
      /\ avail' = avail - size[cur]
      /\ free' = free \ {cur} /\ used' = used \cup {cur} /\ size' = size
  BY DEF AllocateWhole, NEXT_SBLOCK
<1> HIDE DEF cur
<1>3. Blocks' = Blocks /\ cur \in Blocks /\ free' \in SUBSET Inner
  BY <1>1, <1>2, Places DEF Blocks
<1>4. Tiled'
  BY <1>1, <1>2, <1>3, Places DEF Tiled
<1>5. /\ list' \in ListType /\ Linked(list', free')
      /\ list'.fnext[cur] = 0 /\ \A b \in used \cup {Last} : list'.fnext[b] = list.fnext[b]
  <2>1. cur \in Inner \ free'
    BY <1>1, <1>2, Places
  <2>2. Unlink(list, cur) \in ListType /\ Linked(Unlink(list, cur), free')
        /\ \A c \in Off \ (free \cup {First}) : Unlink(list, cur).fnext[c] = list.fnext[c]
    BY <1>1, <1>2, Places, UnlinkLinked
  <2>3. list' \in ListType /\ Linked(list', free') /\ list'.fnext[cur] = 0
        /\ \A c \in Off \ {cur} : list'.fnext[c] = Unlink(list, cur).fnext[c]
    BY <2>1, <2>2, <1>2, <1>3, AllocatedLinked
  <2> QED
    BY <2>2, <2>3, <1>1, Places
<1>6. ListConsistent'
  BY <1>2, <1>5 DEF IInv, ListConsistent
<1>7. TypeOK'
  BY <1>1, <1>2, <1>3, <1>5, Places DEF IInv, TypeOK, SizeType, ListType
<1>8. Tagged'
  <2>1. \A b \in Blocks : b + size[b] = cur + size[cur] => b = cur
    BY <1>3, Places, UniqueEnd
  <2>2. prev_size'[cur + size[cur]] = 0
        /\ \A b \in Blocks \ {cur} : prev_size'[b + size[b]] = prev_size[b + size[b]]
        /\ prev_size'[Start] = prev_size[Start]
    BY <1>2, <1>3, <2>1, Places DEF SizeType
  <2> QED
    BY <1>1, <1>2, <1>3, <2>2, Places DEF IInv, Tagged, NEXT_SBLOCK
<1> QED
  BY <1>2, <1>4, <1>6, <1>7, <1>8 DEF IInv

LEMMA SplitInv ==
    ASSUME IInv, NEW n \in Sizes, NEW prv \in free \cup {First}, AllocateSplit(n, prv)
    PROVE  IInv'
<1> DEFINE cur == list.fnext[prv]
           realsize == n + BlkSize
           nxt == cur + realsize
           left == size[cur] - realsize
<1>1. /\ cur \in free /\ cur # prv /\ list.fprev[cur] = prv
      /\ realsize \in Nat /\ realsize > 0 /\ size[cur] >= realsize
  BY Chosen DEF AllocateSplit
<1>2. realsize < size[cur]
  <2>1. size[cur] \in Nat /\ MINBLOCKSIZE \in Nat /\ MINBLOCKSIZE > 0
    BY <1>1, Places, Layout DEF Blocks, MINBLOCKSIZE
  <2>2. ~Exact(cur, realsize)
    BY DEF AllocateSplit
  <2> QED
    BY <1>1, <2>1, <2>2 DEF Exact
<1>3. /\ size' = [size EXCEPT ![cur] = realsize, ![nxt] = left]
      /\ prev_size' = [prev_size EXCEPT ![nxt] = 0, ![nxt + left] = left]
      /\ list' = Allocated(Replace(list, cur, nxt), cur)
      /\ avail' = avail - realsize
      /\ free' = (free \ {cur}) \cup {nxt} /\ used' = used \cup {cur}
  BY DEF AllocateSplit
<1>4. cur \in Blocks /\ cur \in Int /\ size[cur] \in Nat
  BY <1>1, Places DEF Blocks
<1>5. nxt + left = cur + size[cur] /\ left \in Nat /\ left > 0
  BY <1>1, <1>2, <1>4
<1>6. size' \in SizeType /\ nxt \in Inner \ Blocks /\ Tiles(Blocks \cup {nxt}, size')
  <2>1. size' = [size EXCEPT ![cur] = realsize, ![nxt] = left]
    BY <1>3
  <2>2. nxt = cur + realsize /\ left = size[cur] - realsize
    OBVIOUS
  <2> HIDE DEF cur, nxt, left, realsize
  <2>3. nxt \in Int /\ cur < nxt /\ nxt < cur + size[cur]
    BY <1>1, <1>2, <1>4, <2>2
  <2>4. nxt \in Off
    <3>1. cur + size[cur] \in Off /\ cur \in Off
      BY <1>4, Places
    <3> QED
      BY <3>1, <1>4, <2>3, SizesAssumption DEF Off, SizesAssumption
  <2>5. nxt \notin Blocks
    BY <2>3, <1>4, Places DEF Tiles
  <2>6. size' \in SizeType /\ size'[cur] = realsize /\ size'[nxt] = size[cur] - realsize
        /\ \A b \in Blocks \ {cur} : size'[b] = size[b]
    <3>1. cur \in Off /\ Blocks \subseteq Off /\ size \in SizeType /\ cur # nxt
      BY <1>4, <2>3, Places
    <3> QED
      BY <3>1, <1>1, <1>5, <2>1, <2>2, <2>4, <2>5 DEF SizeType
  <2>7. size \in SizeType /\ Tiles(Blocks, size) /\ Blocks \in SUBSET Inner
    BY Places
  <2>8. realsize \in Nat /\ 0 < realsize
    BY <1>1
  <2> QED
    BY <1>2, <1>4, <2>2, <2>4, <2>6, <2>7, <2>8, SplitTiles
<1> HIDE DEF cur, nxt, left, realsize
<1>7. Blocks' = Blocks \cup {nxt} /\ free' \in SUBSET Inner /\ free' \cap used' = {}
  BY <1>1, <1>3, <1>6, Places DEF Blocks
<1>8. Tiled'
  BY <1>6, <1>7 DEF Tiled
<1>9. /\ list' \in ListType /\ Linked(list', free')
      /\ list'.fnext[cur] = 0 /\ \A b \in used \cup {Last} : list'.fnext[b] = list.fnext[b]
  <2>1. cur \in Inner \ free' /\ nxt \in Inner \ free
    BY <1>1, <1>3, <1>6, Places DEF Blocks
  <2>2. list.fnext[cur] # cur
    BY <1>1, Places DEF Linked
  <2>3. Replace(list, cur, nxt) \in ListType /\ Linked(Replace(list, cur, nxt), free')
        /\ \A c \in Off \ (free \cup {nxt, First}) :
              Replace(list, cur, nxt).fnext[c] = list.fnext[c]
    BY <1>1, <1>3, <2>1, <2>2, Places, ReplaceLinked
  <2>4. list' \in ListType /\ Linked(list', free') /\ list'.fnext[cur] = 0
        /\ \A c \in Off \ {cur} : list'.fnext[c] = Replace(list, cur, nxt).fnext[c]
    BY <2>1, <2>3, <1>3, <1>7, AllocatedLinked
  <2>5. used \cup {Last} \subseteq Off \ (free \cup {nxt, First, cur})
    BY <1>1, <1>6, Places DEF Blocks
  <2> QED
    BY <2>3, <2>4, <2>5
<1>10. ListConsistent'
  BY <1>3, <1>9 DEF IInv, ListConsistent
<1>11. TypeOK'
  <2>1. prev_size' \in SizeType
    BY <1>3, <1>5, Places DEF SizeType
  <2>2. avail' \in Int
    BY <1>1, <1>3 DEF IInv, TypeOK
  <2>3. free' \subseteq Off /\ used' \subseteq Off
    BY <1>1, <1>3, <1>7, Places
  <2> QED
    BY <1>6, <1>9, <2>1, <2>2, <2>3 DEF TypeOK, SizeType, ListType
<1>12. size'[cur] = realsize /\ size'[nxt] = left /\ cur # nxt
       /\ \A b \in Off \ {cur, nxt} : size'[b] = size[b]
  BY <1>1, <1>3, <1>4, <1>6, Places DEF SizeType
<1>13. Tagged'
  <2>1. \A b \in Blocks : b + size[b] = cur + size[cur] => b = cur
    BY <1>4, Places, UniqueEnd
  <2>2. prev_size'[nxt] = 0 /\ prev_size'[cur + size[cur]] = left
    <3>1. nxt \in Off /\ cur + size[cur] \in Off /\ nxt # cur + size[cur]
      BY <1>4, <1>5, <1>6, Places
    <3> QED
      BY <3>1, <1>3, <1>5, Places DEF SizeType
  <2>3. \A b \in Blocks \ {cur} : prev_size'[b + size[b]] = prev_size[b + size[b]]
    <3>1. \A b \in Blocks \ {cur} : b + size[b] # nxt /\ b + size[b] # nxt + left
      BY <2>1, <1>5, <1>6, Places
    <3> QED
      BY <3>1, <1>3, Places DEF SizeType
  <2>4. prev_size'[Start] = 0
    <3>1. Start # nxt /\ Start # nxt + left
      BY <1>4, <1>5, <1>6, Places DEF Tiles
    <3> QED
      BY <3>1, <1>3, Places DEF SizeType, IInv, Tagged
  <2>5. \A b \in Blocks' : prev_size'[b + size'[b]] = IF b \in free' THEN size'[b] ELSE 0
    <3> SUFFICES ASSUME NEW b \in Blocks'
                 PROVE  prev_size'[b + size'[b]] = IF b \in free' THEN size'[b] ELSE 0
      OBVIOUS
    <3>1. CASE b = cur
      <4>1. b + size'[b] = nxt /\ b \notin free'
        BY <3>1, <1>1, <1>3, <1>12 DEF nxt
      <4> QED
        BY <4>1, <2>2
    <3>2. CASE b = nxt
      <4>1. b + size'[b] = cur + size[cur] /\ b \in free'
        BY <3>2, <1>3, <1>5, <1>12
      <4> QED
        BY <4>1, <3>2, <2>2, <1>12
    <3>3. CASE b # cur /\ b # nxt
      <4>1. b \in Blocks \ {cur} /\ (b \in free' <=> b \in free) /\ size'[b] = size[b]
        BY <3>3, <1>3, <1>7, <1>12, Places
      <4> QED
        BY <4>1, <2>3 DEF IInv, Tagged, NEXT_SBLOCK
    <3> QED
      BY <3>1, <3>2, <3>3
  <2>6. \A b \in free' : b + size'[b] \notin free'
    <3>1. \A b \in free : b + size[b] \notin free
      BY DEF IInv, Tagged, NEXT_SBLOCK
    <3>2. nxt + size'[nxt] \notin free'
      <4>1. nxt + size'[nxt] = cur + size[cur] /\ cur + size[cur] # nxt
        BY <1>4, <1>5, <1>6, <1>12, Places
      <4> QED
        BY <4>1, <3>1, <1>1, <1>3
    <3>3. \A b \in free \ {cur} : b + size'[b] \notin free'
      <4> SUFFICES ASSUME NEW b \in free \ {cur} PROVE b + size'[b] \notin free'
        OBVIOUS
      <4>1. size'[b] = size[b] /\ b + size[b] # nxt
        BY <1>6, <1>12, Places DEF Blocks
      <4>2. b + size'[b] = b + size[b]
        BY <4>1
      <4> QED
        BY <4>1, <4>2, <3>1, <1>3
    <3> QED
      BY <3>2, <3>3, <1>3
  <2> QED
    BY <2>4, <2>5, <2>6 DEF Tagged, NEXT_SBLOCK
<1>14. size'[Last] = 0
  BY <1>1, <1>6, <1>12, Places DEF IInv
<1> QED
  BY <1>8, <1>10, <1>11, <1>13, <1>14 DEF IInv

(***************************************************************************)
(* What Deallocate reads from the tags: with joinPrev the block before b   *)
(* is free and begins at cur, with joinNext the block behind is free, and  *)
(* without them these are not free.                                        *)
(***************************************************************************)
LEMMA Neighbours ==
    ASSUME IInv, NEW b \in used
    PROVE  /\ prev_size[b] # 0 =>
                /\ b - prev_size[b] \in free
                /\ (b - prev_size[b]) + size[b - prev_size[b]] = b
           /\ prev_size[b] = 0 => \A a \in free : a + size[a] # b
           /\ list.fnext[NEXT_SBLOCK(b)] # 0 <=> NEXT_SBLOCK(b) \in free
<1>1. b \in Blocks /\ b + size[b] \in Blocks \cup {Last}
  BY Places DEF Blocks
<1>2. ASSUME prev_size[b] # 0
      PROVE  b - prev_size[b] \in free /\ (b - prev_size[b]) + size[b - prev_size[b]] = b
  <2>1. b # Start
    BY <1>2 DEF IInv, Tagged
  <2>2. PICK a \in Blocks : a + size[a] = b
    BY <1>1, <2>1, Places DEF Tiles
  <2>3. prev_size[b] = IF a \in free THEN size[a] ELSE 0
    BY <2>2 DEF IInv, Tagged, NEXT_SBLOCK
  <2>4. a \in free /\ prev_size[b] = size[a]
    BY <1>2, <2>3
  <2>5. b - prev_size[b] = a
    <3>1. a \in Int /\ size[a] \in Int
      BY <2>2, Places
    <3> QED
      BY <3>1, <2>2, <2>4
  <2> QED
    BY <2>2, <2>4, <2>5
<1>3. ASSUME prev_size[b] = 0, NEW a \in free
      PROVE  a + size[a] # b
  <2>1. a \in Blocks /\ size[a] > 0
    BY Places DEF Blocks
  <2>2. prev_size[a + size[a]] = size[a]
    BY <2>1 DEF IInv, Tagged, NEXT_SBLOCK
  <2>3. size[a] # 0
    BY <2>1, Places
  <2> QED
    BY <2>2, <2>3, <1>3
<1>4. list.fnext[b + size[b]] # 0 <=> b + size[b] \in free
  <2>1. b + size[b] \in free => list.fnext[b + size[b]] \in free \cup {Last}
    BY DEF IInv, ListConsistent, Linked
  <2>2. b + size[b] \notin free => list.fnext[b + size[b]] = 0
    BY <1>1 DEF IInv, ListConsistent, Blocks
  <2> QED
    BY <2>1, <2>2, Places
<1> QED
  BY <1>2, <1>3, <1>4 DEF NEXT_SBLOCK

LEMMA DeallocateInv ==
    ASSUME IInv, NEW b \in used, Deallocate(b)
    PROVE  IInv'
<1> DEFINE joinPrev == prev_size[b] # 0
           cur == IF joinPrev THEN b - prev_size[b] ELSE b
           nxt == b + size[b]
           joinNext == list.fnext[nxt] # 0
           s1 == (IF joinPrev THEN size[cur] ELSE 0) + size[b]
           s == s1 + (IF joinNext THEN size[nxt] ELSE 0)
           sz1 == [size EXCEPT ![cur] = s1]
           B1 == IF joinPrev THEN Blocks \ {b} ELSE Blocks
           l1 == IF joinPrev THEN Unlink(list, cur) ELSE list
           l2 == IF joinNext THEN Unlink(l1, nxt) ELSE l1
           F1 == IF joinPrev THEN free \ {cur} ELSE free
           F2 == IF joinNext THEN F1 \ {nxt} ELSE F1
<1>1. /\ size' = [size EXCEPT ![cur] = s]
      /\ prev_size' = [prev_size EXCEPT ![cur + s] = s]
      /\ list' = Push(l2, cur)
      /\ avail' = avail + size[b]
      /\ used' = used \ {b}
      /\ free' = (free \ {nxt}) \cup {cur}
  BY DEF Deallocate, NEXT_SBLOCK
<1>2. b \in Blocks /\ b \notin free /\ b \in Int /\ size[b] \in Nat /\ size[b] > 0 /\ nxt \in Off
      /\ nxt \in Blocks \cup {Last} /\ b \in Off
  BY Places DEF Blocks
<1>3. joinPrev => cur \in free /\ cur + size[cur] = b
  BY Neighbours
<1>4. ~joinPrev => cur = b /\ \A a \in free : a + size[a] # b
  BY Neighbours
<1>5. joinNext <=> nxt \in free
  BY Neighbours DEF NEXT_SBLOCK
<1>6. joinPrev \in BOOLEAN /\ joinNext \in BOOLEAN /\ cur \in Blocks
  BY <1>2, <1>3, <1>4 DEF Blocks
<1> HIDE DEF joinPrev, cur, joinNext
<1>7. /\ s1 \in Nat /\ s1 > 0 /\ cur + s1 = nxt /\ cur \in Int
      /\ sz1 \in SizeType /\ sz1[cur] = s1 /\ \A a \in Off \ {cur} : sz1[a] = size[a]
      /\ B1 \in SUBSET Inner /\ cur \in B1 /\ Tiles(B1, sz1)
  <2>1. cur \in Int /\ size[cur] \in Nat /\ cur \in Off
    BY <1>6, Places
  <2>2. s1 \in Nat /\ s1 > 0 /\ cur + s1 = nxt
    BY <1>2, <1>3, <1>4, <2>1
  <2>3. sz1 \in SizeType /\ sz1[cur] = s1 /\ \A a \in Off \ {cur} : sz1[a] = size[a]
    BY <2>1, <2>2, Places DEF SizeType
  <2> HIDE DEF s1, sz1
  <2>4. CASE joinPrev
    <3>1. s1 = size[cur] + size[b]
      BY <2>4 DEF s1
    <3>2. \A d \in Blocks \ {cur, b} : sz1[d] = size[d]
      BY <2>3, Places
    <3>3. cur + size[cur] = b /\ cur \in Blocks /\ b \in Blocks /\ size \in SizeType
          /\ Blocks \in SUBSET Inner /\ Tiles(Blocks, size)
      BY <2>4, <1>2, <1>3, <1>6, Places
    <3>4. sz1 \in SizeType /\ sz1[cur] = size[cur] + size[b]
      BY <3>1, <2>3
    <3>5. cur < b /\ Tiles(Blocks \ {b}, sz1)
      BY <3>2, <3>3, <3>4, JoinTiles
    <3>6. B1 = Blocks \ {b}
      BY <2>4
    <3> HIDE DEF B1
    <3> QED
      BY <3>3, <3>5, <3>6, <2>1, <2>2, <2>3
  <2>5. CASE ~joinPrev
    <3>1. s1 = size[cur]
      BY <2>5, <1>2, <1>4 DEF s1
    <3>2. sz1 = size
      BY <3>1, <2>3, Places DEF SizeType
    <3>3. B1 = Blocks
      BY <2>5
    <3> QED
      BY <3>2, <3>3, <2>1, <2>2, <2>3, <1>6, Places
  <2> QED
    BY <2>4, <2>5
<1> HIDE DEF s1, sz1, B1
<1>8. /\ s \in Nat /\ s > 0 /\ cur + s \in Off /\ cur + s > Start
      /\ size' \in SizeType /\ size'[cur] = s /\ \A a \in Off \ {cur} : size'[a] = size[a]
      /\ Blocks' \in SUBSET Inner /\ Tiles(Blocks', size')
      /\ cur + s = IF joinNext THEN nxt + size[nxt] ELSE nxt
      /\ nxt # cur /\ cur \in Inner
  <2>1. cur \in Inner /\ cur \in Off /\ nxt # cur /\ nxt \in Int /\ cur >= Start /\ Start \in Int
        /\ size \in SizeType
    BY <1>2, <1>6, <1>7, Places, Layout DEF Inner, Off
  <2>2. s \in Nat /\ s > 0 /\ cur + s = IF joinNext THEN nxt + size[nxt] ELSE nxt
    <3>1. joinNext => size[nxt] \in Nat
      BY <1>5, Places DEF Blocks
    <3> QED
      BY <3>1, <1>7, <2>1
  <2>3. cur + s \in Off /\ cur + s > Start
    <3>1. joinNext => nxt + size[nxt] \in Off
      BY <1>5, Places DEF Blocks
    <3> QED
      BY <3>1, <2>1, <2>2, <1>2
  <2>4. size' \in SizeType /\ size'[cur] = s /\ \A a \in Off \ {cur} : size'[a] = size[a]
    BY <1>1, <2>1, <2>2 DEF SizeType
  <2>5. Blocks' = IF joinNext THEN B1 \ {nxt} ELSE B1
    <3>1. B1 = (used \ {b}) \cup free \cup {cur}
      BY <1>2, <1>3, <1>4, <1>6 DEF B1, Blocks
    <3>2. Blocks' = ((free \ {nxt}) \cup {cur}) \cup (used \ {b})
      BY <1>1 DEF Blocks
    <3>3. nxt \in free => nxt \notin used
      BY Places
    <3> QED
      BY <3>1, <3>2, <3>3, <2>1, <1>5
  <2> HIDE DEF s
  <2>6. CASE joinNext
    <3>1. nxt \in free /\ nxt \in Off /\ nxt \notin {cur, b}
      BY <2>6, <1>2, <1>5, <2>1
    <3>2. nxt \in B1
      BY <3>1 DEF B1, Blocks
    <3>3. s = s1 + size[nxt]
      BY <2>6 DEF s
    <3>4. sz1[nxt] = size[nxt] /\ \A d \in B1 \ {cur, nxt} : size'[d] = sz1[d]
      BY <1>7, <2>1, <2>4, <3>1, Places
    <3>5. Tiles(B1 \ {nxt}, size')
      BY <3>2, <3>3, <3>4, <1>7, <2>4, JoinTiles
    <3> QED
      BY <3>5, <2>1, <2>2, <2>3, <2>4, <2>5, <2>6, <1>7
  <2>7. CASE ~joinNext
    <3>1. s = s1
      BY <2>7, <1>7 DEF s
    <3>2. size' = sz1
      BY <3>1, <1>7, <2>4 DEF SizeType
    <3> QED
      BY <3>2, <2>1, <2>2, <2>3, <2>4, <2>5, <2>7, <1>7
  <2> QED
    BY <2>6, <2>7
<1> HIDE DEF s
<1>9. Tiled'
  <2>1. free' \cap used' = {}
    BY <1>1, <1>2, <1>3, <1>4, Places
  <2> QED
    BY <2>1, <1>8 DEF Tiled
<1>10. F2 \cup {cur} = free' /\ cur \in Inner \ F2 /\ F2 \in SUBSET Inner /\ F2 \subseteq free
  BY <1>1, <1>2, <1>3, <1>4, <1>5, <1>8, Places
<1>11. /\ list' \in ListType /\ Linked(list', free')
       /\ \A c \in Off \ (free \cup {cur, First}) : list'.fnext[c] = list.fnext[c]
  <2>1. /\ l1 \in ListType /\ Linked(l1, F1) /\ F1 \in SUBSET Inner
        /\ \A c \in Off \ (free \cup {First}) : l1.fnext[c] = list.fnext[c]
    <3>1. CASE joinPrev
      BY <3>1, <1>3, Places, UnlinkLinked
    <3>2. CASE ~joinPrev
      BY <3>2, Places
    <3> QED
      BY <3>1, <3>2
  <2>2. joinNext => nxt \in F1
    BY <1>5, <1>8
  <2>3. F1 \subseteq free
    OBVIOUS
  <2> HIDE DEF l1, F1
  <2>4. /\ l2 \in ListType /\ Linked(l2, F2)
        /\ \A c \in Off \ (free \cup {First}) : l2.fnext[c] = list.fnext[c]
    <3>1. CASE joinNext
      <4>1. Unlink(l1, nxt) \in ListType /\ Linked(Unlink(l1, nxt), F1 \ {nxt})
            /\ \A c \in Off \ (F1 \cup {First}) : Unlink(l1, nxt).fnext[c] = l1.fnext[c]
        BY <3>1, <2>1, <2>2, UnlinkLinked
      <4> QED
        BY <4>1, <3>1, <2>1, <2>3
    <3>2. CASE ~joinNext
      BY <3>2, <2>1
    <3> QED
      BY <3>1, <3>2
  <2> HIDE DEF l2, F2
  <2>5. Push(l2, cur) \in ListType /\ Linked(Push(l2, cur), F2 \cup {cur})
        /\ \A c \in Off \ (F2 \cup {cur, First}) : Push(l2, cur).fnext[c] = l2.fnext[c]
    BY <2>4, <1>10, PushLinked
  <2> QED
    BY <2>4, <2>5, <1>1, <1>10
<1> HIDE DEF l1, l2, F1, F2
<1>12. ListConsistent'
  <2>1. used' \cup {Last} \subseteq Off \ (free \cup {cur, First})
    <3>1. used' \subseteq Off \ (free \cup {cur, First}) 
      BY <1>1, <1>3, <1>4, Places
    <3>2. Last \in Off \ (free \cup {cur, First})
      BY <1>8, Places
    <3> QED
      BY <3>1, <3>2
  <2>2. \A c \in used' \cup {Last} : list.fnext[c] = 0
    BY <1>1 DEF IInv, ListConsistent
  <2> QED
    BY <2>1, <2>2, <1>11 DEF ListConsistent
<1>13. TypeOK'
  <2>1. prev_size' \in SizeType
    BY <1>1, <1>8, Places DEF SizeType
  <2>2. avail' \in Int
    BY <1>1, <1>2 DEF IInv, TypeOK
  <2>3. free' \subseteq Off /\ used' \subseteq Off
    BY <1>1, <1>8, Places
  <2> QED
    BY <1>8, <1>11, <2>1, <2>2, <2>3 DEF TypeOK, SizeType, ListType
<1>14. Tagged'
  <2>1. prev_size'[cur + s] = s /\ \A o \in Off \ {cur + s} : prev_size'[o] = prev_size[o]
    BY <1>1, <1>8, Places DEF SizeType
  <2>2. prev_size'[Start] = 0
    <3>1. Start # cur + s /\ Start \in Off
      BY <1>8, Places
    <3> QED
      BY <3>1, <2>1 DEF IInv, Tagged
  <2>3. \A a \in Blocks' \ {cur} : /\ a \in Blocks /\ size'[a] = size[a]
                                   /\ (a \in free' <=> a \in free)
    BY <1>1, <1>5, <1>8, Places DEF Blocks
  <2>4. \A a \in Blocks' : prev_size'[a + size'[a]] = IF a \in free' THEN size'[a] ELSE 0
    <3> SUFFICES ASSUME NEW a \in Blocks'
                 PROVE  prev_size'[a + size'[a]] = IF a \in free' THEN size'[a] ELSE 0
      OBVIOUS
    <3>1. CASE a = cur
      BY <3>1, <2>1, <1>1, <1>8
    <3>2. CASE a # cur
      <4>1. a \in Blocks /\ size'[a] = size[a] /\ (a \in free' <=> a \in free) /\ cur \in Blocks'
        BY <3>2, <2>3, <1>1 DEF Blocks
      <4>2. a + size[a] # cur + s
        BY <4>1, <3>2, <1>8, UniqueEnd
      <4>3. a + size[a] \in Off
        BY <4>1, Places
      <4>4. prev_size[a + size[a]] = IF a \in free THEN size[a] ELSE 0
        BY <4>1 DEF IInv, Tagged, NEXT_SBLOCK
      <4> QED
        BY <4>1, <4>2, <4>3, <4>4, <2>1
    <3> QED
      BY <3>1, <3>2
  <2>5. \A a \in free' : a + size'[a] \notin free'
    <3> SUFFICES ASSUME NEW a \in free' PROVE a + size'[a] \notin free'
      OBVIOUS
    <3>1. \A c \in free : c + size[c] \notin free
      BY DEF IInv, Tagged, NEXT_SBLOCK
    <3>2. CASE a = cur
      <4>1. cur + s \notin free
        BY <3>1, <1>5, <1>8
      <4>2. cur + s # cur
        BY <1>7, <1>8
      <4> QED
        BY <3>2, <4>1, <4>2, <1>1, <1>8
    <3>3. CASE a # cur
      <4>1. a \in free /\ size'[a] = size[a]
        BY <3>3, <2>3, <1>1 DEF Blocks
      <4>2. a + size[a] \notin free
        BY <3>1, <4>1
      <4>3. a + size[a] # cur
        BY <4>1, <4>2, <1>3, <1>4
      <4> QED
        BY <4>1, <4>2, <4>3, <1>1
    <3> QED
      BY <3>2, <3>3
  <2> QED
    BY <2>2, <2>4, <2>5 DEF Tagged, NEXT_SBLOCK
<1>15. size'[Last] = 0
  BY <1>8, Places DEF IInv
<1> QED
  BY <1>9, <1>12, <1>13, <1>14, <1>15 DEF IInv

LEMMA NextInv == IInv /\ [Next]_vars => IInv'
<1> SUFFICES ASSUME IInv, [Next]_vars PROVE IInv'
  OBVIOUS
<1>1. ASSUME NEW n \in Sizes, NEW prv \in free \cup {First}, AllocateWhole(n, prv) PROVE IInv'
  BY <1>1, WholeInv
<1>2. ASSUME NEW n \in Sizes, NEW prv \in free \cup {First}, AllocateSplit(n, prv) PROVE IInv'
  BY <1>2, SplitInv
<1>3. ASSUME NEW b \in used, Deallocate(b) PROVE IInv'
  BY <1>3, DeallocateInv
<1>4. CASE UNCHANGED vars
  BY <1>4 DEF vars, IInv, TypeOK, Tiled, Tagged, ListConsistent, Blocks, NEXT_SBLOCK
<1> QED
  BY <1>1, <1>2, <1>3, <1>4 DEF Next, AllocateFails

LEMMA Invariant == Spec => []IInv
BY InitInv, NextInv, PTL DEF Spec

-----------------------------------------------------------------------------
(* The chain of free blocks.                                               *)

\* A chain without one of its blocks is a chain.
LEMMA UnlinkChained ==
    ASSUME NEW l \in ListType, NEW F \in SUBSET Inner, NEW b \in F, Linked(l, F), Chained(l, F)
    PROVE  Chained(Unlink(l, b), F \ {b})
<1> DEFINE u == Unlink(l, b)
<1> SUFFICES ASSUME NEW S \in SUBSET (F \ {b}), S # {}
             PROVE  \E c \in S : u.fprev[c] \notin S
  BY DEF Chained
<1>1. /\ u.fprev[l.fnext[b]] = l.fprev[b]
      /\ \A c \in F \ {l.fnext[b]} : u.fprev[c] = l.fprev[c]
      /\ l.fnext[b] \in F \cup {Last} /\ \A c \in F : l.fprev[c] \in F \cup {First}
      /\ l.fprev[l.fnext[b]] = b
  BY InnerApart DEF Unlink, Linked, ListType
<1> HIDE DEF u
<1>2. CASE l.fnext[b] \in S
  <2>1. S \cup {b} \in SUBSET F /\ S \cup {b} # {}
    OBVIOUS
  <2>2. PICK c \in S \cup {b} : l.fprev[c] \notin S \cup {b}
    BY <2>1 DEF Chained
  <2>3. CASE c = b
    BY <1>1, <1>2, <2>2, <2>3
  <2>4. CASE c # b
    BY <1>1, <2>2, <2>4
  <2> QED
    BY <2>3, <2>4
<1>3. CASE l.fnext[b] \notin S
  <2>1. PICK c \in S : l.fprev[c] \notin S
    BY DEF Chained
  <2> QED
    BY <1>1, <1>3, <2>1
<1> QED
  BY <1>2, <1>3

\* A chain with a block before its first one is a chain.
LEMMA PushChained ==
    ASSUME NEW l \in ListType, NEW F \in SUBSET Inner, NEW b \in Inner \ F,
           Linked(l, F), Chained(l, F)
    PROVE  Chained(Push(l, b), F \cup {b})
<1> DEFINE u == Push(l, b)
<1> SUFFICES ASSUME NEW S \in SUBSET (F \cup {b}), S # {}
             PROVE  \E c \in S : u.fprev[c] \notin S
  BY DEF Chained
<1>1. /\ u.fprev[b] = First /\ u.fprev[l.fnext[First]] = b
      /\ \A c \in F \ {l.fnext[First]} : u.fprev[c] = l.fprev[c]
      /\ First \notin F \cup {b}
  BY InnerApart DEF Push, Linked, ListType
<1> HIDE DEF u
<1>2. CASE b \in S
  BY <1>1, <1>2
<1>3. CASE b \notin S
  <2>1. PICK c \in S : l.fprev[c] \notin S
    BY <1>3 DEF Chained
  <2> QED
    BY <1>1, <1>3, <2>1
<1> QED
  BY <1>2, <1>3

\* A chain in which a block takes the place of another is a chain.
LEMMA ReplaceChained ==
    ASSUME NEW l \in ListType, NEW F \in SUBSET Inner, NEW b \in F, NEW nxt \in Inner \ F,
           Linked(l, F), Chained(l, F), l.fnext[b] # b
    PROVE  Chained(Replace(l, b, nxt), (F \ {b}) \cup {nxt})
<1> DEFINE u == Replace(l, b, nxt)
           G == (F \ {b}) \cup {nxt}
<1> SUFFICES ASSUME NEW S \in SUBSET G, S # {}
             PROVE  \E c \in S : u.fprev[c] \notin S
  BY DEF Chained
<1>1. /\ u.fprev[nxt] = l.fprev[b] /\ u.fprev[l.fnext[b]] = nxt
      /\ \A c \in F \ {l.fnext[b]} : u.fprev[c] = l.fprev[c]
      /\ l.fprev[l.fnext[b]] = b /\ nxt \notin F \cup {First}
      /\ \A c \in F : l.fprev[c] \in F \cup {First}
  BY InnerApart DEF Replace, Linked, ListType
<1> HIDE DEF u
<1>2. CASE nxt \in S
  <2> DEFINE R == (S \ {nxt}) \cup {b}
  <2>1. R \in SUBSET F /\ R # {}
    OBVIOUS
  <2>2. PICK c \in R : l.fprev[c] \notin R
    BY <2>1 DEF Chained
  <2>3. CASE c = b
    <3>1. l.fprev[b] \notin S
      BY <1>1, <2>2, <2>3
    <3> QED
      BY <1>1, <1>2, <3>1
  <2>4. CASE c # b
    <3>1. c \in S /\ c \in F /\ c # l.fnext[b]
      BY <1>1, <2>2, <2>4
    <3>2. u.fprev[c] = l.fprev[c] /\ l.fprev[c] # nxt
      BY <1>1, <3>1
    <3> QED
      BY <2>2, <3>1, <3>2
  <2> QED
    BY <2>3, <2>4
<1>3. CASE nxt \notin S
  <2>1. S \in SUBSET F
    BY <1>3
  <2>2. PICK c \in S : l.fprev[c] \notin S
    BY <2>1 DEF Chained
  <2>3. CASE c = l.fnext[b]
    BY <1>1, <1>3, <2>3
  <2>4. CASE c # l.fnext[b]
    BY <1>1, <2>1, <2>2, <2>4
  <2> QED
    BY <2>3, <2>4
<1> QED
  BY <1>2, <1>3

\* Marking a block as allocated leaves fprev alone.
LEMMA AllocatedChained ==
    ASSUME NEW l \in ListType, NEW F \in SUBSET Inner, NEW b, Chained(l, F)
    PROVE  Chained(Allocated(l, b), F)
BY DEF Allocated, Chained, ListType

-----------------------------------------------------------------------------
(* The count of what is free.                                              *)

NumType == [Off -> Int]

LEMMA Segment == SegSize \in Nat /\ Off = 0 .. SegSize - 1
BY SizesAssumption DEF SizesAssumption, Off

\* Total is the last of the partial sums.
LEMMA TotalIs ==
    ASSUME NEW a \in NumType
    PROVE  \E s \in [0 .. SegSize -> Int] : Sums(s, a, SegSize) /\ Total(a) = s[SegSize]
<1> DEFINE upto == CHOOSE f : Sums(f, a, SegSize)
<1>1. a \in [0 .. SegSize - 1 -> Int] /\ SegSize \in Nat
  BY Segment DEF NumType
<1>2. \E s : Sums(s, a, SegSize)
  BY <1>1, SumExists
<1>3. Sums(upto, a, SegSize)
  BY <1>2
<1>4. Total(a) = upto[SegSize]
  BY DEF Total, Sums
<1>5. upto \in [0 .. SegSize -> Int]
  <2> HIDE DEF upto
  <2> QED
    BY <1>1, <1>3, SumIn
<1> QED
  BY <1>3, <1>4, <1>5

\* One number that changes changes the total by as much.
LEMMA TotalChanges ==
    ASSUME NEW a \in NumType, NEW b \in NumType, NEW k \in Off,
           \A o \in Off : o # k => b[o] = a[o]
    PROVE  /\ Total(b) = Total(a) + (b[k] - a[k])
           /\ Total(a) \in Int /\ Total(b) \in Int /\ a[k] \in Int /\ b[k] \in Int
<1>1. PICK s \in [0 .. SegSize -> Int] : Sums(s, a, SegSize) /\ Total(a) = s[SegSize]
  BY TotalIs
<1>2. PICK t \in [0 .. SegSize -> Int] : Sums(t, b, SegSize) /\ Total(b) = t[SegSize]
  BY TotalIs
<1>3. /\ a \in [0 .. SegSize - 1 -> Int] /\ b \in [0 .. SegSize - 1 -> Int] /\ SegSize \in Nat
      /\ k \in 0 .. SegSize - 1 /\ \A i \in 0 .. SegSize - 1 : i # k => b[i] = a[i]
  BY Segment DEF NumType
<1>4. t[SegSize] = s[SegSize] + (b[k] - a[k])
  BY <1>1, <1>2, <1>3, SumChanges
<1>5. s[SegSize] \in Int /\ t[SegSize] \in Int /\ a[k] \in Int /\ b[k] \in Int
  BY Segment, <1>3
<1> QED
  BY <1>1, <1>2, <1>4, <1>5

\* The same of two numbers.
LEMMA TotalChangesTwice ==
    ASSUME NEW a \in NumType, NEW b \in NumType, NEW k \in Off, NEW m \in Off, k # m,
           \A o \in Off : o # k /\ o # m => b[o] = a[o]
    PROVE  Total(b) = Total(a) + (b[k] - a[k]) + (b[m] - a[m])
<1> DEFINE c == [a EXCEPT ![k] = b[k]]
<1>1. c \in NumType /\ c[k] = b[k] /\ c[m] = a[m] /\ \A o \in Off : o # k => c[o] = a[o]
  BY DEF NumType
<1>2. \A o \in Off : o # m => b[o] = c[o]
  BY <1>1
<1> HIDE DEF c
<1>3. Total(c) = Total(a) + (b[k] - a[k]) /\ Total(a) \in Int /\ a[k] \in Int /\ b[k] \in Int
      /\ Total(c) \in Int
  <2>1. Total(c) = Total(a) + (c[k] - a[k]) /\ Total(a) \in Int /\ a[k] \in Int /\ c[k] \in Int
        /\ Total(c) \in Int
    BY <1>1, TotalChanges
  <2> QED
    BY <2>1, <1>1
<1>4. Total(b) = Total(c) + (b[m] - a[m]) /\ a[m] \in Int /\ b[m] \in Int
  <2>1. Total(b) = Total(c) + (b[m] - c[m]) /\ c[m] \in Int /\ b[m] \in Int
    BY <1>1, <1>2, TotalChanges
  <2> QED
    BY <2>1, <1>1
<1> QED
  BY <1>3, <1>4

\* No number is larger than the total when none is negative.
LEMMA TotalAtLeast ==
    ASSUME NEW a \in [Off -> Nat], NEW k \in Off
    PROVE  a[k] <= Total(a) /\ a[k] \in Nat /\ Total(a) \in Int
<1> DEFINE b == [a EXCEPT ![k] = 0]
<1>1. b \in [Off -> Nat] /\ b[k] = 0 /\ \A o \in Off : o # k => b[o] = a[o]
  OBVIOUS
<1> HIDE DEF b
<1>2. a \in NumType /\ b \in NumType
  BY <1>1 DEF NumType
<1>3. PICK s \in [0 .. SegSize -> Int] : Sums(s, b, SegSize) /\ Total(b) = s[SegSize]
  BY <1>2, TotalIs
<1>4. s \in [0 .. SegSize -> Nat]
  BY <1>1, <1>3, Segment, SumIn
<1>5. Total(b) \in Nat
  BY <1>3, <1>4, Segment
<1>6. Total(b) = Total(a) + (b[k] - a[k]) /\ Total(a) \in Int
  <2>1. \A o \in Off : o # k => b[o] = a[o]
    BY <1>1
  <2> QED
    BY <2>1, <1>2, TotalChanges
<1>7. a[k] \in Nat
  OBVIOUS
<1> QED
  BY <1>1, <1>5, <1>6, <1>7

\* Nothing sums to nothing.
LEMMA TotalOfNone ==
    ASSUME NEW a \in NumType, \A o \in Off : a[o] = 0
    PROVE  Total(a) = 0
<1>1. PICK s \in [0 .. SegSize -> Int] : Sums(s, a, SegSize) /\ Total(a) = s[SegSize]
  BY TotalIs
<1> DEFINE T == {i \in 0 .. SegSize : s[i] = 0}
<1>2. \A i \in 0 .. SegSize : s[i] = IF i = 0 THEN 0 ELSE s[i - 1] + a[i - 1]
  BY <1>1 DEF Sums
<1>3. 0 \in T
  BY <1>2, Segment
<1>4. ASSUME NEW i \in 0 .. SegSize, i # SegSize, i \in T PROVE i + 1 \in T
  <2>1. i + 1 \in 0 .. SegSize /\ i + 1 # 0 /\ (i + 1) - 1 = i /\ i \in Off
    BY <1>4, Segment
  <2>2. s[i + 1] = s[i] + a[i] /\ s[i] = 0 /\ a[i] = 0
    BY <1>2, <1>4, <2>1
  <2> QED
    BY <2>1, <2>2
<1>5. 0 .. SegSize \subseteq T
  <2> HIDE DEF T
  <2> QED
    BY <1>3, <1>4, Segment, UpTo
<1> QED
  BY <1>1, <1>5, Segment

-----------------------------------------------------------------------------
(* The second invariant: the free list is one chain that begins at a       *)
(* sentinel without a size, and avail is right.                            *)

CInv == Chained(list, free) /\ size[First] = 0 /\ AvailCounts

LEMMA FreeSizesType ==
    ASSUME IInv
    PROVE  FreeSizes \in [Off -> Nat] /\ FreeSizes \in NumType
<1>1. FreeSizes \in [Off -> Nat]
  BY Places DEF FreeSizes, SizeType
<1> QED
  BY <1>1 DEF NumType

LEMMA FreeSizesTypeNext ==
    ASSUME IInv'
    PROVE  FreeSizes' \in NumType /\ free' \in SUBSET Inner
<1>1. size' \in [Off -> Nat]
  BY DEF IInv, TypeOK
<1>2. FreeSizes' \in NumType
  BY <1>1 DEF FreeSizes, NumType
<1>3. free' \in SUBSET Inner
  BY DEF IInv, Tiled, Tiles, Blocks, Inner
<1> QED
  BY <1>2, <1>3

LEMMA InitCInv == Init => CInv
<1> SUFFICES ASSUME Init PROVE CInv
  OBVIOUS
<1>1. IInv
  BY InitInv
<1>2. free = {Start} /\ size[Start] = Last - Start /\ list.fprev[Start] = First /\ size[First] = 0
      /\ Start # First /\ Start \in Off
  <2>1. Start # First /\ Start \in Off /\ First \in Off /\ Start # Last
    BY InnerApart DEF Inner
  <2> QED
    BY <2>1 DEF Init
<1>3. Chained(list, free)
  BY <1>2 DEF Chained
<1>4. AvailCounts
  <2> DEFINE z == [o \in Off |-> 0]
  <2>1. z \in NumType /\ \A o \in Off : z[o] = 0
    BY DEF NumType
  <2>2. FreeSizes \in NumType /\ FreeSizes[Start] = Last - Start
        /\ \A o \in Off : o # Start => FreeSizes[o] = z[o]
    BY <1>1, <1>2, FreeSizesType DEF FreeSizes
  <2> HIDE DEF z
  <2>3. Total(z) = 0
    BY <2>1, TotalOfNone
  <2>4. Total(FreeSizes) = Total(z) + (FreeSizes[Start] - z[Start])
    BY <1>2, <2>1, <2>2, TotalChanges
  <2>5. Last - Start \in Int /\ Total(FreeSizes) = Last - Start
    BY <1>2, <2>1, <2>2, <2>3, <2>4, Layout, SizesAssumption DEF SizesAssumption, Off
  <2>6. avail = BlkSize + (Last - Start)
    BY SizesAssumption DEF Init, SizesAssumption, Last, Start
  <2> QED
    BY <2>5, <2>6 DEF AvailCounts
<1> QED
  BY <1>2, <1>3, <1>4 DEF CInv

LEMMA WholeCInv ==
    ASSUME IInv, IInv', CInv, NEW n \in Sizes, NEW prv \in free \cup {First}, AllocateWhole(n, prv)
    PROVE  CInv'
<1>1. PICK cur \in free : cur = list.fnext[prv]
  BY Chosen DEF AllocateWhole
<1>2. /\ list' = Allocated(Unlink(list, cur), cur)
      /\ avail' = avail - size[cur]
      /\ free' = free \ {cur} /\ size' = size
  BY <1>1 DEF AllocateWhole
<1>3. Chained(list', free')
  <2>1. Unlink(list, cur) \in ListType /\ Chained(Unlink(list, cur), free \ {cur})
    BY Places, UnlinkLinked, UnlinkChained DEF CInv
  <2>2. free \ {cur} \in SUBSET Inner
    BY Places
  <2>3. Chained(Allocated(Unlink(list, cur), cur), free \ {cur})
    BY <2>1, <2>2, AllocatedChained
  <2> QED
    BY <2>3, <1>2
<1>4. AvailCounts'
  <2>1. PICK a \in NumType : a = FreeSizes
    BY FreeSizesType
  <2>2. PICK c \in NumType : c = FreeSizes'
    BY FreeSizesTypeNext
  <2>3. cur \in Off /\ c[cur] = 0 /\ a[cur] = size[cur] /\ \A o \in Off : o # cur => c[o] = a[o]
    BY <1>2, <2>1, <2>2, Places DEF FreeSizes
  <2>4. Total(c) = Total(a) + (c[cur] - a[cur]) /\ Total(a) \in Int /\ Total(c) \in Int
        /\ a[cur] \in Int
    BY <2>3, TotalChanges
  <2>5. avail = BlkSize + Total(a) /\ avail' = avail - a[cur]
    BY <1>2, <2>1, <2>3 DEF CInv, AvailCounts
  <2>6. avail' = BlkSize + Total(c)
    BY <2>3, <2>4, <2>5, Layout
  <2> QED
    BY <2>2, <2>6 DEF AvailCounts
<1> QED
  BY <1>2, <1>3, <1>4 DEF CInv

LEMMA SplitCInv ==
    ASSUME IInv, IInv', CInv, NEW n \in Sizes, NEW prv \in free \cup {First}, AllocateSplit(n, prv)
    PROVE  CInv'
<1>1. PICK cur \in free : cur = list.fnext[prv]
  BY Chosen DEF AllocateSplit
<1>2. PICK realsize \in Nat : realsize = n + BlkSize
  BY Chosen DEF AllocateSplit
<1>3. cur # prv /\ list.fprev[cur] = prv /\ realsize > 0 /\ size[cur] >= realsize
      /\ size[cur] \in Nat /\ cur \in Inner /\ cur \in Int
  BY <1>1, <1>2, Chosen, Places DEF AllocateSplit, Blocks
<1>4. PICK nxt : nxt = cur + realsize
  OBVIOUS
<1>5. PICK left : left = size[cur] - realsize
  OBVIOUS
<1>6. /\ size' = [size EXCEPT ![cur] = realsize, ![nxt] = left]
      /\ list' = Allocated(Replace(list, cur, nxt), cur)
      /\ avail' = avail - realsize
      /\ free' = (free \ {cur}) \cup {nxt} /\ used' = used \cup {cur}
  BY <1>1, <1>2, <1>4, <1>5 DEF AllocateSplit
<1>7. free' \in SUBSET Inner /\ nxt \in Inner /\ nxt # cur
  <2>1. free' \in SUBSET Inner
    BY FreeSizesTypeNext
  <2> QED
    BY <2>1, <1>3, <1>4, <1>6
<1>8. nxt \notin free
  <2>1. free \subseteq Blocks /\ cur \in Blocks /\ Tiles(Blocks, size) /\ nxt \in Int
        /\ cur < nxt /\ nxt < cur + size[cur]
    <3>1. size[cur] # realsize
      <4>1. ~Exact(cur, realsize)
        BY <1>1, <1>2 DEF AllocateSplit
      <4>2. MINBLOCKSIZE \in Nat /\ MINBLOCKSIZE > 0
        BY Layout DEF MINBLOCKSIZE
      <4> QED
        BY <1>3, <4>1, <4>2 DEF Exact
    <3> QED
      BY <3>1, <1>3, <1>4, Places DEF Blocks
  <2>2. \A b \in Blocks : cur < b => cur + size[cur] <= b
    BY <2>1 DEF Tiles
  <2> QED
    BY <2>1, <2>2, <1>3
<1>9. Chained(list', free')
  <2>1. list.fnext[cur] # cur
    BY <1>3, Places DEF Linked
  <2>2. nxt \in Inner \ free
    BY <1>7, <1>8
  <2>3. Replace(list, cur, nxt) \in ListType /\ Chained(Replace(list, cur, nxt), free')
    BY <1>6, <2>1, <2>2, Places, ReplaceLinked, ReplaceChained DEF CInv
  <2>4. Chained(Allocated(Replace(list, cur, nxt), cur), free')
    BY <1>7, <2>3, AllocatedChained
  <2> QED
    BY <1>6, <2>4
<1>10. size'[cur] = realsize /\ size'[nxt] = left
       /\ \A o \in Off : o # cur /\ o # nxt => size'[o] = size[o]
  BY <1>3, <1>6, <1>7, Places DEF SizeType
<1>11. AvailCounts'
  <2>1. PICK a \in NumType : a = FreeSizes
    BY FreeSizesType
  <2>2. PICK c \in NumType : c = FreeSizes'
    BY FreeSizesTypeNext
  <2>3. cur \in Off /\ nxt \in Off /\ c[cur] = 0 /\ a[cur] = size[cur] /\ c[nxt] = left /\ a[nxt] = 0
        /\ \A o \in Off : o # cur /\ o # nxt => c[o] = a[o]
    <3>1. cur \in Off /\ nxt \in Off
      BY <1>3, <1>7, Places
    <3> QED
      BY <3>1, <1>6, <1>7, <1>8, <1>10, <2>1, <2>2 DEF FreeSizes
  <2>4. Total(c) = Total(a) + (c[cur] - a[cur]) + (c[nxt] - a[nxt])
    BY <2>3, <1>7, TotalChangesTwice
  <2>5. Total(a) \in Int
    BY TotalChanges, <2>3
  <2>6. avail = BlkSize + Total(a)
    BY <2>1 DEF CInv, AvailCounts
  <2>7. avail' = BlkSize + Total(c)
    BY <2>3, <2>4, <2>5, <2>6, <1>3, <1>5, <1>6, Layout
  <2> QED
    BY <2>2, <2>7 DEF AvailCounts
<1>12. size'[First] = 0
  BY <1>3, <1>7, <1>10, InnerApart DEF CInv
<1> QED
  BY <1>9, <1>11, <1>12 DEF CInv

LEMMA DeallocateCInv ==
    ASSUME IInv, IInv', CInv, NEW b \in used, Deallocate(b)
    PROVE  CInv'
<1>1. PICK joinPrev \in BOOLEAN : joinPrev <=> prev_size[b] # 0
  OBVIOUS
<1>2. PICK cur : cur = IF joinPrev THEN b - prev_size[b] ELSE b
  OBVIOUS
<1>3. PICK nxt : nxt = b + size[b]
  OBVIOUS
<1>4. PICK joinNext \in BOOLEAN : joinNext <=> list.fnext[nxt] # 0
  OBVIOUS
<1>5. PICK s : s = (IF joinPrev THEN size[cur] ELSE 0) + size[b] + (IF joinNext THEN size[nxt] ELSE 0)
  OBVIOUS
<1>6. PICK l1 : l1 = IF joinPrev THEN Unlink(list, cur) ELSE list
  OBVIOUS
<1>7. PICK l2 : l2 = IF joinNext THEN Unlink(l1, nxt) ELSE l1
  OBVIOUS
<1>8. /\ size' = [size EXCEPT ![cur] = s]
      /\ list' = Push(l2, cur)
      /\ avail' = avail + size[b]
      /\ free' = (free \ {nxt}) \cup {cur}
  BY <1>1, <1>2, <1>3, <1>4, <1>5, <1>6, <1>7 DEF Deallocate, NEXT_SBLOCK
<1>9. b \in Blocks /\ b \notin free /\ b \in Int /\ size[b] \in Nat /\ size[b] > 0 /\ nxt \in Off /\ nxt \in Int
      /\ b \in Inner
  BY <1>3, Places DEF Blocks, Off
<1>10. (joinPrev => cur \in free /\ cur + size[cur] = b) /\ (~joinPrev => cur = b)
  BY <1>1, <1>2, Neighbours
<1>11. joinNext <=> nxt \in free
  BY <1>3, <1>4, Neighbours DEF NEXT_SBLOCK
<1>12. cur \in Inner /\ cur \in Blocks /\ cur \in Off /\ cur \in Int /\ size[cur] \in Nat /\ cur <= b /\ cur # nxt
  <2>1. cur \in Blocks
    BY <1>9, <1>10 DEF Blocks
  <2>2. cur \in Inner /\ cur \in Off /\ cur \in Int /\ size[cur] \in Nat
    BY <2>1, Places
  <2>3. cur <= b
    BY <2>2, <1>9, <1>10
  <2> QED
    BY <2>1, <2>2, <2>3, <1>3, <1>9
<1>13. Chained(list', free')
  <2>1. PICK F1 : F1 = IF joinPrev THEN free \ {cur} ELSE free
    OBVIOUS
  <2>2. PICK F2 : F2 = IF joinNext THEN F1 \ {nxt} ELSE F1
    OBVIOUS
  <2>3. list \in ListType /\ Linked(list, free) /\ Chained(list, free) /\ free \in SUBSET Inner
    BY Places DEF CInv
  <2>4. l1 \in ListType /\ Linked(l1, F1) /\ Chained(l1, F1) /\ F1 \in SUBSET Inner
    <3>1. CASE joinPrev
      BY <3>1, <2>1, <2>3, <1>6, <1>10, UnlinkLinked, UnlinkChained
    <3>2. CASE ~joinPrev
      BY <3>2, <2>1, <2>3, <1>6
    <3> QED
      BY <3>1, <3>2
  <2>5. l2 \in ListType /\ Linked(l2, F2) /\ Chained(l2, F2) /\ F2 \in SUBSET Inner
    <3>1. CASE joinNext
      <4>1. nxt \in F1
        BY <3>1, <2>1, <1>11, <1>12
      <4> QED
        BY <4>1, <3>1, <2>2, <2>4, <1>7, UnlinkLinked, UnlinkChained
    <3>2. CASE ~joinNext
      BY <3>2, <2>2, <2>4, <1>7
    <3> QED
      BY <3>1, <3>2
  <2>6. cur \in Inner \ F2 /\ F2 \cup {cur} = free'
    BY <2>1, <2>2, <1>8, <1>9, <1>10, <1>11, <1>12
  <2>7. Chained(Push(l2, cur), F2 \cup {cur})
    BY <2>5, <2>6, PushChained
  <2> QED
    BY <2>6, <2>7, <1>8
<1>14. s \in Nat /\ size'[cur] = s /\ \A o \in Off : o # cur => size'[o] = size[o]
  <2>1. joinNext => size[nxt] \in Nat
    BY <1>9, Places DEF SizeType
  <2>2. s \in Nat
    BY <2>1, <1>5, <1>9, <1>12
  <2> QED
    BY <2>2, <1>8, <1>12, Places DEF SizeType
<1>15. AvailCounts'
  <2>1. PICK a \in NumType : a = FreeSizes
    BY FreeSizesType
  <2>2. PICK c \in NumType : c = FreeSizes'
    BY FreeSizesTypeNext
  <2>3. /\ c[cur] = s /\ c[nxt] = 0
        /\ a[cur] = (IF joinPrev THEN size[cur] ELSE 0)
        /\ a[nxt] = (IF joinNext THEN size[nxt] ELSE 0)
        /\ \A o \in Off : o # cur /\ o # nxt => c[o] = a[o]
    <3>1. c[cur] = s /\ c[nxt] = 0
      BY <2>2, <1>8, <1>9, <1>12, <1>14 DEF FreeSizes
    <3>2. a[cur] = (IF joinPrev THEN size[cur] ELSE 0)
      BY <2>1, <1>9, <1>10, <1>12 DEF FreeSizes
    <3>3. a[nxt] = (IF joinNext THEN size[nxt] ELSE 0)
      BY <2>1, <1>9, <1>11 DEF FreeSizes
    <3>4. \A o \in Off : o # cur /\ o # nxt => c[o] = a[o]
      BY <2>1, <2>2, <1>8, <1>14 DEF FreeSizes
    <3> QED
      BY <3>1, <3>2, <3>3, <3>4
  <2>4. Total(c) = Total(a) + (c[cur] - a[cur]) + (c[nxt] - a[nxt])
    BY <2>3, <1>9, <1>12, TotalChangesTwice
  <2>5. Total(a) \in Int /\ a[cur] \in Int /\ a[nxt] \in Int
    <3>1. PICK t \in [0 .. SegSize -> Int] : Total(a) = t[SegSize]
      BY TotalIs
    <3>2. t[SegSize] \in Int
      BY Segment
    <3>3. a[cur] \in Int /\ a[nxt] \in Int
      BY <1>9, <1>12 DEF NumType
    <3> QED
      BY <3>1, <3>2, <3>3
  <2>6. avail = BlkSize + Total(a) /\ s = a[cur] + size[b] + a[nxt]
    BY <2>1, <2>3, <1>5 DEF CInv, AvailCounts
  <2>7. avail' = BlkSize + Total(c)
    BY <2>3, <2>4, <2>5, <2>6, <1>8, <1>9, <1>14, Layout
  <2> QED
    BY <2>2, <2>7 DEF AvailCounts
<1>16. size'[First] = 0
  BY <1>12, <1>14, InnerApart DEF CInv
<1> QED
  BY <1>13, <1>15, <1>16 DEF CInv

LEMMA NextCInv == IInv /\ IInv' /\ CInv /\ [Next]_vars => CInv'
<1> SUFFICES ASSUME IInv, IInv', CInv, [Next]_vars PROVE CInv'
  OBVIOUS
<1>1. ASSUME NEW n \in Sizes, NEW prv \in free \cup {First}, AllocateWhole(n, prv) PROVE CInv'
  BY <1>1, WholeCInv
<1>2. ASSUME NEW n \in Sizes, NEW prv \in free \cup {First}, AllocateSplit(n, prv) PROVE CInv'
  BY <1>2, SplitCInv
<1>3. ASSUME NEW b \in used, Deallocate(b) PROVE CInv'
  BY <1>3, DeallocateCInv
<1>4. CASE UNCHANGED vars
  BY <1>4 DEF vars, CInv, AvailCounts, FreeSizes
<1> QED
  BY <1>1, <1>2, <1>3, <1>4 DEF Next, AllocateFails

LEMMA ChainInvariant == Spec => []CInv
BY InitCInv, NextCInv, Invariant, PTL DEF Spec

-----------------------------------------------------------------------------
(* The search.                                                             *)

\* Walk follows fnext from the sentinel.
LEMMA WalkFollows ==
    ASSUME IInv
    PROVE  /\ Walk \in [0 .. SegSize -> Off] /\ Walk[0] = First
           /\ \A i \in 0 .. SegSize : i # SegSize => Walk[i + 1] = list.fnext[Walk[i]]
<1>1. list.fnext \in [Off -> Off] /\ First \in Off /\ SegSize \in Nat
  BY Places, InnerApart, Segment DEF ListType
<1>2. Walks(Walk, list.fnext, First, SegSize)
  <2>1. \E w : Walks(w, list.fnext, First, SegSize)
    BY <1>1, WalkExists
  <2>2. Walk = CHOOSE w : Walks(w, list.fnext, First, SegSize)
    BY DEF Walk, Walks
  <2> QED
    BY <2>1, <2>2
<1>3. Walk \in [0 .. SegSize -> Off]
  BY <1>1, <1>2, WalkIn
<1>4. \A i \in 0 .. SegSize : Walk[i] = IF i = 0 THEN First ELSE list.fnext[Walk[i - 1]]
  BY <1>2 DEF Walks
<1>5. Walk[0] = First
  BY <1>1, <1>4
<1>6. ASSUME NEW i \in 0 .. SegSize, i # SegSize PROVE Walk[i + 1] = list.fnext[Walk[i]]
  <2>1. i + 1 \in 0 .. SegSize /\ i + 1 # 0 /\ (i + 1) - 1 = i
    BY <1>1, <1>6
  <2> QED
    BY <1>4, <2>1
<1> QED
  BY <1>3, <1>5, <1>6

\* There are at most as many free blocks as offsets.
LEMMA FreeCount ==
    ASSUME IInv
    PROVE  /\ IsFiniteSet(free) /\ Cardinality(free) \in Nat /\ Cardinality(free) <= SegSize
<1>1. IsFiniteSet(Off) /\ Cardinality(Off) = SegSize
  <2>1. 0 \in Int /\ SegSize - 1 \in Int /\ SegSize \in Nat
    BY Segment
  <2>2. IsFiniteSet(0 .. SegSize - 1)
        /\ Cardinality(0 .. SegSize - 1) = IF 0 > SegSize - 1 THEN 0 ELSE (SegSize - 1) - 0 + 1
    BY <2>1, FS_Interval
  <2> QED
    BY <2>1, <2>2, Segment
<1>2. free \subseteq Off
  BY DEF IInv, TypeOK
<1>3. IsFiniteSet(free) /\ Cardinality(free) <= Cardinality(Off)
  BY <1>1, <1>2, FS_Subset
<1> QED
  BY <1>1, <1>3, FS_CardinalityType

(***************************************************************************)
(* As long as no step fits, the walk goes on through free blocks that are  *)
(* too small, and through none of them twice.  A large block would let it  *)
(* go on longer than there are other free blocks.                          *)
(***************************************************************************)
Passed(r, i) ==
    /\ \A j \in 0 .. i : Walk[j] \in free \cup {First} /\ size[Walk[j]] < r
    /\ \A j, k \in 0 .. i : Walk[j] = Walk[k] => j = k

LEMMA WalkGoesOn ==
    ASSUME IInv, CInv, NEW r \in Nat, NEW b \in free, size[b] >= r,
           NEW i \in 0 .. Cardinality(free), i # Cardinality(free),
           Passed(r, i), ~FirstFit(Walk[i], r)
    PROVE  Passed(r, i + 1)
<1>1. /\ Cardinality(free) \in Nat /\ Cardinality(free) <= SegSize /\ SegSize \in Nat
      /\ i \in Nat /\ i + 1 \in Nat /\ i \in 0 .. i /\ 0 .. i + 1 = (0 .. i) \cup {i + 1}
      /\ i \in 0 .. SegSize /\ i # SegSize
  BY FreeCount, Segment
<1>2. \A j \in 0 .. i : Walk[j + 1] = list.fnext[Walk[j]]
  BY <1>1, WalkFollows
<1>3. Walk[0] = First
  BY WalkFollows
<1>4. \A j \in 0 .. i : /\ list.fnext[Walk[j]] \in free \cup {Last}
                        /\ list.fprev[list.fnext[Walk[j]]] = Walk[j]
  BY Places DEF Passed, Linked
<1>5. Walk[i + 1] # Last
  <2> SUFFICES ASSUME Walk[i + 1] = Last PROVE FALSE
    OBVIOUS
  <2> DEFINE S == {c \in free : \A j \in 0 .. i : Walk[j] # c}
  <2>1. b \in S
    <3>1. size[b] \in Nat
      BY Places DEF Blocks
    <3>2. \A j \in 0 .. i : Walk[j] # b
      <4> SUFFICES ASSUME NEW j \in 0 .. i, Walk[j] = b PROVE FALSE
        OBVIOUS
      <4>1. size[b] < r
        BY DEF Passed
      <4> QED
        BY <3>1, <4>1
    <3> QED
      BY <3>2
  <2>2. PICK c \in S : list.fprev[c] \notin S
    <3>1. S \in SUBSET free /\ S # {}
      BY <2>1
    <3> HIDE DEF S
    <3> QED
      BY <3>1 DEF CInv, Chained
  <2>3. c \in free /\ list.fprev[c] \in free \cup {First} /\ list.fnext[list.fprev[c]] = c
    BY Places DEF Linked
  <2>4. PICK j \in 0 .. i : Walk[j] = list.fprev[c]
    <3>1. CASE list.fprev[c] = First
      BY <3>1, <1>1, <1>3
    <3>2. CASE list.fprev[c] # First
      BY <3>2, <2>2, <2>3
    <3> QED
      BY <3>1, <3>2
  <2>5. Walk[j + 1] = c
    BY <1>2, <2>3, <2>4
  <2>6. CASE j = i
    BY <2>3, <2>5, <2>6, Places
  <2>7. CASE j # i
    <3>1. j + 1 \in 0 .. i
      BY <1>1, <2>7
    <3> QED
      BY <2>2, <2>5, <3>1
  <2> QED
    BY <2>6, <2>7
<1>6. Walk[i + 1] \in free
  BY <1>1, <1>2, <1>4, <1>5
<1>7. size[Walk[i + 1]] < r
  <2>1. list.fnext[Walk[i]] = Walk[i + 1] /\ Walk[i + 1] # 0
    BY <1>1, <1>2, <1>6, Places
  <2>2. \A j \in 0 .. i : size[Walk[j]] < r
    BY DEF Passed
  <2>3. ~(size[Walk[i + 1]] >= r)
    BY <2>1, <2>2 DEF FirstFit
  <2>4. size[Walk[i + 1]] \in Nat
    BY <1>6, Places DEF Blocks
  <2> QED
    BY <2>3, <2>4
<1>8. \A j \in 0 .. i : Walk[j] # Walk[i + 1]
  <2> SUFFICES ASSUME NEW j \in 0 .. i, Walk[j] = Walk[i + 1] PROVE FALSE
    OBVIOUS
  <2>1. j # 0
    BY <1>3, <1>6, Places
  <2>2. j - 1 \in 0 .. i /\ (j - 1) + 1 = j /\ j - 1 # i
    BY <1>1, <2>1
  <2>3. Walk[j] = list.fnext[Walk[j - 1]] /\ list.fprev[Walk[j]] = Walk[j - 1]
    BY <1>2, <1>4, <2>2
  <2>4. Walk[j - 1] = Walk[i]
    <3>1. i \in 0 .. i
      BY <1>1
    <3>2. Walk[i + 1] = list.fnext[Walk[i]] /\ list.fprev[list.fnext[Walk[i]]] = Walk[i]
      BY <3>1, <1>2, <1>4
    <3> QED
      BY <3>2, <2>3
  <2> QED
    BY <1>1, <2>2, <2>4 DEF Passed
<1>9. \A j \in 0 .. i + 1 : Walk[j] \in free \cup {First} /\ size[Walk[j]] < r
  BY <1>1, <1>6, <1>7 DEF Passed
<1>10. \A j, k \in 0 .. i + 1 : Walk[j] = Walk[k] => j = k
  <2>1. \A j, k \in 0 .. i : Walk[j] = Walk[k] => j = k
    BY DEF Passed
  <2> QED
    BY <2>1, <1>1, <1>8
<1> QED
  BY <1>9, <1>10 DEF Passed

LEMMA SearchFinds ==
    ASSUME IInv, CInv, NEW n \in Sizes, NoFit(n), NEW b \in free
    PROVE  size[b] < n + BlkSize
<1> SUFFICES ASSUME ~(size[b] < n + BlkSize) PROVE FALSE
  OBVIOUS
<1>1. PICK r \in Nat : r = n + BlkSize
  BY SizesAssumption DEF SizesAssumption
<1>2. r > 0 /\ n \in Nat
  BY <1>1, SizesAssumption DEF SizesAssumption
<1>3. size[b] \in Nat /\ b \in Off /\ b \in Inner
  BY Places DEF Blocks
<1>4. size[b] >= r
  BY <1>1, <1>3
<1>5. ~(avail < r)
  <2>1. PICK a \in [Off -> Nat] : a = FreeSizes
    BY FreeSizesType
  <2>2. a[b] = size[b]
    BY <2>1, <1>3 DEF FreeSizes
  <2>3. a[b] <= Total(a) /\ Total(a) \in Int
    BY <1>3, TotalAtLeast
  <2>4. avail = BlkSize + Total(a)
    BY <2>1 DEF CInv, AvailCounts
  <2> QED
    BY <2>2, <2>3, <2>4, <1>3, <1>4, Layout
<1>6. \A prv \in free \cup {First} : ~FirstFit(prv, r)
  BY <1>1, <1>5 DEF NoFit
<1>7. PICK N \in Nat : N = Cardinality(free)
  BY FreeCount
<1>8. Passed(r, 0)
  <2>1. Walk[0] = First /\ size[First] = 0
    BY WalkFollows DEF CInv
  <2> QED
    BY <2>1, <1>2 DEF Passed
<1> DEFINE T == {i \in 0 .. N : Passed(r, i)}
<1>9. 0 \in T
  BY <1>8
<1>10. ASSUME NEW i \in 0 .. N, i # N, i \in T PROVE i + 1 \in T
  <2>1. Passed(r, i) /\ i \in 0 .. i /\ i + 1 \in 0 .. N
    BY <1>10
  <2>2. Walk[i] \in free \cup {First}
    BY <2>1 DEF Passed
  <2>3. ~FirstFit(Walk[i], r)
    BY <1>6, <2>2
  <2>4. Passed(r, i + 1)
    BY <1>4, <1>7, <1>10, <2>1, <2>3, WalkGoesOn
  <2> QED
    BY <2>1, <2>4
<1>11. Passed(r, N)
  <2>1. 0 .. N \subseteq T
    <3> HIDE DEF T
    <3> QED
      BY <1>9, <1>10, UpTo
  <2> QED
    BY <2>1
<1> HIDE DEF T
<1> DEFINE R == (free \ {b}) \cup {First}
           f == [i \in 0 .. N |-> Walk[i]]
<1>12. f \in [0 .. N -> R]
  <2>1. \A i \in 0 .. N : Walk[i] \in free \cup {First} /\ size[Walk[i]] < r
    BY <1>11 DEF Passed
  <2>2. \A i \in 0 .. N : Walk[i] # b
    <3> SUFFICES ASSUME NEW i \in 0 .. N, Walk[i] = b PROVE FALSE
      OBVIOUS
    <3>1. size[b] < r
      BY <2>1
    <3> QED
      BY <3>1, <1>3, <1>4
  <2> QED
    BY <2>1, <2>2
<1>13. IsFiniteSet(R) /\ Cardinality(R) = N
  <2>1. IsFiniteSet(free \ {b}) /\ Cardinality(free \ {b}) = N - 1
    BY <1>7, FreeCount, FS_RemoveElement
  <2>2. First \notin free \ {b}
    BY Places
  <2>3. IsFiniteSet(R) /\ Cardinality(R) = (N - 1) + 1
    BY <2>1, <2>2, FS_AddElement
  <2> QED
    BY <2>3
<1>14. IsFiniteSet(0 .. N) /\ Cardinality(0 .. N) = N + 1
  <2>1. IsFiniteSet(0 .. N) /\ Cardinality(0 .. N) = IF 0 > N THEN 0 ELSE N - 0 + 1
    BY FS_Interval
  <2> QED
    BY <2>1
<1>15. PICK j, k \in 0 .. N : j # k /\ f[j] = f[k]
  <2> HIDE DEF R, f
  <2>1. Cardinality(R) < Cardinality(0 .. N)
    BY <1>13, <1>14
  <2> QED
    BY <2>1, <1>12, <1>13, <1>14, FS_PigeonHole
<1> QED
  BY <1>11, <1>15 DEF Passed

-----------------------------------------------------------------------------
(* The theorems.                                                           *)

\* Whatever is split and joined, the blocks tile the segment, the boundary tags
\* tell the truth about them and the list is one chain of the free ones.
THEOREM AlwaysWellFormed == Spec => []WellFormed
<1>1. IInv /\ CInv => WellFormed
  BY DEF IInv, CInv, WellFormed
<1> QED
  BY <1>1, Invariant, ChainInvariant, PTL

\* header->avail is what the free blocks add up to, however often a block was
\* split or joined with its neighbours: the test that decides whether the cache
\* is expunged reads a true number.
THEOREM AlwaysCounts == Spec => []AvailCounts
<1>1. CInv => AvailCounts
  BY DEF CInv
<1> QED
  BY <1>1, ChainInvariant, PTL

\* An allocation fails only when no free block can hold it, for any sizes and any
\* order of calls: the search of the list meets them all.
THEOREM AlwaysFinds == Spec => []FailsOnlyWhenNoneFits
<1>1. IInv /\ CInv => FailsOnlyWhenNoneFits
  BY SearchFinds DEF FailsOnlyWhenNoneFits
<1> QED
  BY <1>1, Invariant, ChainInvariant, PTL

Given == {<<b, NEXT_SBLOCK(b)>> : b \in used}

\* What an allocation returns is disjoint from every block in use.
LEMMA MallocStep ==
    ASSUME IInv, IInv', NEW cur \in free, used' = used \cup {cur},
           \A b \in used : size'[b] = size[b]
    PROVE  Promise!Next
<1> DEFINE end == cur + size'[cur]
<1>1. /\ Blocks' \subseteq Inner /\ Tiles(Blocks', size') /\ used \subseteq Inner
      /\ \A b \in Blocks' : size'[b] \in Nat /\ b \in Int
  <2>1. Tiles(Blocks', size') /\ size' \in SizeType
    BY DEF IInv, Tiled, TypeOK, SizeType
  <2>2. Blocks' \subseteq Inner /\ Inner \subseteq Int /\ Inner \subseteq Off
    BY <2>1, Places DEF Tiles, Inner
  <2> QED
    BY <2>1, <2>2, Places DEF SizeType
<1>2. cur \in Blocks' /\ used \subseteq Blocks' /\ cur \notin used
  BY Places DEF Blocks
<1>3. Start \in Int /\ Last \in Int
  BY Layout, SizesAssumption DEF Off, SizesAssumption
<1>4. cur \in Start .. Last /\ end \in Start .. Last /\ cur < end
  <2>1. size'[cur] > 0 /\ cur + size'[cur] \in Blocks' \cup {Last}
    BY <1>1, <1>2 DEF Tiles
  <2> QED
    BY <2>1, <1>1, <1>2, <1>3 DEF Inner
<1>5. ASSUME NEW r \in Given PROVE r[2] <= cur \/ end <= r[1]
  <2>1. PICK b \in used : r = <<b, b + size[b]>>
    BY <1>5 DEF Given, NEXT_SBLOCK
  <2>2. size'[b] = size[b] /\ b # cur /\ b \in Blocks'
    BY <1>2
  <2>3. \A c, d \in Blocks' : c < d => c + size'[c] <= d
    BY <1>1 DEF Tiles
  <2> QED
    BY <2>1, <2>2, <2>3, <1>1, <1>2
<1>6. Given' = Given \cup {<<cur, end>>}
  BY DEF Given, NEXT_SBLOCK
<1> HIDE DEF end
<1>7. /\ Start <= cur /\ cur < end /\ end <= Last
      /\ \A r \in Given : r[2] <= cur \/ end <= r[1]
      /\ Given' = Given \cup {<<cur, end>>}
  BY <1>3, <1>4, <1>5, <1>6
<1> QED
  BY <1>4, <1>7 DEF Promise!Next, Promise!Malloc, Promise!Disjoint, Given

\* A block that is freed is one that was given out, and the others stay.
LEMMA FreeStep ==
    ASSUME IInv, NEW b \in used, Deallocate(b)
    PROVE  Promise!Next
<1> DEFINE r == <<b, NEXT_SBLOCK(b)>>
<1>1. \A c \in used \ {b} : size'[c] = size[c]
  <2> DEFINE cur == IF prev_size[b] # 0 THEN b - prev_size[b] ELSE b
             nxt == NEXT_SBLOCK(b)
             s == (IF prev_size[b] # 0 THEN size[cur] ELSE 0) + size[b]
                  + (IF list.fnext[nxt] # 0 THEN size[nxt] ELSE 0)
  <2>1. size' = [size EXCEPT ![cur] = s]
    BY DEF Deallocate
  <2>2. cur \in free \cup {b}
    BY Neighbours
  <2> HIDE DEF cur, nxt, s
  <2>3. \A c \in used \ {b} : c # cur /\ c \in Off
    BY <2>2, Places
  <2> QED
    BY <2>1, <2>3, Places DEF SizeType
<1>2. used' = used \ {b}
  BY DEF Deallocate
<1>3. r \in Given /\ Given' = Given \ {r}
  BY <1>1, <1>2 DEF Given, NEXT_SBLOCK
<1> QED
  BY <1>3 DEF Promise!Next, Promise!Free, Given

\* The allocator implements one that only keeps disjoint ranges: no call moves
\* or shortens the block of another, and none is given out twice.
THEOREM Implements == Spec => KeepsPromise
<1>1. Init => Promise!Init
  BY DEF Init, Promise!Init
<1>2. IInv /\ IInv' /\ [Next]_vars => [Promise!Next]_Given
  <2> SUFFICES ASSUME IInv, IInv', [Next]_vars PROVE [Promise!Next]_Given
    OBVIOUS
  <2>1. ASSUME NEW n \in Sizes, NEW prv \in free \cup {First}, AllocateWhole(n, prv)
        PROVE  Promise!Next
    <3>1. list.fnext[prv] \in free /\ used' = used \cup {list.fnext[prv]} /\ size' = size
      BY <2>1, Chosen DEF AllocateWhole
    <3> QED
      BY <3>1, MallocStep
  <2>2. ASSUME NEW n \in Sizes, NEW prv \in free \cup {First}, AllocateSplit(n, prv)
        PROVE  Promise!Next
    <3>1. list.fnext[prv] \in free /\ used' = used \cup {list.fnext[prv]}
          /\ free' = (free \ {list.fnext[prv]}) \cup {list.fnext[prv] + (n + BlkSize)}
          /\ size' = [size EXCEPT ![list.fnext[prv]] = n + BlkSize,
                         ![list.fnext[prv] + (n + BlkSize)] = size[list.fnext[prv]] - (n + BlkSize)]
      BY <2>2, Chosen DEF AllocateSplit
    <3>2. free' \cap used' = {}
      BY DEF IInv, Tiled
    <3>3. \A b \in used : size'[b] = size[b]
      BY <3>1, <3>2, Places DEF SizeType
    <3> QED
      BY <3>1, <3>3, MallocStep
  <2>3. ASSUME NEW b \in used, Deallocate(b) PROVE Promise!Next
    BY <2>3, FreeStep
  <2>4. CASE UNCHANGED vars
    BY <2>4 DEF vars, Given, NEXT_SBLOCK
  <2> QED
    BY <2>1, <2>2, <2>3, <2>4 DEF Next, AllocateFails
<1> QED
  BY <1>1, <1>2, Invariant, PTL DEF Spec, KeepsPromise, Promise!Spec, Given
=============================================================================
