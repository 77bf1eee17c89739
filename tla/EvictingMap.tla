----------------------------- MODULE EvictingMap -----------------------------
(***************************************************************************)
(* What the user cache of APC promises: a map from keys to values in which *)
(* any entry may vanish at any time, and in which a value that a process   *)
(* has taken stays what it was until the process drops it.                 *)
(***************************************************************************)
CONSTANTS Proc, Key, Val, None

VARIABLES
    map,    \* key -> the value it finds, or None
    taken   \* process -> the value it is reading, or None

Init == map = [k \in Key |-> None] /\ taken = [p \in Proc |-> None]

Put(k, v) == map' = [map EXCEPT ![k] = v] /\ UNCHANGED taken

Evict(K) ==
    /\ map' = [k \in Key |-> IF k \in K THEN None ELSE map[k]]
    /\ UNCHANGED taken

Take(p, k) ==
    /\ taken[p] = None /\ map[k] # None
    /\ taken' = [taken EXCEPT ![p] = map[k]]
    /\ UNCHANGED map

Drop(p) == taken' = [taken EXCEPT ![p] = None] /\ UNCHANGED map

Next ==
    \/ \E k \in Key, v \in Val : Put(k, v)
    \/ \E K \in SUBSET Key : Evict(K)
    \/ \E p \in Proc : Drop(p) \/ \E k \in Key : Take(p, k)

vars == <<map, taken>>
Spec == Init /\ [][Next]_vars
=============================================================================
