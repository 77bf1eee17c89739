--------------------------- MODULE RangeAllocator ---------------------------
(***************************************************************************)
(* What an allocator promises: the blocks it has given out and not taken   *)
(* back are disjoint ranges of the segment, as long as was asked for, and  *)
(* no call moves or shortens another's block.                              *)
(***************************************************************************)
EXTENDS Integers

CONSTANTS Lo, Hi    \* the segment is Lo .. Hi - 1

VARIABLE given      \* the blocks given out, <<first, end>> with end excluded

Init == given = {}

Disjoint(r, s) == r[2] <= s[1] \/ s[2] <= r[1]

Malloc(first, end) ==
    /\ Lo <= first /\ first < end /\ end <= Hi
    /\ \A r \in given : Disjoint(r, <<first, end>>)
    /\ given' = given \cup {<<first, end>>}

Free(r) == r \in given /\ given' = given \ {r}

Next ==
    \/ \E first, end \in Lo .. Hi : Malloc(first, end)
    \/ \E r \in given : Free(r)

Spec == Init /\ [][Next]_given
=============================================================================
