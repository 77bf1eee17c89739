----------------------------- MODULE MCApcCache -----------------------------
(***************************************************************************)
(* Instances of ApcCache for TLC.                                          *)
(***************************************************************************)
EXTENDS ApcCache, TLC

CONSTANTS k1, k2, v1, v2, b1, b2, b3, b4, p1, p2
Keys == {k1, k2}
Vals == {v1, v2}
Blocks == {b1, b2, b3, b4}
Procs == {p1, p2}
Symmetry == Permutations(Keys) \cup Permutations(Vals) \cup Permutations(Blocks) \cup Permutations(Procs)

\* What happens after the defect has torn the bucket is not explored.
NotTorn == ~torn

=============================================================================
