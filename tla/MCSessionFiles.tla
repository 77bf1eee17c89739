---------------------------- MODULE MCSessionFiles ----------------------------
(***************************************************************************)
(* Two processes and two ids: with one name free, three files are as many  *)
(* as can be needed at once (the other name's, one that lost its name      *)
(* while it was open, and the new one).                                    *)
(***************************************************************************)
EXTENDS SessionFiles, TLC

Short == <<1>>
Long == <<2, 2>>
Values == {Short, Long}

Symmetric == Permutations(Proc) \cup Permutations(Id) \cup Permutations(Inode)

\* The part of the state that later steps depend on: st_size decides only whether
\* what is written is shorter, which only Short can be.
When(f, d, labels) == [p \in Proc |-> IF pc[p] \in labels THEN f[p] ELSE d]
Live ==
    <<name, content, lock, {n \in Inode : Named(n) /\ touched[n] = "written"},
      [n \in Inode |-> IF Named(n) THEN committed[n] ELSE <<>>],
      pc, status, id, fd, [p \in Proc |-> IF fd[p] = None THEN None ELSE lastkey[p]],
      [p \in Proc |-> st_size[p] > Len(Short)], When(goal, "read", {"open", "flock"}),
      When(after, "run", {"open", "flock", "unlink", "write", "pwrite", "close"}),
      arg, todo, val, seen, spoilt>>

\* Of two requests one at most is between two ids.
Between(p) == fd[p] # None /\ lastkey[p] # id[p]
OneChanges == \A p, q \in Proc : Between(p) /\ Between(q) => p = q

NotSpoilt == ~spoilt
=============================================================================
