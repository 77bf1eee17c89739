------------------------- MODULE SessionFiles_proofs -------------------------
(***************************************************************************)
(* Proofs about SessionFiles for any processes, ids, files and data: a     *)
(* process waits with no lock in hand, what it has read stays until it     *)
(* writes, no file mixes two values, and the files implement SessionStore. *)
(***************************************************************************)
EXTENDS SessionFiles, SequenceTheorems, TLAPS

-----------------------------------------------------------------------------
(* Sequences.                                                              *)

\* To write over a sequence that is not longer leaves what was written.
LEMMA OverwriteAll ==
    ASSUME NEW v \in Seq(Nat), NEW c \in Seq(Nat), Len(c) <= Len(v)
    PROVE  Overwrite(SubSeq(v, 1, Len(v)), c) = v
<1>1. SubSeq(v, 1, Len(v)) = v
  BY SubSeqFull
<1>2. Len(v) \in Nat /\ Len(c) \in Nat
  BY LenProperties
<1>3. SubSeq(c, Len(v) + 1, Len(c)) = <<>>
  BY <1>2, SubSeqEmpty
<1>4. v \o <<>> = v
  BY ConcatEmptySeq
<1> QED
  BY <1>1, <1>3, <1>4 DEF Overwrite

\* What a write leaves is a sequence.
LEMMA OverwriteType ==
    ASSUME NEW v \in Seq(Nat), NEW c \in Seq(Nat), NEW k \in Nat, k <= Len(v)
    PROVE  Overwrite(SubSeq(v, 1, k), c) \in Seq(Nat)
<1>1. Len(v) \in Nat /\ Len(c) \in Nat
  BY LenProperties
<1>2. SubSeq(v, 1, k) \in Seq(Nat)
  BY <1>1, SubSeqProperties
<1>3. Len(SubSeq(v, 1, k)) \in Nat
  BY <1>2, LenProperties
<1>4. SubSeq(c, Len(SubSeq(v, 1, k)) + 1, Len(c)) \in Seq(Nat)
  BY <1>1, <1>3, SubSeqProperties
<1> QED
  BY <1>2, <1>4, ConcatProperties DEF Overwrite

-----------------------------------------------------------------------------
(* Types.                                                                  *)

\* A process about to write has something to write.
HasValue == \A p \in Proc : pc[p] = "pwrite" => val[p] \in Value

LEMMA ReapType ==
    ASSUME TypeOK, Reap
    PROVE  /\ content' \in [Inode -> Seq(Nat)] /\ committed' \in [Inode -> Seq(Nat)]
           /\ touched' \in [Inode -> {"written", "stale"}]
<1>1. <<>> \in Seq(Nat)
  OBVIOUS
<1> QED
  BY <1>1 DEF TypeOK, Reap

LEMMA CloseType ==
    ASSUME TypeOK, NEW p \in Proc, CloseFile(p)
    PROVE  /\ fd' \in [Proc -> Inode \cup {None}] /\ lock' \in [Inode -> Proc \cup {None}]
           /\ seen' \in [Proc -> Seq(Nat) \cup {None}]
BY DEF TypeOK, CloseFile

LEMMA ActiveType ==
    ASSUME TypeOK, NEW p \in Proc, SessionActive(p)
    PROVE  /\ status' \in [Proc -> {"none", "active"}] /\ todo' \in [Proc -> SUBSET Id]
           /\ \E l \in {"run", "gc"} : Goto(p, l)
<1>1. \A rest \in SUBSET Id : Looks(p, rest) =>
          todo' \in [Proc -> SUBSET Id] /\ \E l \in {"run", "gc"} : Goto(p, l)
  BY DEF TypeOK, Looks
<1>2. \E rest \in SUBSET Id : Looks(p, rest)
  <2>1. {i \in Id : name[i] # None /\ touched[name[i]] # "written"} \in SUBSET Id /\ {} \in SUBSET Id
    OBVIOUS
  <2> QED
    BY <2>1 DEF SessionActive
<1>3. status' \in [Proc -> {"none", "active"}]
  BY DEF TypeOK, SessionActive
<1> QED
  BY <1>1, <1>2, <1>3

LEMMA DestroyedType ==
    ASSUME TypeOK, NEW p \in Proc, NEW a, NEW i \in Id \cup {None}, Destroyed(p, a, i)
    PROVE  /\ id' \in [Proc -> Id \cup {None}] /\ status' \in [Proc -> {"none", "active"}]
           /\ lastkey' \in [Proc -> Id \cup {None}] /\ st_size' \in [Proc -> Nat]
           /\ pc' = [pc EXCEPT ![p] = "run"]
<1>1. CASE a = "regen"
  BY <1>1 DEF TypeOK, Destroyed, Goto
<1>2. CASE a # "regen"
  <2>1. /\ id' = [id EXCEPT ![p] = i] /\ status' = [status EXCEPT ![p] = "none"]
        /\ lastkey' = [lastkey EXCEPT ![p] = None] /\ st_size' = [st_size EXCEPT ![p] = 0]
        /\ pc' = [pc EXCEPT ![p] = "run"]
    BY <1>2 DEF Destroyed, Goto
  <2> QED
    BY <2>1 DEF TypeOK
<1> QED
  BY <1>1, <1>2

LEMMA TypeStep ==
    ASSUME TypeOK, HasValue, [Next]_vars
    PROVE  TypeOK' /\ HasValue'
<1> USE DEF files, local
<1>1. ASSUME NEW p \in Proc, KeepOpen(p) PROVE TypeOK' /\ HasValue'
  BY <1>1 DEF KeepOpen, TypeOK, HasValue, Goto
<1>2. ASSUME NEW p \in Proc, CloseOther(p) PROVE TypeOK' /\ HasValue'
  BY <1>2, CloseType, ReapType DEF CloseOther, CloseFile, TypeOK, HasValue, Goto
<1>3. ASSUME NEW p \in Proc, OpenFails(p) PROVE TypeOK' /\ HasValue'
  <2>1. /\ \E l \in {"run", "gc", "close"} : Goto(p, l)
        /\ status' \in [Proc -> {"none", "active"}] /\ todo' \in [Proc -> SUBSET Id]
    <3>1. CASE goal[p] = "read"
      BY <1>3, <3>1, ActiveType DEF OpenFails
    <3>2. CASE goal[p] # "read"
      BY <1>3, <3>2 DEF OpenFails, TypeOK
    <3> QED
      BY <3>1, <3>2
  <2>2. PICK l \in {"run", "gc", "close"} : Goto(p, l)
    BY <2>1
  <2> QED
    BY <1>3, <2>1, <2>2 DEF OpenFails, TypeOK, HasValue, Goto
<1>4. ASSUME NEW p \in Proc, Flock(p) PROVE TypeOK' /\ HasValue'
  BY <1>4 DEF Flock, TypeOK, HasValue, Goto
<1>5. ASSUME NEW p \in Proc, Read(p) PROVE TypeOK' /\ HasValue'
  <2>1. fd[p] \in Inode /\ content[fd[p]] \in Seq(Nat)
    BY <1>5 DEF Read, TypeOK
  <2>2. Len(content[fd[p]]) \in Nat
    BY <2>1, LenProperties
  <2>3. st_size' \in [Proc -> Nat] /\ seen' \in [Proc -> Seq(Nat) \cup {None}]
    BY <1>5, <2>1, <2>2 DEF Read, TypeOK
  <2>4. /\ status' \in [Proc -> {"none", "active"}] /\ todo' \in [Proc -> SUBSET Id]
        /\ \E l \in {"run", "gc"} : Goto(p, l)
    BY <1>5, ActiveType DEF Read
  <2>5. PICK l \in {"run", "gc"} : Goto(p, l)
    BY <2>4
  <2> QED
    BY <1>5, <2>3, <2>4, <2>5 DEF Read, TypeOK, HasValue, Goto
<1>6. ASSUME NEW p \in Proc, NEW n \in Inode, Open(p, n) PROVE TypeOK' /\ HasValue'
  <2>1. /\ name' \in [Id -> Inode \cup {None}]
        /\ touched' \in [Inode -> {"written", "stale"}]
    <3>1. CASE UNCHANGED <<name, touched>>
      BY <3>1 DEF TypeOK
    <3>2. CASE name' = [name EXCEPT ![id[p]] = n] /\ touched' = [touched EXCEPT ![n] = "written"]
      BY <3>2 DEF TypeOK
    <3> QED
      BY <1>6, <3>1, <3>2 DEF Open
  <2>2. fd' \in [Proc -> Inode \cup {None}] /\ lastkey' \in [Proc -> Id \cup {None}]
    BY <1>6 DEF Open, TypeOK
  <2>3. n # None
    BY NoneAssumption DEF NoneAssumption
  <2> QED
    BY <1>6, <2>1, <2>2, <2>3 DEF Open, TypeOK, HasValue, Goto
<1>7. ASSUME NEW p \in Proc, NEW i \in Id, GcLooks(p, i) PROVE TypeOK' /\ HasValue'
  <2>1. PICK l \in {"run", "gc", "gcunlink"} : Goto(p, l)
    BY <1>7 DEF GcLooks, Looks
  <2>2. todo' \in [Proc -> SUBSET Id] /\ arg' \in [Proc -> Id \cup {None}]
    <3>1. todo[p] \in SUBSET Id
      BY DEF TypeOK
    <3>2. todo' = [todo EXCEPT ![p] = todo[p] \ {i}]
      BY <1>7 DEF GcLooks, Looks
    <3>3. arg' = [arg EXCEPT ![p] = i] \/ arg' = arg
      BY <1>7 DEF GcLooks
    <3> QED
      BY <3>1, <3>2, <3>3 DEF TypeOK
  <2> QED
    BY <1>7, <2>1, <2>2 DEF GcLooks, TypeOK, HasValue, Goto
<1>8. ASSUME NEW p \in Proc, GcUnlinks(p) PROVE TypeOK' /\ HasValue'
  BY <1>8, ReapType DEF GcUnlinks, Unlink, Looks, TypeOK, HasValue, Goto
<1>9. ASSUME NEW p \in Proc, DestroyUnlinks(p) PROVE TypeOK' /\ HasValue'
  <2>1. Destroyed(p, after[p], arg[p]) /\ arg[p] \in Id \cup {None} /\ Reap
    BY <1>9 DEF DestroyUnlinks, TypeOK
  <2>2. /\ id' \in [Proc -> Id \cup {None}] /\ status' \in [Proc -> {"none", "active"}]
        /\ lastkey' \in [Proc -> Id \cup {None}] /\ st_size' \in [Proc -> Nat]
        /\ pc' = [pc EXCEPT ![p] = "run"]
    BY <2>1, DestroyedType
  <2>3. /\ content' \in [Inode -> Seq(Nat)] /\ committed' \in [Inode -> Seq(Nat)]
        /\ touched' \in [Inode -> {"written", "stale"}]
    BY <2>1, ReapType
  <2> QED
    BY <1>9, <2>1, <2>2, <2>3 DEF DestroyUnlinks, Unlink, TypeOK, HasValue
<1>10. ASSUME NEW p \in Proc, NEW v \in Value, Truncate(p, v) PROVE TypeOK' /\ HasValue'
  <2>1. <<>> \in Seq(Nat)
    OBVIOUS
  <2>2. content' \in [Inode -> Seq(Nat)] /\ touched' \in [Inode -> {"written", "stale"}]
    BY <1>10, <2>1 DEF Truncate, TypeOK
  <2> QED
    BY <1>10, <2>2 DEF Truncate, TypeOK, HasValue, Goto
<1>11. ASSUME NEW p \in Proc, NEW k \in Nat, PWrite(p, k) PROVE TypeOK' /\ HasValue'
  <2>1. val[p] \in Seq(Nat) /\ fd[p] \in Inode /\ content[fd[p]] \in Seq(Nat)
    BY <1>11, ValueAssumption DEF ValueAssumption, PWrite, TypeOK, HasValue
  <2>2. Overwrite(SubSeq(val[p], 1, k), content[fd[p]]) \in Seq(Nat)
    BY <1>11, <2>1, OverwriteType DEF PWrite
  <2>3. content' \in [Inode -> Seq(Nat)] /\ committed' \in [Inode -> Seq(Nat)]
    BY <1>11, <2>1, <2>2 DEF PWrite, TypeOK
  <2>4. spoilt' \in BOOLEAN
    BY <1>11, Zenon DEF PWrite, TypeOK
  <2> QED
    BY <1>11, <2>3, <2>4 DEF PWrite, TypeOK, HasValue, Goto
<1>12. ASSUME NEW p \in Proc, Close(p) PROVE TypeOK' /\ HasValue'
  BY <1>12, CloseType, ReapType DEF Close, CloseFile, TypeOK, HasValue, Goto
<1>13. ASSUME NEW p \in Proc, NEW i \in Id, Start(p, i) \/ ChangeId(p, i) \/ Regenerate(p, i)
       PROVE  TypeOK' /\ HasValue'
  BY <1>13 DEF Start, ChangeId, Regenerate, TypeOK, HasValue, Goto
<1>14. ASSUME NEW p \in Proc, NEW a \in {"regen", "end"}, NEW i \in Id \cup {None},
              DestroyWith(p, a, i)
       PROVE  TypeOK' /\ HasValue'
  <2>1. CloseFile(p) /\ Reap
    BY <1>14 DEF DestroyWith
  <2>2. /\ content' \in [Inode -> Seq(Nat)] /\ committed' \in [Inode -> Seq(Nat)]
        /\ touched' \in [Inode -> {"written", "stale"}]
        /\ fd' \in [Proc -> Inode \cup {None}] /\ lock' \in [Inode -> Proc \cup {None}]
        /\ seen' \in [Proc -> Seq(Nat) \cup {None}]
    BY <2>1, ReapType, CloseType
  <2>3. /\ id' \in [Proc -> Id \cup {None}] /\ status' \in [Proc -> {"none", "active"}]
        /\ lastkey' \in [Proc -> Id \cup {None}] /\ st_size' \in [Proc -> Nat]
        /\ after' \in [Proc -> {"run", "end", "regen"}] /\ arg' \in [Proc -> Id \cup {None}]
        /\ \E l \in {"run", "unlink"} : pc' = [pc EXCEPT ![p] = l]
    <3>1. CASE fd[p] # None
      <4>1. /\ pc' = [pc EXCEPT ![p] = "unlink"]
            /\ after' = [after EXCEPT ![p] = a] /\ arg' = [arg EXCEPT ![p] = i]
            /\ UNCHANGED <<status, id, lastkey, st_size>>
        BY <1>14, <3>1 DEF DestroyWith, Goto
      <4> QED
        BY <4>1 DEF TypeOK
    <3>2. CASE fd[p] = None
      <4>1. Destroyed(p, a, i) /\ UNCHANGED <<after, arg>>
        BY <1>14, <3>2 DEF DestroyWith
      <4> QED
        BY <4>1, DestroyedType DEF TypeOK
    <3> QED
      BY <3>1, <3>2
  <2>4. PICK l \in {"run", "unlink"} : pc' = [pc EXCEPT ![p] = l]
    BY <2>3
  <2>5. fd' = [fd EXCEPT ![p] = None] /\ UNCHANGED <<name, goal, todo, val, spoilt>>
    BY <1>14 DEF DestroyWith, CloseFile
  <2> QED
    BY <2>2, <2>3, <2>4, <2>5 DEF TypeOK, HasValue
<1>15. ASSUME NEW p \in Proc, EndRequest(p) \/ \E a \in {"run", "end"} : Flush(p, a)
       PROVE  TypeOK' /\ HasValue'
  <2>1. CASE EndRequest(p)
    BY <2>1 DEF EndRequest, TypeOK, HasValue
  <2>2. ASSUME NEW a \in {"run", "end"}, Flush(p, a) PROVE TypeOK' /\ HasValue'
    <3>1. PICK l \in {"open", "close"} : Goto(p, l)
      BY <2>2 DEF Flush
    <3>2. goal' \in [Proc -> {"read", "write"}]
      BY <2>2 DEF Flush, TypeOK
    <3> QED
      BY <2>2, <3>1, <3>2 DEF Flush, TypeOK, HasValue, Goto
  <2> QED
    BY <1>15, <2>1, <2>2
<1>16. ASSUME NEW p \in Proc, Die(p) PROVE TypeOK' /\ HasValue'
  <2>1. <<>> \in Seq(Nat)
    OBVIOUS
  <2> QED
    BY <1>16, <2>1, CloseType DEF Die, CloseFile, TypeOK, HasValue, Goto
<1>17. ASSUME NEW n \in Inode, Age(n) PROVE TypeOK' /\ HasValue'
  BY <1>17 DEF Age, TypeOK, HasValue
<1>18. CASE UNCHANGED vars
  BY <1>18 DEF vars, TypeOK, HasValue
<1> QED
  BY <1>1, <1>2, <1>3, <1>4, <1>5, <1>6, <1>7, <1>8, <1>9, <1>10, <1>11, <1>12, <1>13,
     <1>14, <1>15, <1>16, <1>17, <1>18
     DEF Next, Steps, Calls, Destroy, RegenerateAndDelete

-----------------------------------------------------------------------------
(* Locks.                                                                  *)

(***************************************************************************)
(* A process that has a file open has its lock, unless it still waits for  *)
(* it, and then it has no lock; it has read only what it has locked.       *)
(***************************************************************************)
Locking ==
    /\ \A n \in Inode : lock[n] # None => fd[lock[n]] = n /\ pc[lock[n]] # "flock"
    /\ \A p \in Proc : fd[p] # None /\ pc[p] # "flock" => lock[fd[p]] = p
    /\ \A p \in Proc : seen[p] # None => /\ fd[p] # None
                                         /\ pc[p] \notin {"flock", "pwrite"}
                                         /\ content[fd[p]] = seen[p]

\* A step by which p gives up its file, whatever happens to the files' data.
LEMMA ClosesLocking ==
    ASSUME TypeOK, Locking, NEW p \in Proc, CloseFile(p),
           \A q \in Proc \ {p} : pc'[q] = pc[q],
           \A n \in Inode : Opened(n)' => content'[n] = content[n]
    PROVE  Locking'
<1>1. fd' = [fd EXCEPT ![p] = None] /\ seen' = [seen EXCEPT ![p] = None]
      /\ lock' = [n \in Inode |-> IF lock[n] = p THEN None ELSE lock[n]]
  BY DEF CloseFile
<1>2. \A n \in Inode : lock'[n] # None => fd'[lock'[n]] = n /\ pc'[lock'[n]] # "flock"
  <2> SUFFICES ASSUME NEW n \in Inode, lock'[n] # None
               PROVE  fd'[lock'[n]] = n /\ pc'[lock'[n]] # "flock"
    OBVIOUS
  <2>1. lock'[n] = lock[n] /\ lock[n] \in Proc \ {p}
    BY <1>1 DEF TypeOK
  <2> QED
    BY <1>1, <2>1 DEF Locking, TypeOK
<1>3. \A q \in Proc : fd'[q] # None /\ pc'[q] # "flock" => lock'[fd'[q]] = q
  <2> SUFFICES ASSUME NEW q \in Proc, fd'[q] # None, pc'[q] # "flock"
               PROVE  lock'[fd'[q]] = q
    OBVIOUS
  <2>1. q # p /\ fd'[q] = fd[q] /\ pc'[q] = pc[q] /\ fd[q] \in Inode
    BY <1>1 DEF TypeOK
  <2> QED
    BY <1>1, <2>1 DEF Locking
<1>4. \A q \in Proc : seen'[q] # None => /\ fd'[q] # None
                                        /\ pc'[q] \notin {"flock", "pwrite"}
                                        /\ content'[fd'[q]] = seen'[q]
  <2> SUFFICES ASSUME NEW q \in Proc, seen'[q] # None
               PROVE  /\ fd'[q] # None /\ pc'[q] \notin {"flock", "pwrite"}
                      /\ content'[fd'[q]] = seen'[q]
    OBVIOUS
  <2>1. q # p /\ fd'[q] = fd[q] /\ pc'[q] = pc[q] /\ seen'[q] = seen[q]
    BY <1>1 DEF TypeOK
  <2>2. fd[q] # None /\ pc[q] \notin {"flock", "pwrite"} /\ content[fd[q]] = seen[q]
    BY <2>1 DEF Locking
  <2>3. fd[q] \in Inode /\ Opened(fd[q])'
    BY <2>1, <2>2 DEF TypeOK, Opened
  <2> QED
    BY <2>1, <2>2, <2>3
<1> QED
  BY <1>2, <1>3, <1>4 DEF Locking

\* A step that opens, locks and reads nothing.
LEMMA KeepsLocking ==
    ASSUME TypeOK, Locking, NEW p \in Proc, UNCHANGED <<fd, lock, seen>>,
           \A q \in Proc \ {p} : pc'[q] = pc[q],
           pc[p] # "flock", pc'[p] # "flock", pc'[p] = "pwrite" => seen[p] = None,
           \A n \in Inode : Opened(n) => content'[n] = content[n]
    PROVE  Locking'
<1>1. \A q \in Proc : pc'[q] = "flock" <=> pc[q] = "flock"
  OBVIOUS
<1>2. \A q \in Proc : fd[q] # None => fd[q] \in Inode /\ content'[fd[q]] = content[fd[q]]
  BY DEF TypeOK, Opened
<1>3. \A n \in Inode : lock[n] # None => lock[n] \in Proc
  BY DEF TypeOK
<1>4. \A q \in Proc : seen[q] # None => pc'[q] # "pwrite"
  BY DEF Locking
<1> QED
  BY <1>1, <1>2, <1>3, <1>4 DEF Locking

\* The owner of a file changes its data and forgets what it has read.
LEMMA WritesLocking ==
    ASSUME TypeOK, Locking, NEW p \in Proc, UNCHANGED <<fd, lock>>,
           fd[p] # None, pc[p] # "flock", pc'[p] # "flock",
           \A q \in Proc \ {p} : pc'[q] = pc[q] /\ seen'[q] = seen[q],
           seen'[p] = None,
           \A n \in Inode \ {fd[p]} : content'[n] = content[n]
    PROVE  Locking'
<1>1. \A q \in Proc : pc'[q] = "flock" <=> pc[q] = "flock"
  OBVIOUS
<1>2. \A n \in Inode : lock[n] # None => lock[n] \in Proc
  BY DEF TypeOK
<1>3. ASSUME NEW q \in Proc, seen'[q] # None
      PROVE  /\ fd[q] # None /\ pc'[q] \notin {"flock", "pwrite"}
             /\ content'[fd[q]] = seen'[q]
  <2>1. q # p /\ seen[q] # None
    BY <1>3
  <2>2. lock[fd[q]] = q /\ lock[fd[p]] = p /\ fd[q] \in Inode
    BY <2>1 DEF Locking, TypeOK
  <2>3. content'[fd[q]] = content[fd[q]]
    BY <2>1, <2>2
  <2> QED
    BY <2>1, <2>3 DEF Locking
<1> QED
  BY <1>1, <1>2, <1>3 DEF Locking

\* What is freed has not been open.
LEMMA ReapKeeps ==
    ASSUME Reap, TypeOK
    PROVE  \A n \in Inode : Opened(n)' => content'[n] = content[n]
BY DEF Reap

LEMMA LockingStep ==
    ASSUME TypeOK, Locking, [Next]_vars
    PROVE  Locking'
<1> USE DEF files, local
<1>1. ASSUME NEW p \in Proc, KeepOpen(p) PROVE Locking'
  <2>1. goal[p] \notin {"flock", "pwrite"}
    BY DEF TypeOK
  <2> QED
    BY <1>1, <2>1, KeepsLocking DEF KeepOpen, TypeOK, Goto
<1>2. ASSUME NEW p \in Proc, CloseOther(p) PROVE Locking'
  BY <1>2, ClosesLocking, ReapKeeps DEF CloseOther
<1>3. ASSUME NEW p \in Proc, OpenFails(p) PROVE Locking'
  <2>1. \E l \in {"run", "gc", "close"} : Goto(p, l)
    <3>1. CASE goal[p] = "read"
      BY <1>3, <3>1, ActiveType DEF OpenFails
    <3>2. CASE goal[p] # "read"
      BY <1>3, <3>2 DEF OpenFails
    <3> QED
      BY <3>1, <3>2
  <2> QED
    BY <1>3, <2>1, KeepsLocking DEF OpenFails, TypeOK, Goto
<1>4. ASSUME NEW p \in Proc, Flock(p) PROVE Locking'
  <2>1. /\ fd[p] \in Inode /\ lock[fd[p]] = None /\ seen[p] = None
        /\ goal[p] # "flock" /\ \A n \in Inode : lock[n] # p
    BY <1>4, NoneAssumption DEF Flock, TypeOK, Locking, NoneAssumption
  <2>2. /\ lock' = [lock EXCEPT ![fd[p]] = p] /\ pc' = [pc EXCEPT ![p] = goal[p]]
        /\ UNCHANGED <<fd, seen, content>> /\ pc[p] = "flock"
    BY <1>4 DEF Flock, Goto
  <2>3. \A n \in Inode : lock'[n] # None => fd[lock'[n]] = n /\ pc'[lock'[n]] # "flock"
    BY <2>1, <2>2 DEF TypeOK, Locking
  <2>4. \A q \in Proc : fd[q] # None /\ pc'[q] # "flock" => lock'[fd[q]] = q
    BY <2>1, <2>2, NoneAssumption DEF TypeOK, Locking, NoneAssumption
  <2>5. \A q \in Proc : seen[q] # None => /\ fd[q] # None /\ pc'[q] \notin {"flock", "pwrite"}
                                         /\ content[fd[q]] = seen[q]
    BY <2>1, <2>2 DEF TypeOK, Locking
  <2> QED
    BY <2>2, <2>3, <2>4, <2>5 DEF Locking
<1>5. ASSUME NEW p \in Proc, Read(p) PROVE Locking'
  <2>1. PICK l \in {"run", "gc"} : Goto(p, l)
    BY <1>5, ActiveType DEF Read
  <2>2. /\ pc[p] = "read" /\ pc' = [pc EXCEPT ![p] = l] /\ UNCHANGED <<fd, lock, content>>
        /\ seen' = [seen EXCEPT ![p] = content[fd[p]]]
    BY <1>5, <2>1 DEF Read, Goto
  <2>3. \A q \in Proc : pc'[q] = "flock" <=> pc[q] = "flock"
    BY <2>2 DEF TypeOK
  <2>4. \A n \in Inode : lock[n] # None => lock[n] \in Proc
    BY DEF TypeOK
  <2>5. \A q \in Proc : seen'[q] # None => /\ fd[q] # None /\ pc'[q] \notin {"flock", "pwrite"}
                                          /\ content[fd[q]] = seen'[q]
    BY <2>2 DEF TypeOK, Locking
  <2> QED
    BY <2>2, <2>3, <2>4, <2>5 DEF Locking
<1>6. ASSUME NEW p \in Proc, NEW n \in Inode, Open(p, n) PROVE Locking'
  <2>1. /\ fd[p] = None /\ seen[p] = None /\ \A m \in Inode : lock[m] # p
    <3>1. fd[p] = None
      BY <1>6 DEF Open
    <3>2. p # None /\ \A m \in Inode : m # None
      BY NoneAssumption DEF NoneAssumption
    <3> QED
      BY <3>1, <3>2 DEF Locking
  <2>2. /\ fd' = [fd EXCEPT ![p] = n] /\ pc' = [pc EXCEPT ![p] = "flock"]
        /\ UNCHANGED <<lock, seen, content>>
    BY <1>6 DEF Open, Goto
  <2>3. \A m \in Inode : lock[m] # None => fd'[lock[m]] = m /\ pc'[lock[m]] # "flock"
    BY <2>1, <2>2 DEF TypeOK, Locking
  <2>4. \A q \in Proc : fd'[q] # None /\ pc'[q] # "flock" => lock[fd'[q]] = q
    BY <2>1, <2>2 DEF TypeOK, Locking
  <2>5. \A q \in Proc : seen[q] # None => /\ fd'[q] # None /\ pc'[q] \notin {"flock", "pwrite"}
                                         /\ content[fd'[q]] = seen[q]
    BY <2>1, <2>2 DEF TypeOK, Locking
  <2> QED
    BY <2>2, <2>3, <2>4, <2>5 DEF Locking
<1>7. ASSUME NEW p \in Proc, NEW i \in Id, GcLooks(p, i) PROVE Locking'
  <2>1. PICK l \in {"run", "gc", "gcunlink"} : Goto(p, l)
    BY <1>7 DEF GcLooks, Looks
  <2> QED
    BY <1>7, <2>1, KeepsLocking DEF GcLooks, TypeOK, Goto
<1>8. ASSUME NEW p \in Proc, GcUnlinks(p) PROVE Locking'
  <2>1. PICK l \in {"run", "gc"} : Goto(p, l)
    BY <1>8 DEF GcUnlinks, Looks
  <2>2. \A n \in Inode : Opened(n) => content'[n] = content[n]
    BY <1>8, ReapKeeps DEF GcUnlinks, Opened
  <2> QED
    BY <1>8, <2>1, <2>2, KeepsLocking DEF GcUnlinks, TypeOK, Goto
<1>9. ASSUME NEW p \in Proc, DestroyUnlinks(p) PROVE Locking'
  <2>1. Destroyed(p, after[p], arg[p])
    BY <1>9 DEF DestroyUnlinks
  <2>2. Goto(p, "run")
    BY <2>1 DEF Destroyed
  <2>3. \A n \in Inode : Opened(n) => content'[n] = content[n]
    BY <1>9, ReapKeeps DEF DestroyUnlinks, Opened
  <2> QED
    BY <1>9, <2>2, <2>3, KeepsLocking DEF DestroyUnlinks, TypeOK, Goto
<1>10. ASSUME NEW p \in Proc, NEW v \in Value, Truncate(p, v) PROVE Locking'
  <2>1. /\ fd[p] # None /\ pc[p] = "write" /\ pc' = [pc EXCEPT ![p] = "pwrite"]
        /\ seen' = [seen EXCEPT ![p] = None] /\ UNCHANGED <<fd, lock>>
    BY <1>10 DEF Truncate, TypeOK, Goto
  <2>2. \A n \in Inode \ {fd[p]} : content'[n] = content[n]
    BY <1>10 DEF Truncate, TypeOK
  <2> QED
    BY <2>1, <2>2, WritesLocking DEF TypeOK
<1>11. ASSUME NEW p \in Proc, NEW k \in Nat, PWrite(p, k) PROVE Locking'
  <2>1. /\ fd[p] # None /\ pc[p] = "pwrite" /\ pc' = [pc EXCEPT ![p] = "close"]
        /\ seen' = seen /\ seen[p] = None /\ UNCHANGED <<fd, lock>>
    BY <1>11 DEF PWrite, TypeOK, Goto, Locking
  <2>2. \A n \in Inode \ {fd[p]} : content'[n] = content[n]
    BY <1>11 DEF PWrite, TypeOK
  <2> QED
    BY <2>1, <2>2, WritesLocking DEF TypeOK
<1>12. ASSUME NEW p \in Proc, Close(p) PROVE Locking'
  BY <1>12, ClosesLocking, ReapKeeps DEF Close, Goto
<1>13. ASSUME NEW p \in Proc, NEW i \in Id, Start(p, i) \/ ChangeId(p, i) \/ Regenerate(p, i)
       PROVE  Locking'
  BY <1>13, KeepsLocking DEF Start, ChangeId, Regenerate, TypeOK, Goto
<1>14. ASSUME NEW p \in Proc, NEW a \in {"regen", "end"}, NEW i \in Id \cup {None},
              DestroyWith(p, a, i)
       PROVE  Locking'
  <2>1. \E l \in {"run", "unlink"} : Goto(p, l)
    BY <1>14 DEF DestroyWith, Destroyed
  <2> QED
    BY <1>14, <2>1, ClosesLocking, ReapKeeps DEF DestroyWith, Goto
<1>15. ASSUME NEW p \in Proc, EndRequest(p) \/ \E a \in {"run", "end"} : Flush(p, a)
       PROVE  Locking'
  <2>1. CASE EndRequest(p)
    BY <2>1, KeepsLocking DEF EndRequest, TypeOK
  <2>2. ASSUME NEW a \in {"run", "end"}, Flush(p, a) PROVE Locking'
    <3>1. PICK l \in {"open", "close"} : Goto(p, l)
      BY <2>2 DEF Flush
    <3> QED
      BY <2>2, <3>1, KeepsLocking DEF Flush, TypeOK, Goto
  <2> QED
    BY <1>15, <2>1, <2>2
<1>16. ASSUME NEW p \in Proc, Die(p) PROVE Locking'
  <2>1. \A n \in Inode : Opened(n)' => content'[n] = content[n]
    BY <1>16 DEF Die
  <2> QED
    BY <1>16, <2>1, ClosesLocking DEF Die, Goto
<1>17. ASSUME NEW n \in Inode, Age(n) PROVE Locking'
  BY <1>17 DEF Age, Locking
<1>18. CASE UNCHANGED vars
  BY <1>18 DEF vars, Locking
<1> QED
  BY <1>1, <1>2, <1>3, <1>4, <1>5, <1>6, <1>7, <1>8, <1>9, <1>10, <1>11, <1>12, <1>13,
     <1>14, <1>15, <1>16, <1>17, <1>18
     DEF Next, Steps, Calls, Destroy, RegenerateAndDelete

-----------------------------------------------------------------------------
(* Data.                                                                   *)

\* The data of the file that p has locked are no longer than it knows, or
\* than what it is about to write over them.
Fits(p) ==
    /\ pc[p] # "unlink"
    /\ pc[p] \notin {"flock", "read", "pwrite", "close"}
          => content[fd[p]] = <<>> \/ st_size[p] = Len(content[fd[p]])
    /\ pc[p] = "pwrite" => Len(content[fd[p]]) <= Len(val[p])

Sized == spoilt \/ \A p \in Proc : fd[p] # None => Fits(p)

IInv == TypeOK /\ HasValue /\ Locking /\ Sized /\ Unmixed

\* A step that changes at most the program counter, the size and the data of p
\* and no file that another process has locked.
LEMMA SizedFrame ==
    ASSUME IInv, NEW p \in Proc, spoilt' = spoilt,
           \A q \in Proc \ {p} : /\ pc'[q] = pc[q] /\ st_size'[q] = st_size[q]
                                 /\ val'[q] = val[q] /\ fd'[q] = fd[q],
           \A n \in Inode : (\E q \in Proc \ {p} : fd[q] = n /\ lock[n] = q) => content'[n] = content[n],
           spoilt \/ fd'[p] = None \/ Fits(p)'
    PROVE  Sized'
<1> SUFFICES ASSUME ~spoilt, NEW q \in Proc, fd'[q] # None
             PROVE  Fits(q)'
  BY DEF Sized
<1>1. CASE q = p
  BY <1>1
<1>2. CASE q # p
  <2>1. fd'[q] = fd[q] /\ pc'[q] = pc[q] /\ st_size'[q] = st_size[q] /\ val'[q] = val[q]
    BY <1>2
  <2>2. fd[q] \in Inode /\ Fits(q)
    BY <2>1 DEF IInv, TypeOK, Sized
  <2>3. CASE pc[q] = "flock"
    BY <2>1, <2>3 DEF Fits
  <2>4. CASE pc[q] # "flock"
    <3>1. lock[fd[q]] = q
      BY <2>1, <2>4 DEF IInv, Locking
    <3>2. content'[fd[q]] = content[fd[q]]
      BY <1>2, <2>2, <3>1
    <3> QED
      BY <2>1, <2>2, <3>2 DEF Fits
  <2> QED
    BY <2>3, <2>4
<1> QED
  BY <1>1, <1>2

\* What is freed becomes empty, what is open is not freed.
LEMMA ReapWhole ==
    ASSUME IInv, Reap, spoilt' = spoilt
    PROVE  /\ Unmixed'
           /\ \A n \in Inode : Opened(n)' => content'[n] = content[n]
BY DEF IInv, Unmixed, Reap

\* A step of p that leaves the data alone, and the files of the others.
LEMMA QuietData ==
    ASSUME IInv, NEW p \in Proc, UNCHANGED <<content, spoilt, val>>,
           \A q \in Proc \ {p} : pc'[q] = pc[q] /\ st_size'[q] = st_size[q] /\ fd'[q] = fd[q],
           spoilt \/ fd'[p] = None \/ Fits(p)'
    PROVE  Sized' /\ Unmixed'
<1>1. Unmixed'
  BY DEF IInv, Unmixed
<1> QED
  BY <1>1, SizedFrame

\* A step by which p closes its file and nameless files are freed.
LEMMA ClosingData ==
    ASSUME IInv, NEW p \in Proc, CloseFile(p), spoilt' = spoilt,
           \A q \in Proc \ {p} : pc'[q] = pc[q] /\ st_size'[q] = st_size[q] /\ val'[q] = val[q],
           Unmixed', \A n \in Inode : Opened(n)' => content'[n] = content[n]
    PROVE  Sized' /\ Unmixed'
<1>1. fd'[p] = None /\ \A q \in Proc \ {p} : fd'[q] = fd[q]
  BY DEF CloseFile, IInv, TypeOK
<1>2. \A n \in Inode : (\E q \in Proc \ {p} : fd[q] = n /\ lock[n] = q) => content'[n] = content[n]
  BY <1>1 DEF Opened
<1> QED
  BY <1>1, <1>2, SizedFrame

LEMMA DataStep ==
    ASSUME IInv, [Next]_vars
    PROVE  Sized' /\ Unmixed'
<1> USE DEF files, local
<1>f. \A p \in Proc : fd[p] # None => spoilt \/ Fits(p)
  BY DEF IInv, Sized
<1>1. ASSUME NEW p \in Proc, KeepOpen(p) PROVE Sized' /\ Unmixed'
  <2>1. UNCHANGED <<content, spoilt, val, fd, st_size>> /\ pc[p] = "open" /\ fd[p] # None
        /\ pc' = [pc EXCEPT ![p] = goal[p]] /\ goal[p] \in {"read", "write"}
    BY <1>1 DEF KeepOpen, Goto, IInv, TypeOK
  <2>2. spoilt \/ Fits(p)'
    BY <2>1, <1>f DEF Fits, IInv, TypeOK
  <2> QED
    BY <2>1, <2>2, QuietData
<1>2. ASSUME NEW p \in Proc, CloseOther(p) PROVE Sized' /\ Unmixed'
  BY <1>2, ClosingData, ReapWhole DEF CloseOther
<1>3. ASSUME NEW p \in Proc, OpenFails(p) PROVE Sized' /\ Unmixed'
  <2>1. UNCHANGED <<content, spoilt, val, fd, st_size>> /\ fd[p] = None
    BY <1>3 DEF OpenFails
  <2>2. \E l \in {"run", "gc", "close"} : Goto(p, l)
    <3>1. CASE goal[p] = "read"
      BY <1>3, <3>1, ActiveType DEF OpenFails, IInv
    <3>2. CASE goal[p] # "read"
      BY <1>3, <3>2 DEF OpenFails
    <3> QED
      BY <3>1, <3>2
  <2> QED
    BY <2>1, <2>2, QuietData DEF Goto
<1>4. ASSUME NEW p \in Proc, Flock(p) PROVE Sized' /\ Unmixed'
  <2>1. /\ UNCHANGED <<content, val, fd, st_size>> /\ fd[p] # None
        /\ pc' = [pc EXCEPT ![p] = goal[p]] /\ goal[p] \in {"read", "write"}
        /\ spoilt' = (spoilt \/ (goal[p] = "write" /\ content[fd[p]] # <<>>))
    BY <1>4 DEF Flock, Goto, IInv, TypeOK
  <2>2. CASE spoilt'
    BY <2>2 DEF Sized, Unmixed
  <2>3. CASE ~spoilt'
    <3>1. spoilt' = spoilt
      BY <2>1, <2>3 DEF IInv, TypeOK
    <3>2. Fits(p)'
      BY <2>1, <2>3 DEF Fits, IInv, TypeOK
    <3> QED
      BY <2>1, <3>1, <3>2, QuietData
  <2> QED
    BY <2>2, <2>3
<1>5. ASSUME NEW p \in Proc, Read(p) PROVE Sized' /\ Unmixed'
  <2>1. PICK l \in {"run", "gc"} : Goto(p, l)
    BY <1>5, ActiveType DEF Read, IInv
  <2>2. /\ UNCHANGED <<content, spoilt, val, fd>> /\ pc' = [pc EXCEPT ![p] = l]
        /\ st_size' = [st_size EXCEPT ![p] = Len(content[fd[p]])]
    BY <1>5, <2>1 DEF Read, Goto
  <2>3. Fits(p)'
    BY <2>2 DEF Fits, IInv, TypeOK
  <2> QED
    BY <2>2, <2>3, QuietData
<1>6. ASSUME NEW p \in Proc, NEW n \in Inode, Open(p, n) PROVE Sized' /\ Unmixed'
  <2>1. /\ UNCHANGED <<content, spoilt, val, st_size>> /\ pc' = [pc EXCEPT ![p] = "flock"]
        /\ fd' = [fd EXCEPT ![p] = n]
    BY <1>6 DEF Open, Goto
  <2>2. Fits(p)'
    BY <2>1 DEF Fits, IInv, TypeOK
  <2> QED
    BY <2>1, <2>2, QuietData
<1>7. ASSUME NEW p \in Proc, NEW i \in Id, GcLooks(p, i) PROVE Sized' /\ Unmixed'
  <2>1. PICK l \in {"run", "gc", "gcunlink"} : Goto(p, l)
    BY <1>7 DEF GcLooks, Looks
  <2>2. UNCHANGED <<content, spoilt, val, fd, st_size>> /\ pc[p] = "gc"
        /\ pc' = [pc EXCEPT ![p] = l]
    BY <1>7, <2>1 DEF GcLooks, Goto
  <2>3. fd[p] = None \/ spoilt \/ Fits(p)'
    BY <2>2, <1>f DEF Fits, IInv, TypeOK
  <2> QED
    BY <2>2, <2>3, QuietData
<1>8. ASSUME NEW p \in Proc, GcUnlinks(p) PROVE Sized' /\ Unmixed'
  <2>1. PICK l \in {"run", "gc"} : Goto(p, l)
    BY <1>8 DEF GcUnlinks, Looks
  <2>2. /\ UNCHANGED <<spoilt, val, fd, st_size>> /\ pc[p] = "gcunlink"
        /\ pc' = [pc EXCEPT ![p] = l] /\ Reap
    BY <1>8, <2>1 DEF GcUnlinks, Goto
  <2>3. Unmixed' /\ \A n \in Inode : Opened(n) => content'[n] = content[n]
    BY <2>2, ReapWhole DEF Opened
  <2>4. fd[p] # None => fd[p] \in Inode /\ content'[fd[p]] = content[fd[p]]
    BY <2>3 DEF Opened, IInv, TypeOK
  <2>5. fd[p] = None \/ spoilt \/ Fits(p)'
    BY <2>2, <2>4, <1>f DEF Fits, IInv, TypeOK
  <2>6. \A n \in Inode : (\E q \in Proc \ {p} : fd[q] = n /\ lock[n] = q) => content'[n] = content[n]
    BY <2>3 DEF Opened
  <2> QED
    BY <2>2, <2>3, <2>5, <2>6, SizedFrame
<1>9. ASSUME NEW p \in Proc, DestroyUnlinks(p) PROVE Sized' /\ Unmixed'
  <2>1. Destroyed(p, after[p], arg[p]) /\ Reap /\ UNCHANGED <<spoilt, val, fd>> /\ pc[p] = "unlink"
    BY <1>9 DEF DestroyUnlinks
  <2>2. pc' = [pc EXCEPT ![p] = "run"] /\ \A q \in Proc \ {p} : st_size'[q] = st_size[q]
    BY <2>1 DEF Destroyed, Goto, IInv, TypeOK
  <2>3. Unmixed' /\ \A n \in Inode : Opened(n) => content'[n] = content[n]
    BY <2>1, ReapWhole DEF Opened
  <2>4. fd[p] = None \/ spoilt
    BY <2>1, <1>f DEF Fits
  <2>6. \A n \in Inode : (\E q \in Proc \ {p} : fd[q] = n /\ lock[n] = q) => content'[n] = content[n]
    BY <2>3 DEF Opened
  <2> QED
    BY <2>1, <2>2, <2>3, <2>4, <2>6, SizedFrame
<1>10. ASSUME NEW p \in Proc, NEW v \in Value, Truncate(p, v) PROVE Sized' /\ Unmixed'
  <2>1. /\ UNCHANGED <<fd, spoilt, st_size>> /\ fd[p] \in Inode /\ fd[p] # None
        /\ pc[p] = "write" /\ pc' = [pc EXCEPT ![p] = "pwrite"] /\ val' = [val EXCEPT ![p] = v]
    BY <1>10, NoneAssumption DEF Truncate, Goto, IInv, TypeOK, NoneAssumption
  <2>2. /\ content' = [content EXCEPT ![fd[p]] = <<>>] \/ content' = content
        /\ content' = content => ~(Len(v) < st_size[p]) \/ content[fd[p]] = <<>>
    BY <1>10, <2>1 DEF Truncate, IInv, TypeOK
  <2>3. Unmixed'
    <3>1. content \in [Inode -> Seq(Nat)]
      BY DEF IInv, TypeOK
    <3>2. \A n \in Inode : content'[n] \in {content[n], <<>>}
      BY <2>2, <3>1
    <3> QED
      BY <2>1, <3>2 DEF Unmixed, IInv
  <2>4. v \in Seq(Nat) /\ Len(v) \in Nat /\ Len(<<>>) = 0 /\ content[fd[p]] \in Seq(Nat)
    BY <2>1, ValueAssumption, LenProperties DEF ValueAssumption, IInv, TypeOK
  <2>5. content[fd[p]] = <<>> \/ st_size[p] = Len(content[fd[p]]) \/ spoilt
    BY <2>1, <1>f DEF Fits
  <2>6. st_size[p] \in Nat
    BY DEF IInv, TypeOK
  <2>7. spoilt \/ Len(content'[fd[p]]) <= Len(v)
    <3>1. CASE content' = content /\ content[fd[p]] # <<>>
      BY <2>2, <2>4, <2>5, <2>6, <3>1
    <3>2. CASE content' = content /\ content[fd[p]] = <<>>
      BY <2>4, <3>2
    <3>3. CASE content' = [content EXCEPT ![fd[p]] = <<>>]
      BY <2>1, <2>4, <3>3 DEF IInv, TypeOK
    <3> QED
      BY <2>2, <3>1, <3>2, <3>3
  <2>8. spoilt \/ Fits(p)'
    BY <2>1, <2>7 DEF Fits, IInv, TypeOK
  <2>9. \A n \in Inode : (\E q \in Proc \ {p} : fd[q] = n /\ lock[n] = q) => content'[n] = content[n]
    BY <2>1, <2>2 DEF IInv, Locking, TypeOK
  <2> QED
    BY <2>1, <2>3, <2>8, <2>9, SizedFrame DEF IInv, TypeOK
<1>11. ASSUME NEW p \in Proc, NEW k \in Nat, PWrite(p, k) PROVE Sized' /\ Unmixed'
  <2>1. /\ UNCHANGED <<fd, st_size>> /\ fd[p] \in Inode /\ fd[p] # None
        /\ pc[p] = "pwrite" /\ pc' = [pc EXCEPT ![p] = "close"]
        /\ \A q \in Proc \ {p} : val'[q] = val[q]
        /\ content' = [content EXCEPT ![fd[p]] = Overwrite(SubSeq(val[p], 1, k), content[fd[p]])]
    BY <1>11, NoneAssumption DEF PWrite, Goto, IInv, TypeOK, NoneAssumption
  <2>2. k <= Len(val[p]) /\ spoilt' = (spoilt \/ k < Len(val[p]))
    BY <1>11 DEF PWrite
  <2>3. CASE spoilt'
    BY <2>3 DEF Sized, Unmixed
  <2>4. CASE ~spoilt'
    <3>1. val[p] \in Value /\ val[p] \in Seq(Nat) /\ Len(val[p]) \in Nat /\ content[fd[p]] \in Seq(Nat)
      BY <2>1, ValueAssumption, LenProperties DEF ValueAssumption, IInv, TypeOK, HasValue
    <3>2. spoilt' = spoilt /\ k = Len(val[p])
      <4>1. ~spoilt /\ ~(k < Len(val[p]))
        BY <2>2, <2>4
      <4>2. spoilt \in BOOLEAN
        BY DEF IInv, TypeOK
      <4>3. spoilt' = spoilt
        BY <4>1, <4>2, <2>2
      <4>4. k = Len(val[p])
        BY <4>1, <2>2, <3>1
      <4> QED
        BY <4>3, <4>4
    <3>3. Len(content[fd[p]]) <= Len(val[p])
      BY <2>1, <2>4, <3>2, <1>f DEF Fits
    <3>4. content' = [content EXCEPT ![fd[p]] = val[p]]
      BY <2>1, <3>1, <3>2, <3>3, OverwriteAll
    <3>5. Unmixed'
      <4>1. \A n \in Inode : content'[n] \in {content[n], val[p]}
        BY <3>4, <2>1 DEF IInv, TypeOK
      <4> QED
        BY <2>4, <3>1, <3>2, <4>1 DEF Unmixed, IInv
    <3>6. Fits(p)'
      BY <2>1 DEF Fits, IInv, TypeOK
    <3>7. \A n \in Inode : (\E q \in Proc \ {p} : fd[q] = n /\ lock[n] = q) => content'[n] = content[n]
      BY <2>1, <3>4 DEF IInv, Locking, TypeOK
    <3> QED
      BY <2>1, <3>2, <3>5, <3>6, <3>7, SizedFrame
  <2> QED
    BY <2>3, <2>4
<1>12. ASSUME NEW p \in Proc, Close(p) PROVE Sized' /\ Unmixed'
  BY <1>12, ClosingData, ReapWhole DEF Close, Goto
<1>13. ASSUME NEW p \in Proc, NEW i \in Id, Start(p, i) \/ ChangeId(p, i) \/ Regenerate(p, i)
       PROVE  Sized' /\ Unmixed'
  <2>1. /\ UNCHANGED <<content, spoilt, val, fd, st_size>> /\ pc[p] = "run"
        /\ \E l \in {"run", "open"} : pc' = [pc EXCEPT ![p] = l]
    BY <1>13 DEF Start, ChangeId, Regenerate, Goto, IInv, TypeOK
  <2>2. fd[p] = None \/ spoilt \/ Fits(p)'
    BY <2>1, <1>f DEF Fits, IInv, TypeOK
  <2> QED
    BY <2>1, <2>2, QuietData
<1>14. ASSUME NEW p \in Proc, NEW a \in {"regen", "end"}, NEW i \in Id \cup {None},
              DestroyWith(p, a, i)
       PROVE  Sized' /\ Unmixed'
  <2>1. CloseFile(p) /\ Reap /\ UNCHANGED <<spoilt, val>>
    BY <1>14 DEF DestroyWith
  <2>2. \A q \in Proc \ {p} : pc'[q] = pc[q] /\ st_size'[q] = st_size[q]
    <3>1. CASE fd[p] # None
      <4>1. pc' = [pc EXCEPT ![p] = "unlink"] /\ st_size' = st_size
        BY <1>14, <3>1 DEF DestroyWith, Goto
      <4> QED
        BY <4>1 DEF IInv, TypeOK
    <3>2. CASE fd[p] = None
      <4>1. Destroyed(p, a, i)
        BY <1>14, <3>2 DEF DestroyWith
      <4>2. CASE a = "regen"
        BY <4>1, <4>2 DEF Destroyed, Goto, IInv, TypeOK
      <4>3. CASE a # "regen"
        BY <4>1, <4>3 DEF Destroyed, Goto, IInv, TypeOK
      <4> QED
        BY <4>2, <4>3
    <3> QED
      BY <3>1, <3>2
  <2> QED
    BY <2>1, <2>2, ClosingData, ReapWhole
<1>15. ASSUME NEW p \in Proc, EndRequest(p) \/ \E a \in {"run", "end"} : Flush(p, a)
       PROVE  Sized' /\ Unmixed'
  <2>1. /\ UNCHANGED <<content, spoilt, val, fd, st_size>> /\ pc[p] = "run"
        /\ \E l \in {"run", "open", "close"} : pc' = [pc EXCEPT ![p] = l]
    BY <1>15 DEF EndRequest, Flush, Goto, IInv, TypeOK
  <2>2. fd[p] = None \/ spoilt \/ Fits(p)'
    BY <2>1, <1>f DEF Fits, IInv, TypeOK
  <2> QED
    BY <2>1, <2>2, QuietData
<1>16. ASSUME NEW p \in Proc, Die(p) PROVE Sized' /\ Unmixed'
  <2>1. CloseFile(p) /\ spoilt' = spoilt
        /\ \A q \in Proc \ {p} : pc'[q] = pc[q] /\ st_size'[q] = st_size[q] /\ val'[q] = val[q]
    BY <1>16 DEF Die, Goto
  <2>2. \A n \in Inode : content'[n] = content[n] \/ (content'[n] = <<>> /\ ~Opened(n)')
    BY <1>16 DEF Die
  <2>3. Unmixed'
    BY <2>1, <2>2 DEF Unmixed, IInv
  <2> QED
    BY <2>1, <2>2, <2>3, ClosingData
<1>17. ASSUME NEW n \in Inode, Age(n) PROVE Sized' /\ Unmixed'
  BY <1>17 DEF Age, Sized, Fits, Unmixed, IInv
<1>18. CASE UNCHANGED vars
  BY <1>18 DEF vars, Sized, Fits, Unmixed, IInv
<1> QED
  BY <1>1, <1>2, <1>3, <1>4, <1>5, <1>6, <1>7, <1>8, <1>9, <1>10, <1>11, <1>12, <1>13,
     <1>14, <1>15, <1>16, <1>17, <1>18
     DEF Next, Steps, Calls, Destroy, RegenerateAndDelete

-----------------------------------------------------------------------------
(* The theorems.                                                           *)

LEMMA Initially == Init => IInv
<1> SUFFICES ASSUME Init PROVE IInv
  OBVIOUS
<1>1. <<>> \in Seq(Nat)
  OBVIOUS
<1>2. TypeOK /\ HasValue
  BY <1>1 DEF Init, TypeOK, HasValue
<1>3. Locking /\ Sized /\ Unmixed
  BY DEF Init, Locking, Sized, Unmixed
<1> QED
  BY <1>2, <1>3 DEF IInv

LEMMA IInvAlways == Spec => []IInv
<1>1. IInv /\ [Next]_vars => IInv'
  BY TypeStep, LockingStep, DataStep DEF IInv
<1> QED
  BY Initially, <1>1, PTL DEF Spec

\* Every variable has its type, and who reads or writes has a file.
THEOREM TypeCorrect == Spec => []TypeOK
<1>1. IInv => TypeOK
  BY DEF IInv
<1> QED
  BY <1>1, IInvAlways, PTL

\* Requests cannot wait for each other: ps_files_open waits for flock with no
\* other file open, whatever session_id() did in between.
THEOREM NobodyHoldsAndWaits == Spec => []NoHoldAndWait
<1>1. IInv => NoHoldAndWait
  BY NoneAssumption DEF NoneAssumption, IInv, Locking, NoHoldAndWait
<1> QED
  BY <1>1, IInvAlways, PTL

\* No update is lost: what session_start has read is what the file holds until
\* the same request writes it or gives the file up.
THEOREM NoLostUpdate == Spec => []ReadStays
<1>1. IInv => ReadStays
  BY DEF IInv, Locking, ReadStays
<1> QED
  BY <1>1, IInvAlways, PTL

\* PS_WRITE leaves one whole value, as long as no file with data was opened
\* only to be written and no write was short.
THEOREM NoMixture == Spec => []WholeContents
<1>1. IInv => WholeContents
  BY DEF IInv, WholeContents
<1> QED
  BY <1>1, IInvAlways, PTL

-----------------------------------------------------------------------------
(* The store that the files implement.                                     *)

\* What the abstract store has under an id, and who owns it.
StoreOf(i) == IF name[i] = None THEN <<>> ELSE committed[name[i]]
OwnerOf(i) == IF name[i] = None THEN None ELSE lock[name[i]]

(***************************************************************************)
(* No two names are of one file, a file that nobody can reach is empty,    *)
(* and what is committed is what the file has, or had before it was        *)
(* truncated.                                                              *)
(***************************************************************************)
NamesApart == \A i, j \in Id : name[i] = name[j] /\ name[i] # None => i = j
FreshEmpty == \A n \in Inode : ~Named(n) /\ ~Opened(n) => committed[n] = <<>>
Pending == \A n \in Inode : content[n] \in {committed[n], <<>>}

PInv == NamesApart /\ FreshEmpty /\ Pending

\* A step that gives no file up and leaves its data.
LEMMA QuietNames ==
    ASSUME PInv, UNCHANGED <<name, content, committed>>, \A n \in Inode : Opened(n) => Opened(n)'
    PROVE  PInv'
BY DEF PInv, NamesApart, FreshEmpty, Pending, Named

\* A step that frees what cannot be reached.
LEMMA ReapNames ==
    ASSUME TypeOK, PInv, Reap, \A i \in Id : name'[i] \in {name[i], None}
    PROVE  PInv'
<1>1. NamesApart'
  BY DEF PInv, NamesApart
<1>2. FreshEmpty'
  BY DEF Reap, FreshEmpty
<1>3. Pending'
  BY DEF PInv, Reap, Pending
<1> QED
  BY <1>1, <1>2, <1>3 DEF PInv

LEMMA NamesStep ==
    ASSUME IInv, PInv, [Next]_vars
    PROVE  PInv'
<1> USE DEF files, local
<1>1. ASSUME NEW p \in Proc, KeepOpen(p) \/ OpenFails(p) \/ Flock(p) \/ Read(p) PROVE PInv'
  BY <1>1, QuietNames DEF KeepOpen, OpenFails, Flock, Read, Opened
<1>2. ASSUME NEW p \in Proc, CloseOther(p) \/ Close(p) PROVE PInv'
  BY <1>2, ReapNames DEF CloseOther, Close, IInv
<1>3. ASSUME NEW p \in Proc, NEW n \in Inode, Open(p, n) PROVE PInv'
  <2>1. fd[p] = None /\ fd' = [fd EXCEPT ![p] = n] /\ UNCHANGED <<content, committed>>
    BY <1>3 DEF Open
  <2>2. n # None /\ \A m \in Inode : Opened(m) => Opened(m)'
    BY <2>1, NoneAssumption DEF Opened, IInv, TypeOK, NoneAssumption
  <2>3. CASE UNCHANGED name
    BY <2>1, <2>2, <2>3, QuietNames
  <2>4. CASE ~Named(n) /\ name[id[p]] = None /\ name' = [name EXCEPT ![id[p]] = n]
    <3>1. NamesApart'
      BY <2>2, <2>4 DEF Named, NamesApart, PInv, IInv, TypeOK
    <3>2. \A m \in Inode : Named(m) => Named(m)'
      BY <2>2, <2>4, NoneAssumption DEF Named, IInv, TypeOK, NoneAssumption
    <3>3. FreshEmpty'
      BY <2>1, <2>2, <3>2 DEF FreshEmpty, PInv
    <3> QED
      BY <2>1, <3>1, <3>3 DEF PInv, Pending
  <2> QED
    BY <1>3, <2>3, <2>4 DEF Open
<1>4. ASSUME NEW p \in Proc, NEW i \in Id, GcLooks(p, i) \/ Start(p, i) \/ ChangeId(p, i) \/ Regenerate(p, i)
      PROVE  PInv'
  BY <1>4, QuietNames DEF GcLooks, Start, ChangeId, Regenerate, Opened
<1>5. ASSUME NEW p \in Proc, GcUnlinks(p) \/ DestroyUnlinks(p) PROVE PInv'
  <2>1. Reap /\ \E i \in Id \cup {None} : name' = [name EXCEPT ![i] = None]
    BY <1>5 DEF GcUnlinks, DestroyUnlinks, Unlink, IInv, TypeOK
  <2>2. \A j \in Id : name'[j] \in {name[j], None}
    BY <2>1 DEF IInv, TypeOK
  <2> QED
    BY <2>1, <2>2, ReapNames DEF IInv
<1>6. ASSUME NEW p \in Proc, NEW v \in Value, Truncate(p, v) PROVE PInv'
  <2>1. /\ UNCHANGED <<name, committed, fd>>
        /\ content' = content \/ content' = [content EXCEPT ![fd[p]] = <<>>]
    BY <1>6 DEF Truncate
  <2>2. \A n \in Inode : content'[n] \in {content[n], <<>>}
    BY <2>1 DEF IInv, TypeOK
  <2> QED
    BY <2>1, <2>2 DEF PInv, NamesApart, FreshEmpty, Pending, Named, Opened
<1>7. ASSUME NEW p \in Proc, NEW k \in Nat, PWrite(p, k) PROVE PInv'
  <2>1. /\ UNCHANGED <<name, fd>> /\ fd[p] # None
        /\ \A n \in Inode : \/ n # fd[p] /\ content'[n] = content[n] /\ committed'[n] = committed[n]
                            \/ n = fd[p] /\ committed'[n] = content'[n]
    BY <1>7 DEF PWrite, IInv, TypeOK
  <2>2. NamesApart' /\ Pending'
    BY <2>1 DEF PInv, NamesApart, Pending
  <2>3. FreshEmpty'
    BY <2>1 DEF PInv, FreshEmpty, Named, Opened
  <2> QED
    BY <2>2, <2>3 DEF PInv
<1>8. ASSUME NEW p \in Proc, NEW a, NEW i, DestroyWith(p, a, i) PROVE PInv'
  BY <1>8, ReapNames DEF DestroyWith, IInv
<1>9. ASSUME NEW p \in Proc, EndRequest(p) \/ \E a \in {"run", "end"} : Flush(p, a) PROVE PInv'
  BY <1>9, QuietNames DEF EndRequest, Flush, Opened
<1>10. ASSUME NEW p \in Proc, Die(p) PROVE PInv'
  <2>1. UNCHANGED name
        /\ \A n \in Inode : \/ ~(Named(n) \/ Opened(n)') /\ content'[n] = <<>> /\ committed'[n] = <<>>
                            \/ /\ (Named(n) \/ Opened(n)') /\ content'[n] = content[n]
                               /\ committed'[n] \in {content[n], committed[n]}
    BY <1>10 DEF Die
  <2>2. NamesApart' /\ Pending'
    BY <2>1 DEF PInv, NamesApart, Pending
  <2>3. FreshEmpty'
    BY <2>1 DEF FreshEmpty, Named
  <2> QED
    BY <2>2, <2>3 DEF PInv
<1>11. ASSUME NEW n \in Inode, Age(n) PROVE PInv'
  BY <1>11, QuietNames DEF Age, Opened
<1>12. CASE UNCHANGED vars
  BY <1>12, QuietNames DEF vars, Opened
<1> QED
  BY <1>1, <1>2, <1>3, <1>4, <1>5, <1>6, <1>7, <1>8, <1>9, <1>10, <1>11, <1>12
     DEF Next, Steps, Calls, Destroy, RegenerateAndDelete

-----------------------------------------------------------------------------
(* Every step is one of the store.                                         *)

Same(i) == StoreOf(i)' = StoreOf(i) /\ OwnerOf(i)' = OwnerOf(i)

LEMMA Stutters ==
    ASSUME \A i \in Id : Same(i)
    PROVE  UNCHANGED Promise!vars
BY DEF Same, StoreOf, OwnerOf, Promise!vars

\* What the abstract actions say of the concrete state.
LEMMA Maps ==
    ASSUME NEW i \in Id, NEW p \in Proc, \A j \in Id \ {i} : Same(j)
    PROVE  /\ OwnerOf(i) = None /\ OwnerOf(i)' = p /\ StoreOf(i)' = StoreOf(i) => Promise!Next
           /\ OwnerOf(i) = p /\ OwnerOf(i)' = p /\ StoreOf(i)' \in Value \cup {<<>>} => Promise!Next
           /\ OwnerOf(i) = p /\ OwnerOf(i)' = None /\ StoreOf(i)' \in {StoreOf(i), <<>>} => Promise!Next
           /\ OwnerOf(i)' = None /\ StoreOf(i)' = <<>> => Promise!Next
<1> DEFINE store == [j \in Id |-> StoreOf(j)]
           owner == [j \in Id |-> OwnerOf(j)]
<1>1. /\ store' = [j \in Id |-> IF j = i THEN StoreOf(i)' ELSE store[j]]
      /\ owner' = [j \in Id |-> IF j = i THEN OwnerOf(i)' ELSE owner[j]]
  BY DEF Same
<1>2. store = [j \in Id |-> IF name[j] = None THEN <<>> ELSE committed[name[j]]]
      /\ owner = [j \in Id |-> IF name[j] = None THEN None ELSE lock[name[j]]]
  BY DEF StoreOf, OwnerOf
<1>3. store[i] = StoreOf(i) /\ owner[i] = OwnerOf(i)
  OBVIOUS
<1>4. \A v : v = StoreOf(i)' => store' = [store EXCEPT ![i] = v]
  BY <1>1
<1>5. \A v : v = OwnerOf(i)' => owner' = [owner EXCEPT ![i] = v]
  BY <1>1
<1>6. StoreOf(i)' = StoreOf(i) => store' = store
  BY <1>1
<1>7. OwnerOf(i)' = OwnerOf(i) => owner' = owner
  BY <1>1
<1>8. /\ store' = [j \in Id |-> IF name[j] = None THEN <<>> ELSE committed[name[j]]]'
      /\ owner' = [j \in Id |-> IF name[j] = None THEN None ELSE lock[name[j]]]'
  BY DEF StoreOf, OwnerOf
<1> HIDE DEF store, owner
<1>9. ASSUME OwnerOf(i) = None, OwnerOf(i)' = p, StoreOf(i)' = StoreOf(i) PROVE Promise!Next
  <2>1. owner[i] = None /\ owner' = [owner EXCEPT ![i] = p] /\ store' = store
    BY <1>9, <1>3, <1>5, <1>6
  <2>2. Promise!Enter(p, i)
    BY <2>1, <1>2, <1>8 DEF Promise!Enter
  <2> QED
    BY <2>2 DEF Promise!Next
<1>10. ASSUME OwnerOf(i) = p, OwnerOf(i)' = p, StoreOf(i)' \in Value \cup {<<>>} PROVE Promise!Next
  <2>1. PICK v \in Value \cup {<<>>} : v = StoreOf(i)'
    BY <1>10
  <2>2. owner[i] = p /\ store' = [store EXCEPT ![i] = v] /\ owner' = owner
    BY <1>10, <1>3, <1>4, <1>7, <2>1
  <2>3. Promise!Commit(p, i, v)
    BY <2>2, <1>2, <1>8 DEF Promise!Commit
  <2> QED
    BY <2>3 DEF Promise!Next
<1>11. ASSUME OwnerOf(i) = p, OwnerOf(i)' = None, StoreOf(i)' \in {StoreOf(i), <<>>} PROVE Promise!Next
  <2>1. owner[i] = p /\ owner' = [owner EXCEPT ![i] = None]
    BY <1>11, <1>3, <1>5
  <2>2. CASE StoreOf(i)' = StoreOf(i)
    <3>1. Promise!Leave(p, i)
      BY <2>1, <2>2, <1>2, <1>6, <1>8 DEF Promise!Leave
    <3> QED
      BY <3>1 DEF Promise!Next
  <2>3. CASE StoreOf(i)' = <<>>
    <3>1. store' = [store EXCEPT ![i] = <<>>]
      BY <2>3, <1>4
    <3>2. Promise!Die(p, i)
      BY <2>1, <3>1, <1>2, <1>8 DEF Promise!Die
    <3> QED
      BY <3>2 DEF Promise!Next
  <2> QED
    BY <1>11, <2>2, <2>3
<1>12. ASSUME OwnerOf(i)' = None, StoreOf(i)' = <<>> PROVE Promise!Next
  <2>1. store' = [store EXCEPT ![i] = <<>>] /\ owner' = [owner EXCEPT ![i] = None]
    BY <1>12, <1>4, <1>5
  <2>2. Promise!Forget(i)
    BY <2>1, <1>2, <1>8 DEF Promise!Forget
  <2> QED
    BY <2>2 DEF Promise!Next
<1> QED
  BY <1>9, <1>10, <1>11, <1>12

\* A step that changes neither a name nor a lock nor what is committed.
LEMMA QuietStore ==
    ASSUME UNCHANGED <<name, committed, lock>>
    PROVE  UNCHANGED Promise!vars
BY Stutters DEF Same, StoreOf, OwnerOf

\* The named file that p has locked, if there is one, is of one name.
LEMMA OneName ==
    ASSUME IInv, PInv, NEW p \in Proc, NEW i \in Id, name[i] # None, fd[p] = name[i]
    PROVE  \A j \in Id \ {i} : name[j] # None => name[j] # fd[p] /\ lock[name[j]] # p
<1> SUFFICES ASSUME NEW j \in Id \ {i}, name[j] # None
             PROVE  name[j] # fd[p] /\ lock[name[j]] # p
  OBVIOUS
<1>1. name[j] # name[i] /\ name[j] \in Inode
  BY DEF PInv, NamesApart, IInv, TypeOK
<1>2. p # None
  BY NoneAssumption DEF NoneAssumption
<1> QED
  BY <1>1, <1>2 DEF IInv, Locking

(***************************************************************************)
(* To close a file gives up the session of its name, with the data as      *)
(* committed or, when the process dies, without.                           *)
(***************************************************************************)
LEMMA ClosesStore ==
    ASSUME IInv, PInv, NEW p \in Proc, CloseFile(p), UNCHANGED name,
           \A n \in Inode : Named(n) => \/ committed'[n] = committed[n]
                                        \/ lock[n] = p /\ committed'[n] = <<>>
    PROVE  UNCHANGED Promise!vars \/ Promise!Next
<1>1. \A i \in Id : name[i] # None => name[i] \in Inode /\ Named(name[i])
  BY DEF IInv, TypeOK, Named
<1>2. lock' = [n \in Inode |-> IF lock[n] = p THEN None ELSE lock[n]]
  BY DEF CloseFile
<1>3. \A i \in Id : (name[i] = None \/ lock[name[i]] # p) => Same(i)
  BY <1>1, <1>2 DEF Same, StoreOf, OwnerOf
<1>4. CASE \E i \in Id : name[i] # None /\ lock[name[i]] = p
  <2>1. PICK i \in Id : name[i] # None /\ lock[name[i]] = p
    BY <1>4
  <2>2. fd[p] = name[i]
    BY <1>1, <2>1, NoneAssumption DEF IInv, Locking, NoneAssumption
  <2>3. \A j \in Id \ {i} : Same(j)
    BY <1>3, <2>1, <2>2, OneName
  <2>4. OwnerOf(i) = p /\ OwnerOf(i)' = None /\ StoreOf(i)' \in {StoreOf(i), <<>>}
    BY <1>1, <1>2, <2>1 DEF OwnerOf, StoreOf
  <2> QED
    BY <2>3, <2>4, Maps
<1>5. CASE ~\E i \in Id : name[i] # None /\ lock[name[i]] = p
  BY <1>3, <1>5, Stutters
<1> QED
  BY <1>4, <1>5

\* To unlink a name forgets its session.
LEMMA UnlinksStore ==
    ASSUME IInv, PInv, NEW p \in Proc, NEW i \in Id \cup {None}, Unlink(i), Reap, UNCHANGED lock
    PROVE  UNCHANGED Promise!vars \/ Promise!Next
<1>1. \A j \in Id : j # i => name'[j] = name[j]
  BY DEF Unlink, IInv, TypeOK
<1>2. \A j \in Id : j # i => Same(j)
  <2> SUFFICES ASSUME NEW j \in Id, j # i PROVE Same(j)
    OBVIOUS
  <2>1. name'[j] = name[j]
    BY <1>1
  <2>2. name[j] # None => name[j] \in Inode /\ \E k \in Id : name'[k] = name[j]
    BY <2>1 DEF IInv, TypeOK
  <2>3. name[j] # None => committed'[name[j]] = committed[name[j]]
    BY <2>2 DEF Reap, Named
  <2> QED
    BY <2>1, <2>3 DEF Same, StoreOf, OwnerOf
<1>3. CASE i \in Id
  <2>1. name'[i] = None
    BY <1>3 DEF Unlink, IInv, TypeOK
  <2> QED
    BY <1>2, <1>3, <2>1, Maps DEF StoreOf, OwnerOf
<1>4. CASE i \notin Id
  BY <1>2, <1>4, Stutters
<1> QED
  BY <1>3, <1>4

LEMMA StoreStep ==
    ASSUME IInv, Unmixed', PInv, [Next]_vars
    PROVE  UNCHANGED Promise!vars \/ spoilt' \/ Promise!Next
<1> USE DEF files, local
<1>1. ASSUME NEW p \in Proc, KeepOpen(p) \/ OpenFails(p) \/ Read(p)
      PROVE  UNCHANGED Promise!vars
  BY <1>1, QuietStore DEF KeepOpen, OpenFails, Read
<1>2. ASSUME NEW p \in Proc, NEW a, NEW i, CloseOther(p) \/ Close(p) \/ DestroyWith(p, a, i)
      PROVE  UNCHANGED Promise!vars \/ Promise!Next
  <2>1. CloseFile(p) /\ Reap /\ UNCHANGED name
    BY <1>2 DEF CloseOther, Close, DestroyWith
  <2>2. \A m \in Inode : Named(m) => committed'[m] = committed[m]
    BY <2>1 DEF Reap, Named
  <2> QED
    BY <2>1, <2>2, ClosesStore
<1>3. ASSUME NEW p \in Proc, NEW n \in Inode, Open(p, n) PROVE UNCHANGED Promise!vars
  <2>1. CASE UNCHANGED name
    BY <1>3, <2>1, QuietStore DEF Open
  <2>2. CASE /\ ~Named(n) /\ ~Opened(n) /\ name[id[p]] = None /\ name' = [name EXCEPT ![id[p]] = n]
    <3>1. committed[n] = <<>> /\ lock[n] = None /\ UNCHANGED <<committed, lock>>
      BY <1>3, <2>2 DEF Open, PInv, FreshEmpty, Opened, IInv, Locking, TypeOK
    <3>2. \A j \in Id : name'[j] = name[j] \/ (name[j] = None /\ name'[j] = n)
      BY <2>2 DEF IInv, TypeOK
    <3>3. \A j \in Id : Same(j)
      BY <3>1, <3>2 DEF Same, StoreOf, OwnerOf
    <3> QED
      BY <3>3, Stutters
  <2> QED
    BY <1>3, <2>1, <2>2 DEF Open
<1>4. ASSUME NEW p \in Proc, Flock(p) PROVE UNCHANGED Promise!vars \/ Promise!Next
  <2>1. /\ UNCHANGED <<name, committed>> /\ lock' = [lock EXCEPT ![fd[p]] = p]
        /\ lock[fd[p]] = None /\ fd[p] \in Inode
    BY <1>4 DEF Flock, IInv, TypeOK
  <2>2. \A j \in Id : name[j] = None \/ name[j] # fd[p] => Same(j)
    BY <2>1 DEF Same, StoreOf, OwnerOf, IInv, TypeOK
  <2>3. CASE \E i \in Id : name[i] # None /\ fd[p] = name[i]
    <3>1. PICK i \in Id : name[i] # None /\ fd[p] = name[i]
      BY <2>3
    <3>2. \A j \in Id \ {i} : Same(j)
      BY <2>2, <3>1, OneName
    <3>3. OwnerOf(i) = None /\ OwnerOf(i)' = p /\ StoreOf(i)' = StoreOf(i)
      BY <2>1, <3>1 DEF OwnerOf, StoreOf, IInv, TypeOK
    <3> QED
      BY <3>2, <3>3, Maps
  <2>4. CASE ~\E i \in Id : name[i] # None /\ fd[p] = name[i]
    BY <2>2, <2>4, Stutters
  <2> QED
    BY <2>3, <2>4
<1>5. ASSUME NEW p \in Proc, NEW k \in Nat, PWrite(p, k)
      PROVE  UNCHANGED Promise!vars \/ spoilt' \/ Promise!Next
  <2>1. /\ UNCHANGED <<name, lock>> /\ committed' = [committed EXCEPT ![fd[p]] = content'[fd[p]]]
        /\ lock[fd[p]] = p /\ fd[p] \in Inode /\ pc[p] = "pwrite"
    BY <1>5, NoneAssumption DEF PWrite, IInv, TypeOK, Locking, NoneAssumption
  <2>2. \A j \in Id : name[j] = None \/ name[j] # fd[p] => Same(j)
    BY <2>1 DEF Same, StoreOf, OwnerOf, IInv, TypeOK
  <2>3. CASE \E i \in Id : name[i] # None /\ fd[p] = name[i]
    <3>1. PICK i \in Id : name[i] # None /\ fd[p] = name[i]
      BY <2>3
    <3>2. \A j \in Id \ {i} : Same(j)
      BY <2>2, <3>1, OneName
    <3>3. OwnerOf(i) = p /\ OwnerOf(i)' = p /\ StoreOf(i)' = content'[fd[p]]
      BY <2>1, <3>1 DEF OwnerOf, StoreOf, IInv, TypeOK
    <3>4. spoilt' \/ StoreOf(i)' \in Value \cup {<<>>}
      BY <2>1, <3>3 DEF Unmixed
    <3> QED
      BY <3>2, <3>3, <3>4, Maps
  <2>4. CASE ~\E i \in Id : name[i] # None /\ fd[p] = name[i]
    BY <2>2, <2>4, Stutters
  <2> QED
    BY <2>3, <2>4
<1>6. ASSUME NEW p \in Proc, GcUnlinks(p) \/ DestroyUnlinks(p)
      PROVE  UNCHANGED Promise!vars \/ Promise!Next
  <2>1. Reap /\ UNCHANGED lock /\ \E i \in Id \cup {None} : Unlink(i)
    BY <1>6 DEF GcUnlinks, DestroyUnlinks, IInv, TypeOK
  <2> QED
    BY <2>1, UnlinksStore
<1>7. ASSUME NEW p \in Proc, NEW v, Truncate(p, v) PROVE UNCHANGED Promise!vars
  BY <1>7, QuietStore DEF Truncate
<1>8. ASSUME NEW p \in Proc, NEW i, GcLooks(p, i) \/ Start(p, i) \/ ChangeId(p, i) \/ Regenerate(p, i)
      PROVE  UNCHANGED Promise!vars
  BY <1>8, QuietStore DEF GcLooks, Start, ChangeId, Regenerate
<1>9. ASSUME NEW p \in Proc, EndRequest(p) \/ \E a \in {"run", "end"} : Flush(p, a)
      PROVE  UNCHANGED Promise!vars
  BY <1>9, QuietStore DEF EndRequest, Flush
<1>10. ASSUME NEW p \in Proc, Die(p) PROVE UNCHANGED Promise!vars \/ Promise!Next
  <2>1. CloseFile(p) /\ UNCHANGED name
        /\ \A n \in Inode : Named(n) => committed'[n] = IF lock[n] = p THEN content[n] ELSE committed[n]
    BY <1>10 DEF Die
  <2>2. \A n \in Inode : Named(n) => \/ committed'[n] = committed[n]
                                     \/ lock[n] = p /\ committed'[n] = <<>>
    BY <2>1 DEF PInv, Pending
  <2> QED
    BY <2>1, <2>2, ClosesStore
<1>11. ASSUME NEW n, Age(n) PROVE UNCHANGED Promise!vars
  BY <1>11, QuietStore DEF Age
<1>12. CASE UNCHANGED vars
  BY <1>12, QuietStore DEF vars
<1> QED
  BY <1>1, <1>2, <1>3, <1>4, <1>5, <1>6, <1>7, <1>8, <1>9, <1>10, <1>11, <1>12
     DEF Next, Steps, Calls, Destroy, RegenerateAndDelete

\* The session files implement the store with one owner per session, as long as
\* no file with data was opened only to be written and no write was short.
THEOREM Implements == Spec => KeepsPromise
<1>1. Init => PInv /\ Promise!Init
  BY DEF Init, PInv, NamesApart, FreshEmpty, Pending, Promise!Init
<1>2. IInv /\ PInv /\ [Next]_vars => PInv'
  BY NamesStep
<1>3. IInv /\ IInv' /\ PInv /\ [Next]_vars => [spoilt' \/ Promise!Next]_(Promise!vars)
  BY StoreStep DEF IInv
<1> QED
  BY <1>1, <1>2, <1>3, IInvAlways, PTL DEF Spec, KeepsPromise
=============================================================================
