-------------------------- MODULE ZendSignal_proofs --------------------------
(***************************************************************************)
(* Proofs about ZendSignal: the types, that no handler is called inside a  *)
(* critical section, that no deferred signal outlives its section when     *)
(* every handler returns, that the pointers of the pool always form three  *)
(* lists, and that the pool implements the promise of DeferredSignals.     *)
(***************************************************************************)
EXTENDS ZendSignal, Iteration, SequenceTheorems, FiniteSetTheorems, TLAPS

-----------------------------------------------------------------------------
(* Types.                                                                  *)

\* The types of the variables are an invariant of zend_signal.c.
THEOREM TypeCorrect == Spec => []TypeOK
<1> USE PROFAssumption, QSIZEAssumption, MaxDepthAssumption, OrigAssumption,
        SettableAssumption, FlagAssumption
    DEF PROFAssumption, QSIZEAssumption, MaxDepthAssumption, OrigAssumption,
        SettableAssumption, FlagAssumption
<1>1. Init => TypeOK
  BY SMT DEF Init, TypeOK, Handler, Entry, Pointer, NULL
<1>2. TypeOK /\ [Next]_vars => TypeOK'
  <2> SUFFICES ASSUME TypeOK, [Next]_vars PROVE TypeOK'
    OBVIOUS
  <2> USE DEF TypeOK, flags, pool, frame
  <2>1. ASSUME NEW s \in Sig, Arrive(s) PROVE TypeOK'
    BY <2>1 DEF Arrive
  <2>2. ASSUME NEW s \in Sig, DeliverOriginal(s) PROVE TypeOK'
    BY <2>2 DEF DeliverOriginal, Call
  <2>3. ASSUME NEW s \in Sig, Deliver(s) PROVE TypeOK'
    BY <2>3 DEF Deliver, NULL, Pointer
  <2>4. CASE DeferInactive
    BY <2>4 DEF DeferInactive, Call, HandlerLeaves, HandlerKills, HandlerBails,
                HandlerReturns, DeferReturns, Handler, NULL, Pointer
  <2>5. CASE DeferHandle
    BY <2>5 DEF DeferHandle, HandleFirst, HandleNested, DeferReturns, Call, HandlerLeaves, HandlerKills, HandlerBails,
                HandlerReturns, Handler, NULL, Pointer
  <2>6. CASE DeferDelay
    <3>1. UNCHANGED pool \/ (pavail \in Entry /\ Enqueue(cur))
      BY <2>6 DEF DeferDelay, NULL, Pointer, Entry
    <3>2. next' \in [Entry -> Pointer] /\ signo' \in [Entry -> Sig]
      <4>1. CASE UNCHANGED pool
        BY <4>1
      <4>2. CASE pavail \in Entry /\ Enqueue(cur)
        <5> DEFINE linked == [next EXCEPT ![pavail] = NULL]
        <5>1. linked \in [Entry -> Pointer]
          <6>1. NULL \in Pointer
            BY DEF NULL, Pointer
          <6>2. QED
            BY <6>1
        <5>2. next' = linked \/ next' = [linked EXCEPT ![ptail] = pavail]
          BY <4>2 DEF Enqueue
        <5>3. pavail \in Pointer
          OBVIOUS
        <5> HIDE DEF linked
        <5>4. next' \in [Entry -> Pointer]
          BY <5>1, <5>2, <5>3
        <5>5. signo' \in [Entry -> Sig]
          BY <4>2 DEF Enqueue
        <5>6. QED
          BY <5>4, <5>5
      <4>3. QED
        BY <3>1, <4>1, <4>2
    <3>3. phead' \in Pointer /\ ptail' \in Pointer /\ pavail' \in Pointer
      BY <3>1 DEF Enqueue, NULL, Pointer, Entry
    <3>4. QED
      BY <2>6, <3>2, <3>3 DEF DeferDelay, DeferReturns, NULL, Pointer
  <2>7. CASE DrainNext
    <3>1. queue \in Entry /\ signo[queue] \in Sig /\ next[queue] \in Pointer
      BY <2>7 DEF DrainNext, NULL, Pointer, Entry
    <3>2. UNCHANGED pool \/ Recycle(queue)
      BY <2>7 DEF DrainNext
    <3>3. /\ next' \in [Entry -> Pointer] /\ signo' \in [Entry -> Sig]
          /\ phead' \in Pointer /\ ptail' \in Pointer /\ pavail' \in Pointer
      <4>1. CASE UNCHANGED pool
        BY <4>1
      <4>2. CASE Recycle(queue)
        <5>1. pavail \in Pointer /\ queue \in Pointer
          BY <3>1 DEF Pointer, Entry
        <5> QED
          BY <4>2, <5>1 DEF Recycle
      <4> QED
        BY <3>2, <4>1, <4>2
    <3>4. /\ running' \in 0 .. 1 /\ handlers' \in [Sig -> Handler]
          /\ mask' \subseteq Sig /\ queue' \in Pointer
          /\ call' \in Sig \X (0 .. 1)
      BY <2>7, <3>1 DEF DrainNext, Call, HandlerLeaves, HandlerKills,
                        HandlerBails, Handler, NULL, Pointer
    <3>5. QED
      BY <2>7, <3>3, <3>4 DEF DrainNext, HandlerLeaves, HandlerKills,
                              HandlerBails
  <2>8. CASE DrainEnd
    BY <2>8 DEF DrainEnd, DeferReturns, NULL, Pointer
  <2>9. CASE Block
    BY <2>9 DEF Block
  <2>10. CASE Unblock
    BY <2>10 DEF Unblock
  <2>11. CASE Compare
    BY <2>11 DEF Compare
  <2>12. CASE HandlerUnblock
    BY <2>12 DEF HandlerUnblock, PopHead, NULL, Pointer, Entry
  <2>13. CASE HandlerUnblockOnNULL
    BY <2>13 DEF HandlerUnblockOnNULL
  <2>14. CASE StartupStep
    BY <2>14 DEF StartupStep, ActivateHandlers, ActivateRegister, ActivateOpen,
                 SetTimeout, Handler
  <2>15. ASSUME NEW s \in Sig, NEW h \in Handler, SetHandler(s, h)
         PROVE TypeOK'
    BY <2>15 DEF SetHandler
  <2>16. CASE Shutdown
    BY <2>16 DEF Shutdown
  <2>17. CASE UNCHANGED vars
    BY <2>17 DEF vars
  <2>18. QED
    BY <2>1, <2>2, <2>3, <2>4, <2>5, <2>6, <2>7, <2>8, <2>9, <2>10, <2>11,
       <2>12, <2>13, <2>14, <2>15, <2>16, <2>17
       DEF Next, HandlerStep, CriticalStep
<1>3. QED
  BY <1>1, <1>2, PTL DEF Spec

-----------------------------------------------------------------------------
(* Handlers and critical sections.                                         *)

\* handler_defer reads depth once; the drain loop and handler_unblock rely on
\* it to stay 0.  Before the handlers are installed the handling is inactive.
SectionInv ==
    /\ hpc = "drain" => active = 1 /\ depth = 0
    /\ disposition = "original" => active = 0
    /\ hpc # "none" => disposition = "defer"
    /\ pc \in {"registered", "activated", "run", "compare", "unblock"} =>
         disposition = "defer"

LEMMA SectionInvariant == Spec => []SectionInv
<1> USE PROFAssumption, QSIZEAssumption, MaxDepthAssumption, OrigAssumption,
        SettableAssumption, FlagAssumption
    DEF PROFAssumption, QSIZEAssumption, MaxDepthAssumption, OrigAssumption,
        SettableAssumption, FlagAssumption
<1>1. Init => SectionInv
  BY DEF Init, SectionInv
<1>2. SectionInv /\ [Next]_vars => SectionInv'
  <2> SUFFICES ASSUME SectionInv, [Next]_vars PROVE SectionInv'
    OBVIOUS
  <2> USE DEF SectionInv, flags, pool, frame
  <2>1. ASSUME NEW s \in Sig, Arrive(s) \/ DeliverOriginal(s) \/ Deliver(s)
        PROVE SectionInv'
    BY <2>1 DEF Arrive, DeliverOriginal, Deliver
  <2>2. CASE DeferInactive
    BY <2>2 DEF DeferInactive, HandlerLeaves, HandlerKills, HandlerBails,
                DeferReturns
  <2>3. CASE DeferHandle
    BY <2>3 DEF DeferHandle, HandleFirst, HandleNested, DeferReturns, HandlerLeaves, HandlerKills, HandlerBails
  <2>4. CASE DeferDelay
    BY <2>4 DEF DeferDelay, DeferReturns
  <2>5. CASE DrainNext
    BY <2>5 DEF DrainNext, HandlerLeaves, HandlerKills, HandlerBails
  <2>6. CASE DrainEnd
    BY <2>6 DEF DrainEnd, DeferReturns
  <2>7. CASE Block \/ Unblock \/ CriticalStep
    BY <2>7 DEF Block, Unblock, CriticalStep, Compare, HandlerUnblock,
                HandlerUnblockOnNULL, At
  <2>8. CASE StartupStep
    BY <2>8 DEF StartupStep, ActivateHandlers, ActivateRegister, ActivateOpen,
                SetTimeout, At
  <2>9. ASSUME NEW s \in Sig, NEW h \in Handler, SetHandler(s, h)
        PROVE SectionInv'
    BY <2>9 DEF SetHandler
  <2>10. CASE Shutdown
    BY <2>10 DEF Shutdown, At
  <2>11. CASE UNCHANGED vars
    BY <2>11 DEF vars
  <2>12. QED
    BY <2>1, <2>2, <2>3, <2>4, <2>5, <2>6, <2>7, <2>8, <2>9, <2>10, <2>11
       DEF Next, HandlerStep
<1>3. QED
  BY <1>1, <1>2, PTL DEF Spec

\* No handler is called inside a critical section while signal handling is
\* active, however signals and BLOCK/UNBLOCK interleave.
THEOREM NoHandlerInSection == Spec => HandlersOutsideSections
<1>1. SectionInv /\ [Next]_vars => [call' # call => (active = 0 \/ depth = 0)]_vars
  <2> SUFFICES ASSUME SectionInv, Next, call' # call
               PROVE  active = 0 \/ depth = 0
    OBVIOUS
  <2>1. CASE \E s \in Sig : DeliverOriginal(s)
    BY <2>1 DEF DeliverOriginal, SectionInv
  <2>2. CASE DeferInactive \/ DeferHandle
    BY <2>2 DEF DeferInactive, DeferHandle, HandleNested
  <2>3. CASE DrainNext
    BY <2>3 DEF DrainNext, SectionInv
  <2>4. QED
    BY <2>1, <2>2, <2>3
       DEF Next, HandlerStep, CriticalStep, StartupStep, Arrive, Deliver,
           DeferDelay, DrainEnd, Block, Unblock, Compare, HandlerUnblock,
           HandlerUnblockOnNULL, ActivateHandlers, ActivateRegister,
           ActivateOpen, SetTimeout, SetHandler, Shutdown
<1>2. QED
  BY SectionInvariant, <1>1, PTL DEF Spec, HandlersOutsideSections

-----------------------------------------------------------------------------
(* Deferred signals and the end of their section.                          *)

\* Code that no handler of the kernel's has left in the middle: UNBLOCK's own
\* call of handler_defer is not running.
Plain == hpc = "none" \/ (hpc = "defer" /\ caller = "kernel")

\* handler_defer does not find that it runs a handler already.
NotNested ==
    /\ hpc # "none" => pc # "dead"
    /\ hpc # "drain" /\ pc # "dead" => running = 0

\* blocked and the pending queue, step by step: a signal waits only with
\* blocked = 0, blocked is -1 wherever depth is 0 except inside UNBLOCK, and
\* the drain loop runs with the queue detached.
StrandInv ==
    /\ NotNested
    /\ \A s \in Sig : handlers[s] # "timeout"
    /\ Plain /\ phead # NULL /\ pc # "dead" => blocked = 0
    /\ Plain /\ depth = 0 =>
         pc \in {"compare", "unblock", "dead", "crashed"} \/ blocked = -1
    /\ hpc = "drain" => blocked = -1 /\ phead = NULL /\ depth = 0
    /\ hpc # "none" /\ caller = "unblock" => pc = "unblock"
    /\ pc \in {"idle", "activate", "registered", "activated", "unblock"} =>
         depth = 0
    /\ pc \in {"activated", "run", "compare", "unblock"} => active = 1

LEMMA StrandInvariant == TimeLimit = FALSE => (Spec => []StrandInv)
<1> SUFFICES ASSUME TimeLimit = FALSE PROVE Spec => []StrandInv
  OBVIOUS
<1> USE PROFAssumption, QSIZEAssumption, MaxDepthAssumption, OrigAssumption,
        SettableAssumption, FlagAssumption
    DEF PROFAssumption, QSIZEAssumption, MaxDepthAssumption, OrigAssumption,
        SettableAssumption, FlagAssumption
<1>1. Init => StrandInv
  BY DEF Init, StrandInv, NotNested, Plain
<1>2. TypeOK /\ StrandInv /\ [Next]_vars => StrandInv'
  <2> SUFFICES ASSUME TypeOK, StrandInv, [Next]_vars PROVE StrandInv'
    OBVIOUS
  <2>0. /\ depth \in 0 .. MaxDepth /\ blocked \in {-1, 0} /\ active \in 0 .. 1
        /\ handlers \in [Sig -> Handler] /\ cur \in Sig
        /\ signo \in [Entry -> Sig] /\ queue \in Pointer
        /\ caller \in {"kernel", "unblock"}
    BY DEF TypeOK
  <2> USE DEF StrandInv, NotNested, Plain, flags, pool, frame
  <2>1. ASSUME NEW s \in Sig, Arrive(s) \/ DeliverOriginal(s) \/ Deliver(s)
        PROVE StrandInv'
    BY <2>1 DEF Arrive, DeliverOriginal, Deliver, InCode
  <2>2. CASE DeferInactive
    BY <2>0, <2>2 DEF DeferInactive, HandlerLeaves, HandlerKills, HandlerBails,
                      DeferReturns
  <2>3. CASE DeferHandle
    BY <2>0, <2>3 DEF DeferHandle, HandleFirst, HandleNested, DeferReturns, HandlerLeaves, HandlerKills, HandlerBails
  <2>4. CASE DeferDelay
    <3>1. caller = "kernel"
      BY <2>0, <2>4 DEF DeferDelay
    <3>2. QED
      BY <2>0, <2>4, <3>1 DEF DeferDelay, DeferReturns
  <2>5. CASE DrainNext
    <3>1. signo[queue] \in Sig
      BY <2>0, <2>5 DEF DrainNext, NULL, Pointer, Entry
    <3>2. QED
      BY <2>0, <2>5, <3>1 DEF DrainNext, HandlerLeaves, HandlerKills,
                              HandlerBails, Recycle
  <2>6. CASE DrainEnd
    BY <2>0, <2>6 DEF DrainEnd, DeferReturns
  <2>7. CASE Block
    BY <2>0, <2>7 DEF Block, At
  <2>8. CASE Unblock
    BY <2>0, <2>8 DEF Unblock, At
  <2>9. CASE CriticalStep
    BY <2>0, <2>9 DEF CriticalStep, Compare, HandlerUnblock,
                      HandlerUnblockOnNULL, At
  <2>10. CASE StartupStep
    <3>1. CASE ActivateHandlers
      BY <2>0, <3>1 DEF ActivateHandlers, At
    <3>2. CASE ActivateRegister
      BY <2>0, <3>2 DEF ActivateRegister, At
    <3>3. CASE ActivateOpen
      BY <2>0, <3>3 DEF ActivateOpen, At
    <3>4. CASE SetTimeout
      <4>1. handlers' = handlers
        BY <3>4, Zenon DEF SetTimeout
      <4>2. QED
        BY <2>0, <3>4, <4>1 DEF SetTimeout, At
    <3>5. QED
      BY <2>10, <3>1, <3>2, <3>3, <3>4 DEF StartupStep
  <2>11. ASSUME NEW s \in Sig, NEW h \in Handler, SetHandler(s, h)
         PROVE StrandInv'
    BY <2>0, <2>11 DEF SetHandler, At
  <2>12. CASE Shutdown
    BY <2>0, <2>12 DEF Shutdown, At
  <2>13. CASE UNCHANGED vars
    BY <2>13 DEF vars
  <2>14. QED
    BY <2>1, <2>2, <2>3, <2>4, <2>5, <2>6, <2>7, <2>8, <2>9, <2>10, <2>11,
       <2>12, <2>13 DEF Next, HandlerStep
<1>3. QED
  BY TypeCorrect, <1>1, <1>2, PTL DEF Spec

\* When no handler leaves by longjmp, no deferred signal outlives the UNBLOCK
\* that ends its critical section.
THEOREM NoSignalStranded == TimeLimit = FALSE => (Spec => []NothingStranded)
<1> SUFFICES ASSUME TimeLimit = FALSE PROVE Spec => []NothingStranded
  OBVIOUS
<1>1. TypeOK /\ StrandInv => NothingStranded
  BY DEF TypeOK, StrandInv, NothingStranded, Plain, At
<1>2. QED
  BY TypeCorrect, StrandInvariant, <1>1, PTL

-----------------------------------------------------------------------------
(* The time limit after a timeout.                                         *)

\* PROF is masked and running is 1 only while a handler runs: unless it kills the
\* process it undoes both, by returning as by longjmp.
TimeoutInv ==
    /\ hpc # "none" => pc \notin {"dead", "crashed"} /\ PROF \notin saved
    /\ hpc = "none" /\ pc # "dead" => PROF \notin mask
    /\ hpc # "drain" /\ pc # "dead" => running = 0

\* After zend_timeout has left its handler by longjmp, out of handler_defer, its
\* drain loop or the call of handler_unblock, the request can be timed out again.
THEOREM TimeoutStays == Spec => []TimeoutStaysDeliverable
<1>1. Init => TimeoutInv
  BY DEF Init, TimeoutInv
<1>2. TypeOK /\ TimeoutInv /\ [Next]_vars => TimeoutInv'
  <2> SUFFICES ASSUME TypeOK, TimeoutInv, [Next]_vars PROVE TimeoutInv'
    OBVIOUS
  <2> USE DEF TimeoutInv, flags, frame
  <2>1. ASSUME NEW s \in Sig, Arrive(s) \/ DeliverOriginal(s) PROVE TimeoutInv'
    BY <2>1 DEF Arrive, DeliverOriginal, InCode
  <2>2. ASSUME NEW s \in Sig, Deliver(s) PROVE TimeoutInv'
    BY <2>2 DEF Deliver, InCode
  <2>3. CASE DeferInactive
    BY <2>3 DEF DeferInactive, HandlerLeaves, HandlerKills, HandlerBails, DeferReturns
  <2>4. CASE DeferHandle
    BY <2>4 DEF DeferHandle, HandleFirst, HandleNested, DeferReturns, HandlerLeaves, HandlerKills, HandlerBails
  <2>5. CASE DeferDelay
    BY <2>5 DEF DeferDelay, DeferReturns
  <2>6. CASE DrainNext
    BY <2>6 DEF DrainNext, HandlerLeaves, HandlerKills, HandlerBails
  <2>7. CASE DrainEnd
    BY <2>7 DEF DrainEnd, DeferReturns
  <2>8. CASE Block \/ Unblock \/ CriticalStep
    BY <2>8 DEF Block, Unblock, CriticalStep, Compare, HandlerUnblock, HandlerUnblockOnNULL, At
  <2>9. CASE StartupStep
    BY <2>9 DEF StartupStep, ActivateHandlers, ActivateRegister, ActivateOpen, SetTimeout, At
  <2>10. ASSUME NEW s \in Sig, NEW h \in Handler, SetHandler(s, h) PROVE TimeoutInv'
    BY <2>10 DEF SetHandler, At
  <2>11. CASE Shutdown
    BY <2>11 DEF Shutdown, At
  <2>12. CASE UNCHANGED vars
    BY <2>12 DEF vars
  <2>13. QED
    BY <2>1, <2>2, <2>3, <2>4, <2>5, <2>6, <2>7, <2>8, <2>9, <2>10, <2>11, <2>12
       DEF Next, HandlerStep
<1>3. TimeoutInv => TimeoutStaysDeliverable
  BY DEF TimeoutInv, TimeoutStaysDeliverable, InCode
<1>4. QED
  BY TypeCorrect, <1>1, <1>2, <1>3, PTL DEF Spec

-----------------------------------------------------------------------------
(* Lists of queue entries.                                                 *)

NextType == [Entry -> Pointer]

\* The pointers from p on form the list s.
Forms(nx, p, s) ==
    /\ s \in Seq(Entry) /\ IsInjective(s)
    /\ p = IF Len(s) = 0 THEN NULL ELSE s[1]
    /\ \A i \in 1 .. Len(s) : nx[s[i]] = IF i = Len(s) THEN NULL ELSE s[i + 1]

LEMMA Pointers ==
    /\ NULL \in Pointer /\ NULL \notin Entry /\ Pointer = Entry \cup {NULL}
    /\ QSIZE \in Nat /\ QSIZE > 0
BY QSIZEAssumption DEF QSIZEAssumption, NULL, Pointer, Entry

\* What a list of entries is, by its indices.
LEMMA ListIndices ==
    ASSUME NEW s \in Seq(Entry)
    PROVE  /\ Len(s) \in Nat /\ DOMAIN s = 1 .. Len(s) /\ s \in [1 .. Len(s) -> Entry]
           /\ \A i \in 1 .. Len(s) : s[i] \in Entry /\ s[i] \in Range(s)
           /\ Range(s) \subseteq Entry
           /\ \A e \in Range(s) : \E i \in 1 .. Len(s) : s[i] = e
           /\ IsInjective(s) <=> \A i, j \in 1 .. Len(s) : s[i] = s[j] => i = j
           /\ (s = <<>>) <=> Len(s) = 0
<1>1. Len(s) \in Nat /\ DOMAIN s = 1 .. Len(s) /\ s \in [1 .. Len(s) -> Entry]
  BY LenProperties
<1>2. (s = <<>>) <=> Len(s) = 0
  BY EmptySeq
<1> QED
  BY <1>1, <1>2 DEF Range, IsInjective

\* A list has no more entries than the pool.
LEMMA ListLength ==
    ASSUME NEW s \in Seq(Entry), IsInjective(s)
    PROVE  Len(s) <= QSIZE
<1> SUFFICES ASSUME ~(Len(s) <= QSIZE) PROVE FALSE
  OBVIOUS
<1>1. Len(s) \in Nat /\ s \in [1 .. Len(s) -> Entry]
  BY ListIndices
<1>2. IsFiniteSet(1 .. Len(s)) /\ Cardinality(1 .. Len(s)) = Len(s)
  <2>1. IsFiniteSet(1 .. Len(s))
        /\ Cardinality(1 .. Len(s)) = IF 1 > Len(s) THEN 0 ELSE Len(s) - 1 + 1
    BY <1>1, FS_Interval
  <2> QED
    BY <1>1, <2>1
<1>3. IsFiniteSet(Entry) /\ Cardinality(Entry) = QSIZE
  <2>1. IsFiniteSet(1 .. QSIZE) /\ Cardinality(1 .. QSIZE) = IF 1 > QSIZE THEN 0 ELSE QSIZE - 1 + 1
    BY Pointers, FS_Interval
  <2> QED
    BY Pointers, <2>1 DEF Entry
<1>4. Cardinality(Entry) < Cardinality(1 .. Len(s))
  BY <1>1, <1>2, <1>3, Pointers
<1>5. PICK i, j \in 1 .. Len(s) : i # j /\ s[i] = s[j]
  BY <1>1, <1>2, <1>3, <1>4, FS_PigeonHole
<1> QED
  BY <1>5, ListIndices

\* What the pointers form is what List reads.
LEMMA ListReads ==
    ASSUME NEW nx \in NextType, NEW p, NEW s, Forms(nx, p, s)
    PROVE  List(nx, p) = s
<1> DEFINE at == CHOOSE w : Walks(w, Follow(nx), p, QSIZE)
           I == {j \in 0 .. QSIZE : at[j] # NULL}
           n == Len(s)
<1>1. /\ n \in Nat /\ n <= QSIZE /\ QSIZE \in Nat /\ s \in [1 .. n -> Entry]
      /\ p \in Pointer /\ Follow(nx) \in [Pointer -> Pointer]
  <2>1. s \in Seq(Entry) /\ IsInjective(s) /\ p = IF n = 0 THEN NULL ELSE s[1]
    BY DEF Forms
  <2>2. n \in Nat /\ n <= QSIZE /\ s \in [1 .. n -> Entry]
    BY <2>1, ListIndices, ListLength
  <2>3. p \in Pointer
    BY <2>1, <2>2, Pointers
  <2>4. Follow(nx) \in [Pointer -> Pointer]
    BY Pointers DEF Follow, NextType
  <2> QED
    BY <2>2, <2>3, <2>4, Pointers
<1>2. Walks(at, Follow(nx), p, QSIZE)
  <2>1. \E w : Walks(w, Follow(nx), p, QSIZE)
    BY <1>1, WalkExists
  <2> QED
    BY <2>1
<1>3. List(nx, p) = [i \in 1 .. Cardinality(I) |-> at[i - 1]]
  BY DEF List, Walks
<1> HIDE DEF at, n
<1>4. \A i \in 0 .. QSIZE : at[i] = IF i = 0 THEN p ELSE Follow(nx)[at[i - 1]]
  BY <1>2 DEF Walks
<1> DEFINE T == {i \in 0 .. QSIZE : at[i] = IF i < n THEN s[i + 1] ELSE NULL}
<1>5. 0 \in T
  <2>1. p = IF n = 0 THEN NULL ELSE s[1]
    BY DEF Forms, n
  <2> QED
    BY <2>1, <1>1, <1>4
<1>6. ASSUME NEW i \in 0 .. QSIZE, i # QSIZE, i \in T PROVE i + 1 \in T
  <2>1. i + 1 \in 0 .. QSIZE /\ i + 1 # 0 /\ (i + 1) - 1 = i /\ i \in Nat
    BY <1>1, <1>6
  <2>2. at[i + 1] = Follow(nx)[at[i]]
    BY <1>4, <2>1
  <2>3. at[i] = IF i < n THEN s[i + 1] ELSE NULL
    BY <1>6
  <2>4. CASE i < n
    <3>1. i + 1 \in 1 .. n /\ s[i + 1] \in Entry /\ at[i] = s[i + 1]
      BY <1>1, <2>1, <2>3, <2>4
    <3>2. nx[s[i + 1]] = IF i + 1 = n THEN NULL ELSE s[(i + 1) + 1]
      BY <3>1 DEF Forms, n
    <3>3. at[i + 1] = nx[s[i + 1]]
      BY <2>2, <3>1, Pointers DEF Follow
    <3>4. i + 1 < n <=> i + 1 # n
      BY <1>1, <2>1, <2>4
    <3> QED
      BY <2>1, <3>2, <3>3, <3>4
  <2>5. CASE ~(i < n)
    <3>1. at[i] = NULL /\ ~(i + 1 < n)
      BY <1>1, <2>1, <2>3, <2>5
    <3>2. at[i + 1] = NULL
      BY <2>2, <3>1, Pointers DEF Follow
    <3> QED
      BY <2>1, <3>1, <3>2
  <2> QED
    BY <2>4, <2>5
<1>7. \A i \in 0 .. QSIZE : at[i] = IF i < n THEN s[i + 1] ELSE NULL
  <2>1. 0 .. QSIZE \subseteq T
    <3> HIDE DEF T
    <3> QED
      BY <1>1, <1>5, <1>6, UpTo
  <2> QED
    BY <2>1
<1>8. Cardinality(I) = n
  <2>1. I = 0 .. n - 1
    <3>1. \A i \in 0 .. QSIZE : i < n => at[i] \in Entry
      BY <1>1, <1>7
    <3> QED
      BY <3>1, <1>1, <1>7, Pointers
  <2>2. Cardinality(0 .. n - 1) = IF 0 > n - 1 THEN 0 ELSE (n - 1) - 0 + 1
    BY <1>1, FS_Interval
  <2>3. Cardinality(0 .. n - 1) = n
    <3>1. (IF 0 > n - 1 THEN 0 ELSE (n - 1) - 0 + 1) = n
      BY <1>1
    <3> QED
      BY <2>2, <3>1
  <2> HIDE DEF I
  <2> QED
    BY <2>1, <2>3
<1>9. \A i \in 1 .. n : at[i - 1] = s[i]
  BY <1>1, <1>7
<1> QED
  BY <1>1, <1>3, <1>8, <1>9

\* A list whose entries are not written stays.
LEMMA ListKept ==
    ASSUME NEW nx, NEW nx2, NEW p, NEW s, Forms(nx, p, s),
           \A a \in Range(s) : nx2[a] = nx[a]
    PROVE  Forms(nx2, p, s)
<1>1. \A i \in 1 .. Len(s) : s[i] \in Range(s)
  BY ListIndices DEF Forms
<1> QED
  BY <1>1 DEF Forms

\* NULL is the empty list and nothing else is.
LEMMA EmptyList ==
    /\ \A nx : Forms(nx, NULL, <<>>)
    /\ \A nx, p, s : Forms(nx, p, s) => (p = NULL <=> s = <<>>) /\ s \in Seq(Entry)
                                        /\ IsInjective(s) /\ Range(s) \subseteq Entry
<1>1. ASSUME NEW nx PROVE Forms(nx, NULL, <<>>)
  <2>1. <<>> \in Seq(Entry) /\ Len(<<>>) = 0
    BY EmptySeq
  <2>2. IsInjective(<<>>)
    <3>1. PICK s \in Seq(Entry) : s = <<>>
      BY <2>1
    <3>2. Len(s) = 0
      BY <2>1, <3>1
    <3>3. \A i, j \in 1 .. Len(s) : s[i] = s[j] => i = j
      BY <3>2
    <3>4. IsInjective(s)
      BY <3>3, ListIndices
    <3> QED
      BY <3>1, <3>4
  <2>3. \A i \in 1 .. Len(<<>>) : FALSE
    BY <2>1
  <2> QED
    BY <2>1, <2>2, <2>3 DEF Forms
<1>2. ASSUME NEW nx, NEW p, NEW s, Forms(nx, p, s)
      PROVE  (p = NULL <=> s = <<>>) /\ s \in Seq(Entry) /\ IsInjective(s) /\ Range(s) \subseteq Entry
  <2>1. s \in Seq(Entry) /\ IsInjective(s) /\ p = IF Len(s) = 0 THEN NULL ELSE s[1]
    BY <1>2 DEF Forms
  <2>2. Len(s) # 0 => s[1] \in Entry
    BY <2>1, ListIndices
  <2> QED
    BY <2>1, <2>2, ListIndices, Pointers
<1> QED
  BY <1>1, <1>2

\* The first entry leaves a list.
LEMMA TakeFirst ==
    ASSUME NEW nx, NEW p, NEW s, Forms(nx, p, s), p # NULL
    PROVE  /\ s # <<>> /\ p \in Entry /\ p = s[1] /\ p = Head(s) /\ p \in Range(s)
           /\ Forms(nx, nx[p], Tail(s))
           /\ Range(Tail(s)) = Range(s) \ {p} /\ Len(s) = Len(Tail(s)) + 1
           /\ s[Len(s)] = IF Len(s) = 1 THEN p ELSE Tail(s)[Len(Tail(s))]
<1>1. s \in Seq(Entry) /\ IsInjective(s) /\ s # <<>>
  BY EmptyList
<1>2. PICK n \in Nat : n = Len(s) - 1 /\ Len(s) = n + 1
  BY <1>1, ListIndices
<1>3. PICK t \in Seq(Entry) : t = Tail(s)
  BY <1>1, HeadTailProperties
<1>4. Len(t) = n /\ \A i \in 1 .. n : t[i] = s[i + 1]
  BY <1>1, <1>2, <1>3, HeadTailProperties
<1>5. /\ \A i, j \in 1 .. n + 1 : s[i] = s[j] => i = j
      /\ \A i \in 1 .. n + 1 : s[i] \in Entry /\ s[i] \in Range(s)
      /\ \A e \in Range(s) : \E i \in 1 .. n + 1 : s[i] = e
  BY <1>1, <1>2, ListIndices
<1>6. p = s[1] /\ p \in Entry /\ p \in Range(s) /\ p = Head(s)
  BY <1>1, <1>2, <1>5 DEF Forms
<1>7. Range(t) = Range(s) \ {p}
  <2>1. ASSUME NEW e \in Range(t) PROVE e \in Range(s) \ {p}
    <3>1. PICK i \in 1 .. n : t[i] = e
      BY <1>4, <2>1, ListIndices
    <3>2. e = s[i + 1] /\ i + 1 \in 1 .. n + 1 /\ 1 \in 1 .. n + 1 /\ i + 1 # 1
      BY <1>4, <3>1
    <3> QED
      BY <1>5, <1>6, <3>2
  <2>2. ASSUME NEW e \in Range(s) \ {p} PROVE e \in Range(t)
    <3>1. PICK i \in 1 .. n + 1 : s[i] = e
      BY <1>5
    <3>2. i - 1 \in 1 .. n /\ (i - 1) + 1 = i
      BY <1>6, <2>2, <3>1
    <3>3. t[i - 1] = e
      BY <1>4, <3>1, <3>2
    <3> QED
      BY <1>4, <3>2, <3>3, ListIndices
  <2> QED
    BY <2>1, <2>2
<1>8. \A i \in 1 .. n + 1 : nx[s[i]] = IF i = n + 1 THEN NULL ELSE s[i + 1]
  BY <1>2 DEF Forms
<1>9. Forms(nx, nx[p], t)
  <2>1. \A i, j \in 1 .. n : t[i] = t[j] => i = j
    <3> SUFFICES ASSUME NEW i \in 1 .. n, NEW j \in 1 .. n, t[i] = t[j] PROVE i = j
      OBVIOUS
    <3>1. i + 1 \in 1 .. n + 1 /\ j + 1 \in 1 .. n + 1 /\ s[i + 1] = s[j + 1]
      BY <1>4
    <3>2. i + 1 = j + 1
      BY <1>5, <3>1
    <3> QED
      BY <3>2
  <2>2. IsInjective(t)
    BY <1>4, <2>1, ListIndices
  <2>3. nx[p] = IF n = 0 THEN NULL ELSE t[1]
    <3>1. nx[p] = IF 1 = n + 1 THEN NULL ELSE s[1 + 1]
      BY <1>6, <1>8
    <3>2. CASE n = 0
      BY <3>1, <3>2
    <3>3. CASE n # 0
      <4>1. t[1] = s[1 + 1] /\ 1 # n + 1
        BY <1>4, <3>3
      <4> QED
        BY <3>1, <3>3, <4>1
    <3> QED
      BY <3>2, <3>3
  <2>4. \A i \in 1 .. n : nx[t[i]] = IF i = n THEN NULL ELSE t[i + 1]
    <3> SUFFICES ASSUME NEW i \in 1 .. n PROVE nx[t[i]] = IF i = n THEN NULL ELSE t[i + 1]
      OBVIOUS
    <3>1. i + 1 \in 1 .. n + 1 /\ t[i] = s[i + 1]
      BY <1>4
    <3>2. nx[t[i]] = IF i + 1 = n + 1 THEN NULL ELSE s[(i + 1) + 1]
      BY <1>8, <3>1
    <3>3. CASE i = n
      BY <3>2, <3>3
    <3>4. CASE i # n
      <4>1. i + 1 # n + 1 /\ i + 1 \in 1 .. n
        BY <3>4
      <4>2. t[i + 1] = s[(i + 1) + 1]
        BY <1>4, <4>1
      <4> QED
        BY <3>2, <3>4, <4>1, <4>2
    <3> QED
      BY <3>3, <3>4
  <2> QED
    BY <1>4, <2>2, <2>3, <2>4 DEF Forms
<1>10. s[n + 1] = IF n + 1 = 1 THEN p ELSE t[n]
  <2>1. CASE n = 0
    BY <2>1, <1>6
  <2>2. CASE n # 0
    BY <2>2, <1>4
  <2> QED
    BY <2>1, <2>2
<1> QED
  BY <1>1, <1>2, <1>3, <1>4, <1>6, <1>7, <1>9, <1>10

\* An entry that is not in a list becomes its first one.
LEMMA PutFirst ==
    ASSUME NEW nx, NEW nx2, NEW p, NEW s, Forms(nx, p, s), NEW e \in Entry, e \notin Range(s),
           nx2[e] = p, \A a \in Range(s) : nx2[a] = nx[a]
    PROVE  \E t : /\ Forms(nx2, e, t) /\ Range(t) = Range(s) \cup {e} /\ Len(t) = Len(s) + 1
<1>1. s \in Seq(Entry) /\ IsInjective(s)
  BY EmptyList
<1>2. PICK n \in Nat : n = Len(s)
  BY <1>1, ListIndices
<1>3. /\ \A i, j \in 1 .. n : s[i] = s[j] => i = j
      /\ \A i \in 1 .. n : s[i] \in Entry /\ s[i] \in Range(s)
      /\ \A a \in Range(s) : \E i \in 1 .. n : s[i] = a
  BY <1>1, <1>2, ListIndices
<1> DEFINE u == [i \in 1 .. n + 1 |-> IF i = 1 THEN e ELSE s[i - 1]]
<1>4. PICK t \in Seq(Entry) : t = u
  <2>1. \A i \in 1 .. n + 1 : (IF i = 1 THEN e ELSE s[i - 1]) \in Entry
    BY <1>3
  <2>2. u \in [1 .. n + 1 -> Entry] /\ n + 1 \in Nat
    BY <2>1
  <2> HIDE DEF u
  <2>3. u \in Seq(Entry)
    BY <2>2, SeqDef
  <2> QED
    BY <2>3
<1>5. DOMAIN t = 1 .. n + 1 /\ t[1] = e /\ \A i \in 1 .. n : t[i + 1] = s[i]
  BY <1>4
<1>6. Len(t) = n + 1
  <2>1. Len(t) \in Nat /\ 1 .. Len(t) = 1 .. n + 1
    BY <1>5, ListIndices
  <2> QED
    BY <2>1
<1> HIDE DEF u
<1>7. \A i \in 1 .. n + 1 : i = 1 \/ \E j \in 1 .. n : i = j + 1
  <2> SUFFICES ASSUME NEW i \in 1 .. n + 1, i # 1 PROVE \E j \in 1 .. n : i = j + 1
    OBVIOUS
  <2>1. i - 1 \in 1 .. n /\ i = (i - 1) + 1
    OBVIOUS
  <2> QED
    BY <2>1
<1>8. Range(t) = Range(s) \cup {e}
  <2>1. ASSUME NEW a \in Range(t) PROVE a \in Range(s) \cup {e}
    <3>1. PICK i \in 1 .. n + 1 : t[i] = a
      BY <1>6, <2>1, ListIndices
    <3>2. CASE i = 1
      BY <1>5, <3>1, <3>2
    <3>3. CASE i # 1
      <4>1. PICK j \in 1 .. n : i = j + 1
        BY <1>7, <3>3
      <4>2. a = s[j]
        BY <1>5, <3>1, <4>1
      <4> QED
        BY <1>3, <4>2
    <3> QED
      BY <3>2, <3>3
  <2>2. ASSUME NEW a \in Range(s) \cup {e} PROVE a \in Range(t)
    <3>1. \A i \in 1 .. n + 1 : t[i] \in Range(t)
      BY <1>6, ListIndices
    <3>2. CASE a = e
      <4>1. 1 \in 1 .. n + 1
        OBVIOUS
      <4> QED
        BY <1>5, <3>1, <3>2, <4>1
    <3>3. CASE a # e
      <4>1. PICK i \in 1 .. n : s[i] = a
        BY <1>3, <2>2, <3>3
      <4>2. i + 1 \in 1 .. n + 1 /\ t[i + 1] = a
        BY <1>5, <4>1
      <4> QED
        BY <3>1, <4>2
    <3> QED
      BY <3>2, <3>3
  <2> QED
    BY <2>1, <2>2
<1>9. IsInjective(t)
  <2>1. \A i, j \in 1 .. n + 1 : t[i] = t[j] => i = j
    <3> SUFFICES ASSUME NEW i \in 1 .. n + 1, NEW j \in 1 .. n + 1, t[i] = t[j] PROVE i = j
      OBVIOUS
    <3>1. ASSUME NEW k \in 1 .. n PROVE t[k + 1] # e
      <4>1. t[k + 1] = s[k] /\ s[k] \in Range(s)
        BY <1>3, <1>5
      <4> QED
        BY <4>1
    <3>2. CASE i = 1 \/ j = 1
      BY <3>1, <3>2, <1>5, <1>7, ZenonT(40)
    <3>3. CASE i # 1 /\ j # 1
      <4>1. PICK k \in 1 .. n : i = k + 1
        BY <1>7, <3>3
      <4>2. PICK m \in 1 .. n : j = m + 1
        BY <1>7, <3>3
      <4>3. s[k] = s[m]
        BY <1>5, <4>1, <4>2
      <4> QED
        BY <1>3, <4>1, <4>2, <4>3
    <3> QED
      BY <3>2, <3>3
  <2> QED
    BY <2>1, <1>6, ListIndices
<1>10. \A i \in 1 .. n + 1 : nx2[t[i]] = IF i = n + 1 THEN NULL ELSE t[i + 1]
  <2>1. nx2[t[1]] = IF 1 = n + 1 THEN NULL ELSE t[1 + 1]
    <3>1. nx2[t[1]] = IF n = 0 THEN NULL ELSE s[1]
      BY <1>2, <1>5 DEF Forms
    <3>2. CASE n = 0
      BY <3>1, <3>2
    <3>3. CASE n # 0
      <4>1. 1 \in 1 .. n /\ 1 # n + 1
        BY <3>3
      <4>2. t[1 + 1] = s[1]
        BY <1>5, <4>1
      <4> QED
        BY <3>1, <3>3, <4>1, <4>2
    <3> QED
      BY <3>2, <3>3
  <2>2. ASSUME NEW i \in 1 .. n
        PROVE  nx2[t[i + 1]] = IF i + 1 = n + 1 THEN NULL ELSE t[(i + 1) + 1]
    <3>1. nx2[t[i + 1]] = nx[s[i]]
      BY <1>3, <1>5
    <3>2. nx[s[i]] = IF i = n THEN NULL ELSE s[i + 1]
      BY <1>2 DEF Forms
    <3>3. CASE i = n
      BY <3>1, <3>2, <3>3
    <3>4. CASE i # n
      <4>1. i + 1 \in 1 .. n /\ i + 1 # n + 1
        BY <3>4
      <4>2. t[(i + 1) + 1] = s[i + 1]
        BY <1>5, <4>1
      <4> QED
        BY <3>1, <3>2, <3>4, <4>1, <4>2
    <3> QED
      BY <3>3, <3>4
  <2>3. ASSUME NEW i \in 1 .. n + 1 PROVE nx2[t[i]] = IF i = n + 1 THEN NULL ELSE t[i + 1]
    <3>1. CASE i = 1
      BY <2>1, <3>1
    <3>2. CASE i # 1
      <4>1. PICK j \in 1 .. n : i = j + 1
        BY <1>7, <3>2
      <4>2. nx2[t[j + 1]] = IF j + 1 = n + 1 THEN NULL ELSE t[(j + 1) + 1]
        BY <2>2
      <4> QED
        BY <4>1, <4>2, Zenon
    <3> QED
      BY <3>1, <3>2
  <2> QED
    BY <2>3
<1>11. Forms(nx2, e, t)
  <2>1. e = IF Len(t) = 0 THEN NULL ELSE t[1]
    BY <1>5, <1>6
  <2>2. \A i \in 1 .. Len(t) : nx2[t[i]] = IF i = Len(t) THEN NULL ELSE t[i + 1]
    BY <1>6, <1>10
  <2> QED
    BY <1>9, <2>1, <2>2 DEF Forms
<1> QED
  BY <1>2, <1>6, <1>8, <1>11

\* An entry that is not in a list becomes its last one.
Appended(nx, nx2, p, p2, s, e) ==
    /\ p2 = IF p = NULL THEN e ELSE p
    /\ nx2[e] = NULL
    /\ p # NULL => nx2[s[Len(s)]] = e
    /\ \A a \in Range(s) : p # NULL /\ a # s[Len(s)] => nx2[a] = nx[a]

LEMMA PutLast ==
    ASSUME NEW nx, NEW nx2, NEW p, NEW p2, NEW s, NEW e, Forms(nx, p, s), e \in Entry,
           e \notin Range(s), Appended(nx, nx2, p, p2, s, e)
    PROVE  /\ Forms(nx2, p2, Append(s, e)) /\ Range(Append(s, e)) = Range(s) \cup {e}
           /\ Append(s, e)[Len(Append(s, e))] = e
<1>0. /\ p2 = IF p = NULL THEN e ELSE p
      /\ nx2[e] = NULL
      /\ p # NULL => nx2[s[Len(s)]] = e
      /\ \A a \in Range(s) : p # NULL /\ a # s[Len(s)] => nx2[a] = nx[a]
  BY DEF Appended
<1>1. s \in Seq(Entry) /\ IsInjective(s) /\ (p = NULL <=> s = <<>>)
  BY EmptyList
<1>2. PICK n \in Nat : n = Len(s)
  BY <1>1, ListIndices
<1>3. /\ \A i, j \in 1 .. n : s[i] = s[j] => i = j
      /\ \A i \in 1 .. n : s[i] \in Entry /\ s[i] \in Range(s)
      /\ \A a \in Range(s) : \E i \in 1 .. n : s[i] = a
      /\ p = NULL <=> n = 0
  BY <1>1, <1>2, ListIndices
<1>4. PICK t \in Seq(Entry) : t = Append(s, e)
  BY <1>1, AppendProperties
<1>5. Len(t) = n + 1 /\ t[n + 1] = e /\ \A i \in 1 .. n : t[i] = s[i]
  BY <1>1, <1>2, <1>4, AppendProperties
<1>6. /\ \A i \in 1 .. n + 1 : t[i] \in Range(t)
      /\ \A a \in Range(t) : \E i \in 1 .. n + 1 : t[i] = a
  <2>1. /\ \A i \in 1 .. Len(t) : t[i] \in Range(t)
        /\ \A a \in Range(t) : \E i \in 1 .. Len(t) : t[i] = a
    BY <1>4, ListIndices
  <2> QED
    BY <2>1, <1>5
<1>7. \A i \in 1 .. n + 1 : i = n + 1 \/ i \in 1 .. n
  OBVIOUS
<1>8. Range(t) = Range(s) \cup {e}
  <2>1. n + 1 \in 1 .. n + 1 /\ \A i \in 1 .. n : i \in 1 .. n + 1
    OBVIOUS
  <2>2. ASSUME NEW a \in Range(t) PROVE a \in Range(s) \cup {e}
    BY <1>3, <1>5, <1>6, <1>7
  <2>3. ASSUME NEW a \in Range(s) \cup {e} PROVE a \in Range(t)
    BY <1>3, <1>5, <1>6, <2>1
  <2> QED
    BY <2>2, <2>3
<1>9. IsInjective(t)
  <2>1. \A i, j \in 1 .. n + 1 : t[i] = t[j] => i = j
    <3> SUFFICES ASSUME NEW i \in 1 .. n + 1, NEW j \in 1 .. n + 1, t[i] = t[j] PROVE i = j
      OBVIOUS
    <3>1. \A k \in 1 .. n : t[k] # e
      BY <1>3, <1>5
    <3> QED
      BY <3>1, <1>3, <1>5, <1>7
  <2> QED
    BY <2>1, <1>4, <1>5, ListIndices, ZenonT(40)
<1>10. \A i \in 1 .. n : nx[s[i]] = IF i = n THEN NULL ELSE s[i + 1]
  BY <1>2 DEF Forms
<1>11. ASSUME NEW i \in 1 .. n + 1 PROVE nx2[t[i]] = IF i = n + 1 THEN NULL ELSE t[i + 1]
  <2>1. CASE i = n + 1
    BY <2>1, <1>0, <1>5
  <2>2. CASE i = n
    <3>1. n \in 1 .. n /\ n # 0 /\ n # n + 1
      BY <2>2, <1>7
    <3>2. nx2[s[n]] = e
      BY <3>1, <1>0, <1>2, <1>3
    <3> QED
      BY <2>2, <3>1, <3>2, <1>5
  <2>3. CASE i # n /\ i # n + 1
    <3>1. i \in 1 .. n /\ n \in 1 .. n /\ i + 1 \in 1 .. n /\ n # 0
      BY <2>3
    <3>2. s[i] \in Range(s) /\ s[i] # s[Len(s)] /\ p # NULL
      BY <2>3, <3>1, <1>2, <1>3
    <3>3. nx2[s[i]] = nx[s[i]]
      BY <3>2, <1>0
    <3>4. nx[s[i]] = s[i + 1] /\ t[i] = s[i] /\ t[i + 1] = s[i + 1]
      BY <2>3, <3>1, <1>5, <1>10
    <3> QED
      BY <2>3, <3>3, <3>4
  <2> QED
    BY <2>1, <2>2, <2>3
<1>12. p2 = t[1]
  <2>1. CASE n = 0
    BY <2>1, <1>0, <1>3, <1>5
  <2>2. CASE n # 0
    <3>1. 1 \in 1 .. n
      BY <2>2
    <3>2. p = s[1]
      BY <2>2, <1>2 DEF Forms
    <3> QED
      BY <2>2, <3>1, <3>2, <1>0, <1>3, <1>5
  <2> QED
    BY <2>1, <2>2
<1>13. Forms(nx2, p2, t)
  <2>1. Len(t) # 0
    BY <1>5
  <2>2. \A i \in 1 .. Len(t) : nx2[t[i]] = IF i = Len(t) THEN NULL ELSE t[i + 1]
    BY <1>5, <1>11
  <2> QED
    BY <1>9, <1>12, <2>1, <2>2 DEF Forms
<1> QED
  BY <1>4, <1>5, <1>8, <1>13

-----------------------------------------------------------------------------
(* The pool.                                                               *)

\* The pointers form three lists without a common entry: what waits, what is
\* being drained and what is available.
Lists(P, D, A) ==
    /\ Forms(next, phead, P) /\ Forms(next, queue, D) /\ Forms(next, pavail, A)
    /\ Apart(P, D, A)
    /\ phead # NULL => ptail = P[Len(P)]

\* The drain loop runs on a detached queue, and handler_unblock calls
\* handler_defer with the handling active and outside every section.
ControlInv ==
    /\ NotNested
    /\ hpc = "drain" => phead = NULL /\ depth = 0 /\ active = 1
    /\ hpc # "drain" => queue = NULL
    /\ hpc # "none" /\ caller = "unblock" => pc = "unblock" /\ active = 1
    /\ pc \in {"idle", "activate", "registered", "activated", "unblock"} => depth = 0
    /\ hpc = "none" => caller = "kernel"

LEMMA ControlInvariant == Spec => []ControlInv
<1> USE PROFAssumption, QSIZEAssumption, MaxDepthAssumption, OrigAssumption,
        SettableAssumption, FlagAssumption
    DEF PROFAssumption, QSIZEAssumption, MaxDepthAssumption, OrigAssumption,
        SettableAssumption, FlagAssumption
<1>1. Init => ControlInv
  BY DEF Init, ControlInv, NotNested
<1>2. TypeOK /\ ControlInv /\ [Next]_vars => ControlInv'
  <2> SUFFICES ASSUME TypeOK, ControlInv, [Next]_vars PROVE ControlInv'
    OBVIOUS
  <2>0. depth \in 0 .. MaxDepth /\ blocked \in {-1, 0}
    BY DEF TypeOK
  <2> USE DEF ControlInv, NotNested, flags, pool, frame
  <2>1. ASSUME NEW s \in Sig, Arrive(s) \/ DeliverOriginal(s) \/ Deliver(s)
        PROVE ControlInv'
    BY <2>1 DEF Arrive, DeliverOriginal, Deliver, InCode
  <2>2. CASE DeferInactive
    BY <2>2 DEF DeferInactive, HandlerLeaves, HandlerKills, HandlerBails, DeferReturns
  <2>3. CASE DeferHandle
    BY <2>3 DEF DeferHandle, HandleFirst, HandleNested, DeferReturns, HandlerLeaves, HandlerKills, HandlerBails
  <2>4. CASE DeferDelay
    BY <2>4 DEF DeferDelay, DeferReturns
  <2>5. CASE DrainNext
    BY <2>5 DEF DrainNext, HandlerLeaves, HandlerKills, HandlerBails, Recycle
  <2>6. CASE DrainEnd
    BY <2>6 DEF DrainEnd, DeferReturns
  <2>7. CASE Block \/ Unblock
    BY <2>0, <2>7 DEF Block, Unblock, At
  <2>8. CASE CriticalStep
    BY <2>0, <2>8 DEF CriticalStep, Compare, HandlerUnblock, HandlerUnblockOnNULL, At
  <2>9. CASE StartupStep
    BY <2>9 DEF StartupStep, ActivateHandlers, ActivateRegister, ActivateOpen, SetTimeout, At
  <2>10. ASSUME NEW s \in Sig, NEW h \in Handler, SetHandler(s, h) PROVE ControlInv'
    BY <2>10 DEF SetHandler, At
  <2>11. CASE Shutdown
    BY <2>11 DEF Shutdown, At
  <2>12. CASE UNCHANGED vars
    BY <2>12 DEF vars
  <2>13. QED
    BY <2>1, <2>2, <2>3, <2>4, <2>5, <2>6, <2>7, <2>8, <2>9, <2>10, <2>11, <2>12
       DEF Next, HandlerStep
<1>3. QED
  BY TypeCorrect, <1>1, <1>2, PTL DEF Spec

LEMMA ListsInit ==
    ASSUME Init
    PROVE  \E A : Lists(<<>>, <<>>, A) /\ Range(A) = Entry /\ Len(A) = QSIZE
<1> DEFINE a == [i \in 1 .. QSIZE |-> QSIZE + 1 - i]
<1>1. PICK A \in Seq(Entry) : A = a
  <2>1. a \in [1 .. QSIZE -> Entry] /\ QSIZE \in Nat
    BY Pointers DEF Entry
  <2> HIDE DEF a
  <2> QED
    BY <2>1, SeqDef
<1>2. DOMAIN A = 1 .. QSIZE /\ \A i \in 1 .. QSIZE : A[i] = QSIZE + 1 - i
  BY <1>1
<1>3. Len(A) = QSIZE
  <2>1. Len(A) \in Nat /\ 1 .. Len(A) = 1 .. QSIZE
    BY <1>2, ListIndices
  <2> QED
    BY <2>1, Pointers
<1> HIDE DEF a
<1>4. IsInjective(A)
  <2>1. \A i, j \in 1 .. Len(A) : A[i] = A[j] => i = j
    BY <1>2, <1>3, Pointers
  <2> QED
    BY <2>1, ListIndices
<1>5. Range(A) = Entry
  <2>1. \A e \in Entry : QSIZE + 1 - e \in 1 .. QSIZE /\ A[QSIZE + 1 - e] = e
    <3> SUFFICES ASSUME NEW e \in Entry
                 PROVE  QSIZE + 1 - e \in 1 .. QSIZE /\ A[QSIZE + 1 - e] = e
      OBVIOUS
    <3>1. QSIZE + 1 - e \in 1 .. QSIZE /\ QSIZE + 1 - (QSIZE + 1 - e) = e
      BY Pointers DEF Entry
    <3> QED
      BY <3>1, <1>2
  <2>2. \A e \in Entry : e \in Range(A)
    BY <2>1, <1>3, ListIndices
  <2> QED
    BY <2>2, ListIndices
<1>6. Forms(next, pavail, A)
  <2>1. pavail = A[1]
    <3>1. 1 \in 1 .. QSIZE
      BY Pointers
    <3> QED
      BY <3>1, <1>2, Pointers DEF Init
  <2>2. ASSUME NEW i \in 1 .. QSIZE PROVE next[A[i]] = IF i = QSIZE THEN NULL ELSE A[i + 1]
    <3>1. A[i] \in Entry /\ A[i] = QSIZE + 1 - i
      BY <1>2, <1>3, ListIndices
    <3>2. next[A[i]] = QSIZE - i
      BY <3>1, Pointers DEF Init
    <3>3. CASE i = QSIZE
      BY <3>2, <3>3, Pointers DEF NULL
    <3>4. CASE i # QSIZE
      <4>1. i + 1 \in 1 .. QSIZE /\ QSIZE + 1 - (i + 1) = QSIZE - i
        BY <3>4, Pointers
      <4> QED
        BY <4>1, <3>2, <3>4, <1>2
    <3> QED
      BY <3>3, <3>4
  <2> QED
    BY <2>1, <2>2, <1>3, <1>4, Pointers DEF Forms
<1>7. Forms(next, phead, <<>>) /\ Forms(next, queue, <<>>) /\ phead = NULL
  BY EmptyList DEF Init
<1>8. Range(<<>>) = {} /\ IsInjective(<<>>)
  BY EmptyList DEF Range
<1>9. Lists(<<>>, <<>>, A)
  BY <1>4, <1>6, <1>7, <1>8 DEF Lists, Apart
<1> QED
  BY <1>3, <1>5, <1>9

\* What the lists are while the pool is not written.
LEMMA ListsStay ==
    ASSUME NEW P, NEW D, NEW A, Lists(P, D, A), UNCHANGED pool
    PROVE  /\ queue' = queue => Lists(P, D, A)'
           /\ queue' = NULL => Lists(P, <<>>, A)'
<1>1. next' = next /\ phead' = phead /\ ptail' = ptail /\ pavail' = pavail
  BY DEF pool
<1>2. Range(<<>>) = {} /\ IsInjective(<<>>) /\ Forms(next, NULL, <<>>)
  BY EmptyList DEF Range
<1> QED
  BY <1>1, <1>2 DEF Lists, Apart

\* handler_defer outside a section detaches what waits.
LEMMA ListsDetach ==
    ASSUME NEW P, NEW A, Lists(P, <<>>, A),
           queue' = phead, phead' = NULL, UNCHANGED <<ptail, pavail, next, signo>>
    PROVE  Lists(<<>>, P, A)'
<1>1. Range(<<>>) = {} /\ IsInjective(<<>>) /\ Forms(next, NULL, <<>>)
  BY EmptyList DEF Range
<1> QED
  BY <1>1 DEF Lists, Apart

\* handler_defer in a section appends to what waits.
LEMMA ListsEnqueue ==
    ASSUME TypeOK, NEW P, NEW A, Lists(P, <<>>, A), NEW e, e = pavail, e # NULL,
           NEW s, Enqueue(s), queue' = NULL
    PROVE  /\ Lists(Append(P, e), <<>>, Tail(A))'
           /\ e \in Entry /\ e \in Range(A) /\ Len(A) = Len(Tail(A)) + 1
           /\ Range(Append(P, e)) = Range(P) \cup {e}
           /\ Range(Tail(A)) = Range(A) \ {e}
           /\ signo' = [signo EXCEPT ![e] = s]
<1>1. e = pavail
  OBVIOUS
<1>2. PICK Q : Q = Append(P, e)
  OBVIOUS
<1>3. PICK B : B = Tail(A)
  OBVIOUS
<1>4. /\ Forms(next, phead, P) /\ Forms(next, e, A) /\ Apart(P, <<>>, A)
      /\ phead # NULL => ptail = P[Len(P)]
  BY <1>1 DEF Lists
<1>5. /\ e \in Entry /\ e \in Range(A) /\ Forms(next, next[e], B) /\ Range(B) = Range(A) \ {e}
      /\ Len(A) = Len(B) + 1 /\ e # NULL
  BY <1>1, <1>3, <1>4, TakeFirst
<1>6. e \notin Range(P) /\ Range(P) \subseteq Entry /\ Range(B) \subseteq Entry
      /\ Range(P) \cap Range(B) = {} /\ IsInjective(B)
  BY <1>4, <1>5, EmptyList DEF Apart
<1>7. ptail \in Entry \/ phead = NULL
  <2>1. phead # NULL => P[Len(P)] \in Entry
    <3>1. P \in Seq(Entry) /\ (phead = NULL <=> P = <<>>)
      BY <1>4, EmptyList
    <3>2. Len(P) # 0 => Len(P) \in 1 .. Len(P)
      BY <3>1, ListIndices
    <3> QED
      BY <3>1, <3>2, ListIndices
  <2> QED
    BY <2>1, <1>4
<1>8. /\ pavail' = next[e] /\ ptail' = e
      /\ phead' = IF phead = NULL THEN e ELSE phead
      /\ signo' = [signo EXCEPT ![e] = s]
      /\ next \in NextType
  BY <1>1, <1>7, Pointers DEF Enqueue, TypeOK, NextType
<1>9. /\ next'[e] = NULL
      /\ phead # NULL => next'[P[Len(P)]] = e
      /\ \A a \in Entry : a # e /\ (phead # NULL => a # P[Len(P)]) => next'[a] = next[a]
  <2>1. CASE phead = NULL
    <3>1. next' = [next EXCEPT ![e] = NULL]
      BY <1>1, <2>1 DEF Enqueue
    <3> QED
      BY <2>1, <3>1, <1>5, <1>8 DEF NextType
  <2>2. CASE phead # NULL
    <3>1. PICK t \in Entry : t = ptail /\ t = P[Len(P)] /\ t # NULL
      BY <2>2, <1>4, <1>7, Pointers
    <3>2. t # e
      <4>1. P \in Seq(Entry) /\ P # <<>>
        BY <2>2, <1>4, EmptyList
      <4>2. Len(P) \in 1 .. Len(P)
        BY <4>1, ListIndices
      <4>3. t \in Range(P)
        BY <3>1, <4>1, <4>2, ListIndices
      <4> QED
        BY <4>3, <1>6
    <3>3. next' = [[next EXCEPT ![e] = NULL] EXCEPT ![t] = e]
      BY <1>1, <2>2, <3>1 DEF Enqueue
    <3>4. next'[e] = NULL /\ next'[t] = e /\ \A a \in Entry : a # e /\ a # t => next'[a] = next[a]
      BY <3>1, <3>2, <3>3, <1>5, <1>8 DEF NextType
    <3> QED
      BY <2>2, <3>1, <3>4
  <2> QED
    BY <2>1, <2>2
<1>10. /\ Forms(next', phead', Q) /\ Range(Q) = Range(P) \cup {e} /\ Q[Len(Q)] = e
  <2>1. \A a \in Range(P) : phead # NULL /\ a # P[Len(P)] => next'[a] = next[a]
    BY <1>6, <1>9
  <2>2. PICK nx2 : nx2 = next'
    OBVIOUS
  <2>3. PICK p2 : p2 = phead'
    OBVIOUS
  <2>4. p2 = IF phead = NULL THEN e ELSE phead
    BY <1>8, <2>3
  <2>5. Appended(next, nx2, phead, p2, P, e)
    BY <1>9, <2>1, <2>2, <2>4 DEF Appended
  <2>6. Forms(next, phead, P)
    BY <1>4
  <2>7. e \in Entry /\ e \notin Range(P)
    BY <1>5, <1>6
  <2>8. Forms(nx2, p2, Append(P, e)) /\ Range(Append(P, e)) = Range(P) \cup {e}
        /\ Append(P, e)[Len(Append(P, e))] = e
    BY <2>5, <2>6, <2>7, PutLast
  <2> QED
    BY <2>2, <2>3, <2>8, <1>2
<1>11. Forms(next', pavail', B)
  <2>1. ASSUME NEW a \in Range(B) PROVE next'[a] = next[a]
    <3>1. a \in Entry /\ a # e /\ a \notin Range(P)
      BY <1>5, <1>6
    <3>2. phead # NULL => P[Len(P)] \in Range(P)
      <4>1. P \in Seq(Entry) /\ (phead # NULL => P # <<>>)
        BY <1>4, EmptyList
      <4>2. P # <<>> => Len(P) \in 1 .. Len(P)
        BY <4>1, ListIndices
      <4> QED
        BY <4>1, <4>2, ListIndices
    <3> QED
      BY <3>1, <3>2, <1>9
  <2> QED
    BY <2>1, <1>5, <1>8, ListKept
<1>12. Lists(Q, <<>>, B)'
  <2>1. Range(<<>>) = {} /\ IsInjective(<<>>) /\ Forms(next', NULL, <<>>)
    BY EmptyList DEF Range
  <2>2. IsInjective(Q)
    BY <1>10, EmptyList
  <2>3. Apart(Q, <<>>, B)
    BY <2>1, <2>2, <1>5, <1>6, <1>10 DEF Apart
  <2>4. phead' # NULL => ptail' = Q[Len(Q)]
    BY <1>8, <1>10
  <2> QED
    BY <2>1, <2>3, <2>4, <1>10, <1>11 DEF Lists
<1>13. Lists(Append(P, e), <<>>, Tail(A))'
  BY <1>2, <1>3, <1>12
<1> QED
  BY <1>2, <1>3, <1>5, <1>8, <1>10, <1>13

\* An entry e at the head of the list s moves to the head of the list a.
Moved(nx, nx2, e, a) ==
    nx \in NextType /\ nx2 = [nx EXCEPT ![e] = a]

LEMMA MoveFirst ==
    ASSUME NEW nx, NEW nx2, NEW e, NEW s, NEW p, NEW a,
           Forms(nx, e, s), Forms(nx, p, a), Moved(nx, nx2, e, p),
           e # NULL, Range(s) \cap Range(a) = {}
    PROVE  \E b : /\ Forms(nx2, e, b) /\ Range(b) = Range(a) \cup {e} /\ Len(b) = Len(a) + 1
                  /\ Forms(nx2, nx[e], Tail(s)) /\ Range(Tail(s)) = Range(s) \ {e}
                  /\ IsInjective(b) /\ IsInjective(Tail(s)) /\ Range(b) \cap Range(Tail(s)) = {}
<1>1. /\ e \in Entry /\ e \in Range(s) /\ Forms(nx, nx[e], Tail(s))
      /\ Range(Tail(s)) = Range(s) \ {e}
  BY TakeFirst
<1>2. Range(s) \subseteq Entry /\ Range(a) \subseteq Entry
  BY EmptyList
<1>3. nx2[e] = p /\ \A x \in Entry : x # e => nx2[x] = nx[x]
  BY <1>1 DEF Moved, NextType
<1>4. e \notin Range(a)
  BY <1>1
<1>5. \A x \in Range(a) : nx2[x] = nx[x]
  BY <1>2, <1>3, <1>4
<1>6. PICK b : Forms(nx2, e, b) /\ Range(b) = Range(a) \cup {e} /\ Len(b) = Len(a) + 1
  BY <1>1, <1>3, <1>4, <1>5, PutFirst
<1>7. PICK t : t = Tail(s)
  OBVIOUS
<1>8. Forms(nx, nx[e], t) /\ \A x \in Range(t) : nx2[x] = nx[x]
  BY <1>1, <1>2, <1>3, <1>7
<1>9. Forms(nx2, nx[e], t)
  BY <1>8, ListKept
<1>10. IsInjective(b) /\ IsInjective(t)
  BY <1>6, <1>9, EmptyList
<1>11. Range(b) \cap Range(t) = {}
  BY <1>1, <1>4, <1>6, <1>7
<1> QED
  BY <1>1, <1>6, <1>7, <1>9, <1>10, <1>11

\* The drain loop gives the entry of the handled signal back.
LEMMA ListsDrain ==
    ASSUME TypeOK, NEW D, NEW A, Lists(<<>>, D, A), NEW e, e = queue, e # NULL,
           phead = NULL, Recycle(e), queue' = next[e]
    PROVE  /\ D # <<>> /\ e = Head(D) /\ e \in Entry /\ signo' = signo
           /\ Range(Tail(D)) = Range(D) \ {e} /\ e \in Range(D)
           /\ \E B : /\ Lists(<<>>, Tail(D), B)'
                     /\ Range(B) = Range(A) \cup {e} /\ Len(B) = Len(A) + 1
<1>1. /\ Forms(next, e, D) /\ Forms(next, pavail, A) /\ Apart(<<>>, D, A)
  BY DEF Lists
<1>2. Moved(next, next', e, pavail) /\ pavail' = e /\ phead' = NULL /\ signo' = signo
  BY DEF Moved, Recycle, TypeOK, NextType
<1>3. Range(D) \cap Range(A) = {}
  BY <1>1 DEF Apart
<1>4. PICK T : T = Tail(D)
  OBVIOUS
<1>5. D # <<>> /\ e = Head(D) /\ e \in Entry /\ e \in Range(D) /\ Range(T) = Range(D) \ {e}
  BY <1>1, <1>4, TakeFirst
<1>6. PICK B : /\ Forms(next', e, B) /\ Range(B) = Range(A) \cup {e} /\ Len(B) = Len(A) + 1
               /\ Forms(next', next[e], T) /\ Range(T) = Range(D) \ {e}
               /\ IsInjective(B) /\ IsInjective(T) /\ Range(B) \cap Range(T) = {}
  <2>1. PICK nx2 : nx2 = next'
    OBVIOUS
  <2>2. Moved(next, nx2, e, pavail)
    BY <1>2, <2>1
  <2>3. PICK B : /\ Forms(nx2, e, B) /\ Range(B) = Range(A) \cup {e} /\ Len(B) = Len(A) + 1
                 /\ Forms(nx2, next[e], T) /\ Range(T) = Range(D) \ {e}
                 /\ IsInjective(B) /\ IsInjective(T) /\ Range(B) \cap Range(T) = {}
    BY <1>1, <1>3, <1>4, <2>2, MoveFirst
  <2> QED
    BY <2>1, <2>3
<1>7. Range(<<>>) = {} /\ IsInjective(<<>>) /\ Forms(next', NULL, <<>>)
  BY EmptyList DEF Range
<1>8. Lists(<<>>, T, B)'
  <2>1. Apart(<<>>, T, B)
    BY <1>6, <1>7 DEF Apart
  <2> QED
    BY <2>1, <1>2, <1>6, <1>7 DEF Lists
<1> QED
  BY <1>2, <1>4, <1>5, <1>6, <1>8

\* handler_unblock takes the first waiting entry and gives it back.
LEMMA ListsPop ==
    ASSUME TypeOK, NEW P, NEW A, Lists(P, <<>>, A), NEW e, e = phead, e # NULL,
           PopHead, queue' = NULL
    PROVE  /\ P # <<>> /\ e = Head(P) /\ e \in Entry /\ signo' = signo
           /\ Range(Tail(P)) = Range(P) \ {e} /\ e \in Range(P)
           /\ \E B : /\ Lists(Tail(P), <<>>, B)'
                     /\ Range(B) = Range(A) \cup {e} /\ Len(B) = Len(A) + 1
<1>1. /\ Forms(next, e, P) /\ Forms(next, pavail, A) /\ Apart(P, <<>>, A)
      /\ ptail = P[Len(P)]
  BY DEF Lists
<1>2. /\ Moved(next, next', e, pavail) /\ pavail' = e /\ phead' = next[e]
      /\ ptail' = ptail /\ signo' = signo
  BY DEF Moved, PopHead, TypeOK, NextType
<1>3. Range(P) \cap Range(A) = {}
  BY <1>1 DEF Apart
<1>4. PICK T : T = Tail(P)
  OBVIOUS
<1>5. /\ P # <<>> /\ e = Head(P) /\ e \in Entry /\ e \in Range(P) /\ Range(T) = Range(P) \ {e}
      /\ Len(P) = Len(T) + 1 /\ Forms(next, next[e], T)
      /\ P[Len(P)] = IF Len(P) = 1 THEN e ELSE T[Len(T)]
  BY <1>1, <1>4, TakeFirst, ZenonT(40)
<1>6. PICK B : /\ Forms(next', e, B) /\ Range(B) = Range(A) \cup {e} /\ Len(B) = Len(A) + 1
               /\ Forms(next', next[e], T) /\ Range(T) = Range(P) \ {e}
               /\ IsInjective(B) /\ IsInjective(T) /\ Range(B) \cap Range(T) = {}
  <2>1. PICK nx2 : nx2 = next'
    OBVIOUS
  <2>2. Moved(next, nx2, e, pavail)
    BY <1>2, <2>1
  <2>3. PICK B : /\ Forms(nx2, e, B) /\ Range(B) = Range(A) \cup {e} /\ Len(B) = Len(A) + 1
                 /\ Forms(nx2, next[e], T) /\ Range(T) = Range(P) \ {e}
                 /\ IsInjective(B) /\ IsInjective(T) /\ Range(B) \cap Range(T) = {}
    BY <1>1, <1>3, <1>4, <2>2, MoveFirst
  <2> QED
    BY <2>1, <2>3
<1>7. Range(<<>>) = {} /\ IsInjective(<<>>) /\ Forms(next', NULL, <<>>)
  BY EmptyList DEF Range
<1>8. phead' # NULL => ptail' = T[Len(T)]
  <2>1. T \in Seq(Entry) /\ (next[e] # NULL => T # <<>>)
    BY <1>5, EmptyList
  <2>2. T # <<>> => Len(T) # 0
    BY <2>1, ListIndices
  <2>3. Len(T) \in Nat
    BY <2>1, ListIndices
  <2> QED
    BY <2>1, <2>2, <2>3, <1>1, <1>2, <1>5
<1>9. Lists(T, <<>>, B)'
  <2>1. Apart(T, <<>>, B)
    BY <1>6, <1>7 DEF Apart
  <2> QED
    BY <2>1, <1>2, <1>6, <1>7, <1>8 DEF Lists
<1> QED
  BY <1>2, <1>4, <1>5, <1>6, <1>9

-----------------------------------------------------------------------------
(* The lists at every step.                                                *)

\* Outside four steps nothing happens to the pool and to the detached queue.
LEMMA PoolKept ==
    ASSUME ControlInv, [Next]_vars, ~DeferHandle, ~DeferDelay, ~DrainNext, ~HandlerUnblock
    PROVE  UNCHANGED pool /\ queue' = queue
<1> USE DEF ControlInv, NotNested, frame
<1>1. CASE \E s \in Sig : Arrive(s) \/ DeliverOriginal(s) \/ Deliver(s)
  BY <1>1 DEF Arrive, DeliverOriginal, Deliver, InCode
<1>2. CASE DeferInactive \/ DrainEnd
  BY <1>2 DEF DeferInactive, DrainEnd, HandlerLeaves, HandlerKills, HandlerBails, DeferReturns
<1>3. CASE Block \/ Unblock \/ CriticalStep
  BY <1>3 DEF Block, Unblock, CriticalStep, Compare, HandlerUnblockOnNULL
<1>4. CASE StartupStep
  BY <1>4 DEF StartupStep, ActivateHandlers, ActivateRegister, ActivateOpen, SetTimeout
<1>5. CASE (\E s \in Sig, h \in Handler : SetHandler(s, h)) \/ Shutdown
  BY <1>5 DEF SetHandler, Shutdown
<1>6. CASE UNCHANGED vars
  BY <1>6 DEF vars
<1> QED
  BY <1>1, <1>2, <1>3, <1>4, <1>5, <1>6 DEF Next, HandlerStep

\* Only the drain loop works on a detached queue.
LEMMA NothingDetached ==
    ASSUME ControlInv, hpc # "drain", NEW P, NEW D, NEW A, Lists(P, D, A)
    PROVE  D = <<>>
<1>1. queue = NULL /\ Forms(next, queue, D)
  BY DEF ControlInv, Lists
<1> QED
  BY <1>1, EmptyList

\* Nothing waits in the queue while the drain loop runs.
LEMMA NothingPending ==
    ASSUME ControlInv, hpc = "drain", NEW P, NEW D, NEW A, Lists(P, D, A)
    PROVE  P = <<>>
<1>1. phead = NULL /\ Forms(next, phead, P)
  BY DEF ControlInv, Lists
<1> QED
  BY <1>1, EmptyList

\* The entries of the three lists.
Members(P, D, A) == Range(P) \cup Range(D) \cup Range(A)

\* A handler that the drain loop calls does not return.
DrainLeft == DrainNext /\ HandlerLeaves(signo[queue])

\* Every step leaves three lists, and only a handler that does not return to
\* the drain loop takes entries with it.
LEMMA ListsStep ==
    ASSUME TypeOK, ControlInv, [Next]_vars, NEW P, NEW D, NEW A, Lists(P, D, A)
    PROVE  \E Q, E, B : /\ Lists(Q, E, B)'
                        /\ Members(Q, E, B) = Members(P, D, A) \/ DrainLeft
<1> USE DEF Members
<1>0. Range(<<>>) = {}
  BY DEF Range
<1>1. CASE DeferHandle
  <2>1. D = <<>>
    BY <1>1, NothingDetached DEF DeferHandle
  <2>2. CASE HandlerLeaves(cur) /\ UNCHANGED pool
    <3>1. queue' = NULL
      BY <2>2 DEF HandlerLeaves, HandlerKills, HandlerBails
    <3>2. Lists(P, <<>>, A)'
      BY <2>2, <3>1, ListsStay
    <3> QED
      BY <2>1, <3>2
  <2>3. CASE queue' = phead /\ phead' = NULL /\ UNCHANGED <<ptail, pavail, next, signo>>
    <3>1. Lists(<<>>, P, A)'
      BY <2>1, <2>3, ListsDetach
    <3> QED
      BY <1>0, <2>1, <3>1
  <2> QED
    BY <1>1, <2>2, <2>3 DEF DeferHandle, HandleFirst, ControlInv, NotNested
<1>2. CASE DeferDelay
  <2>1. D = <<>>
    BY <1>2, NothingDetached DEF DeferDelay
  <2>2. queue' = NULL
    BY <1>2 DEF DeferDelay, DeferReturns
  <2>3. CASE pavail = NULL
    <3>1. Lists(P, <<>>, A)'
      BY <1>2, <2>2, <2>3, ListsStay DEF DeferDelay
    <3> QED
      BY <2>1, <3>1
  <2>4. CASE pavail # NULL
    <3>1. PICK e : e = pavail
      OBVIOUS
    <3>2. PICK s : s = cur
      OBVIOUS
    <3>3. Enqueue(s)
      BY <1>2, <2>4, <3>2 DEF DeferDelay
    <3>4. PICK Q : Q = Append(P, e)
      OBVIOUS
    <3>5. PICK B : B = Tail(A)
      OBVIOUS
    <3>6. /\ Lists(Append(P, e), <<>>, Tail(A))' /\ e \in Range(A)
          /\ Range(Append(P, e)) = Range(P) \cup {e} /\ Range(Tail(A)) = Range(A) \ {e}
      BY <2>1, <2>2, <2>4, <3>1, <3>3, ListsEnqueue
    <3>7. Lists(Q, <<>>, B)' /\ Range(Q) = Range(P) \cup {e} /\ Range(B) = Range(A) \ {e}
      BY <3>4, <3>5, <3>6
    <3> QED
      BY <1>0, <2>1, <3>6, <3>7
  <2> QED
    BY <2>3, <2>4
<1>3. CASE DrainNext
  <2>1. P = <<>> /\ phead = NULL
    BY <1>3, NothingPending DEF DrainNext, ControlInv
  <2>2. CASE HandlerLeaves(signo[queue]) /\ UNCHANGED pool
    <3>1. queue' = NULL /\ DrainLeft
      BY <1>3, <2>2 DEF DrainNext, HandlerLeaves, HandlerKills, HandlerBails, DrainLeft
    <3>2. Lists(P, <<>>, A)'
      BY <2>2, <3>1, ListsStay
    <3> QED
      BY <3>1, <3>2
  <2>3. CASE Recycle(queue) /\ queue' = next[queue]
    <3>1. PICK e : e = queue
      OBVIOUS
    <3>2. PICK T : T = Tail(D)
      OBVIOUS
    <3>3. /\ Range(Tail(D)) = Range(D) \ {e} /\ e \in Range(D)
          /\ \E B : /\ Lists(<<>>, Tail(D), B)'
                    /\ Range(B) = Range(A) \cup {e} /\ Len(B) = Len(A) + 1
      BY <1>3, <2>1, <2>3, <3>1, ListsDrain DEF DrainNext
    <3>4. PICK B : Lists(<<>>, T, B)' /\ Range(B) = Range(A) \cup {e}
      BY <3>2, <3>3
    <3> QED
      BY <2>1, <3>2, <3>3, <3>4
  <2> QED
    BY <1>3, <2>2, <2>3 DEF DrainNext
<1>4. CASE HandlerUnblock
  <2>1. D = <<>>
    BY <1>4, NothingDetached DEF HandlerUnblock, At
  <2>2. PICK e : e = phead
    OBVIOUS
  <2>3. PICK T : T = Tail(P)
    OBVIOUS
  <2>4. /\ Range(Tail(P)) = Range(P) \ {e} /\ e \in Range(P)
        /\ \E B : /\ Lists(Tail(P), <<>>, B)'
                  /\ Range(B) = Range(A) \cup {e} /\ Len(B) = Len(A) + 1
    BY <1>4, <2>1, <2>2, ListsPop DEF HandlerUnblock
  <2>5. PICK B : Lists(T, <<>>, B)' /\ Range(B) = Range(A) \cup {e}
    BY <2>3, <2>4
  <2> QED
    BY <2>1, <2>3, <2>4, <2>5
<1>5. CASE ~DeferHandle /\ ~DeferDelay /\ ~DrainNext /\ ~HandlerUnblock
  <2>1. UNCHANGED pool /\ queue' = queue
    BY <1>5, PoolKept
  <2>2. Lists(P, D, A)'
    BY <2>1, ListsStay
  <2> QED
    BY <2>2
<1> QED
  BY <1>1, <1>2, <1>3, <1>4, <1>5

\* What List computes from the pointers are the three lists.
LEMMA ListsRead ==
    ASSUME TypeOK, NEW P, NEW D, NEW A, Lists(P, D, A)
    PROVE  Pending = P /\ Detached = D /\ Avail = A
<1>1. next \in NextType /\ Forms(next, phead, P) /\ Forms(next, queue, D) /\ Forms(next, pavail, A)
  BY DEF TypeOK, NextType, Lists
<1> QED
  BY <1>1, ListReads DEF Pending, Detached, Avail

\* The pointers of the pool always form three lists.
PoolInv == \E P, D, A : Lists(P, D, A)

LEMMA PoolInvariant == Spec => []PoolInv
<1>1. Init => PoolInv
  BY ListsInit DEF PoolInv
<1>2. TypeOK /\ ControlInv /\ PoolInv /\ [Next]_vars => PoolInv'
  BY ListsStep DEF PoolInv
<1>3. QED
  BY TypeCorrect, ControlInvariant, <1>1, <1>2, PTL DEF Spec

\* However signals, handlers and critical sections interleave, and although
\* ptail is never reset, the pending queue, the queue being drained and the
\* available entries are lists without a cycle and without a common entry, and
\* ptail is the last waiting entry whenever the next enqueue trusts it.
THEOREM PoolCorrect == Spec => []PoolWellFormed
<1>1. TypeOK /\ PoolInv => PoolWellFormed
  <2> SUFFICES ASSUME TypeOK, NEW P, NEW D, NEW A, Lists(P, D, A) PROVE PoolWellFormed
    BY DEF PoolInv
  <2>1. Pending = P /\ Detached = D /\ Avail = A
    BY ListsRead
  <2> QED
    BY <2>1 DEF Lists, PoolWellFormed
<1>2. QED
  BY TypeCorrect, PoolInvariant, <1>1, PTL

-----------------------------------------------------------------------------
(* No entry is lost while every handler returns.                           *)

\* A thread that has not died was not dead a step before: the call of
\* handler_defer that goes on in UNBLOCK was made by UNBLOCK.
LEMMA StaysDead ==
    ASSUME ControlInv, StrandInv, TypeOK, [Next]_vars, pc' # "dead"
    PROVE  pc # "dead" /\ ~DrainLeft
<1>5. CASE DrainNext
  <2>1. signo[queue] \in Sig /\ handlers[signo[queue]] # "timeout"
    BY <1>5, Pointers DEF DrainNext, TypeOK, StrandInv
  <2> QED
    BY <1>5, <2>1 DEF DrainNext, HandlerLeaves, HandlerKills, HandlerBails,
                      HandlerReturns, DrainLeft, StrandInv
<1> SUFFICES ASSUME pc = "dead", ~DrainNext PROVE FALSE
  BY <1>5 DEF DrainLeft
<1> USE DEF ControlInv, NotNested, StrandInv, frame
<1>0. /\ \A s \in Sig : handlers[s] # "timeout"
      /\ cur \in Sig /\ signo \in [Entry -> Sig] /\ queue \in Pointer
  BY DEF TypeOK
<1>1. CASE \E s \in Sig : Arrive(s) \/ DeliverOriginal(s) \/ Deliver(s)
  BY <1>1 DEF Arrive, DeliverOriginal, Deliver, InCode
<1>2. CASE DeferInactive
  BY <1>0, <1>2 DEF DeferInactive, DeferReturns, HandlerLeaves, HandlerKills, HandlerBails
<1>3. CASE DeferHandle
  BY <1>0, <1>3 DEF DeferHandle, HandleFirst, HandleNested, DeferReturns, HandlerLeaves, HandlerKills, HandlerBails
<1>4. CASE DeferDelay
  BY <1>0, <1>4 DEF DeferDelay, DeferReturns
<1>6. CASE DrainEnd
  BY <1>0, <1>6 DEF DrainEnd, DeferReturns
<1>7. CASE Block \/ Unblock \/ CriticalStep
  BY <1>7 DEF Block, Unblock, CriticalStep, Compare, HandlerUnblock, HandlerUnblockOnNULL, At
<1>8. CASE StartupStep
  BY <1>8 DEF StartupStep, ActivateHandlers, ActivateRegister, ActivateOpen, SetTimeout, At
<1>9. CASE (\E s \in Sig, h \in Handler : SetHandler(s, h)) \/ Shutdown
  BY <1>9 DEF SetHandler, Shutdown, At
<1>10. CASE UNCHANGED vars
  BY <1>10 DEF vars
<1> QED
  BY <1>1, <1>2, <1>3, <1>4, <1>6, <1>7, <1>8, <1>9, <1>10 DEF Next, HandlerStep

\* Every entry is in one of the lists, and blocked = 0 means that one waits.
CoverInv ==
    /\ \E P, D, A : Lists(P, D, A) /\ (pc # "dead" => Members(P, D, A) = Entry)
    /\ Plain /\ pc \notin {"dead", "crashed"} /\ blocked = 0 => phead # NULL

\* With no entry available and none being drained, all of them wait.
LEMMA FullQueue ==
    ASSUME ControlInv, hpc = "defer", pavail = NULL,
           NEW P, NEW D, NEW A, Lists(P, D, A), Members(P, D, A) = Entry
    PROVE  phead # NULL
<1>1. D = <<>> /\ A = <<>>
  <2>1. Forms(next, pavail, A)
    BY DEF Lists
  <2> QED
    BY <2>1, NothingDetached, EmptyList
<1>2. Range(P) = Entry
  BY <1>1 DEF Members, Range
<1>3. 1 \in Entry
  BY Pointers DEF Entry
<1>4. P # <<>>
  BY <1>2, <1>3 DEF Range
<1> QED
  BY <1>4, EmptyList DEF Lists

LEMMA QueuedStep ==
    ASSUME TypeOK, ControlInv, StrandInv, [Next]_vars,
           Plain /\ pc \notin {"dead", "crashed"} /\ blocked = 0 => phead # NULL,
           hpc = "defer" /\ pavail = NULL /\ pc # "dead" => phead # NULL
    PROVE  (Plain /\ pc \notin {"dead", "crashed"} /\ blocked = 0 => phead # NULL)'
<1> USE DEF ControlInv, NotNested, StrandInv, Plain, flags, pool, frame
<1>0. /\ \A s \in Sig : handlers[s] # "timeout"
      /\ cur \in Sig /\ caller \in {"kernel", "unblock"} /\ depth \in 0 .. MaxDepth
  BY DEF TypeOK
<1>1. CASE \E s \in Sig : Arrive(s) \/ DeliverOriginal(s) \/ Deliver(s)
  BY <1>1 DEF Arrive, DeliverOriginal, Deliver, InCode
<1>2. CASE DeferInactive
  BY <1>0, <1>2 DEF DeferInactive, DeferReturns, HandlerLeaves, HandlerKills, HandlerBails
<1>3. CASE DeferHandle
  BY <1>0, <1>3 DEF DeferHandle, HandleFirst, HandleNested, DeferReturns, HandlerLeaves, HandlerKills, HandlerBails
<1>4. CASE DeferDelay
  <2>1. pavail # NULL => phead' # NULL
    BY <1>4 DEF DeferDelay, Enqueue
  <2>2. pavail = NULL => phead' = phead /\ pc' = pc
    BY <1>0, <1>4 DEF DeferDelay, DeferReturns
  <2> QED
    BY <1>4, <2>1, <2>2 DEF DeferDelay
<1>5. CASE DrainNext
  <2>1. signo[queue] \in Sig
    BY <1>5, Pointers DEF DrainNext, TypeOK
  <2> QED
    BY <1>0, <1>5, <2>1 DEF DrainNext, HandlerLeaves, HandlerKills, HandlerBails
<1>6. CASE DrainEnd
  BY <1>6 DEF DrainEnd, DeferReturns
<1>7. CASE Block \/ Unblock \/ CriticalStep
  BY <1>7 DEF Block, Unblock, CriticalStep, Compare, HandlerUnblock, HandlerUnblockOnNULL, At
<1>8. CASE StartupStep
  BY <1>8 DEF StartupStep, ActivateHandlers, ActivateRegister, ActivateOpen, SetTimeout, At
<1>9. CASE (\E s \in Sig, h \in Handler : SetHandler(s, h)) \/ Shutdown
  BY <1>9 DEF SetHandler, Shutdown, At
<1>10. CASE UNCHANGED vars
  BY <1>10 DEF vars
<1> QED
  BY <1>1, <1>2, <1>3, <1>4, <1>5, <1>6, <1>7, <1>8, <1>9, <1>10 DEF Next, HandlerStep

\* While every handler returns, whatever the number of signals, every entry of
\* the pool waits, is drained or is available, and blocked = 0 says truly that a
\* signal waits in the queue: it is never left behind by a signal that found no
\* entry, nor by a queue that was drained meanwhile.
THEOREM NoneIsForgotten == TimeLimit = FALSE => (Spec => []NoneForgotten)
<1> SUFFICES ASSUME TimeLimit = FALSE PROVE Spec => []NoneForgotten
  OBVIOUS
<1>1. Init => CoverInv
  <2> SUFFICES ASSUME Init PROVE CoverInv
    OBVIOUS
  <2>1. PICK A : Lists(<<>>, <<>>, A) /\ Range(A) = Entry
    BY ListsInit
  <2>2. Members(<<>>, <<>>, A) = Entry
    BY <2>1 DEF Members, Range
  <2>3. blocked # 0
    BY DEF Init
  <2> QED
    BY <2>1, <2>2, <2>3 DEF CoverInv
<1>2. TypeOK /\ ControlInv /\ StrandInv /\ CoverInv /\ [Next]_vars => CoverInv'
  <2> SUFFICES ASSUME TypeOK, ControlInv, StrandInv, CoverInv, [Next]_vars PROVE CoverInv'
    OBVIOUS
  <2>1. PICK P, D, A : Lists(P, D, A) /\ (pc # "dead" => Members(P, D, A) = Entry)
    BY DEF CoverInv
  <2>2. PICK Q, E, B : Lists(Q, E, B)' /\ (Members(Q, E, B) = Members(P, D, A) \/ DrainLeft)
    BY <2>1, ListsStep
  <2>3. pc' # "dead" => Members(Q, E, B) = Entry
    BY <2>1, <2>2, StaysDead
  <2>4. hpc = "defer" /\ pavail = NULL /\ pc # "dead" => phead # NULL
    BY <2>1, FullQueue
  <2>5. (Plain /\ pc \notin {"dead", "crashed"} /\ blocked = 0 => phead # NULL)'
    BY <2>4, QueuedStep DEF CoverInv
  <2> QED
    BY <2>2, <2>3, <2>5 DEF CoverInv
<1>3. TypeOK /\ CoverInv => NoneForgotten
  <2> SUFFICES ASSUME TypeOK, CoverInv, pc # "dead"
               PROVE  /\ Range(Pending) \cup Range(Detached) \cup Range(Avail) = Entry
                      /\ BlockedMeansQueued
    BY DEF NoneForgotten
  <2>1. PICK P, D, A : Lists(P, D, A) /\ Members(P, D, A) = Entry
    BY DEF CoverInv
  <2>2. Pending = P /\ Detached = D /\ Avail = A
    BY <2>1, ListsRead
  <2> QED
    BY <2>1, <2>2 DEF Members, CoverInv, BlockedMeansQueued, InCode, Plain
<1>4. QED
  BY TypeCorrect, ControlInvariant, StrandInvariant, <1>1, <1>2, <1>3, PTL DEF Spec

-----------------------------------------------------------------------------
(* The signals of a list of entries.                                       *)

SignalType == [Entry -> Sig]

LEMMA SignalsOf ==
    ASSUME NEW sg \in SignalType, NEW s \in Seq(Entry)
    PROVE  /\ Signals(sg, s) \in Seq(Sig) /\ Len(Signals(sg, s)) = Len(s)
           /\ \A i \in 1 .. Len(s) : Signals(sg, s)[i] = sg[s[i]]
<1>1. PICK n \in Nat : n = Len(s)
  BY ListIndices
<1>2. DOMAIN s = 1 .. n /\ \A i \in 1 .. n : s[i] \in Entry
  BY <1>1, ListIndices
<1>3. \A i \in 1 .. n : sg[s[i]] \in Sig
  BY <1>2 DEF SignalType
<1>4. PICK t : t = Signals(sg, s)
  OBVIOUS
<1>5. t \in [1 .. n -> Sig] /\ \A i \in 1 .. n : t[i] = sg[s[i]]
  BY <1>2, <1>3, <1>4 DEF Signals
<1>6. t \in Seq(Sig)
  BY <1>5, SeqDef
<1>7. Len(t) = n
  <2>1. Len(t) \in Nat /\ 1 .. Len(t) = 1 .. n
    BY <1>5, <1>6, LenProperties
  <2> QED
    BY <2>1
<1> QED
  BY <1>1, <1>4, <1>5, <1>6, <1>7

LEMMA SignalsEmpty ==
    ASSUME NEW sg \in SignalType
    PROVE  Signals(sg, <<>>) = <<>>
<1>1. <<>> \in Seq(Entry) /\ Len(<<>>) = 0
  BY EmptySeq
<1>2. PICK t : t = Signals(sg, <<>>)
  OBVIOUS
<1>3. t \in Seq(Sig) /\ Len(t) = 0
  BY <1>1, <1>2, SignalsOf
<1>4. t = <<>>
  BY <1>3, EmptySeq
<1> QED
  BY <1>2, <1>4

\* The first of the signals is that of the first entry.
LEMMA SignalsTake ==
    ASSUME NEW sg \in SignalType, NEW s \in Seq(Entry), s # <<>>
    PROVE  /\ Signals(sg, s) # <<>> /\ Head(Signals(sg, s)) = sg[Head(s)]
           /\ Tail(Signals(sg, s)) = Signals(sg, Tail(s)) /\ sg[Head(s)] \in Sig
<1>1. PICK t \in Seq(Entry) : t = Tail(s)
  BY HeadTailProperties
<1>2. PICK n \in Nat : n = Len(t)
  BY <1>1, ListIndices
<1>3. Len(s) = n + 1 /\ \A i \in 1 .. n : t[i] = s[i + 1]
  <2>1. Len(t) = Len(s) - 1 /\ \A i \in 1 .. Len(t) : t[i] = s[i + 1]
    BY <1>1, HeadTailProperties
  <2>2. Len(s) \in Nat
    BY ListIndices
  <2> QED
    BY <1>2, <2>1, <2>2
<1>4. PICK u \in Seq(Sig) : u = Signals(sg, s)
  BY SignalsOf
<1>5. Len(u) = n + 1 /\ \A i \in 1 .. n + 1 : u[i] = sg[s[i]]
  BY <1>3, <1>4, SignalsOf
<1>6. u # <<>> /\ Head(u) = u[1] /\ Head(s) = s[1]
  BY <1>5, EmptySeq
<1>7. PICK v \in Seq(Sig) : v = Signals(sg, t)
  BY <1>1, SignalsOf
<1>8. Len(v) = n /\ \A i \in 1 .. n : v[i] = sg[t[i]]
  BY <1>1, <1>2, <1>7, SignalsOf
<1>9. PICK w \in Seq(Sig) : w = Tail(u)
  BY <1>6, HeadTailProperties
<1>10. Len(w) = n /\ \A i \in 1 .. n : w[i] = u[i + 1]
  <2>1. Len(w) = Len(u) - 1 /\ \A i \in 1 .. Len(w) : w[i] = u[i + 1]
    BY <1>6, <1>9, HeadTailProperties
  <2> QED
    BY <1>5, <2>1
<1>11. \A i \in 1 .. n : v[i] = w[i]
  <2> SUFFICES ASSUME NEW i \in 1 .. n PROVE v[i] = w[i]
    OBVIOUS
  <2>1. i + 1 \in 1 .. n + 1
    OBVIOUS
  <2>2. u[i + 1] = sg[s[i + 1]]
    BY <1>5, <2>1
  <2> QED
    BY <1>3, <1>8, <1>10, <2>2
<1>12. v = w
  BY <1>8, <1>10, <1>11, SeqEqual
<1>13. 1 \in 1 .. n + 1 /\ 1 \in 1 .. Len(s)
  BY <1>3
<1>14. sg[Head(s)] = u[1] /\ sg[Head(s)] \in Sig
  BY <1>5, <1>6, <1>13, ListIndices DEF SignalType
<1> QED
  BY <1>1, <1>4, <1>6, <1>7, <1>9, <1>12, <1>14

\* The entry e gets the signal x.
Puts(sg, e, x, sg2) == sg2 = [sg EXCEPT ![e] = x]

\* An entry at the end of a list puts its signal at the end of the signals.
LEMMA SignalsPut ==
    ASSUME NEW sg \in SignalType, NEW s \in Seq(Entry), NEW e \in Entry, e \notin Range(s),
           NEW x \in Sig, NEW sg2, Puts(sg, e, x, sg2)
    PROVE  Signals(sg2, Append(s, e)) = Append(Signals(sg, s), x)
<1>1. sg2 \in SignalType /\ sg2[e] = x /\ \A a \in Entry : a # e => sg2[a] = sg[a]
  BY DEF SignalType, Puts
<1>2. PICK n \in Nat : n = Len(s)
  BY ListIndices
<1>3. \A i \in 1 .. n : s[i] \in Entry /\ s[i] # e
  BY <1>2, ListIndices
<1>4. PICK t \in Seq(Entry) : t = Append(s, e)
  BY AppendProperties
<1>5. Len(t) = n + 1 /\ t[n + 1] = e /\ \A i \in 1 .. n : t[i] = s[i]
  BY <1>2, <1>4, AppendProperties
<1>6. PICK u \in Seq(Sig) : u = Signals(sg2, t)
  BY <1>1, <1>4, SignalsOf
<1>7. Len(u) = n + 1 /\ \A i \in 1 .. n + 1 : u[i] = sg2[t[i]]
  <2>1. Len(u) = Len(t) /\ \A i \in 1 .. Len(t) : u[i] = sg2[t[i]]
    BY <1>1, <1>6, SignalsOf
  <2> QED
    BY <1>5, <2>1
<1>8. PICK v \in Seq(Sig) : v = Signals(sg, s)
  BY SignalsOf
<1>9. Len(v) = n /\ \A i \in 1 .. n : v[i] = sg[s[i]]
  BY <1>2, <1>8, SignalsOf
<1>10. PICK w \in Seq(Sig) : w = Append(v, x)
  BY AppendProperties
<1>11. Len(w) = n + 1 /\ w[n + 1] = x /\ \A i \in 1 .. n : w[i] = v[i]
  BY <1>9, <1>10, AppendProperties, SMTT(30)
<1>12. \A i \in 1 .. n + 1 : u[i] = w[i]
  <2> SUFFICES ASSUME NEW i \in 1 .. n + 1 PROVE u[i] = w[i]
    OBVIOUS
  <2>1. CASE i = n + 1
    BY <2>1, <1>1, <1>5, <1>7, <1>11
  <2>2. CASE i # n + 1
    <3>1. i \in 1 .. n
      BY <2>2
    <3>2. u[i] = sg2[s[i]] /\ w[i] = sg[s[i]]
      BY <3>1, <1>5, <1>7, <1>9, <1>11
    <3> QED
      BY <3>1, <3>2, <1>1, <1>3
  <2> QED
    BY <2>1, <2>2
<1>13. u = w
  BY <1>7, <1>11, <1>12, SeqEqual
<1> QED
  BY <1>4, <1>6, <1>8, <1>10, <1>13

\* One signal before the others.
LEMMA InHand ==
    ASSUME NEW c \in Sig, NEW t \in Seq(Sig)
    PROVE  /\ <<c>> \o t # <<>> /\ Head(<<c>> \o t) = c /\ Tail(<<c>> \o t) = t
           /\ \A u \in Seq(Sig) : u # <<>> /\ Head(u) = c /\ Tail(u) = t => u = <<c>> \o t
<1>1. PICK n \in Nat : n = Len(t)
  BY LenProperties
<1>2. <<c>> \in Seq(Sig) /\ Len(<<c>>) = 1 /\ <<c>>[1] = c
  OBVIOUS
<1>3. PICK u \in Seq(Sig) : u = <<c>> \o t
  BY <1>2, ConcatProperties
<1>4. Len(u) = n + 1 /\ u[1] = c /\ \A i \in 1 .. n : u[i + 1] = t[i]
  <2>1. /\ Len(u) = 1 + n
        /\ \A i \in 1 .. 1 + n : u[i] = IF i <= 1 THEN <<c>>[i] ELSE t[i - 1]
    BY <1>1, <1>2, <1>3, ConcatProperties
  <2>2. 1 \in 1 .. 1 + n
    OBVIOUS
  <2>3. \A i \in 1 .. n : i + 1 \in 1 .. 1 + n /\ ~(i + 1 <= 1) /\ (i + 1) - 1 = i
    OBVIOUS
  <2>4. ASSUME NEW i \in 1 .. n PROVE u[i + 1] = t[i]
    BY <2>1, <2>3, SMTT(30)
  <2> QED
    BY <1>2, <2>1, <2>2, <2>4
<1>5. ASSUME NEW v \in Seq(Sig), v # <<>>
      PROVE  \E w \in Seq(Sig) : w = Tail(v) /\ Len(v) = Len(w) + 1 /\ Head(v) = v[1]
                                 /\ \A i \in 1 .. Len(w) : w[i] = v[i + 1]
  <2>1. PICK w \in Seq(Sig) : w = Tail(v)
    BY <1>5, HeadTailProperties
  <2>2. Len(w) = Len(v) - 1 /\ \A i \in 1 .. Len(w) : w[i] = v[i + 1]
    BY <1>5, <2>1, HeadTailProperties
  <2>3. Len(v) = Len(w) + 1
    <3>1. PICK l \in Nat : l = Len(v)
      BY LenProperties
    <3>2. Len(w) = l - 1
      BY <2>2, <3>1
    <3> QED
      BY <3>1, <3>2
  <2>4. Head(v) = v[1]
    OBVIOUS
  <2> QED
    BY <2>1, <2>2, <2>3, <2>4
<1>6. u # <<>>
  BY <1>4, EmptySeq
<1>7. Tail(u) = t /\ Head(u) = c
  <2>1. PICK w \in Seq(Sig) : w = Tail(u) /\ Len(u) = Len(w) + 1 /\ Head(u) = u[1]
                              /\ \A i \in 1 .. Len(w) : w[i] = u[i + 1]
    BY <1>5, <1>6
  <2>2. Len(w) = n
    <3>1. PICK l \in Nat : l = Len(w)
      BY LenProperties
    <3>2. n + 1 = l + 1
      BY <3>1, <2>1, <1>4
    <3> QED
      BY <3>1, <3>2
  <2>3. w = t
    <3>1. \A i \in 1 .. n : w[i] = t[i]
      BY <1>4, <2>1, <2>2
    <3> QED
      BY <3>1, <2>2, <1>1, SeqEqual
  <2> QED
    BY <1>4, <2>1, <2>3
<1>8. ASSUME NEW v \in Seq(Sig), v # <<>>, Head(v) = c, Tail(v) = t PROVE v = u
  <2>1. Len(v) = n + 1 /\ v[1] = c /\ \A i \in 1 .. n : t[i] = v[i + 1]
    <3>1. PICK w \in Seq(Sig) : w = Tail(v) /\ Len(v) = Len(w) + 1 /\ Head(v) = v[1]
                                /\ \A i \in 1 .. Len(w) : w[i] = v[i + 1]
      BY <1>5, <1>8
    <3> QED
      BY <3>1, <1>1, <1>8
  <2>2. ASSUME NEW i \in 1 .. n + 1 PROVE v[i] = u[i]
    <3>1. CASE i = 1
      BY <3>1, <2>1, <1>4
    <3>2. CASE i # 1
      <4>1. PICK j \in 1 .. n : i = j + 1
        <5>1. i - 1 \in 1 .. n /\ i = (i - 1) + 1
          BY <3>2
        <5> QED
          BY <5>1
      <4> QED
        BY <4>1, <2>1, <1>4
    <3> QED
      BY <3>1, <3>2
  <2> QED
    BY <2>1, <2>2, <1>4, SeqEqual, SMTT(30)
<1> QED
  BY <1>3, <1>6, <1>7, <1>8

-----------------------------------------------------------------------------
(* The promise.                                                            *)

\* UNBLOCK's own call of handler_defer holds a signal in its hand.
InHandNow == hpc = "defer" /\ caller = "unblock"

\* What waits and how many places are free, by the lists.
Waiting(P, D) ==
    IF InHandNow THEN <<cur>> \o Signals(signo, P)
    ELSE Signals(signo, IF hpc = "drain" THEN D ELSE P)
Free(A) == IF InHandNow THEN Len(A) - 1 ELSE Len(A)
Section == active = 1 /\ depth > 0

\* The variables of the promise, as ZendSignal maps them.
MappedWaiting == InFlight \o (Signals(signo, Detached) \o Signals(signo, Pending))
MappedFree == Len(Avail) - Len(InFlight)

LEMMA Joined ==
    ASSUME NEW sg \in SignalType, NEW P \in Seq(Entry), NEW D \in Seq(Entry)
    PROVE  /\ Signals(sg, P) \in Seq(Sig) /\ Signals(sg, D) \in Seq(Sig)
           /\ D = <<>> => <<>> \o (Signals(sg, D) \o Signals(sg, P)) = Signals(sg, P)
           /\ P = <<>> => <<>> \o (Signals(sg, D) \o Signals(sg, P)) = Signals(sg, D)
           /\ D = <<>> => Signals(sg, D) \o Signals(sg, P) = Signals(sg, P)
<1>1. Signals(sg, P) \in Seq(Sig) /\ Signals(sg, D) \in Seq(Sig)
  BY SignalsOf
<1>2. PICK p \in Seq(Sig) : p = Signals(sg, P)
  BY <1>1
<1>3. PICK d \in Seq(Sig) : d = Signals(sg, D)
  BY <1>1
<1>4. (P = <<>> => p = <<>>) /\ (D = <<>> => d = <<>>)
  BY <1>2, <1>3, SignalsEmpty
<1>5. <<>> \o p = p /\ <<>> \o d = d /\ d \o <<>> = d
  BY ConcatEmptySeq
<1> QED
  BY <1>1, <1>2, <1>3, <1>4, <1>5

LEMMA ViewNow ==
    ASSUME TypeOK, ControlInv, NEW P, NEW D, NEW A, Lists(P, D, A)
    PROVE  MappedWaiting = Waiting(P, D) /\ MappedFree = Free(A)
<1>1. Pending = P /\ Detached = D /\ Avail = A
  BY ListsRead
<1>2. signo \in SignalType /\ P \in Seq(Entry) /\ D \in Seq(Entry) /\ A \in Seq(Entry)
  BY EmptyList DEF TypeOK, SignalType, Lists
<1>3. Len(A) \in Nat
  BY <1>2, ListIndices
<1>4. CASE InHandNow
  <2>1. D = <<>> /\ InFlight = <<cur>> /\ Len(InFlight) = 1
    BY <1>4, NothingDetached DEF InHandNow, InFlight
  <2>2. Signals(signo, D) \o Signals(signo, P) = Signals(signo, P)
    BY <1>2, <2>1, Joined
  <2> QED
    BY <1>1, <1>4, <2>1, <2>2 DEF MappedWaiting, MappedFree, Waiting, Free
<1>5. CASE ~InHandNow
  <2>1. InFlight = <<>> /\ Len(InFlight) = 0
    BY <1>5 DEF InHandNow, InFlight
  <2>2. hpc = "drain" => P = <<>>
    BY NothingPending
  <2>3. hpc # "drain" => D = <<>>
    BY NothingDetached
  <2>4. <<>> \o (Signals(signo, D) \o Signals(signo, P)) = Signals(signo, IF hpc = "drain" THEN D ELSE P)
    BY <1>2, <2>2, <2>3, Joined
  <2> QED
    BY <1>1, <1>3, <1>5, <2>1, <2>4 DEF MappedWaiting, MappedFree, Waiting, Free
<1> QED
  BY <1>4, <1>5

\* The same for the state after a step.
LEMMA ViewNext ==
    ASSUME TypeOK', ControlInv', NEW P, NEW D, NEW A, Lists(P, D, A)'
    PROVE  MappedWaiting' = Waiting(P, D)' /\ MappedFree' = Free(A)'
<1>0. PICK nx \in NextType : nx = next'
  BY DEF TypeOK, NextType
<1>1. Pending' = P /\ Detached' = D /\ Avail' = A
  <2>1. /\ \A p : p = phead' => Forms(nx, p, P)
        /\ \A p : p = queue' => Forms(nx, p, D)
        /\ \A p : p = pavail' => Forms(nx, p, A)
    BY <1>0 DEF Lists
  <2>2. \A p, s : Forms(nx, p, s) => List(nx, p) = s
    BY ListReads
  <2>3. List(nx, phead') = P /\ List(nx, queue') = D /\ List(nx, pavail') = A
    BY <2>1, <2>2
  <2> QED
    BY <1>0, <2>3 DEF Pending, Detached, Avail
<1>2. PICK sg \in SignalType : sg = signo'
  BY DEF TypeOK, SignalType
<1>3. P \in Seq(Entry) /\ D \in Seq(Entry) /\ A \in Seq(Entry)
  <2>1. /\ \E p : Forms(nx, p, P)
        /\ \E p : Forms(nx, p, D)
        /\ \E p : Forms(nx, p, A)
    BY <1>0 DEF Lists
  <2> QED
    BY <2>1, EmptyList
<1>4. Len(A) \in Nat
  BY <1>3, ListIndices
<1>5. /\ hpc' = "drain" => P = <<>>
      /\ hpc' # "drain" => D = <<>>
  <2>1. /\ hpc' = "drain" => phead' = NULL
        /\ hpc' # "drain" => queue' = NULL
    BY DEF ControlInv
  <2>2. Forms(nx, phead', P) /\ Forms(nx, queue', D)
    BY <1>0 DEF Lists
  <2>3. \A s : Forms(nx, NULL, s) => s = <<>>
    BY EmptyList
  <2> QED
    BY <2>1, <2>2, <2>3
<1>6. CASE InHandNow'
  <2>1. D = <<>> /\ InFlight' = <<cur'>> /\ Len(InFlight)' = 1
    BY <1>5, <1>6 DEF InHandNow, InFlight
  <2>2. Signals(sg, D) \o Signals(sg, P) = Signals(sg, P)
    BY <1>3, <2>1, Joined
  <2> QED
    BY <1>1, <1>2, <1>6, <2>1, <2>2 DEF MappedWaiting, MappedFree, Waiting, Free
<1>7. CASE ~InHandNow'
  <2>1. InFlight' = <<>> /\ Len(InFlight)' = 0
    BY <1>7 DEF InHandNow, InFlight
  <2>2. <<>> \o (Signals(sg, D) \o Signals(sg, P)) = Signals(sg, IF hpc' = "drain" THEN D ELSE P)
    BY <1>3, <1>5, Joined
  <2> QED
    BY <1>1, <1>2, <1>4, <1>7, <2>1, <2>2 DEF MappedWaiting, MappedFree, Waiting, Free
<1> QED
  BY <1>6, <1>7

\* A step of the promise, by what it does to the signals that wait and to the
\* places that are free.
Called(s) == ~Section /\ ~Section' /\ call' = <<s, 1 - call[2]>>
Move(w, w2, f, f2) ==
    \/ w2 = w /\ f2 = f /\ call' = call
    \/ \E s \in Sig : Section /\ Section' /\ f > 0 /\ w2 = Append(w, s) /\ f2 = f - 1
                      /\ call' = call
    \/ \E s \in Sig : Called(s) /\ w2 = w /\ f2 = f
    \/ w # <<>> /\ Called(Head(w)) /\ w2 = Tail(w) /\ f2 = f + 1
    \/ w # <<>> /\ Called(Head(w)) /\ w2 = <<>> /\ f2 = f

Moves(P, D, A) ==
    \E Q, E, B : Lists(Q, E, B)' /\ Move(Waiting(P, D), Waiting(Q, E)', Free(A), Free(B)')

\* What the lists are made of.
LEMMA ListsOf ==
    ASSUME TypeOK, NEW P, NEW D, NEW A, Lists(P, D, A)
    PROVE  /\ signo \in SignalType /\ cur \in Sig /\ depth \in Nat
           /\ P \in Seq(Entry) /\ D \in Seq(Entry) /\ A \in Seq(Entry) /\ Len(A) \in Nat
           /\ Signals(signo, P) \in Seq(Sig) /\ Signals(signo, D) \in Seq(Sig)
<1>1. /\ signo \in SignalType /\ cur \in Sig /\ depth \in Nat
      /\ P \in Seq(Entry) /\ D \in Seq(Entry) /\ A \in Seq(Entry)
  BY EmptyList, MaxDepthAssumption DEF TypeOK, SignalType, Lists, MaxDepthAssumption
<1> QED
  BY <1>1, ListIndices, SignalsOf

LEMMA MovesHandle ==
    ASSUME TypeOK, ControlInv, NEW P, NEW D, NEW A, Lists(P, D, A), DeferHandle
    PROVE  Moves(P, D, A)
<1>1. /\ hpc = "defer" /\ depth = 0 /\ depth' = depth /\ active' = active /\ cur' = cur
      /\ call' = <<cur, 1 - call[2]>>
      /\ caller \in {"kernel", "unblock"}
  BY DEF DeferHandle, HandleFirst, HandlerLeaves, HandlerKills, HandlerBails, Call, TypeOK, ControlInv, NotNested
<1>2. D = <<>>
  BY <1>1, NothingDetached
<1>3. Called(cur)
  BY <1>1 DEF Called, Section
<1>4. PICK w \in Seq(Sig) : w = Signals(signo, P)
  BY ListsOf
<1>5. cur \in Sig /\ Len(A) \in Nat
  BY ListsOf
<1>6. \E Q, E : Lists(Q, E, A)' /\ Waiting(Q, E)' = w /\ Free(A)' = Len(A)
  <2>1. CASE HandlerLeaves(cur) /\ UNCHANGED pool
    <3>1. queue' = NULL /\ hpc' = "none" /\ signo' = signo
      BY <2>1 DEF HandlerLeaves, HandlerKills, HandlerBails, pool
    <3>2. Lists(P, <<>>, A)'
      BY <2>1, <3>1, ListsStay
    <3>3. Waiting(P, <<>>)' = w /\ Free(A)' = Len(A)
      BY <1>4, <3>1 DEF Waiting, Free, InHandNow
    <3> QED
      BY <3>2, <3>3
  <2>2. CASE queue' = phead /\ phead' = NULL /\ UNCHANGED <<ptail, pavail, next, signo>> /\ hpc' = "drain"
    <3>1. Lists(<<>>, P, A)'
      BY <1>2, <2>2, ListsDetach
    <3>2. Waiting(<<>>, P)' = w /\ Free(A)' = Len(A)
      BY <1>4, <2>2 DEF Waiting, Free, InHandNow
    <3> QED
      BY <3>1, <3>2
  <2> QED
    BY <2>1, <2>2 DEF DeferHandle, HandleFirst, ControlInv, NotNested
<1>7. CASE caller = "kernel"
  <2>1. Waiting(P, D) = w /\ Free(A) = Len(A)
    BY <1>1, <1>4, <1>7 DEF Waiting, Free, InHandNow
  <2> QED
    BY <1>3, <1>5, <1>6, <2>1 DEF Moves, Move
<1>8. CASE caller = "unblock"
  <2>1. PICK v : v = <<cur>> \o w
    OBVIOUS
  <2>2. Waiting(P, D) = v /\ Free(A) = Len(A) - 1
    BY <1>1, <1>4, <1>8, <2>1 DEF Waiting, Free, InHandNow
  <2>3. v # <<>> /\ Head(v) = cur /\ Tail(v) = w
    BY <1>5, <2>1, InHand, SMTT(30)
  <2>4. Len(A) = (Len(A) - 1) + 1
    BY <1>5
  <2>5. \A Q, E : Waiting(Q, E)' = w /\ Free(A)' = Len(A) =>
            Move(Waiting(P, D), Waiting(Q, E)', Free(A), Free(A)')
    BY <1>3, <2>2, <2>3, <2>4 DEF Move
  <2> QED
    BY <1>6, <2>5 DEF Moves
<1> QED
  BY <1>1, <1>7, <1>8

LEMMA MovesDelay ==
    ASSUME TypeOK, ControlInv, NEW P, NEW D, NEW A, Lists(P, D, A), DeferDelay
    PROVE  Moves(P, D, A)
<1>1. /\ hpc = "defer" /\ depth # 0 /\ active = 1 /\ depth' = depth /\ active' = active
      /\ queue' = NULL /\ hpc' = "none" /\ call' = call
  BY DEF DeferDelay, DeferReturns
<1>2. D = <<>>
  BY <1>1, NothingDetached
<1>3. Section /\ Section' /\ ~InHandNow /\ ~InHandNow'
  <2>1. caller # "unblock"
    BY <1>1 DEF ControlInv
  <2>2. depth > 0
    BY <1>1, ListsOf
  <2> QED
    BY <1>1, <2>1, <2>2 DEF Section, InHandNow
<1>4. Waiting(P, D) = Signals(signo, P) /\ Free(A) = Len(A)
  BY <1>1, <1>3 DEF Waiting, Free
<1>5. CASE pavail = NULL
  <2>1. UNCHANGED pool /\ signo' = signo
    BY <1>5 DEF DeferDelay, pool
  <2>2. Lists(P, <<>>, A)'
    BY <1>1, <2>1, ListsStay
  <2>3. Waiting(P, <<>>)' = Signals(signo, P) /\ Free(A)' = Len(A)
    BY <1>1, <1>3, <2>1 DEF Waiting, Free
  <2> QED
    BY <1>1, <1>4, <2>2, <2>3 DEF Moves, Move
<1>6. CASE pavail # NULL
  <2>1. PICK e : e = pavail
    OBVIOUS
  <2>2. PICK s \in Sig : s = cur
    BY ListsOf
  <2>3. Enqueue(s)
    BY <1>6, <2>2 DEF DeferDelay
  <2>4. PICK Q : Q = Append(P, e)
    OBVIOUS
  <2>5. PICK B : B = Tail(A)
    OBVIOUS
  <2>6. /\ Lists(Append(P, e), <<>>, Tail(A))' /\ e \in Entry /\ e \in Range(A)
        /\ Len(A) = Len(Tail(A)) + 1
        /\ signo' = [signo EXCEPT ![e] = s]
    BY <1>1, <1>2, <1>6, <2>1, <2>3, ListsEnqueue
  <2>7. Lists(Q, <<>>, B)'
    BY <2>4, <2>5, <2>6
  <2>8. e \notin Range(P)
    BY <2>6 DEF Lists, Apart
  <2>9. PICK sg2 : sg2 = signo'
    OBVIOUS
  <2>10. Signals(sg2, Append(P, e)) = Append(Signals(signo, P), s)
    <3>1. PICK sg \in SignalType : sg = signo
      BY ListsOf
    <3>2. Puts(sg, e, s, sg2)
      BY <2>6, <2>9, <3>1 DEF Puts
    <3>3. P \in Seq(Entry) /\ e \in Entry
      BY <2>6, ListsOf
    <3>4. Signals(sg2, Append(P, e)) = Append(Signals(sg, P), s)
      BY <2>8, <3>2, <3>3, SignalsPut
    <3> QED
      BY <3>1, <3>4
  <2>11. Waiting(Q, <<>>)' = Append(Signals(signo, P), s)
    BY <1>1, <1>3, <2>4, <2>9, <2>10 DEF Waiting
  <2>12. Len(A) > 0 /\ Free(B)' = Len(A) - 1
    <3>1. B \in Seq(Entry) /\ Len(A) \in Nat
      <4>1. A \in Seq(Entry) /\ Len(A) \in Nat /\ A # <<>>
        <5>1. A \in Seq(Entry) /\ Len(A) \in Nat
          BY ListsOf
        <5> QED
          BY <2>6, <5>1 DEF Range
      <4> QED
        BY <2>5, <4>1, HeadTailProperties
    <3>2. PICK l \in Nat : l = Len(B)
      BY <3>1, ListIndices
    <3>3. Len(A) = l + 1
      BY <2>5, <2>6, <3>2
    <3>4. l + 1 > 0 /\ (l + 1) - 1 = l
      OBVIOUS
    <3>5. Free(B)' = Len(B)
      BY <1>3 DEF Free
    <3> QED
      BY <3>2, <3>3, <3>4, <3>5
  <2>13. Move(Waiting(P, D), Waiting(Q, <<>>)', Free(A), Free(B)')
    BY <1>1, <1>3, <1>4, <2>11, <2>12 DEF Move
  <2> QED
    BY <2>7, <2>13 DEF Moves
<1> QED
  BY <1>5, <1>6

LEMMA MovesDrain ==
    ASSUME TypeOK, ControlInv, NEW P, NEW D, NEW A, Lists(P, D, A), DrainNext
    PROVE  Moves(P, D, A)
<1>1. /\ hpc = "drain" /\ queue # NULL /\ phead = NULL
      /\ depth = 0 /\ depth' = depth /\ active' = active
      /\ call' = <<signo[queue], 1 - call[2]>>
  BY DEF DrainNext, HandlerLeaves, HandlerKills, HandlerBails, Call, ControlInv
<1>2. P = <<>>
  BY <1>1, NothingPending
<1>3. PICK e : e = queue
  OBVIOUS
<1>4. D # <<>> /\ e = Head(D)
  BY <1>1, <1>3, TakeFirst DEF Lists
<1>5. PICK sg \in SignalType : sg = signo
  BY ListsOf
<1>6. D \in Seq(Entry) /\ Len(A) \in Nat
  BY ListsOf
<1>7. /\ Signals(sg, D) # <<>> /\ Head(Signals(sg, D)) = sg[e]
      /\ Tail(Signals(sg, D)) = Signals(sg, Tail(D))
  BY <1>4, <1>6, SignalsTake
<1>8. PICK w : w = Signals(sg, D)
  OBVIOUS
<1>9. Waiting(P, D) = w /\ Free(A) = Len(A)
  BY <1>1, <1>5, <1>8 DEF Waiting, Free, InHandNow
<1>10. w # <<>> /\ Called(Head(w)) /\ Tail(w) = Signals(sg, Tail(D))
  BY <1>1, <1>3, <1>5, <1>7, <1>8 DEF Called, Section
<1>11. CASE HandlerLeaves(signo[queue]) /\ UNCHANGED pool
  <2>1. queue' = NULL /\ hpc' = "none" /\ signo' = sg
    BY <1>5, <1>11 DEF HandlerLeaves, HandlerKills, HandlerBails, pool
  <2>2. Lists(P, <<>>, A)'
    BY <1>11, <2>1, ListsStay
  <2>3. Waiting(P, <<>>)' = <<>> /\ Free(A)' = Len(A)
    <3>1. Signals(sg, <<>>) = <<>>
      BY SignalsEmpty
    <3> QED
      BY <1>2, <2>1, <3>1 DEF Waiting, Free, InHandNow
  <2>4. Move(Waiting(P, D), Waiting(P, <<>>)', Free(A), Free(A)')
    BY <1>9, <1>10, <2>3 DEF Move
  <2> QED
    BY <2>2, <2>4 DEF Moves
<1>12. CASE Recycle(queue) /\ queue' = next[queue] /\ hpc' = hpc
  <2>1. PICK T : T = Tail(D)
    OBVIOUS
  <2>2. /\ signo' = signo
        /\ \E B : /\ Lists(<<>>, Tail(D), B)'
                  /\ Range(B) = Range(A) \cup {e} /\ Len(B) = Len(A) + 1
    BY <1>1, <1>2, <1>3, <1>12, ListsDrain
  <2>3. PICK B : Lists(<<>>, T, B)' /\ Len(B) = Len(A) + 1
    BY <2>1, <2>2
  <2>4. Waiting(<<>>, T)' = Tail(w) /\ Free(B)' = Len(A) + 1
    BY <1>1, <1>5, <1>10, <1>12, <2>1, <2>2, <2>3 DEF Waiting, Free, InHandNow
  <2>5. Move(Waiting(P, D), Waiting(<<>>, T)', Free(A), Free(B)')
    BY <1>9, <1>10, <2>4 DEF Move
  <2> QED
    BY <2>3, <2>5 DEF Moves
<1> QED
  BY <1>11, <1>12 DEF DrainNext

LEMMA MovesUnblock ==
    ASSUME TypeOK, ControlInv, NEW P, NEW D, NEW A, Lists(P, D, A), HandlerUnblock
    PROVE  Moves(P, D, A)
<1>1. /\ hpc = "none" /\ phead # NULL /\ PopHead /\ call' = call
      /\ hpc' = "defer" /\ caller' = "unblock" /\ cur' = signo[phead] /\ queue' = NULL
  BY DEF HandlerUnblock, At
<1>2. D = <<>>
  BY <1>1, NothingDetached
<1>3. PICK e : e = phead
  OBVIOUS
<1>4. P # <<>> /\ e = Head(P)
  BY <1>1, <1>3, TakeFirst DEF Lists
<1>5. PICK sg \in SignalType : sg = signo
  BY ListsOf
<1>6. P \in Seq(Entry) /\ Len(A) \in Nat
  BY ListsOf
<1>7. PICK T \in Seq(Entry) : T = Tail(P)
  BY <1>4, <1>6, HeadTailProperties
<1>8. /\ Signals(sg, P) # <<>> /\ Head(Signals(sg, P)) = sg[e]
      /\ Tail(Signals(sg, P)) = Signals(sg, T) /\ sg[e] \in Sig
      /\ Signals(sg, P) \in Seq(Sig) /\ Signals(sg, T) \in Seq(Sig)
  BY <1>4, <1>6, <1>7, SignalsTake, SignalsOf
<1>9. Signals(sg, P) = <<sg[e]>> \o Signals(sg, T)
  <2>1. PICK c \in Sig : c = sg[e]
    BY <1>8
  <2>2. PICK t \in Seq(Sig) : t = Signals(sg, T)
    BY <1>8
  <2>3. PICK u \in Seq(Sig) : u = Signals(sg, P)
    BY <1>8
  <2>4. u # <<>> /\ Head(u) = c /\ Tail(u) = t
    BY <1>8, <2>1, <2>2, <2>3
  <2>5. u = <<c>> \o t
    BY <2>4, InHand
  <2> QED
    BY <2>1, <2>2, <2>3, <2>5
<1>10. /\ signo' = signo
       /\ \E B : /\ Lists(Tail(P), <<>>, B)'
                 /\ Range(B) = Range(A) \cup {e} /\ Len(B) = Len(A) + 1
  BY <1>1, <1>2, <1>3, ListsPop
<1>11. PICK B : Lists(T, <<>>, B)' /\ Len(B) = Len(A) + 1
  BY <1>7, <1>10
<1>12. Waiting(P, D) = Signals(sg, P) /\ Free(A) = Len(A)
  BY <1>1, <1>5 DEF Waiting, Free, InHandNow
<1>13. Waiting(T, <<>>)' = Signals(sg, P) /\ Free(B)' = Len(A)
  <2>1. InHandNow' /\ cur' = sg[e] /\ signo' = sg
    BY <1>1, <1>3, <1>5, <1>10 DEF InHandNow
  <2>2. Len(B) - 1 = Len(A)
    BY <1>6, <1>11
  <2> QED
    BY <1>9, <2>1, <2>2 DEF Waiting, Free
<1>14. Move(Waiting(P, D), Waiting(T, <<>>)', Free(A), Free(B)')
  BY <1>1, <1>12, <1>13 DEF Move
<1> QED
  BY <1>11, <1>14 DEF Moves

\* A step that leaves the pool alone handles a signal that did not wait, or
\* does nothing to what waits.
LEMMA MovesElse ==
    ASSUME TypeOK, ControlInv, SectionInv, NEW P, NEW D, NEW A, Lists(P, D, A), [Next]_vars,
           ~DeferHandle, ~DeferDelay, ~DrainNext, ~HandlerUnblock
    PROVE  Moves(P, D, A)
<1>1. UNCHANGED pool /\ queue' = queue
  BY PoolKept
<1>2. Lists(P, D, A)' /\ signo' = signo
  BY <1>1, ListsStay DEF pool
<1>3. /\ call' = call \/ \E s \in Sig : Called(s)
      /\ \/ hpc' = hpc /\ caller' = caller /\ cur' = cur
         \/ ~InHandNow /\ ~InHandNow' /\ hpc # "drain" /\ hpc' # "drain"
         \/ ~InHandNow' /\ hpc = "drain" /\ hpc' = "none" /\ queue = NULL
  <2>1. CASE \E s \in Sig : Arrive(s) \/ Deliver(s)
    BY <2>1 DEF Arrive, Deliver, InCode, frame, InHandNow
  <2>2. CASE \E s \in Sig : DeliverOriginal(s)
    BY <2>2 DEF DeliverOriginal, InCode, frame, flags, SectionInv, Called, Section, Call
  <2>3. CASE DeferInactive
    <3>1. active = 0 /\ active' = 0 /\ hpc = "defer" /\ hpc' = "none"
          /\ call' = <<cur, 1 - call[2]>>
      BY <2>3 DEF DeferInactive, HandlerLeaves, HandlerKills, HandlerBails, DeferReturns, Call
    <3>2. Called(cur) /\ cur \in Sig
      BY <3>1 DEF Called, Section, TypeOK
    <3> QED
      BY <3>1, <3>2 DEF InHandNow, ControlInv
  <2>4. CASE DrainEnd
    BY <2>4 DEF DrainEnd, DeferReturns, InHandNow
  <2>5. CASE Block \/ Unblock \/ CriticalStep
    BY <2>5 DEF Block, Unblock, CriticalStep, Compare, HandlerUnblockOnNULL, frame
  <2>6. CASE StartupStep
    BY <2>6 DEF StartupStep, ActivateHandlers, ActivateRegister, ActivateOpen, SetTimeout, frame
  <2>7. CASE (\E s \in Sig, h \in Handler : SetHandler(s, h)) \/ Shutdown
    BY <2>7 DEF SetHandler, Shutdown, frame
  <2>8. CASE UNCHANGED vars
    BY <2>8 DEF vars, frame
  <2> QED
    BY <2>1, <2>2, <2>3, <2>4, <2>5, <2>6, <2>7, <2>8 DEF Next, HandlerStep, CriticalStep
<1>4. Waiting(P, D)' = Waiting(P, D) /\ Free(A)' = Free(A)
  <2>1. CASE hpc' = hpc /\ caller' = caller /\ cur' = cur
    BY <1>2, <2>1 DEF Waiting, Free, InHandNow
  <2>2. CASE ~InHandNow /\ ~InHandNow' /\ hpc # "drain" /\ hpc' # "drain"
    BY <1>2, <2>2 DEF Waiting, Free
  <2>3. CASE ~InHandNow' /\ hpc = "drain" /\ hpc' = "none" /\ queue = NULL
    <3>1. P = <<>>
      BY <2>3, NothingPending
    <3>2. D = <<>>
      BY <2>3, EmptyList DEF Lists
    <3> QED
      BY <1>2, <2>3, <3>1, <3>2 DEF Waiting, Free, InHandNow
  <2> QED
    BY <1>3, <2>1, <2>2, <2>3
<1>5. Move(Waiting(P, D), Waiting(P, D)', Free(A), Free(A)')
  BY <1>3, <1>4 DEF Move
<1> QED
  BY <1>2, <1>5 DEF Moves

\* The pool and its interleavings implement a FIFO of deferred signals, for
\* every number of entries: a signal that arrives in a section is appended if a
\* place is free, waiting signals are handled in their order, once, outside
\* sections, and only a handler that does not return loses those behind it.
THEOREM KeepsPromise == Spec => ImplementsPromise
<1> DEFINE w == MappedWaiting
           f == MappedFree
<1>1. TypeOK /\ ControlInv /\ Init => Promise!Init
  <2> SUFFICES ASSUME TypeOK, ControlInv, Init PROVE Promise!Init
    OBVIOUS
  <2>1. PICK A : Lists(<<>>, <<>>, A) /\ Len(A) = QSIZE
    BY ListsInit
  <2>2. w = Waiting(<<>>, <<>>) /\ f = Free(A)
    BY <2>1, ViewNow
  <2>3. hpc = "none" /\ signo \in SignalType /\ active = 0 /\ call \in Sig \X (0 .. 1)
    BY DEF Init, TypeOK, SignalType
  <2>4. w = <<>> /\ f = QSIZE /\ ~Section
    BY <2>1, <2>2, <2>3, SignalsEmpty DEF Waiting, Free, InHandNow, Section
  <2> QED
    BY <2>3, <2>4 DEF Promise!Init, MappedWaiting, MappedFree, Section
<1>2. TypeOK /\ ControlInv /\ SectionInv /\ PoolInv /\ TypeOK' /\ ControlInv' /\ [Next]_vars
        => [Promise!Next]_(Promise!vars)
  <2> SUFFICES ASSUME TypeOK, ControlInv, SectionInv, PoolInv, TypeOK', ControlInv', [Next]_vars
               PROVE  [Promise!Next]_(Promise!vars)
    OBVIOUS
  <2>1. PICK P, D, A : Lists(P, D, A)
    BY DEF PoolInv
  <2>2. Moves(P, D, A)
    BY <2>1, MovesHandle, MovesDelay, MovesDrain, MovesUnblock, MovesElse
  <2>3. PICK Q, E, B : Lists(Q, E, B)' /\ Move(Waiting(P, D), Waiting(Q, E)', Free(A), Free(B)')
    BY <2>2 DEF Moves
  <2>4. w = Waiting(P, D) /\ f = Free(A)
    BY <2>1, ViewNow
  <2>5. w' = Waiting(Q, E)' /\ f' = Free(B)'
    BY <2>3, ViewNext
  <2>6. Move(w, w', f, f')
    BY <2>3, <2>4, <2>5
  <2>7. Section \in BOOLEAN /\ Section' \in BOOLEAN
    BY DEF Section
  <2>8. CASE w' = w /\ f' = f /\ call' = call
    <3>1. CASE Section' = Section
      BY <2>8, <3>1 DEF Promise!vars, MappedWaiting, MappedFree, Section
    <3>2. CASE Section' = ~Section
      <4>1. Promise!EnterOrLeave
        BY <2>8, <3>2 DEF Promise!EnterOrLeave, MappedWaiting, MappedFree, Section
      <4> QED
        BY <4>1 DEF Promise!Next
    <3> QED
      BY <2>7, <3>1, <3>2
  <2>9. ASSUME NEW s \in Sig, Section /\ Section' /\ f > 0 /\ w' = Append(w, s) /\ f' = f - 1
               /\ call' = call
        PROVE  Promise!Next
    <3>1. Promise!Defer(s)
      BY <2>7, <2>9 DEF Promise!Defer, MappedWaiting, MappedFree, Section
    <3> QED
      BY <3>1 DEF Promise!Next
  <2>10. ASSUME NEW s \in Sig, Called(s), w' = w /\ f' = f PROVE Promise!Next
    <3>1. Promise!HandleArriving(s)
      BY <2>7, <2>10 DEF Promise!HandleArriving, Promise!Call, Called, MappedWaiting, MappedFree, Section
    <3> QED
      BY <3>1 DEF Promise!Next
  <2>11. CASE w # <<>> /\ Called(Head(w)) /\ w' = Tail(w) /\ f' = f + 1
    <3>1. Promise!HandleWaiting
      BY <2>7, <2>11 DEF Promise!HandleWaiting, Promise!Call, Called, MappedWaiting, MappedFree, Section
    <3> QED
      BY <3>1 DEF Promise!Next
  <2>12. CASE w # <<>> /\ Called(Head(w)) /\ w' = <<>> /\ f' = f
    <3>1. Promise!Abandon
      BY <2>7, <2>12 DEF Promise!Abandon, Promise!Call, Called, MappedWaiting, MappedFree, Section
    <3> QED
      BY <3>1 DEF Promise!Next
  <2> HIDE DEF w, f
  <2> QED
    BY <2>6, <2>8, <2>9, <2>10, <2>11, <2>12 DEF Move
<1>3. QED
  BY TypeCorrect, ControlInvariant, SectionInvariant, PoolInvariant, <1>1, <1>2, PTL
     DEF Spec, ImplementsPromise, Promise!Spec

=============================================================================
