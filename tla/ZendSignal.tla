----------------------------- MODULE ZendSignal -----------------------------
(***************************************************************************)
(* Deferred signal handling of the Zend engine (Zend/zend_signal.c, built  *)
(* with --enable-zend-signals), together with the code that drives it: the *)
(* BLOCK/UNBLOCK macros around critical sections, php_request_startup and  *)
(* php_request_shutdown, and zend_timeout, which leaves a handler by       *)
(* longjmp.                                                                *)
(*                                                                         *)
(* One thread runs PHP code.  The kernel interrupts it between any two     *)
(* steps of that code to run zend_signal_handler_defer, unless the signal  *)
(* is in the thread's signal mask.  The pool of queue entries is the       *)
(* pointer structure of the source: pointer 0 is NULL.                     *)
(***************************************************************************)
EXTENDS Integers, Sequences, FiniteSets, Functions

CONSTANTS
    Sig,        \* the signals in zend_sigs
    PROF,       \* TIMEOUT_SIG, the signal of the execution time limit
    QSIZE,      \* ZEND_SIGNAL_QUEUE_SIZE, the number of pool entries
    MaxDepth,   \* bound on nested critical sections
    Orig,       \* global_orig_handlers: the handler each signal had at startup
    Installed,  \* the handler it has when the first request starts
    Settable,   \* the handlers a script installs (zend_signal, zend_sigaction)
    TimeLimit,  \* FALSE for a build without setitimer: no zend_timeout
    Hook        \* the SAPI ends a request with php_request_shutdown_for_hook

Handler == {"dfl", "ign", "ret", "timeout"}

ASSUME PROFAssumption == PROF \in Sig
ASSUME QSIZEAssumption == QSIZE \in Nat \ {0}
ASSUME MaxDepthAssumption == MaxDepth \in Nat
ASSUME OrigAssumption ==
    Orig \in [Sig -> {"dfl", "ign", "ret"}] /\ Installed \in [Sig -> {"dfl", "ign", "ret"}]
ASSUME SettableAssumption == Settable \subseteq {"dfl", "ign", "ret"}
ASSUME FlagAssumption == TimeLimit \in BOOLEAN /\ Hook \in BOOLEAN

NULL == 0
Entry == 1 .. QSIZE
Pointer == 0 .. QSIZE

VARIABLES
    active, depth, blocked, running, handlers,  \* the flags of SIGG
    phead, ptail, pavail, next, signo,          \* the pending queue of SIGG
    disposition, \* what the kernel runs for Sig: Installed or handler_defer
    kpending,   \* signals the kernel has yet to deliver
    mask,       \* the thread's signal mask
    saved,      \* the mask to restore when the handler or critical part ends
    pc,         \* where the interrupted code is
    hpc,        \* where handler_defer is, "none" when it does not run
    cur,        \* the argument signo of handler_defer
    queue,      \* the local variable queue of handler_defer
    caller,     \* who called handler_defer, the kernel or handler_unblock
    call        \* history: the signal last passed to its handler, and a toggle

flags == <<active, depth, blocked, running>>
pool == <<phead, ptail, pavail, next, signo>>
frame == <<hpc, cur, queue, caller>>
vars == <<flags, handlers, pool, disposition, kpending, mask, saved, pc, frame,
          call>>

\* The idle process: the globals constructed, no request started yet.
Init ==
    /\ active = 0 /\ depth = 0 /\ blocked = -1 /\ running = 0
    /\ handlers = Orig
    /\ phead = NULL /\ ptail = NULL /\ pavail = QSIZE
    /\ next = [e \in Entry |-> e - 1]
    /\ signo = [e \in Entry |-> PROF]
    /\ disposition = "original"
    /\ kpending = {} /\ mask = {} /\ saved = {}
    /\ pc = "idle"
    /\ hpc = "none" /\ cur = PROF /\ queue = NULL /\ caller = "kernel"
    /\ call = <<PROF, 0>>

\* The interrupted code is at a place and no signal handler runs.
At(place) == pc = place /\ hpc = "none"

InCode == pc \notin {"dead", "crashed"} /\ hpc = "none"

-----------------------------------------------------------------------------
(* The pool of queue entries.                                              *)

\* handler_unblock unlinks the first pending entry.
PopHead ==
    /\ phead' = next[phead]
    /\ next' = [next EXCEPT ![phead] = pavail]
    /\ pavail' = phead
    /\ UNCHANGED <<ptail, signo>>

\* Fault: ptail is trusted although the queue is empty.
EnqueueStaleTail(s) ==
    LET e == pavail
        linked == [next EXCEPT ![e] = NULL] IN
    /\ pavail' = next[e]
    /\ signo' = [signo EXCEPT ![e] = s]
    /\ IF ptail # NULL
         THEN next' = [linked EXCEPT ![ptail] = e] /\ phead' = phead
         ELSE next' = linked /\ phead' = e
    /\ ptail' = e

\* Fault: the next pointer of the entry still leads into pavail.
EnqueueKeepsNext(s) ==
    LET e == pavail IN
    /\ pavail' = next[e]
    /\ signo' = [signo EXCEPT ![e] = s]
    /\ IF phead # NULL /\ ptail # NULL
         THEN next' = [next EXCEPT ![ptail] = e] /\ phead' = phead
         ELSE UNCHANGED next /\ phead' = e
    /\ ptail' = e

\* handler_defer takes an entry from pavail and appends it to the queue.
Enqueue(s) ==
    LET e == pavail
        linked == [next EXCEPT ![e] = NULL] IN
    /\ pavail' = next[e]
    /\ signo' = [signo EXCEPT ![e] = s]
    /\ IF phead # NULL /\ ptail # NULL
         THEN next' = [linked EXCEPT ![ptail] = e] /\ phead' = phead
         ELSE next' = linked /\ phead' = e
    /\ ptail' = e

\* The drain loop returns the entry it has handled to pavail.
Recycle(e) ==
    /\ next' = [next EXCEPT ![e] = pavail]
    /\ pavail' = e
    /\ UNCHANGED <<phead, ptail, signo>>

-----------------------------------------------------------------------------
(* zend_signal_handler(s), and the three ways the call can end.            *)

Call(s) == call' = <<s, 1 - call[2]>>

\* Fault: the critical part ends without SIGNAL_END_CRITICAL.
DeferReturnsMasked ==
    /\ mask' = IF caller = "unblock" THEN mask ELSE saved
    /\ hpc' = "none" /\ queue' = NULL /\ caller' = "kernel"
    /\ pc' = IF caller = "unblock" THEN "run" ELSE pc
    /\ UNCHANGED <<saved, cur>>

\* handler_defer returns: to the kernel, which restores the mask of the
\* interrupted code, or to handler_unblock, whose SIGNAL_END_CRITICAL does.
DeferReturns ==
    /\ mask' = saved
    /\ hpc' = "none" /\ queue' = NULL /\ caller' = "kernel"
    /\ pc' = IF caller = "unblock" THEN "run" ELSE pc
    /\ UNCHANGED <<saved, cur>>

\* SIG_DFL: the signal is raised again unmasked and its default action ends
\* the process.
HandlerKills(s) ==
    /\ handlers[s] = "dfl"
    /\ pc' = "dead"
    /\ hpc' = "none" /\ queue' = NULL /\ caller' = "kernel"
    /\ UNCHANGED <<active, depth, running, handlers, mask, saved, cur>>

\* Fault: zend_timeout does not pretend that no handler runs.
HandlerBailsRunning(s) ==
    /\ handlers[s] = "timeout"
    /\ handlers' = [handlers EXCEPT ![PROF] = "timeout"]
    /\ mask' = mask \ {PROF}
    /\ pc' = IF pc = "idle" THEN "dead" ELSE "run"
    /\ hpc' = "none" /\ queue' = NULL /\ caller' = "kernel"
    /\ UNCHANGED <<active, depth, running, saved, cur>>

\* zend_timeout: running is reset, php_on_timeout arms the timeout again,
\* which unmasks PROF, and zend_error leaves by longjmp.  sigsetjmp(a, 0)
\* saved no mask, so whatever else is masked stays masked.  Outside a request
\* there is no bailout address and the process exits.
HandlerBails(s) ==
    /\ handlers[s] = "timeout"
    /\ running' = 0
    /\ handlers' = [handlers EXCEPT ![PROF] = "timeout"]
    /\ mask' = mask \ {PROF}
    /\ pc' = IF pc = "idle" THEN "dead" ELSE "run"
    /\ hpc' = "none" /\ queue' = NULL /\ caller' = "kernel"
    /\ UNCHANGED <<active, depth, saved, cur>>

HandlerLeaves(s) == HandlerKills(s) \/ HandlerBails(s)

HandlerReturns(s) == handlers[s] \in {"ret", "ign"}

-----------------------------------------------------------------------------
(* Signals.                                                                *)

\* A signal is sent to the process; a pending one is not queued twice.
Arrive(s) ==
    /\ s \notin kpending
    /\ kpending' = kpending \cup {s}
    /\ UNCHANGED <<flags, handlers, pool, disposition, mask, saved, pc, frame,
                   call>>

\* Before the first request the kernel still runs the handler of the SAPI.
DeliverOriginal(s) ==
    /\ InCode /\ disposition = "original"
    /\ s \in kpending \ mask
    /\ kpending' = kpending \ {s}
    /\ pc' = IF Installed[s] = "dfl" THEN "dead" ELSE pc
    /\ Call(s)
    /\ UNCHANGED <<flags, handlers, pool, disposition, mask, saved, frame>>

\* The kernel interrupts the code and enters handler_defer with every signal
\* of sa_mask = global_sigmask masked.
Deliver(s) ==
    /\ InCode /\ disposition = "defer"
    /\ s \in kpending \ mask
    /\ kpending' = kpending \ {s}
    /\ saved' = mask /\ mask' = Sig
    /\ hpc' = "defer" /\ cur' = s /\ queue' = NULL /\ caller' = "kernel"
    /\ UNCHANGED <<flags, handlers, pool, disposition, pc, call>>

\* The internal handling is not active: just run the handler.
DeferInactive ==
    /\ hpc = "defer" /\ active = 0
    /\ Call(cur)
    /\ \/ HandlerLeaves(cur)
       \/ /\ HandlerReturns(cur)
          /\ DeferReturns
          /\ UNCHANGED <<active, depth, running, handlers>>
    /\ UNCHANGED <<blocked, pool, disposition, kpending>>

\* Fault: the depth is not looked at.
DeferHandleAnyDepth ==
    /\ hpc = "defer" /\ active = 1 /\ running = 0
    /\ blocked' = -1
    /\ Call(cur)
    /\ HandlerReturns(cur)
    /\ running' = 1
    /\ queue' = phead /\ phead' = NULL
    /\ hpc' = "drain"
    /\ UNCHANGED <<active, depth, handlers, ptail, pavail, next, signo, mask,
                   saved, pc, cur, caller, disposition, kpending>>

\* The handler runs, then the pending queue is detached for the drain loop.
HandleFirst ==
    /\ Call(cur)
    /\ \/ HandlerLeaves(cur) /\ UNCHANGED pool
       \/ /\ HandlerReturns(cur)
          /\ running' = 1
          /\ queue' = phead /\ phead' = NULL
          /\ hpc' = "drain"
          /\ UNCHANGED <<active, depth, handlers, ptail, pavail, next, signo,
                         mask, saved, pc, cur, caller>>

\* The signal that interrupts a handler is dropped.  All signals are masked while
\* handlers run, so that none does.
HandleNested ==
    /\ DeferReturns
    /\ UNCHANGED <<active, depth, running, handlers, pool, call>>

\* Outside a critical section.
DeferHandle ==
    /\ hpc = "defer" /\ active = 1 /\ depth = 0
    /\ blocked' = -1
    /\ IF running = 0 THEN HandleFirst ELSE HandleNested
    /\ UNCHANGED <<disposition, kpending>>

\* Fault: the inverse encoding of blocked is mistaken for a Boolean.
DeferDelayInverse ==
    /\ hpc = "defer" /\ active = 1 /\ depth # 0
    /\ blocked' = 1
    /\ IF pavail # NULL THEN Enqueue(cur) ELSE UNCHANGED pool
    /\ DeferReturns
    /\ UNCHANGED <<active, depth, running, handlers, disposition, kpending, call>>

\* Fault: the signal is queued, but UNBLOCK is not told.
DeferDelaySilent ==
    /\ hpc = "defer" /\ active = 1 /\ depth # 0
    /\ IF pavail # NULL THEN Enqueue(cur) ELSE UNCHANGED pool
    /\ DeferReturns
    /\ UNCHANGED <<flags, handlers, disposition, kpending, call>>

\* Inside a critical section the signal is queued, or forgotten when no entry
\* is left; either way blocked is set.
DeferDelay ==
    /\ hpc = "defer" /\ active = 1 /\ depth # 0
    /\ blocked' = 0
    /\ IF pavail # NULL THEN Enqueue(cur) ELSE UNCHANGED pool
    /\ DeferReturns
    /\ UNCHANGED <<active, depth, running, handlers, disposition, kpending, call>>

\* Fault: a handled entry is not returned to the pool.
DrainNextLeaks ==
    /\ hpc = "drain" /\ queue # NULL
    /\ Call(signo[queue])
    /\ \/ HandlerLeaves(signo[queue])
       \/ /\ HandlerReturns(signo[queue])
          /\ queue' = next[queue]
          /\ UNCHANGED <<active, depth, running, handlers, mask, saved, pc,
                         hpc, cur, caller>>
    /\ UNCHANGED <<blocked, pool, disposition, kpending>>

\* One iteration of the loop over the detached queue.
DrainNext ==
    /\ hpc = "drain" /\ queue # NULL
    /\ Call(signo[queue])
    /\ \/ HandlerLeaves(signo[queue]) /\ UNCHANGED pool
       \/ /\ HandlerReturns(signo[queue])
          /\ Recycle(queue)
          /\ queue' = next[queue]
          /\ UNCHANGED <<active, depth, running, handlers, mask, saved, pc,
                         hpc, cur, caller>>
    /\ UNCHANGED <<blocked, disposition, kpending>>

DrainEnd ==
    /\ hpc = "drain" /\ queue = NULL
    /\ running' = 0
    /\ DeferReturns
    /\ UNCHANGED <<active, depth, blocked, handlers, pool, disposition, kpending,
                   call>>

-----------------------------------------------------------------------------
(* Critical sections of the interrupted code.                              *)

\* ZEND_SIGNAL_BLOCK_INTERRUPUTIONS
Block ==
    /\ At("run") /\ depth < MaxDepth
    /\ depth' = depth + 1
    /\ UNCHANGED <<active, blocked, running, handlers, pool, disposition,
                   kpending, mask, saved, pc, frame, call>>

\* ZEND_SIGNAL_UNBLOCK_INTERRUPTIONS decrements depth, reads blocked, and
\* calls handler_unblock: three instants between which a signal may arrive.
Unblock ==
    /\ At("run") /\ depth > 0
    /\ depth' = depth - 1
    /\ pc' = "compare"
    /\ UNCHANGED <<active, blocked, running, handlers, pool, disposition,
                   kpending, mask, saved, frame, call>>

Compare ==
    /\ At("compare")
    /\ pc' = IF depth = blocked THEN "unblock" ELSE "run"
    /\ UNCHANGED <<flags, handlers, pool, disposition, kpending, mask, saved,
                   frame, call>>

\* zend_signal_handler_unblock with its critical part entered.  The source
\* reads queue->next without a test of queue.
HandlerUnblock ==
    /\ At("unblock") /\ active = 1 /\ phead # NULL
    /\ saved' = mask /\ mask' = Sig
    /\ PopHead
    /\ hpc' = "defer" /\ cur' = signo[phead] /\ queue' = NULL
    /\ caller' = "unblock"
    /\ UNCHANGED <<flags, handlers, disposition, kpending, pc, call>>

HandlerUnblockOnNULL ==
    /\ At("unblock") /\ active = 1 /\ phead = NULL
    /\ pc' = "crashed"
    /\ UNCHANGED <<flags, handlers, pool, disposition, kpending, mask, saved,
                   frame, call>>

-----------------------------------------------------------------------------
(* Requests.                                                               *)

\* php_request_startup calls zend_signal_activate, which copies the original
\* handlers ...
ActivateHandlers ==
    /\ At("idle")
    /\ handlers' = Orig
    /\ pc' = "activate"
    /\ UNCHANGED <<flags, pool, disposition, kpending, mask, saved, frame, call>>

\* ... and installs handler_defer for each signal, in place of the handler it finds
\* and keeps, unless that is handler_defer, as in later requests ...
ActivateRegister ==
    /\ At("activate")
    /\ handlers' = IF disposition = "original" THEN Installed ELSE handlers
    /\ disposition' = "defer"
    /\ pc' = "registered"
    /\ UNCHANGED <<flags, pool, kpending, mask, saved, frame, call>>

\* ... and opens the signal handling of the request.
ActivateOpen ==
    /\ At("registered")
    /\ active' = 1 /\ depth' = 0
    /\ pc' = "activated"
    /\ UNCHANGED <<blocked, running, handlers, pool, disposition, kpending, mask,
                   saved, frame, call>>

\* php_request_startup then calls zend_set_timeout(.., 1): zend_signal
\* installs zend_timeout and unmasks PROF.
SetTimeout ==
    /\ At("activated")
    /\ IF TimeLimit
         THEN /\ handlers' = [handlers EXCEPT ![PROF] = "timeout"]
              /\ mask' = mask \ {PROF}
         ELSE UNCHANGED <<handlers, mask>>
    /\ pc' = "run"
    /\ UNCHANGED <<flags, pool, disposition, kpending, saved, frame, call>>

\* pcntl_signal: zend_sigaction sets the handler and unmasks the signal.
SetHandler(s, h) ==
    /\ At("run") /\ h \in Settable
    /\ handlers' = [handlers EXCEPT ![s] = h]
    /\ mask' = mask \ {s}
    /\ UNCHANGED <<flags, pool, disposition, kpending, saved, pc, frame, call>>

\* The request ends, outside every critical section.  Only the hook shutdown
\* calls zend_signal_deactivate.
Shutdown ==
    /\ At("run") /\ depth = 0
    /\ IF Hook
         THEN /\ active' = 0 /\ depth' = 0 /\ blocked' = -1
              /\ running' = 0
         ELSE UNCHANGED flags
    /\ pc' = "idle"
    /\ UNCHANGED <<handlers, pool, disposition, kpending, mask, saved, frame,
                   call>>

-----------------------------------------------------------------------------

HandlerStep == DeferInactive \/ DeferHandle \/ DeferDelay \/ DrainNext \/ DrainEnd

CriticalStep == Compare \/ HandlerUnblock \/ HandlerUnblockOnNULL

StartupStep ==
    ActivateHandlers \/ ActivateRegister \/ ActivateOpen \/ SetTimeout

Next ==
    \/ \E s \in Sig : Arrive(s) \/ DeliverOriginal(s) \/ Deliver(s)
    \/ HandlerStep
    \/ Block \/ Unblock \/ CriticalStep
    \/ StartupStep
    \/ \E s \in Sig, h \in Handler : SetHandler(s, h)
    \/ Shutdown

Spec == Init /\ [][Next]_vars

\* The thread keeps running, whatever number of signals interrupts it: handlers
\* and UNBLOCK go on to their end, and every critical section, being
\* straight-line code, is left.  The kernel delivers what is not masked.
Fairness ==
    /\ WF_vars(HandlerStep)
    /\ SF_vars(CriticalStep)
    /\ \A d \in 1 .. MaxDepth : SF_vars(Unblock /\ depth = d)
    /\ \A s \in Sig : SF_vars(Deliver(s))

FairSpec == Spec /\ Fairness

-----------------------------------------------------------------------------
(* Properties.                                                             *)

\* The types of the variables.
TypeOK ==
    /\ active \in 0 .. 1 /\ running \in 0 .. 1
    /\ depth \in 0 .. MaxDepth /\ blocked \in {-1, 0}
    /\ handlers \in [Sig -> Handler]
    /\ phead \in Pointer /\ ptail \in Pointer /\ pavail \in Pointer
    /\ next \in [Entry -> Pointer] /\ signo \in [Entry -> Sig]
    /\ disposition \in {"original", "defer"}
    /\ kpending \subseteq Sig /\ mask \subseteq Sig /\ saved \subseteq Sig
    /\ pc \in {"idle", "activate", "registered", "activated", "run",
               "compare", "unblock", "dead", "crashed"}
    /\ hpc \in {"none", "defer", "drain"}
    /\ cur \in Sig /\ queue \in Pointer /\ caller \in {"kernel", "unblock"}
    /\ call \in Sig \X (0 .. 1)

\* While the signal handling is active no handler is called inside a critical
\* section: not for the signal that arrives, not for one that waited, and not
\* by an UNBLOCK that a signal interrupted.
HandlersOutsideSections == [][call' # call => (active = 0 \/ depth = 0)]_vars

\* After zend_timeout has left its handler by longjmp, the request (its
\* shutdown functions) can be timed out again: PROF is not masked and running
\* does not make handler_defer drop it.
TimeoutStaysDeliverable ==
    InCode /\ pc \in {"run", "compare", "unblock"} /\ TimeLimit =>
        PROF \notin mask /\ running = 0

\* When every handler returns, a signal deferred in a critical section never
\* outlives it: once UNBLOCK has returned at depth 0 nothing waits.
NothingStranded == At("run") /\ depth = 0 => phead = NULL

\* blocked = 0 tells UNBLOCK that a signal waits in the queue.  So it is while
\* every handler returns; a pool drained by handlers that did not return
\* breaks it (the signal is forgotten, blocked is set all the same).
BlockedMeansQueued == InCode /\ blocked = 0 => phead # NULL

\* The entries from p on, in order.  A list longer than the pool has a cycle; it
\* is cut after QSIZE + 1 entries.
Follow(nx) == [p \in Pointer |-> IF p = NULL THEN NULL ELSE nx[p]]
List(nx, p) ==
    LET at[i \in 0 .. QSIZE] == IF i = 0 THEN p ELSE Follow(nx)[at[i - 1]]
    IN  [i \in 1 .. Cardinality({j \in 0 .. QSIZE : at[j] # NULL}) |-> at[i - 1]]

Pending == List(next, phead)
Avail == List(next, pavail)
Detached == List(next, queue)

\* The pending queue, the queue being drained and the available entries are
\* lists without a cycle and without a common entry, and ptail, whenever the
\* next enqueue will trust it, is the last entry of the pending queue.
Apart(P, D, A) ==
    /\ IsInjective(P) /\ IsInjective(D) /\ IsInjective(A)
    /\ Range(P) \cap Range(D) = {} /\ Range(P) \cap Range(A) = {}
    /\ Range(D) \cap Range(A) = {}

PoolWellFormed ==
    /\ Apart(Pending, Detached, Avail)
    /\ phead # NULL => ptail = Pending[Len(Pending)]

\* While every handler returns, no entry is ever lost to the pool, so that a
\* signal which finds none does so because all of them wait, and an UNBLOCK that
\* is told of a waiting signal finds it in the queue.
NoneForgotten ==
    pc # "dead" =>
        /\ Range(Pending) \cup Range(Detached) \cup Range(Avail) = Entry
        /\ BlockedMeansQueued

\* handler_unblock holds the first waiting signal in cur after it returned the
\* entry to the pool.
InFlight == IF hpc = "defer" /\ caller = "unblock" THEN <<cur>> ELSE <<>>

\* The signals of a list of entries.
Signals(sg, s) == [i \in DOMAIN s |-> sg[s[i]]]

Promise ==
    INSTANCE DeferredSignals WITH
        Places <- QSIZE,
        waiting <- InFlight \o (Signals(signo, Detached) \o Signals(signo, Pending)),
        free <- Len(Avail) - Len(InFlight),
        section <- active = 1 /\ depth > 0

\* The pointer structure and its interleavings implement the promise of a
\* FIFO of deferred signals.
ImplementsPromise == Promise!Spec

\* The signal waits to be handled: in one of the queues or in handler_unblock.
Waits(s) == \E q \in {Signals(signo, Pending), Signals(signo, Detached), InFlight} : s \in Range(q)

\* Every deferred signal is handled in the end, while every handler returns:
\* whatever signals come after it, its handler is called and it waits no more.
DeferredHandled == \A s \in Sig : Waits(s) ~> (call[1] = s /\ ~Waits(s))

\* No signal is left to the kernel for ever once the handlers are installed.
PendingDelivered ==
    \A s \in Sig :
        (disposition = "defer" /\ s \in kpending) ~>
            (s \notin kpending \/ pc \in {"dead", "crashed"})

=============================================================================
