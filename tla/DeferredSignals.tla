--------------------------- MODULE DeferredSignals --------------------------
(***************************************************************************)
(* What Zend/zend_signal.c promises the code it interrupts: inside a       *)
(* critical section no handler is called; a signal that arrives there      *)
(* waits, while a place is free; after the section the waiting signals are *)
(* handled in the order in which they arrived.  A handler that does not    *)
(* return may take with it every signal that still waits, and their        *)
(* places.                                                                 *)
(***************************************************************************)
EXTENDS Naturals, Sequences

CONSTANTS
    Sig,        \* the signals
    Places      \* how many signals can wait

VARIABLES
    waiting,    \* the deferred signals, first to be handled first
    free,       \* places left
    section,    \* the interrupted code is in a critical section
    call        \* the signal whose handler was called last, and a toggle

vars == <<waiting, free, section, call>>

Init ==
    /\ waiting = <<>> /\ free = Places /\ section = FALSE
    /\ call \in Sig \X (0 .. 1)

EnterOrLeave ==
    /\ section' = ~section
    /\ UNCHANGED <<waiting, free, call>>

Defer(s) ==
    /\ section /\ free > 0
    /\ waiting' = Append(waiting, s) /\ free' = free - 1
    /\ UNCHANGED <<section, call>>

Call(s) == ~section /\ call' = <<s, 1 - call[2]>> /\ UNCHANGED section

\* A signal that did not have to wait overtakes those that do.
HandleArriving(s) == Call(s) /\ UNCHANGED <<waiting, free>>

HandleWaiting ==
    /\ waiting # <<>>
    /\ Call(Head(waiting))
    /\ waiting' = Tail(waiting) /\ free' = free + 1

\* The handler does not return: the waiting signals it was to be followed by
\* are lost and their places are not recovered.
Abandon ==
    /\ waiting # <<>>
    /\ Call(Head(waiting))
    /\ waiting' = <<>> /\ UNCHANGED free

Next ==
    \/ EnterOrLeave
    \/ \E s \in Sig : Defer(s) \/ HandleArriving(s)
    \/ HandleWaiting
    \/ Abandon

Spec == Init /\ [][Next]_vars

=============================================================================
