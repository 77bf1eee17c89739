----------------------------- MODULE SessionStore -----------------------------
(***************************************************************************)
(* What the session module with files promises: one request at a time owns *)
(* a session, its data change as a whole and only by the owner, and a      *)
(* session may be forgotten (destroyed or expired), which ends ownership.  *)
(***************************************************************************)
CONSTANTS Proc, Id, Value, Nobody, Empty

VARIABLES
    store,  \* session id -> its data
    owner   \* session id -> the process that works with it, or Nobody

vars == <<store, owner>>

Init == store = [i \in Id |-> Empty] /\ owner = [i \in Id |-> Nobody]

Enter(p, i) ==
    /\ owner[i] = Nobody
    /\ owner' = [owner EXCEPT ![i] = p]
    /\ UNCHANGED store

Commit(p, i, v) ==
    /\ owner[i] = p
    /\ store' = [store EXCEPT ![i] = v]
    /\ UNCHANGED owner

Leave(p, i) ==
    /\ owner[i] = p
    /\ owner' = [owner EXCEPT ![i] = Nobody]
    /\ UNCHANGED store

\* A process that is killed while it writes leaves the session empty.
Die(p, i) ==
    /\ owner[i] = p
    /\ owner' = [owner EXCEPT ![i] = Nobody]
    /\ store' = [store EXCEPT ![i] = Empty]

Forget(i) ==
    /\ store' = [store EXCEPT ![i] = Empty]
    /\ owner' = [owner EXCEPT ![i] = Nobody]

Next ==
    \E i \in Id :
       \/ Forget(i)
       \/ \E p \in Proc :
             \/ Enter(p, i) \/ Leave(p, i) \/ Die(p, i)
             \/ \E v \in Value : Commit(p, i, v)

Spec == Init /\ [][Next]_vars
=============================================================================
