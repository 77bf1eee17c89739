-------------------------- MODULE FpmMaster_proofs --------------------------
(***************************************************************************)
(* Proofs about FpmMaster for any pools, limits and bounds: the types, the *)
(* agreement of lists, counters and processes, the limits on the number of *)
(* children, that the master leaves no worker behind, that graceful stops  *)
(* and reloads lose no accepted connection, and that a dynamic pool never  *)
(* runs empty.                                                             *)
(***************************************************************************)
EXTENDS FpmMaster, FiniteSetTheorems, TLAPS

-----------------------------------------------------------------------------
(* Types.                                                                  *)

\* The control variables by themselves: what fpm_pctl changes.
CtlType ==
    /\ fpm_state \in {"NORMAL", "RELOADING", "FINISHING", "TERMINATING"}
    /\ fpm_signal_sent \in Signal \cup {"none"}
    /\ pctl_event \in {"queued", "none"}
    /\ sigs \in [Pid -> SUBSET Signal]

\* fpm_pctl_kill_all only adds signals.
LEMMA SendType ==
    ASSUME sigs \in [Pid -> SUBSET Signal]
    PROVE  \A targets, s : s \in Signal => Send(targets, s) \in [Pid -> SUBSET Signal]
BY DEF Send

\* The escalation of fpm_pctl_action_next yields a signal.
LEMMA NextSignalType == \A state, sent : NextSignal(state, sent) \in Signal
BY DEF NextSignal, Signal

\* fpm_pctl_action_next keeps the types, and ends the master only when there
\* is no child.
LEMMA ActionNextType ==
    ASSUME CtlType
    PROVE  \A state, sent, armed, return :
              ActionNext(state, sent, armed, return) /\ armed \in {"queued", "none"}
              => /\ fpm_signal_sent' \in Signal \cup {"none"}
                 /\ pctl_event' \in {"queued", "none"}
                 /\ sigs' \in [Pid -> SUBSET Signal]
                 /\ pc' \in {"exec", "exited", return}
                 /\ pc' = return \/ total' = 0
<1> TAKE state, sent, armed, return
<1> HAVE ActionNext(state, sent, armed, return) /\ armed \in {"queued", "none"}
<1>1. CASE total' = 0
  BY <1>1, Zenon DEF ActionNext, ActionLast, CtlType
<1>2. CASE total' # 0
  <2>1. /\ fpm_signal_sent' = NextSignal(state, sent)
        /\ pctl_event' = armed
        /\ sigs' = Send(UNION {children'[p] : p \in Pool}, NextSignal(state, sent))
        /\ pc' = return
    BY <1>2, Zenon DEF ActionNext
  <2>2. sigs' \in [Pid -> SUBSET Signal]
    BY <2>1, SendType, NextSignalType, Zenon DEF CtlType
  <2>3. fpm_signal_sent' \in Signal
    BY <2>1, NextSignalType, Zenon
  <2> QED
    BY <2>1, <2>2, <2>3, Zenon
<1> QED
  BY <1>1, <1>2

\* The types of all variables are an invariant of the process manager.
THEOREM TypeCorrect == Spec => []TypeOK
<1> USE PoolsAssumption, BudgetAssumption, PidAssumption
    DEF PoolsAssumption, BudgetAssumption, PidAssumption
<1>1. Init => TypeOK
  BY SMT DEF Init, TypeOK, NoMake, Pool, Caller, Activity, Rate, Signal
<1>2. TypeOK /\ [Next]_vars => TypeOK'
  <2> SUFFICES ASSUME TypeOK, [Next]_vars PROVE TypeOK'
    OBVIOUS
  <2> USE DEF TypeOK, ctl, lists, loop, work, board
  <2>t. CtlType
    BY DEF CtlType
  <2>o. 1 \in Pool
    BY DEF Pool
  <2>n. NoMake \in [pool : Pool, max : Int, caller : Caller]
    BY DEF NoMake, Pool, Caller
  <2>m. \A p \in Pool, e \in BOOLEAN, n \in Int, c \in Caller :
           CallMake(p, e, n, c) /\ running' \in [Pool -> Int]
           => pc' = "make" /\ make' \in [pool : Pool, max : Int, caller : Caller]
    BY DEF CallMake, MakeMax
  <2>p. \A at \in {"init", "maint"} :
           NextPool(at) => wp' \in Pool /\ pc' \in {"init", "maint", "loop"}
    <3> TAKE at \in {"init", "maint"}
    <3> HAVE NextPool(at)
    <3>1. wp \in Nat /\ 1 <= wp /\ wp <= NPools /\ NPools \in Nat
      BY DEF Pool
    <3>2. CASE wp < NPools
      BY <3>1, <3>2 DEF NextPool, Pool
    <3>3. CASE ~(wp < NPools)
      BY <3>1, <3>3 DEF NextPool, Pool
    <3> QED
      BY <3>2, <3>3
  <2>r. MakeReturns => /\ wp' \in Pool
                       /\ pc' \in {"init", "maint", "loop", "bury"}
                       /\ make' \in [pool : Pool, max : Int, caller : Caller]
    BY <2>p, <2>n DEF MakeReturns, Caller
  <2>1. ASSUME NEW c \in Pid, Fork(c) PROVE TypeOK'
    BY <2>1 DEF Fork, Linked, Activity
  <2>2. CASE ForkFails
    <3>1. env' \in [{"conn", "command", "crash", "fork"} -> Nat]
      BY <2>2 DEF ForkFails, Spend
    <3>2. CASE make.caller = "init"
      <4>1. /\ fpm_state' = "TERMINATING" /\ ActionNext("TERMINATING", "none", "queued", "loop")
            /\ wp' = 1 /\ make' = NoMake /\ total' = total /\ children' = children
        BY <2>2, <3>2 DEF ForkFails, PctlSet
      <4>2. /\ fpm_signal_sent' \in Signal \cup {"none"} /\ pctl_event' \in {"queued", "none"}
            /\ sigs' \in [Pid -> SUBSET Signal] /\ pc' \in {"exec", "exited", "loop"}
        BY <4>1, <2>t, ActionNextType, Zenon
      <4> QED
        BY <2>2, <3>1, <4>1, <4>2, <2>n, <2>o DEF ForkFails
    <3>3. CASE make.caller # "init"
      BY <2>2, <3>1, <3>3, <2>r DEF ForkFails
    <3> QED
      BY <3>2, <3>3
  <2>3. CASE MakeDone
    BY <2>3, <2>r DEF MakeDone
  <2>4. CASE CreateInitial
    <3>1. running' \in [Pool -> Int] /\ wp \in Pool
      BY <2>4 DEF CreateInitial
    <3>2. CASE CallMake(wp, FALSE, 0, "init") /\ wp' = wp
      <4>1. FALSE \in BOOLEAN /\ 0 \in Int /\ "init" \in Caller
        BY DEF Caller
      <4>2. pc' = "make" /\ make' \in [pool : Pool, max : Int, caller : Caller]
        BY <3>1, <3>2, <4>1, <2>m, Zenon
      <4> QED
        BY <2>4, <3>2, <4>2 DEF CreateInitial
    <3>3. CASE NextPool("init") /\ make' = make
      BY <2>4, <3>3, <2>p DEF CreateInitial
    <3> QED
      BY <2>4, <3>2, <3>3, Zenon DEF CreateInitial
  <2>5. ASSUME NEW c \in Commands, GotCommand(c) PROVE TypeOK'
    <3>1. CASE Overrides(NewState(c), fpm_state)
      <4>1. /\ fpm_state' = NewState(c) /\ ActionNext(NewState(c), "none", "queued", "loop")
        BY <2>5, <3>1 DEF GotCommand, PctlSet
      <4>2. /\ fpm_signal_sent' \in Signal \cup {"none"} /\ pctl_event' \in {"queued", "none"}
            /\ sigs' \in [Pid -> SUBSET Signal] /\ pc' \in {"exec", "exited", "loop"}
        BY <4>1, <2>t, ActionNextType, Zenon
      <4> QED
        BY <2>5, <4>1, <4>2 DEF GotCommand, NewState
    <3>2. CASE ~Overrides(NewState(c), fpm_state)
      BY <2>5, <3>2 DEF GotCommand
    <3> QED
      BY <3>1, <3>2
  <2>6. CASE GotSigchld
    BY <2>6 DEF GotSigchld
  <2>7. ASSUME NEW z \in Pid, NEW p \in Pool, Bury(z, p) PROVE TypeOK'
    <3>1. /\ children' \in [Pool -> SUBSET Pid] /\ running' \in [Pool -> Int]
          /\ total' \in Int /\ elders' \in [Pid -> SUBSET Pid] /\ idle_kill' \subseteq Pid
      BY <2>7 DEF Bury, Unlink
    <3>2. /\ proc' \in [Pid -> Activity] /\ how' \in [Pid -> {"exit", "segv", "signal"}]
          /\ accepting' \subseteq Pid /\ rested' \subseteq Pid
          /\ last_faults' \in 0 .. Threshold
      BY <2>7 DEF Bury, Activity, Faults
    <3>3. /\ CtlType' /\ make' \in [pool : Pool, max : Int, caller : Caller]
          /\ pc' \in {"exec", "exited", "make", "bury"}
      <4>1. CASE fpm_state # "NORMAL" /\ total' = 0
        <5>1. pc' = ActionLast(fpm_state) /\ UNCHANGED <<ctl, sigs, make>>
          BY <2>7, <4>1 DEF Bury, AfterUnlink, Overrides
        <5> QED
          BY <5>1 DEF ActionLast, CtlType
      <4>2. CASE /\ ~(fpm_state # "NORMAL" /\ total' = 0)
                 /\ EmergencyRestart(z) /\ Overrides("RELOADING", fpm_state)
        <5>1. /\ fpm_state' = "RELOADING" /\ ActionNext("RELOADING", "none", "queued", "bury")
              /\ make' = make
          BY <2>7, <4>2 DEF Bury, AfterUnlink, PctlSet
        <5>2. /\ fpm_signal_sent' \in Signal \cup {"none"} /\ pctl_event' \in {"queued", "none"}
              /\ sigs' \in [Pid -> SUBSET Signal] /\ pc' \in {"exec", "exited", "bury"}
          BY <5>1, <2>t, ActionNextType, Zenon
        <5> QED
          BY <5>1, <5>2 DEF CtlType
      <4>3. CASE /\ ~(fpm_state # "NORMAL" /\ total' = 0)
                 /\ ~(EmergencyRestart(z) /\ Overrides("RELOADING", fpm_state))
        <5>1. /\ UNCHANGED <<ctl, sigs>>
              /\ IF RestartChild(z) THEN CallMake(p, TRUE, 1, "bury")
                 ELSE pc' = "bury" /\ make' = make
          BY <2>7, <4>3 DEF Bury, AfterUnlink
        <5>2. "bury" \in Caller /\ 1 \in Int /\ TRUE \in BOOLEAN
          BY DEF Caller
        <5> QED
          BY <5>1, <5>2, <3>1, <2>m DEF CtlType
      <4> QED
        BY <4>1, <4>2, <4>3
    <3> QED
      BY <2>7, <3>1, <3>2, <3>3 DEF Bury, CtlType
  <2>8. CASE BuryDone
    BY <2>8 DEF BuryDone
  <2>9. CASE PctlTimeout
    <3>1. /\ fpm_signal_sent' \in Signal \cup {"none"} /\ pctl_event' \in {"queued", "none"}
          /\ sigs' \in [Pid -> SUBSET Signal] /\ pc' \in {"exec", "exited", "loop"}
      BY <2>9, <2>t, ActionNextType, Zenon DEF PctlTimeout
    <3> QED
      BY <2>9, <3>1 DEF PctlTimeout
  <2>10. ASSUME NEW c \in Pid, CheckRequestTimeout(c) PROVE TypeOK'
    <3>1. sigs' \in [Pid -> SUBSET Signal]
      BY <2>10, SendType DEF CheckRequestTimeout, Signal
    <3> QED
      BY <2>10, <3>1 DEF CheckRequestTimeout
  <2>11. CASE MaintenanceHeartbeat
    BY <2>11, <2>o DEF MaintenanceHeartbeat
  <2>12. CASE MaintainPool
    <3>q. ASSUME QuitLastIdle(wp)
          PROVE  idle_kill' \subseteq Pid /\ sigs' \in [Pid -> SUBSET Signal]
      <4>1. PICK c \in Idle(wp) : idle_kill' = idle_kill \cup {c} /\ sigs' = Send({c}, "QUIT")
        BY <3>q DEF QuitLastIdle
      <4>2. sigs' \in [Pid -> SUBSET Signal]
        BY <4>1, SendType DEF Signal
      <4> QED
        BY <4>1, <4>2 DEF Idle
    <3>1. CASE MaintainDynamic(wp)
      <4>1. ToFork(wp) \in Int
        <5>1. Cardinality(Idle(wp)) \in Nat
          <6>1. Idle(wp) \subseteq Pid
            BY DEF Idle
          <6> QED
            BY <6>1, FS_Subset, FS_CardinalityType
        <5> QED
          BY <5>1 DEF ToFork, Smaller, Rate
      <4>2. CASE QuitLastIdle(wp) /\ SetRate(wp, 1) /\ NextPool("maint") /\ make' = make
        BY <2>12, <3>q, <4>2, <2>p DEF MaintainPool, SetRate, Rate
      <4>3. CASE /\ SetRate(wp, IF idle_spawn_rate[wp] < FPM_MAX_SPAWN_RATE
                               THEN 2 * idle_spawn_rate[wp] ELSE idle_spawn_rate[wp])
                 /\ CallMake(wp, TRUE, ToFork(wp), "maint")
                 /\ UNCHANGED <<wp, idle_kill, sigs>>
        <5>1. idle_spawn_rate' \in [Pool -> Rate]
          BY <4>3 DEF SetRate, Rate, FPM_MAX_SPAWN_RATE
        <5>2. pc' = "make" /\ make' \in [pool : Pool, max : Int, caller : Caller]
          BY <2>12, <4>3, <4>1, <2>m DEF MaintainPool, Caller
        <5> QED
          BY <2>12, <4>3, <5>1, <5>2 DEF MaintainPool
      <4>4. CASE /\ SetRate(wp, 1) /\ NextPool("maint")
                 /\ UNCHANGED <<make, idle_kill, sigs>>
        BY <2>12, <4>4, <2>p DEF MaintainPool, SetRate, Rate
      <4> QED
        BY <3>1, <4>2, <4>3, <4>4 DEF MaintainDynamic
    <3>2. CASE MaintainOndemand(wp)
      <4>1. idle_kill' \subseteq Pid /\ sigs' \in [Pid -> SUBSET Signal]
        BY <3>2, <3>q DEF MaintainOndemand
      <4> QED
        BY <2>12, <3>2, <4>1, <2>p DEF MaintainPool, MaintainOndemand
    <3>3. CASE /\ NextPool("maint") /\ UNCHANGED <<make, idle_kill, sigs, idle_spawn_rate>>
      BY <2>12, <3>3, <2>p DEF MaintainPool
    <3> QED
      BY <2>12, <3>1, <3>2, <3>3 DEF MaintainPool
  <2>13. ASSUME NEW p \in Pool, OnSocketAccept(p) PROVE TypeOK'
    <3>1. CASE CallMake(p, TRUE, 1, "loop")
      <4>1. TRUE \in BOOLEAN /\ 1 \in Int /\ "loop" \in Caller /\ running' \in [Pool -> Int]
        BY <2>13 DEF Caller, OnSocketAccept
      <4>2. pc' = "make" /\ make' \in [pool : Pool, max : Int, caller : Caller]
        BY <3>1, <4>1, <2>m, Zenon
      <4> QED
        BY <2>13, <4>2 DEF OnSocketAccept
    <3>2. CASE UNCHANGED <<pc, make>>
      BY <2>13, <3>2 DEF OnSocketAccept
    <3> QED
      BY <2>13, <3>1, <3>2, Zenon DEF OnSocketAccept
  <2>14. CASE Restart
    BY <2>14, <2>o DEF Restart, Rate
  <2>18. CASE RestartFails
    BY <2>18 DEF RestartFails
  <2>15. ASSUME NEW c \in Pid, Worker(c) PROVE TypeOK'
    <3> USE DEF MasterUnchanged, Activity
    <3>b. ASSUME NEW a \in Activity, Becomes(c, a)
          PROVE  /\ proc' \in [Pid -> Activity] /\ UNCHANGED <<how, sigs, in_shutdown, lost, pipe>>
      BY <3>b DEF Becomes
    <3>e. ASSUME NEW cause \in {"exit", "segv", "signal"}, Exits(c, cause)
          PROVE  /\ proc' \in [Pid -> Activity] /\ how' \in [Pid -> {"exit", "segv", "signal"}]
                 /\ sigs' \in [Pid -> SUBSET Signal] /\ in_shutdown' \subseteq Pid
                 /\ pipe' \subseteq Commands \cup {"C"} /\ UNCHANGED board
      BY <3>e DEF Exits
    <3>d. ASSUME NEW cause \in {"exit", "segv", "signal"}, Dies(c, cause)
          PROVE  Exits(c, cause) /\ lost' \in Nat
      BY <3>d DEF Dies
    <3>1. CASE ChildInit(c)
      BY <3>1, <3>b DEF ChildInit
    <3>2. CASE Accepting(c)
      BY <3>2, <3>b, <3>d, <3>e, ZenonT(40) DEF Accepting
    <3>3. ASSUME NEW p \in Pool, Accept(c, p) PROVE TypeOK'
      <4>1. backlog' \in [Pool -> Nat]
        BY <3>3 DEF Accept
      <4>2. proc' \in [Pid -> Activity] /\ UNCHANGED <<how, sigs, in_shutdown, lost, pipe>>
        BY <3>3, <3>b DEF Accept
      <4> QED
        BY <3>3, <4>1, <4>2 DEF Accept
    <3>4. ASSUME NEW p \in Pool, Rest(c, p) PROVE TypeOK'
      BY <3>4 DEF Rest
    <3>5. CASE ReadingHeaders(c)
      BY <3>5, <3>b DEF ReadingHeaders
    <3>6. CASE RequestEnd(c)
      BY <3>6, <3>b, <3>e DEF RequestEnd
    <3>7. CASE Crash(c)
      BY <3>7, <3>d, <3>e DEF Crash, Spend
    <3>8. CASE DeliverQuit(c)
      BY <3>8, <3>d, <3>e DEF DeliverQuit, Delivered
    <3>9. CASE DeliverTerm(c)
      <4>1. CASE proc[c] = "starting"
        <5>1. sigs' = [sigs EXCEPT ![c] = @ \ {"TERM"}] /\ UNCHANGED <<proc, how, in_shutdown, lost, board, pipe>>
          BY <3>9, <4>1, Zenon DEF DeliverTerm, Delivered
        <5> QED
          BY <3>9, <5>1 DEF DeliverTerm
      <4>2. CASE proc[c] # "starting"
        <5>1. Dies(c, "signal")
          BY <3>9, <4>2 DEF DeliverTerm
        <5> QED
          BY <3>9, <5>1, <3>d, <3>e DEF DeliverTerm
      <4> QED
        BY <4>1, <4>2
    <3>10. CASE DeliverKill(c)
      BY <3>10, <3>d, <3>e DEF DeliverKill
    <3> QED
      BY <2>15, <3>1, <3>2, <3>3, <3>4, <3>5, <3>6, <3>7, <3>8, <3>9, <3>10 DEF Worker
  <2>16. CASE Environment
    <3>1. CASE FaultsAge
      BY <3>1 DEF FaultsAge
    <3>2. ASSUME NEW p \in Pool, Connect(p) PROVE TypeOK'
      BY <3>2 DEF Connect, Spend, MasterUnchanged
    <3>3. ASSUME NEW c \in Commands, Command(c) PROVE TypeOK'
      BY <3>3 DEF Command, Spend, MasterUnchanged
    <3> QED
      BY <2>16, <3>1, <3>2, <3>3 DEF Environment
  <2>17. CASE UNCHANGED vars
    BY <2>17 DEF vars
  <2> QED
    BY <2>1, <2>2, <2>3, <2>4, <2>5, <2>6, <2>7, <2>8, <2>9, <2>10, <2>11, <2>12,
       <2>13, <2>14, <2>15, <2>16, <2>17, <2>18 DEF Next, Master
<1> QED
  BY <1>1, <1>2, PTL DEF Spec

-----------------------------------------------------------------------------
(* The lists, the counters and the processes.                              *)

\* A running fpm_children_make never aims above pm.max_children.
MakeBounded == pc = "make" => make.max <= MaxChildren[make.pool]

\* A dead or unused identifier has no signal to come.
NoStraySignal == \A c \in Pid : ~Alive(c) => sigs[c] = {}

\* The inductive invariant.  Its first part ties the counters that the code
\* decides by to the processes; MakeBounded is what a fork relies on, and
\* NoStraySignal keeps a signal from making a process out of none.
SInv == ListsAgree /\ MakeBounded /\ WithinLimits /\ NoOrphan /\ NoStraySignal

\* kill does nothing to a process that is not alive.
LEMMA StraySend ==
    ASSUME NoStraySignal, proc' = proc,
           sigs' = sigs \/ \E targets, s : sigs' = Send(targets, s)
    PROVE  NoStraySignal'
BY DEF NoStraySignal, Send, Alive

\* fpm_pctl_action_next changes signals by fpm_pctl_kill_all only.
LEMMA ActionNextSends ==
    \A state, sent, armed, return : ActionNext(state, sent, armed, return)
        => sigs' = sigs \/ \E targets, s : sigs' = Send(targets, s)
BY Zenon DEF ActionNext

\* There are finitely many identifiers, so every set of children has a size.
LEMMA ChildrenFinite ==
    ASSUME TypeOK
    PROVE  /\ IsFiniteSet(Linked) /\ Linked \subseteq Pid
           /\ \A p \in Pool : IsFiniteSet(children[p])
<1>1. Linked \subseteq Pid /\ \A p \in Pool : children[p] \subseteq Pid
  BY DEF TypeOK, Linked
<1> QED
  BY <1>1, FS_Subset, PidAssumption DEF PidAssumption

\* Without running children there is no process.
LEMMA NoneRunning ==
    ASSUME TypeOK, ListsAgree, total = 0
    PROVE  Existing = {}
BY ChildrenFinite, FS_EmptySet DEF ListsAgree

\* A step that neither links nor unlinks a child keeps the invariant when it
\* starts no fork above the maximum and ends the master only without children.
LEMMA NoChildChange ==
    ASSUME TypeOK, SInv,
           UNCHANGED <<children, running, total>>,
           Existing' = Existing, NoStraySignal',
           pc' \in {"exec", "exited"} => pc' = pc \/ total = 0,
           pc' = "make" => make'.max <= MaxChildren[make'.pool]
    PROVE  SInv'
<1>1. Linked' = Linked
  BY DEF Linked
<1>2. ListsAgree'
  BY <1>1 DEF SInv, ListsAgree
<1>3. MakeBounded'
  BY DEF MakeBounded
<1>4. WithinLimits'
  BY DEF SInv, WithinLimits
<1>5. NoOrphan'
  <2>1. CASE total = 0
    BY <2>1, NoneRunning DEF SInv, NoOrphan
  <2>2. CASE total # 0
    BY <2>2 DEF SInv, NoOrphan
  <2> QED
    BY <2>1, <2>2
<1> QED
  BY <1>2, <1>3, <1>4, <1>5 DEF SInv

\* fork and fpm_child_link.
LEMMA ForkStep ==
    ASSUME TypeOK, SInv, NEW c \in Pid, Fork(c)
    PROVE  SInv'
<1> DEFINE p == make.pool
<1>1. p \in Pool /\ running \in [Pool -> Int] /\ total \in Int /\ children \in [Pool -> SUBSET Pid]
  BY DEF TypeOK
<1>2. c \notin Linked /\ c \notin children[p]
  BY <1>1 DEF Fork, SInv, ListsAgree, Existing, Linked
<1>3. /\ children'[p] = children[p] \cup {c} /\ running'[p] = running[p] + 1
      /\ \A q \in Pool : q # p => children'[q] = children[q] /\ running'[q] = running[q]
      /\ total' = total + 1
  BY <1>1 DEF Fork
<1>4. Linked' = Linked \cup {c}
  BY <1>1, <1>3 DEF Linked
<1>5. Existing' = Existing \cup {c}
  BY DEF Fork, Existing, TypeOK
<1>6. ListsAgree'
  <2>1. Linked' = Existing'
    BY <1>4, <1>5 DEF SInv, ListsAgree
  <2>2. ASSUME NEW q \in Pool, NEW r \in Pool, q # r
        PROVE  children'[q] \cap children'[r] = {}
    <3>1. c \notin children[q] /\ c \notin children[r] /\ children[q] \cap children[r] = {}
      BY <1>2, <2>2 DEF SInv, ListsAgree, Linked
    <3> QED
      BY <1>3, <2>2, <3>1
  <2>3. ASSUME NEW q \in Pool PROVE running'[q] = Cardinality(children'[q])
    <3>1. running[q] = Cardinality(children[q])
      BY DEF SInv, ListsAgree
    <3>2. CASE q = p
      <4>1. Cardinality(children[p] \cup {c}) = Cardinality(children[p]) + 1
        BY <1>1, <1>2, ChildrenFinite, FS_AddElement
      <4> QED
        BY <1>3, <3>1, <3>2, <4>1
    <3>3. CASE q # p
      BY <1>3, <3>1, <3>3
    <3> QED
      BY <3>2, <3>3
  <2>4. total' = Cardinality(Linked')
    <3>1. Cardinality(Linked \cup {c}) = Cardinality(Linked) + 1
      BY <1>2, ChildrenFinite, FS_AddElement
    <3> QED
      BY <1>3, <1>4, <3>1 DEF SInv, ListsAgree
  <2> QED
    BY <2>1, <2>2, <2>3, <2>4 DEF ListsAgree
<1>7. MakeBounded'
  BY DEF Fork, loop, SInv, MakeBounded
<1>8. WithinLimits'
  <2>1. running[p] < MaxChildren[p] /\ (ProcessMax > 0 => total < ProcessMax)
    BY <1>1, PoolsAssumption DEF PoolsAssumption, Fork, MayFork, SInv, MakeBounded, TypeOK
  <2> QED
    BY <1>1, <1>3, <2>1, PoolsAssumption DEF PoolsAssumption, SInv, WithinLimits
<1>9. NoOrphan'
  BY DEF Fork, loop, NoOrphan
<1>10. NoStraySignal'
  BY DEF Fork, SInv, NoStraySignal, Alive, TypeOK
<1> QED
  BY <1>6, <1>7, <1>8, <1>9, <1>10 DEF SInv

\* fpm_children_bury.
LEMMA BuryStep ==
    ASSUME TypeOK, TypeOK', SInv, NEW z \in Pid, NEW p \in Pool, Bury(z, p)
    PROVE  SInv'
<1>1. running \in [Pool -> Int] /\ total \in Int /\ children \in [Pool -> SUBSET Pid]
      /\ z \in children[p] /\ z \in Linked
  BY DEF TypeOK, Bury, Linked
<1>2. \A q \in Pool : q # p => z \notin children[q]
  BY <1>1 DEF SInv, ListsAgree
<1>3. /\ children'[p] = children[p] \ {z} /\ running'[p] = running[p] - 1
      /\ \A q \in Pool : q # p => children'[q] = children[q] /\ running'[q] = running[q]
      /\ total' = total - 1
  BY <1>1 DEF Bury, Unlink
<1>4. Linked' = Linked \ {z}
  BY <1>1, <1>2, <1>3 DEF Linked
<1>5. Existing' = Existing \ {z}
  BY DEF Bury, Existing, TypeOK
<1>6. ListsAgree'
  <2>1. Linked' = Existing'
    BY <1>4, <1>5 DEF SInv, ListsAgree
  <2>2. ASSUME NEW q \in Pool, NEW r \in Pool, q # r
        PROVE  children'[q] \cap children'[r] = {}
    <3>1. children[q] \cap children[r] = {}
      BY <2>2 DEF SInv, ListsAgree
    <3> QED
      BY <1>3, <2>2, <3>1
  <2>3. ASSUME NEW q \in Pool PROVE running'[q] = Cardinality(children'[q])
    <3>1. running[q] = Cardinality(children[q])
      BY DEF SInv, ListsAgree
    <3>2. CASE q = p
      <4>1. Cardinality(children[p] \ {z}) = Cardinality(children[p]) - 1
        BY <1>1, ChildrenFinite, FS_RemoveElement
      <4> QED
        BY <1>3, <3>1, <3>2, <4>1
    <3>3. CASE q # p
      BY <1>3, <3>1, <3>3
    <3> QED
      BY <3>2, <3>3
  <2>4. total' = Cardinality(Linked')
    <3>1. Cardinality(Linked \ {z}) = Cardinality(Linked) - 1
      BY <1>1, ChildrenFinite, FS_RemoveElement
    <3> QED
      BY <1>3, <1>4, <3>1 DEF SInv, ListsAgree
  <2> QED
    BY <2>1, <2>2, <2>3, <2>4 DEF ListsAgree
<1>7. WithinLimits'
  BY <1>1, <1>3, PoolsAssumption DEF PoolsAssumption, SInv, WithinLimits
<1>8. /\ pc' \in {"exec", "exited"} => total' = 0
      /\ pc' = "make" => CallMake(p, TRUE, 1, "bury")
  <2>t. CtlType
    BY DEF TypeOK, CtlType
  <2>1. CASE fpm_state # "NORMAL" /\ total' = 0
    BY <2>1 DEF Bury, AfterUnlink, ActionLast, Overrides
  <2>2. CASE /\ ~(fpm_state # "NORMAL" /\ total' = 0)
             /\ EmergencyRestart(z) /\ Overrides("RELOADING", fpm_state)
    <3>1. ActionNext("RELOADING", "none", "queued", "bury")
      BY <2>2 DEF Bury, AfterUnlink, PctlSet
    <3>2. pc' \in {"exec", "exited", "bury"} /\ (pc' = "bury" \/ total' = 0)
      BY <3>1, <2>t, ActionNextType, Zenon
    <3> QED
      BY <3>2
  <2>3. CASE /\ ~(fpm_state # "NORMAL" /\ total' = 0)
             /\ ~(EmergencyRestart(z) /\ Overrides("RELOADING", fpm_state))
    <3>1. IF RestartChild(z) THEN CallMake(p, TRUE, 1, "bury")
          ELSE pc' = "bury" /\ make' = make
      BY <2>3 DEF Bury, AfterUnlink
    <3>2. CASE RestartChild(z)
      <4>1. CallMake(p, TRUE, 1, "bury")
        BY <3>1, <3>2, Zenon
      <4>2. pc' = "make"
        BY <4>1, Zenon DEF CallMake
      <4> QED
        BY <4>1, <4>2
    <3>3. CASE ~RestartChild(z)
      BY <3>1, <3>3
    <3> QED
      BY <3>2, <3>3
  <2> QED
    BY <2>1, <2>2, <2>3
<1>9. MakeBounded'
  <2> SUFFICES ASSUME pc' = "make" PROVE make'.max <= MaxChildren[make'.pool]
    BY DEF MakeBounded
  <2>1. CallMake(p, TRUE, 1, "bury")
    BY <1>8
  <2>2. make'.pool = p /\ make'.max \in {MaxChildren[p], running'[p] + 1}
    BY <2>1 DEF CallMake, MakeMax
  <2> QED
    BY <1>1, <1>3, <2>2, PoolsAssumption DEF PoolsAssumption, SInv, WithinLimits
<1>10. NoOrphan'
  <2> SUFFICES ASSUME pc' \in {"exec", "exited"} PROVE Existing' = {}
    BY DEF NoOrphan
  <2>1. IsFiniteSet(Linked')
    <3>1. Linked' \subseteq Linked
      BY <1>4
    <3> QED
      BY <3>1, ChildrenFinite, FS_Subset
  <2>2. Cardinality(Linked') = 0
    BY <1>6, <1>8 DEF ListsAgree
  <2> QED
    BY <1>6, <2>1, <2>2, FS_EmptySet DEF ListsAgree
<1>11. NoStraySignal'
  <2>1. sigs' = sigs \/ \E targets, s : sigs' = Send(targets, s)
    <3>1. sigs' = sigs \/ ActionNext("RELOADING", "none", "queued", "bury")
      BY DEF Bury, AfterUnlink, PctlSet, Overrides
    <3> QED
      BY <3>1, ActionNextSends, Zenon
  <2>2. \A c \in Pid : Alive(c) <=> Alive(c)'
    BY DEF Bury, Alive, TypeOK
  <2> QED
    BY <2>1, <2>2 DEF SInv, NoStraySignal, Send
<1> QED
  BY <1>6, <1>7, <1>9, <1>10, <1>11 DEF SInv

\* Workers change what they do but neither appear nor disappear.
LEMMA WorkerStep ==
    ASSUME TypeOK, SInv, NEW c \in Pid, Worker(c)
    PROVE  SInv' /\ Existing' = Existing
<1>1. UNCHANGED <<lists, loop>>
  BY DEF Worker, ChildInit, Accepting, Accept, Rest, ReadingHeaders, RequestEnd, Crash,
         DeliverQuit, DeliverTerm, DeliverKill, MasterUnchanged
<1>2. proc[c] # "none"
  <2>1. sigs[c] # {} => proc[c] # "none"
    BY DEF SInv, NoStraySignal, Alive
  <2> QED
    BY <2>1 DEF Worker, ChildInit, Accepting, Accept, Rest, ReadingHeaders, RequestEnd,
           Crash, Alive, DeliverQuit, DeliverTerm, DeliverKill
<1>3. \/ /\ \/ proc' = proc
            \/ \E a \in Activity \ {"none", "zombie"} : proc' = [proc EXCEPT ![c] = a]
         /\ sigs' = sigs
      \/ proc' = [proc EXCEPT ![c] = "zombie"] /\ sigs' = [sigs EXCEPT ![c] = {}]
      \/ proc' = proc /\ \E s \in Signal : Delivered(c, s)
  <2> USE DEF Becomes, Exits, Dies, Activity, Signal
  <2>1. CASE ChildInit(c)
    BY <2>1 DEF ChildInit
  <2>2. CASE Accepting(c)
    BY <2>2 DEF Accepting
  <2>3. CASE \E p \in Pool : Accept(c, p) \/ Rest(c, p)
    BY <2>3 DEF Accept, Rest
  <2>4. CASE ReadingHeaders(c)
    BY <2>4 DEF ReadingHeaders
  <2>5. CASE RequestEnd(c)
    BY <2>5 DEF RequestEnd
  <2>6. CASE Crash(c)
    BY <2>6 DEF Crash
  <2>7. CASE DeliverQuit(c)
    BY <2>7 DEF DeliverQuit
  <2>8. CASE DeliverTerm(c)
    <3>1. CASE proc[c] = "starting"
      BY <2>8, <3>1, Zenon DEF DeliverTerm
    <3>2. CASE proc[c] # "starting"
      BY <2>8, <3>2 DEF DeliverTerm
    <3> QED
      BY <3>1, <3>2
  <2>9. CASE DeliverKill(c)
    BY <2>9 DEF DeliverKill
  <2> QED
    BY <2>1, <2>2, <2>3, <2>4, <2>5, <2>6, <2>7, <2>8, <2>9 DEF Worker
<1>4. Existing' = Existing
  BY <1>2, <1>3 DEF Existing, TypeOK, Activity
<1>5. NoStraySignal'
  BY <1>2, <1>3 DEF SInv, NoStraySignal, Alive, Delivered, TypeOK, Activity
<1> QED
  BY <1>1, <1>4, <1>5, NoChildChange DEF SInv, MakeBounded, lists, loop

-----------------------------------------------------------------------------
(* The theorems.                                                           *)

\* Every step keeps the invariant.
LEMMA SInvStep ==
    ASSUME TypeOK, TypeOK', SInv, [Next]_vars
    PROVE  SInv'
<1> USE DEF ctl, lists, loop, work, board
<1>t. CtlType
  BY DEF TypeOK, CtlType
<1>e. proc' = proc => Existing' = Existing
  BY DEF Existing
<1>1. ASSUME NEW c \in Pid, Fork(c) PROVE SInv'
  BY <1>1, ForkStep
<1>2. CASE ForkFails
  <2>1. UNCHANGED <<children, running, total, proc>> /\ pc' # "make"
        /\ (pc' \in {"exec", "exited"} => total = 0)
        /\ (sigs' = sigs \/ \E targets, s : sigs' = Send(targets, s))
    <3>1. CASE make.caller = "init"
      <4>1. ActionNext("TERMINATING", "none", "queued", "loop")
            /\ UNCHANGED <<children, running, total, proc>>
        BY <1>2, <3>1 DEF ForkFails, PctlSet
      <4>2. pc' \in {"exec", "exited", "loop"} /\ (pc' = "loop" \/ total' = 0)
        BY <4>1, <1>t, ActionNextType, Zenon
      <4>3. sigs' = sigs \/ \E targets, s : sigs' = Send(targets, s)
        BY <4>1, ActionNextSends, Zenon
      <4> QED
        BY <4>1, <4>2, <4>3
    <3>2. CASE make.caller # "init"
      BY <1>2, <3>2 DEF ForkFails, MakeReturns, NextPool, TypeOK, Caller
    <3> QED
      BY <3>1, <3>2
  <2>2. NoStraySignal'
    BY <2>1, StraySend DEF SInv
  <2> QED
    BY <2>1, <2>2, <1>e, NoChildChange
<1>3. CASE MakeDone
  <2>1. UNCHANGED <<children, running, total, proc, sigs>>
        /\ pc' \in {"init", "maint", "loop", "bury"}
    BY <1>3 DEF MakeDone, MakeReturns, NextPool, TypeOK, Caller
  <2>2. NoStraySignal'
    BY <2>1, StraySend DEF SInv
  <2> QED
    BY <2>1, <2>2, <1>e, NoChildChange
<1>4. CASE CreateInitial
  <2>1. UNCHANGED <<children, running, total, proc, sigs>> /\ wp \in Pool
        /\ pc' \in {"init", "loop", "make"}
    BY <1>4 DEF CreateInitial, NextPool, CallMake, TypeOK
  <2>2. NoStraySignal'
    BY <2>1, StraySend DEF SInv
  <2>3. ASSUME pc' = "make" PROVE make'.max <= MaxChildren[make'.pool]
    <3>1. CallMake(wp, FALSE, 0, "init")
      BY <1>4, <2>3 DEF CreateInitial, NextPool
    <3>2. make'.pool = wp /\ make'.max = MakeMax(wp, FALSE, 0)
      BY <3>1, Zenon DEF CallMake
    <3>3. \/ make'.max = MaxChildren[wp]
          \/ PM[wp] = "dynamic" /\ make'.max = StartServers[wp]
          \/ make'.max = 0
      BY <3>2, Zenon DEF MakeMax
    <3>5. make'.pool = wp
      BY <3>2, Zenon
    <3>4. /\ MaxChildren[wp] \in Nat /\ MaxChildren[wp] > 0
          /\ PM[wp] = "dynamic" => StartServers[wp] \in Nat /\ StartServers[wp] <= MaxChildren[wp]
      BY <2>1, PoolsAssumption DEF PoolsAssumption
    <3> QED
      BY <3>5, <3>3, <3>4
  <2> QED
    BY <2>1, <2>2, <2>3, <1>e, NoChildChange
<1>5. ASSUME NEW c \in Commands, GotCommand(c) PROVE SInv'
  <2>1. UNCHANGED <<children, running, total, proc>> /\ pc' # "make"
        /\ (pc' \in {"exec", "exited"} => total = 0)
        /\ (sigs' = sigs \/ \E targets, s : sigs' = Send(targets, s))
    <3>1. CASE Overrides(NewState(c), fpm_state)
      <4>1. ActionNext(NewState(c), "none", "queued", "loop")
            /\ UNCHANGED <<children, running, total, proc>>
        BY <1>5, <3>1 DEF GotCommand, PctlSet
      <4>2. pc' \in {"exec", "exited", "loop"} /\ (pc' = "loop" \/ total' = 0)
        BY <4>1, <1>t, ActionNextType, Zenon
      <4>3. sigs' = sigs \/ \E targets, s : sigs' = Send(targets, s)
        BY <4>1, ActionNextSends, Zenon
      <4> QED
        BY <4>1, <4>2, <4>3
    <3>2. CASE ~Overrides(NewState(c), fpm_state)
      BY <1>5, <3>2 DEF GotCommand
    <3> QED
      BY <3>1, <3>2
  <2>2. NoStraySignal'
    BY <2>1, StraySend DEF SInv
  <2> QED
    BY <2>1, <2>2, <1>e, NoChildChange
<1>6. CASE GotSigchld
  BY <1>6, <1>e, StraySend, NoChildChange DEF GotSigchld, SInv
<1>7. ASSUME NEW z \in Pid, NEW p \in Pool, Bury(z, p) PROVE SInv'
  BY <1>7, BuryStep
<1>8. CASE BuryDone
  BY <1>8, <1>e, StraySend, NoChildChange DEF BuryDone, SInv
<1>9. CASE PctlTimeout
  <2>1. UNCHANGED <<children, running, total, proc>>
        /\ ActionNext(fpm_state, fpm_signal_sent, "none", "loop")
    BY <1>9 DEF PctlTimeout
  <2>2. pc' \in {"exec", "exited", "loop"} /\ (pc' = "loop" \/ total' = 0)
    BY <2>1, <1>t, ActionNextType, Zenon
  <2>3. sigs' = sigs \/ \E targets, s : sigs' = Send(targets, s)
    BY <2>1, ActionNextSends, Zenon
  <2>4. NoStraySignal'
    BY <2>1, <2>3, StraySend DEF SInv
  <2> QED
    BY <2>1, <2>2, <2>4, <1>e, NoChildChange
<1>10. ASSUME NEW c \in Pid, CheckRequestTimeout(c) PROVE SInv'
  BY <1>10, <1>e, StraySend, NoChildChange DEF CheckRequestTimeout, SInv
<1>11. CASE MaintenanceHeartbeat
  BY <1>11, <1>e, StraySend, NoChildChange DEF MaintenanceHeartbeat, SInv
<1>12. CASE MaintainPool
  <2>1. UNCHANGED <<children, running, total, proc>> /\ wp \in Pool
        /\ running \in [Pool -> Int]
    BY <1>12 DEF MaintainPool, TypeOK
  <2>2. /\ pc' \in {"maint", "loop", "make"}
        /\ pc' = "make" => PM[wp] = "dynamic" /\ CallMake(wp, TRUE, ToFork(wp), "maint")
        /\ sigs' = sigs \/ \E targets, s : sigs' = Send(targets, s)
    <3>n. NextPool("maint") => pc' \in {"maint", "loop"}
      BY DEF NextPool
    <3>q. QuitLastIdle(wp) => \E targets, s : sigs' = Send(targets, s)
      BY Zenon DEF QuitLastIdle
    <3>c. CallMake(wp, TRUE, ToFork(wp), "maint") => pc' = "make"
      BY Zenon DEF CallMake
    <3>1. CASE MaintainDynamic(wp)
      <4>1. CASE QuitLastIdle(wp) /\ NextPool("maint")
        BY <4>1, <3>n, <3>q, Zenon
      <4>2. CASE /\ CallMake(wp, TRUE, ToFork(wp), "maint")
                 /\ PM[wp] = "dynamic" /\ sigs' = sigs
        BY <4>2, <3>c, Zenon
      <4>3. CASE NextPool("maint") /\ sigs' = sigs
        BY <4>3, <3>n, Zenon
      <4> QED
        BY <3>1, <4>1, <4>2, <4>3 DEF MaintainDynamic
    <3>2. CASE MaintainOndemand(wp)
      <4>1. NextPool("maint") /\ (QuitLastIdle(wp) \/ sigs' = sigs)
        BY <3>2 DEF MaintainOndemand
      <4> QED
        BY <4>1, <3>n, <3>q, Zenon
    <3>3. CASE NextPool("maint") /\ sigs' = sigs
      BY <3>3, <3>n, Zenon
    <3> QED
      BY <1>12, <3>1, <3>2, <3>3 DEF MaintainPool
  <2>3. NoStraySignal'
    BY <2>1, <2>2, StraySend DEF SInv
  <2>4. ASSUME pc' = "make" PROVE make'.max <= MaxChildren[make'.pool]
    <3>1. make'.pool = wp /\ make'.max = running[wp] + ToFork(wp)
      <4>1. CallMake(wp, TRUE, ToFork(wp), "maint") /\ PM[wp] = "dynamic"
        BY <2>2, <2>4, Zenon
      <4>3. make' = [pool |-> wp, max |-> MakeMax(wp, TRUE, ToFork(wp)), caller |-> "maint"]
        BY <4>1, Zenon DEF CallMake
      <4>4. make'.pool = wp /\ make'.max = MakeMax(wp, TRUE, ToFork(wp))
        BY <4>3
      <4>2. MakeMax(wp, TRUE, ToFork(wp)) = running'[wp] + ToFork(wp)
        BY <4>1 DEF MakeMax
      <4> QED
        BY <4>4, <4>2, <2>1
    <3>2. Cardinality(Idle(wp)) \in Nat
      <4>1. Idle(wp) \subseteq children[wp]
        BY DEF Idle
      <4> QED
        BY <2>1, <4>1, ChildrenFinite, FS_Subset, FS_CardinalityType
    <3>3. ToFork(wp) \in Int /\ ToFork(wp) <= MaxChildren[wp] - running[wp]
      BY <2>1, <3>2, PoolsAssumption, SMTT(30) DEF PoolsAssumption, ToFork, Smaller, TypeOK, Rate
    <3> QED
      BY <2>1, <3>1, <3>3, PoolsAssumption DEF PoolsAssumption
  <2> QED
    BY <2>1, <2>2, <2>3, <2>4, <1>e, NoChildChange
<1>13. ASSUME NEW p \in Pool, OnSocketAccept(p) PROVE SInv'
  <2>1. UNCHANGED <<children, running, total, proc, sigs>> /\ running \in [Pool -> Int]
    BY <1>13 DEF OnSocketAccept, TypeOK
  <2>2. \/ running[p] < MaxChildren[p] /\ CallMake(p, TRUE, 1, "loop")
        \/ pc' = "loop"
    <3>1. CASE running[p] < MaxChildren[p] /\ Idle(p) = {}
      BY <1>13, <3>1, Zenon DEF OnSocketAccept
    <3>2. CASE ~(running[p] < MaxChildren[p] /\ Idle(p) = {})
      BY <1>13, <3>2 DEF OnSocketAccept
    <3> QED
      BY <3>1, <3>2
  <2>3. NoStraySignal'
    BY <2>1, StraySend DEF SInv
  <2>4. ASSUME running[p] < MaxChildren[p], CallMake(p, TRUE, 1, "loop")
        PROVE  pc' = "make" /\ make'.max <= MaxChildren[make'.pool]
    <3>1. pc' = "make" /\ make' = [pool |-> p, max |-> MakeMax(p, TRUE, 1), caller |-> "loop"]
      BY <2>4, Zenon DEF CallMake
    <3>2. make'.pool = p /\ make'.max = MakeMax(p, TRUE, 1)
      BY <3>1
    <3>3. make'.max = MaxChildren[p] \/ make'.max = running'[p] + 1
      BY <3>2, Zenon DEF MakeMax
    <3>6. make'.pool = p
      BY <3>2, Zenon
    <3>4. MaxChildren[p] \in Nat /\ running[p] \in Int /\ running' = running
      BY <2>1, PoolsAssumption DEF PoolsAssumption
    <3>5. make'.max <= MaxChildren[p]
      BY <2>4, <3>3, <3>4
    <3> QED
      BY <3>1, <3>6, <3>5
  <2> QED
    BY <2>1, <2>2, <2>3, <2>4, <1>e, NoChildChange
<1>14. CASE Restart
  <2>1. Existing = {}
    BY <1>14 DEF Restart, SInv, NoOrphan
  <2>2. Linked' = {} /\ Existing' = {} /\ \A p \in Pool : children'[p] = {} /\ running'[p] = 0
    BY <1>14, <2>1 DEF Restart, Linked, Existing
  <2>3. ListsAgree'
    BY <1>14, <2>2, FS_EmptySet DEF ListsAgree, Restart
  <2>4. MakeBounded' /\ NoOrphan' /\ NoStraySignal'
    BY <1>14, <2>2 DEF Restart, MakeBounded, NoOrphan, SInv, NoStraySignal, Alive
  <2>5. WithinLimits'
    BY <1>14, <2>2, PoolsAssumption DEF PoolsAssumption, WithinLimits, Restart
  <2> QED
    BY <2>3, <2>4, <2>5 DEF SInv
<1>18. CASE RestartFails
  <2>1. UNCHANGED <<children, running, total, proc, sigs>> /\ pc = "exec" /\ pc' = "exited"
    BY <1>18 DEF RestartFails
  <2>2. Linked' = Linked /\ Existing' = Existing
    BY <2>1 DEF Linked, Existing
  <2>3. ListsAgree' /\ WithinLimits'
    BY <2>1, <2>2 DEF SInv, ListsAgree, WithinLimits
  <2> QED
    BY <2>1, <2>2, <2>3 DEF SInv, MakeBounded, NoOrphan, NoStraySignal, Alive
<1>15. ASSUME NEW c \in Pid, Worker(c) PROVE SInv'
  BY <1>15, WorkerStep
<1>16. CASE Environment
  <2>1. UNCHANGED <<children, running, total, proc, sigs, pc, make>>
    BY <1>16 DEF Environment, FaultsAge, Connect, Command, MasterUnchanged
  <2> QED
    BY <2>1, <1>e, StraySend, NoChildChange DEF SInv, MakeBounded
<1>17. CASE UNCHANGED vars
  <2>1. UNCHANGED <<children, running, total, proc, sigs, pc, make>>
    BY <1>17 DEF vars
  <2> QED
    BY <2>1, <1>e, StraySend, NoChildChange DEF SInv, MakeBounded
<1> QED
  BY <1>1, <1>2, <1>3, <1>4, <1>5, <1>6, <1>7, <1>8, <1>9, <1>10, <1>11, <1>12,
     <1>13, <1>14, <1>15, <1>16, <1>17, <1>18 DEF Next, Master

\* The strengthened invariant holds in every behaviour.
LEMMA SInvAlways == Spec => []SInv
<1>1. Init => SInv
  <2> SUFFICES ASSUME Init PROVE SInv
    OBVIOUS
  <2>1. Linked = {} /\ Existing = {} /\ \A p \in Pool : children[p] = {} /\ running[p] = 0
    BY DEF Init, Linked, Existing
  <2>2. ListsAgree
    BY <2>1, FS_EmptySet DEF ListsAgree, Init
  <2>3. MakeBounded /\ NoOrphan /\ NoStraySignal
    BY DEF Init, MakeBounded, NoOrphan, NoStraySignal
  <2>4. WithinLimits
    BY <2>1, PoolsAssumption DEF PoolsAssumption, WithinLimits, Init
  <2> QED
    BY <2>2, <2>3, <2>4 DEF SInv
<1> QED
  BY <1>1, TypeCorrect, SInvStep, PTL DEF Spec

\* The lists of children, running_children and the processes always agree.
THEOREM ListsAlwaysAgree == Spec => []ListsAgree
<1>1. SInv => ListsAgree
  BY DEF SInv
<1> QED
  BY <1>1, SInvAlways, PTL

\* No pool exceeds pm.max_children and the master never exceeds process.max.
THEOREM LimitsHold == Spec => []WithinLimits
<1>1. SInv => WithinLimits
  BY DEF SInv
<1> QED
  BY <1>1, SInvAlways, PTL

\* The master exits or executes itself again only when no worker is left.
THEOREM MasterLeavesNoOrphan == Spec => []NoOrphan
<1>1. SInv => NoOrphan
  BY DEF SInv
<1> QED
  BY <1>1, SInvAlways, PTL

\* The state of a shutdown that fpm_pctl sets is of a higher rank than before.
LEMMA OverridesRises ==
    ASSUME TypeOK, NEW new \in {"RELOADING", "FINISHING", "TERMINATING"},
           Overrides(new, fpm_state)
    PROVE  StateRank[fpm_state] < StateRank[new] /\ new # fpm_state
BY DEF Overrides, StateRank, TypeOK

\* fpm_pctl_action_next never steps back from KILL to TERM or from TERM to QUIT.
LEMMA NextSignalRises ==
    ASSUME TypeOK
    PROVE  SignalRank[fpm_signal_sent] <= SignalRank[NextSignal(fpm_state, fpm_signal_sent)]
BY DEF TypeOK, Signal, SignalRank, NextSignal

\* Burying a child changes the control state by an emergency restart only.
LEMMA BuryControl ==
    ASSUME NEW z \in Pid, NEW p \in Pool, Bury(z, p)
    PROVE  \/ UNCHANGED <<fpm_state, fpm_signal_sent>>
           \/ fpm_state' = "RELOADING" /\ Overrides("RELOADING", fpm_state)
<1>1. CASE fpm_state # "NORMAL" /\ total' = 0
  <2>1. UNCHANGED <<ctl, sigs, make>>
    BY <1>1 DEF Bury, AfterUnlink, Overrides
  <2> QED
    BY <2>1 DEF ctl
<1>2. CASE /\ ~(fpm_state # "NORMAL" /\ total' = 0)
           /\ EmergencyRestart(z) /\ Overrides("RELOADING", fpm_state)
  BY <1>2 DEF Bury, AfterUnlink, PctlSet
<1>3. CASE /\ ~(fpm_state # "NORMAL" /\ total' = 0)
           /\ ~(EmergencyRestart(z) /\ Overrides("RELOADING", fpm_state))
  <2>1. UNCHANGED <<ctl, sigs>>
    BY <1>3 DEF Bury, AfterUnlink
  <2> QED
    BY <2>1 DEF ctl
<1> QED
  BY <1>1, <1>2, <1>3

\* fpm_pctl and its timer only escalate: no step weakens a shutdown.
THEOREM ShutdownOnlyEscalates == Spec => ShutdownEscalates
<1> DEFINE Escalates ==
        /\ StateRank[fpm_state] <= StateRank[fpm_state']
        /\ fpm_state' = fpm_state => SignalRank[fpm_signal_sent] <= SignalRank[fpm_signal_sent']
<1>1. ASSUME TypeOK, [Next]_vars, pc # "exec"
      PROVE  Escalates
  <2> USE <1>1 DEF ctl
  <2>0. UNCHANGED <<fpm_state, fpm_signal_sent>> => Escalates
    BY DEF TypeOK, StateRank, SignalRank, Signal
  <2>s. ASSUME NEW new \in {"RELOADING", "FINISHING", "TERMINATING"}, fpm_state' = new,
               Overrides(new, fpm_state)
        PROVE  Escalates
    BY <2>s, OverridesRises DEF StateRank, TypeOK
  <2>1. CASE ForkFails
    <3>1. Overrides("TERMINATING", fpm_state)
      BY <2>1 DEF ForkFails, MayFork, CanSpawn, Overrides
    <3>2. CASE make.caller = "init"
      BY <2>1, <2>s, <3>1, <3>2 DEF ForkFails, PctlSet
    <3>3. CASE make.caller # "init"
      BY <2>0, <2>1, <3>3 DEF ForkFails
    <3> QED
      BY <3>1, <3>2, <3>3
  <2>2. ASSUME NEW c \in Commands, GotCommand(c) PROVE Escalates
    <3>1. NewState(c) \in {"RELOADING", "FINISHING", "TERMINATING"}
      BY DEF NewState
    <3>2. CASE Overrides(NewState(c), fpm_state)
      BY <2>2, <2>s, <3>1, <3>2 DEF GotCommand, PctlSet
    <3>3. CASE ~Overrides(NewState(c), fpm_state)
      BY <2>0, <2>2, <3>3 DEF GotCommand
    <3> QED
      BY <3>2, <3>3
  <2>3. ASSUME NEW z \in Pid, NEW p \in Pool, Bury(z, p) PROVE Escalates
    <3>1. \/ UNCHANGED <<fpm_state, fpm_signal_sent>>
          \/ fpm_state' = "RELOADING" /\ Overrides("RELOADING", fpm_state)
      BY <2>3, BuryControl
    <3> QED
      BY <2>0, <2>s, <3>1
  <2>4. CASE PctlTimeout
    <3>1. fpm_state' = fpm_state
      BY <2>4 DEF PctlTimeout
    <3>2. \/ fpm_signal_sent' = fpm_signal_sent
          \/ fpm_signal_sent' = NextSignal(fpm_state, fpm_signal_sent)
      BY <2>4, Zenon DEF PctlTimeout, ActionNext
    <3> QED
      BY <2>0, <3>1, <3>2, NextSignalRises DEF TypeOK, StateRank
  <2>5. CASE MakeDone \/ CreateInitial \/ GotSigchld \/ BuryDone \/ MaintenanceHeartbeat
             \/ MaintainPool \/ (\E c \in Pid : Fork(c))
    BY <2>0, <2>5 DEF MakeDone, CreateInitial, GotSigchld, BuryDone, MaintenanceHeartbeat,
       MaintainPool, Fork
  <2>6. CASE (\E c \in Pid : CheckRequestTimeout(c)) \/ (\E p \in Pool : OnSocketAccept(p))
    BY <2>0, <2>6 DEF CheckRequestTimeout, OnSocketAccept
  <2>7. CASE Restart \/ RestartFails
    BY <2>7 DEF Restart, RestartFails
  <2>8. ASSUME NEW c \in Pid, Worker(c) PROVE Escalates
    BY <2>0, <2>8 DEF work, Worker, ChildInit, Accepting, Accept, Rest, ReadingHeaders, RequestEnd,
       Crash, DeliverQuit, DeliverTerm, DeliverKill, MasterUnchanged
  <2>9. CASE Environment
    BY <2>0, <2>9 DEF Environment, FaultsAge, Connect, Command, MasterUnchanged
  <2>10. CASE UNCHANGED vars
    BY <2>0, <2>10 DEF vars
  <2> QED
    BY <2>1, <2>2, <2>3, <2>4, <2>5, <2>6, <2>7, <2>8, <2>9, <2>10 DEF Next, Master
<1> QED
  BY <1>1, TypeCorrect, PTL DEF Spec, ShutdownEscalates

-----------------------------------------------------------------------------
(* Graceful stops.                                                         *)

(***************************************************************************)
(* Nothing but SIGQUIT is sent when no worker crashes, no fork fails while *)
(* the master starts (it would terminate), no time limit is set and the    *)
(* administrator sends no SIGTERM.                                         *)
(***************************************************************************)
Graceful ==
    /\ Budget["crash"] = 0 /\ Budget["fork"] = 0
    /\ ~ControlTimer /\ ~RequestTimer /\ "T" \notin Commands

OnlyQuit ==
    /\ env["crash"] = 0 /\ env["fork"] = 0 /\ fpm_state # "TERMINATING"
    /\ \A c \in Pid : sigs[c] \subseteq {"QUIT"}

LEMMA SendsQuit ==
    ASSUME TypeOK, OnlyQuit
    PROVE  \A targets : \A c \in Pid : Send(targets, "QUIT")[c] \subseteq {"QUIT"}
BY DEF OnlyQuit, Send, TypeOK

\* fpm_pctl asks the children to quit when it sets finishing or reloading.
LEMMA SetSendsQuit ==
    ASSUME TypeOK, OnlyQuit, NEW new \in {"RELOADING", "FINISHING"}, NEW return, PctlSet(new, return)
    PROVE  fpm_state' # "TERMINATING" /\ \A c \in Pid : sigs'[c] \subseteq {"QUIT"}
<1>1. fpm_state' = new /\ ActionNext(new, "none", "queued", return)
  BY DEF PctlSet
<1>2. NextSignal(new, "none") = "QUIT"
  BY DEF NextSignal
<1>3. sigs' = sigs \/ sigs' = Send(UNION {children'[p] : p \in Pool}, "QUIT")
  BY <1>1, <1>2, Zenon DEF ActionNext
<1> QED
  BY <1>1, <1>3, SendsQuit DEF OnlyQuit

\* A worker that is asked to quit and not killed finishes its request.
LEMMA WorkerLosesNothing ==
    ASSUME TypeOK, OnlyQuit, NEW c \in Pid, Worker(c)
    PROVE  lost' = lost /\ OnlyQuit'
<1> USE DEF MasterUnchanged, ctl, Becomes, OnlyQuit, TypeOK
<1>1. CASE ChildInit(c) \/ ReadingHeaders(c)
  BY <1>1 DEF ChildInit, ReadingHeaders
<1>2. CASE \E p \in Pool : Accept(c, p) \/ Rest(c, p)
  BY <1>2 DEF Accept, Rest
<1>3. CASE Accepting(c)
  BY <1>3 DEF Accepting, Dies, Exits, HasConnection
<1>4. CASE RequestEnd(c)
  BY <1>4 DEF RequestEnd, Exits
<1>5. CASE Crash(c)
  BY <1>5 DEF Crash, Spend
<1>6. CASE DeliverQuit(c)
  <2>1. CASE proc[c] = "idle"
    BY <1>6, <2>1 DEF DeliverQuit, Dies, Exits, HasConnection
  <2>2. CASE proc[c] # "idle"
    <3>1. Delivered(c, "QUIT") /\ lost' = lost
      BY <1>6, <2>2 DEF DeliverQuit
    <3> QED
      BY <1>6, <3>1 DEF DeliverQuit, Delivered
  <2> QED
    BY <2>1, <2>2
<1>7. CASE DeliverTerm(c) \/ DeliverKill(c)
  BY <1>7 DEF DeliverTerm, DeliverKill
<1> QED
  BY <1>1, <1>2, <1>3, <1>4, <1>5, <1>6, <1>7 DEF Worker

LEMMA GracefulStep ==
    ASSUME TypeOK, OnlyQuit, Graceful, [Next]_vars
    PROVE  lost' = lost /\ OnlyQuit'
<1> USE DEF work, ctl
<1>0. ASSUME UNCHANGED <<fpm_state, sigs, lost, env>> PROVE lost' = lost /\ OnlyQuit'
  BY <1>0 DEF OnlyQuit
<1>s. ASSUME UNCHANGED <<lost, env>>, fpm_state' # "TERMINATING", \A c \in Pid : sigs'[c] \subseteq {"QUIT"}
      PROVE  lost' = lost /\ OnlyQuit'
  BY <1>s DEF OnlyQuit
<1>1. ASSUME NEW c \in Pid, Fork(c) PROVE lost' = lost /\ OnlyQuit'
  BY <1>0, <1>1 DEF Fork
<1>2. CASE ForkFails
  BY <1>2 DEF ForkFails, Spend, OnlyQuit
<1>3. CASE CreateInitial \/ MakeDone \/ GotSigchld \/ BuryDone \/ MaintenanceHeartbeat
  BY <1>0, <1>3 DEF CreateInitial, MakeDone, GotSigchld, BuryDone, MaintenanceHeartbeat
<1>4. ASSUME NEW c \in Commands, GotCommand(c) PROVE lost' = lost /\ OnlyQuit'
  <2>1. CASE Overrides(NewState(c), fpm_state)
    <3>1. NewState(c) \in {"RELOADING", "FINISHING"}
      BY DEF NewState, Graceful
    <3>2. PctlSet(NewState(c), "loop") /\ UNCHANGED <<lost, env>>
      BY <1>4, <2>1 DEF GotCommand
    <3> QED
      BY <1>s, <3>1, <3>2, SetSendsQuit
  <2>2. CASE ~Overrides(NewState(c), fpm_state)
    BY <1>0, <1>4, <2>2 DEF GotCommand
  <2> QED
    BY <2>1, <2>2
<1>5. ASSUME NEW z \in Pid, NEW p \in Pool, Bury(z, p) PROVE lost' = lost /\ OnlyQuit'
  <2>1. AfterUnlink(z, p) /\ UNCHANGED <<lost, env>>
    BY <1>5 DEF Bury
  <2>2. UNCHANGED <<fpm_state, sigs>> \/ PctlSet("RELOADING", "bury")
    BY <2>1 DEF AfterUnlink
  <2> QED
    BY <1>0, <1>s, <2>1, <2>2, SetSendsQuit
<1>6. CASE PctlTimeout \/ \E c \in Pid : CheckRequestTimeout(c)
  BY <1>6 DEF PctlTimeout, CheckRequestTimeout, Graceful
<1>7. CASE MaintainPool
  <2>1. UNCHANGED <<fpm_state, lost, env>>
    BY <1>7 DEF MaintainPool
  <2>2. sigs' = sigs \/ \E c \in Pid : sigs' = Send({c}, "QUIT")
    BY <1>7 DEF MaintainPool, MaintainDynamic, MaintainOndemand, QuitLastIdle, Idle, TypeOK
  <2> QED
    BY <1>0, <1>s, <2>1, <2>2, SendsQuit DEF OnlyQuit
<1>8. ASSUME NEW p \in Pool, OnSocketAccept(p) PROVE lost' = lost /\ OnlyQuit'
  BY <1>0, <1>8 DEF OnSocketAccept
<1>9. CASE Restart \/ RestartFails
  BY <1>0, <1>s, <1>9 DEF Restart, RestartFails, OnlyQuit
<1>10. ASSUME NEW c \in Pid, Worker(c) PROVE lost' = lost /\ OnlyQuit'
  BY <1>10, WorkerLosesNothing
<1>11. CASE Environment
  <2>1. CASE FaultsAge
    BY <1>0, <2>1 DEF FaultsAge
  <2>2. \/ /\ UNCHANGED <<fpm_state, sigs, lost>>
           /\ env'["crash"] = env["crash"] /\ env'["fork"] = env["fork"]
        \/ FaultsAge
    BY <1>11 DEF Environment, Connect, Command, Spend, MasterUnchanged, TypeOK
  <2> QED
    BY <2>1, <2>2 DEF OnlyQuit
<1>12. CASE UNCHANGED vars
  BY <1>0, <1>12 DEF vars
<1> QED
  BY <1>1, <1>2, <1>3, <1>4, <1>5, <1>6, <1>7, <1>8, <1>9, <1>10, <1>11, <1>12 DEF Next, Master

(***************************************************************************)
(* For any pools, workers and connections: finishing, reloading, the kills *)
(* of idle children and pm.max_requests lose no connection that a worker   *)
(* has accepted.                                                           *)
(***************************************************************************)
THEOREM GracefulStopsLoseNothing == Graceful /\ Spec => []GracefulLosesNothing
<1> DEFINE GInv == OnlyQuit /\ lost = 0
<1>1. Graceful /\ Init => GInv
  BY DEF Graceful, Init, OnlyQuit
<1>2. Graceful /\ TypeOK /\ GInv /\ [Next]_vars => GInv'
  BY GracefulStep
<1>3. GInv => GracefulLosesNothing
  BY DEF GracefulLosesNothing
<1>4. CASE Graceful
  BY <1>1, <1>2, <1>3, <1>4, TypeCorrect, PTL DEF Spec
<1> QED
  BY <1>4

-----------------------------------------------------------------------------
(* Dynamic pools.                                                          *)

\* The youngest child of the pool has not been asked to quit: it exists, and a
\* replacement is forked if it dies.
Settled(p) ==
    \E y \in children[p] \ idle_kill : \A d \in children[p] \ {y} : d \in elders[y]

\* fpm_children_make is about to fork a child for the pool.
Refilling(p) == pc = "make" /\ make.pool = p /\ make.max > running[p]

\* fpm_run has not come to the pool yet.
Awaiting(p) ==
    /\ running[p] = 0
    /\ \/ pc = "init" /\ wp <= p
       \/ pc = "make" /\ make.caller = "init" /\ make.pool = wp /\ wp < p

\* No fork can fail, and process.max leaves room for every pool.
ForksSucceed == ProcessMax = 0 /\ Budget["fork"] = 0

DInv ==
    /\ env["fork"] = 0 /\ idle_kill \subseteq Linked
    /\ fpm_state = "NORMAL" =>
          \A p \in Pool : PM[p] = "dynamic" => Settled(p) \/ Refilling(p) \/ Awaiting(p)

\* A pool whose children and their order stay, and none of which is asked to
\* quit, stays settled.
LEMMA SettledKept ==
    ASSUME NEW p \in Pool, Settled(p), children'[p] = children[p],
           idle_kill' \cap children[p] \subseteq idle_kill,
           \A y \in children[p] : elders'[y] = elders[y]
    PROVE  Settled(p)'
BY DEF Settled

\* Nothing changes that decides about the pools.
LEMMA Undisturbed ==
    ASSUME DInv, UNCHANGED <<lists, loop>>, env'["fork"] = env["fork"],
           fpm_state' = fpm_state \/ fpm_state' # "NORMAL"
    PROVE  DInv'
BY DEF DInv, Settled, Refilling, Awaiting, Linked, lists, loop

\* Between two calls of fpm_children_make every dynamic pool is settled.
LEMMA BetweenForks ==
    ASSUME DInv, UNCHANGED lists, env'["fork"] = env["fork"], pc \notin {"make", "init"},
           fpm_state' = fpm_state \/ fpm_state' # "NORMAL"
    PROVE  DInv'
BY DEF DInv, Settled, Refilling, Awaiting, Linked, lists

\* fork and fpm_child_link: the new child is the youngest of its pool.
LEMMA ForkSettles ==
    ASSUME TypeOK, SInv, DInv, NEW c \in Pid, Fork(c)
    PROVE  DInv'
<1>0. PICK m \in Pool : m = make.pool
  BY DEF TypeOK
<1>1. UNCHANGED <<fpm_state, idle_kill, loop, env>>
  BY DEF Fork, ctl
<1>2. c \notin Linked
  BY DEF Fork, SInv, ListsAgree, Existing
<1>3. /\ children'[m] = children[m] \cup {c}
      /\ \A q \in Pool : q # m => children'[q] = children[q] /\ running'[q] = running[q]
      /\ elders'[c] = Linked /\ \A d \in Pid : d # c => elders'[d] = elders[d]
  BY <1>0 DEF Fork, TypeOK
<1>4. Linked' = Linked \cup {c}
  BY <1>1, <1>3 DEF Linked
<1>5. Settled(m)'
  <2>1. c \in children'[m] \ idle_kill'
    BY <1>1, <1>2, <1>3 DEF DInv
  <2>2. \A d \in children'[m] \ {c} : d \in elders'[c]
    BY <1>1, <1>3 DEF Linked
  <2> QED
    BY <2>1, <2>2 DEF Settled
<1>6. ASSUME NEW p \in Pool, p # m, PM[p] = "dynamic", fpm_state = "NORMAL"
      PROVE  Settled(p)' \/ Awaiting(p)'
  <2>1. CASE Settled(p)
    <3>1. \A y \in children[p] : y \in Pid /\ y # c
      BY <1>2 DEF Linked, TypeOK
    <3>2. Settled(p)'
      BY <1>1, <1>3, <1>6, <2>1, <3>1, SettledKept
    <3> QED
      BY <3>2
  <2>2. CASE Awaiting(p)
    BY <1>1, <1>3, <1>6, <2>2 DEF Awaiting, loop
  <2> QED
    BY <1>0, <1>6, <2>1, <2>2 DEF DInv, Refilling
<1>7. idle_kill' \subseteq Linked' /\ env'["fork"] = 0
  BY <1>1, <1>4 DEF DInv
<1> QED
  BY <1>1, <1>5, <1>6, <1>7 DEF DInv

\* fpm_children_make returns only when it has forked what it was asked for.
LEMMA MakeDoneSettles ==
    ASSUME TypeOK, DInv, ForksSucceed, MakeDone
    PROVE  DInv'
<1>1. UNCHANGED <<fpm_state, lists, env>> /\ pc = "make" /\ MakeReturns
  BY DEF MakeDone, ctl
<1>2. ASSUME NEW p \in Pool, PM[p] = "dynamic", fpm_state = "NORMAL"
      PROVE  Settled(p)' \/ Awaiting(p)'
  <2>1. ~Refilling(p)
    BY <1>2 DEF MakeDone, MayFork, CanSpawn, ForksSucceed, Refilling, TypeOK
  <2>2. CASE Settled(p)
    BY <1>1, <2>2 DEF Settled, lists
  <2>3. CASE Awaiting(p)
    <3>1. running[p] = 0 /\ make.caller = "init" /\ wp < p
      BY <1>1, <2>3 DEF Awaiting
    <3>2. NextPool("init")
      BY <1>1, <3>1 DEF MakeReturns
    <3>3. wp \in Nat /\ p \in Nat /\ p <= NPools /\ NPools \in Nat
      BY PoolsAssumption DEF PoolsAssumption, TypeOK, Pool
    <3>4. pc' = "init" /\ wp' = wp + 1
      BY <3>1, <3>2, <3>3 DEF NextPool
    <3> QED
      BY <1>1, <3>1, <3>3, <3>4 DEF Awaiting, lists
  <2> QED
    BY <1>2, <2>1, <2>2, <2>3 DEF DInv
<1>3. idle_kill' \subseteq Linked' /\ env'["fork"] = 0
  BY <1>1 DEF DInv, Linked, lists
<1> QED
  BY <1>1, <1>2, <1>3 DEF DInv

\* fpm_children_create_initial forks pm.start_servers children, at least one.
LEMMA CreateInitialSettles ==
    ASSUME TypeOK, DInv, CreateInitial
    PROVE  DInv'
<1>1. UNCHANGED <<fpm_state, lists, env>> /\ pc = "init"
  BY DEF CreateInitial, ctl
<1>2. ASSUME NEW p \in Pool, PM[p] = "dynamic", fpm_state = "NORMAL"
      PROVE  Settled(p)' \/ Refilling(p)' \/ Awaiting(p)'
  <2> wp \in Nat /\ p \in Nat /\ p <= NPools /\ NPools \in Nat /\ wp \in Pool
    BY PoolsAssumption DEF PoolsAssumption, TypeOK, Pool
  <2>1. CASE Settled(p)
    BY <1>1, <2>1 DEF Settled, lists
  <2>2. CASE Awaiting(p)
    <3>1. running[p] = 0 /\ running'[p] = 0 /\ wp <= p
      BY <1>1, <2>2 DEF Awaiting, lists
    <3>2. CASE PM[wp] = "ondemand"
      <4>1. NextPool("init") /\ wp < p
        BY <1>2, <3>1, <3>2 DEF CreateInitial
      <4>2. pc' = "init" /\ wp' = wp + 1
        BY <4>1 DEF NextPool
      <4> QED
        BY <3>1, <4>1, <4>2 DEF Awaiting
    <3>3. CASE PM[wp] # "ondemand"
      <4>1. CallMake(wp, FALSE, 0, "init") /\ wp' = wp
        BY <3>3 DEF CreateInitial
      <4>2. pc' = "make" /\ make' = [pool |-> wp, max |-> MakeMax(wp, FALSE, 0), caller |-> "init"]
        BY <4>1 DEF CallMake
      <4>3. CASE wp = p
        <5>1. MakeMax(wp, FALSE, 0) = StartServers[p]
          BY <1>2, <4>3 DEF MakeMax
        <5>2. StartServers[p] > 0
          BY <1>2, PoolsAssumption DEF PoolsAssumption
        <5> QED
          BY <3>1, <4>2, <4>3, <5>1, <5>2 DEF Refilling
      <4>4. CASE wp # p
        BY <3>1, <4>1, <4>2, <4>4 DEF Awaiting
      <4> QED
        BY <4>3, <4>4
    <3> QED
      BY <3>2, <3>3
  <2> QED
    BY <1>1, <1>2, <2>1, <2>2 DEF DInv, Refilling
<1>3. idle_kill' \subseteq Linked' /\ env'["fork"] = 0
  BY <1>1 DEF DInv, Linked, lists
<1> QED
  BY <1>1, <1>2, <1>3 DEF DInv

\* The maintenance never picks the youngest child: when it asks a child to quit
\* there is another idle child, and the one it picks is the oldest of them.
LEMMA MaintenanceSettles ==
    ASSUME TypeOK, SInv, DInv, MaintainPool
    PROVE  DInv'
<1>1. /\ UNCHANGED <<fpm_state, children, running, elders, env>> /\ pc = "maint"
      /\ wp \in Pool
  BY DEF MaintainPool, ctl, TypeOK
<1>2. CASE idle_kill' = idle_kill
  BY <1>1, <1>2 DEF DInv, Settled, Refilling, Awaiting, Linked
<1>3. CASE idle_kill' # idle_kill
  <2>0. QuitLastIdle(wp) /\ (PM[wp] = "dynamic" => Cardinality(Idle(wp)) > MaxSpare[wp])
    BY <1>3 DEF MaintainPool, MaintainDynamic, MaintainOndemand
  <2>1. PICK c \in Idle(wp) : IsLastIdle(c, wp) /\ idle_kill' = idle_kill \cup {c}
    BY <2>0 DEF QuitLastIdle
  <2>2. c \in children[wp] /\ idle_kill' \subseteq Linked' /\ env'["fork"] = 0
    BY <1>1, <2>1 DEF Idle, DInv, Linked
  <2>3. ASSUME NEW p \in Pool, PM[p] = "dynamic", fpm_state = "NORMAL"
        PROVE  Settled(p)'
    <3>1. PICK y \in children[p] \ idle_kill : \A d \in children[p] \ {y} : d \in elders[y]
      BY <1>1, <2>3 DEF DInv, Settled, Refilling, Awaiting
    <3>2. y # c
      <4> SUFFICES ASSUME y = c PROVE FALSE
        OBVIOUS
      <4>1. p = wp
        BY <1>1, <2>2, <3>1 DEF SInv, ListsAgree
      <4>2. Cardinality(Idle(p)) > MaxSpare[p] /\ MaxSpare[p] \in Nat /\ MaxSpare[p] > 0
        BY <2>0, <2>3, <4>1, PoolsAssumption DEF PoolsAssumption
      <4>3. Idle(p) # {c}
        BY <4>2, FS_Singleton
      <4>4. PICK d \in Idle(p) : d # c
        BY <2>1, <4>1, <4>3, Zenon
      <4>5. d \in elders[c]
        BY <3>1, <4>4 DEF Idle
      <4> QED
        BY <2>1, <4>1, <4>4, <4>5 DEF IsLastIdle
    <3> QED
      BY <1>1, <2>1, <3>1, <3>2 DEF Settled
  <2> QED
    BY <1>1, <2>2, <2>3 DEF DInv
<1> QED
  BY <1>2, <1>3

\* fpm_children_bury: a child that nobody asked to quit is replaced.
LEMMA BurySettles ==
    ASSUME TypeOK, SInv, DInv, NEW z \in Pid, NEW m \in Pool, Bury(z, m)
    PROVE  DInv'
<1>1. /\ Unlink(z, m) /\ UNCHANGED env /\ pc = "bury" /\ z \in children[m]
      /\ AfterUnlink(z, m)
  BY DEF Bury
<1>2. /\ children'[m] = children[m] \ {z} /\ running'[m] \in Int
      /\ \A q \in Pool : q # m => children'[q] = children[q]
      /\ \A y \in Pid : y # z => elders'[y] = elders[y] \ {z}
      /\ idle_kill' = idle_kill \ {z}
  BY <1>1 DEF Unlink, TypeOK
<1>3. \A q \in Pool : q # m => z \notin children[q]
  BY <1>1 DEF SInv, ListsAgree
<1>4. idle_kill' \subseteq Linked' /\ env'["fork"] = 0
  BY <1>1, <1>2 DEF DInv, Linked
<1>5. ASSUME NEW p \in Pool, PM[p] = "dynamic", fpm_state' = "NORMAL"
      PROVE  Settled(p)' \/ Refilling(p)'
  <2>1. CASE fpm_state # "NORMAL"
    BY <1>1, <1>5, <2>1, Zenon DEF AfterUnlink, PctlSet, ctl
  <2>2. CASE fpm_state = "NORMAL"
    <3>1. PICK y \in children[p] \ idle_kill : \A d \in children[p] \ {y} : d \in elders[y]
      BY <1>1, <1>5, <2>2 DEF DInv, Settled, Refilling, Awaiting
    <3>2. CASE y # z
      <4>1. y \in Pid /\ y \in children'[p] \ idle_kill'
        BY <1>2, <3>1, <3>2 DEF TypeOK
      <4>2. \A d \in children'[p] \ {y} : d \in children[p] /\ d # z
        BY <1>2, <1>3
      <4>3. \A d \in children'[p] \ {y} : d \in elders'[y]
        BY <1>2, <3>1, <3>2, <4>1, <4>2
      <4> QED
        BY <4>1, <4>3 DEF Settled
    <3>3. CASE y = z
      <4>1. p = m /\ RestartChild(z)
        BY <1>3, <3>1, <3>3 DEF RestartChild
      <4>2. CallMake(m, TRUE, 1, "bury")
        BY <1>1, <1>5, <2>2, <4>1, Zenon DEF AfterUnlink, PctlSet
      <4>3. pc' = "make" /\ make' = [pool |-> m, max |-> running'[m] + 1, caller |-> "bury"]
        BY <1>5, <4>1, <4>2 DEF CallMake, MakeMax
      <4> QED
        BY <1>2, <4>1, <4>3 DEF Refilling
    <3> QED
      BY <3>2, <3>3
  <2> QED
    BY <2>1, <2>2
<1> QED
  BY <1>4, <1>5 DEF DInv

LEMMA DInvStep ==
    ASSUME TypeOK, SInv, DInv, ForksSucceed, [Next]_vars
    PROVE  DInv'
<1> USE DEF ctl, lists, loop
<1>1. ASSUME NEW c \in Pid, Fork(c) PROVE DInv'
  BY <1>1, ForkSettles
<1>2. CASE ForkFails
  BY <1>2 DEF ForkFails, Spend, DInv
<1>3. CASE MakeDone
  BY <1>3, MakeDoneSettles
<1>4. CASE CreateInitial
  BY <1>4, CreateInitialSettles
<1>5. CASE GotSigchld \/ BuryDone \/ MaintenanceHeartbeat \/ PctlTimeout
  <2>1. UNCHANGED <<lists, fpm_state, env>> /\ pc \notin {"make", "init"}
    BY <1>5 DEF GotSigchld, BuryDone, MaintenanceHeartbeat, PctlTimeout
  <2> QED
    BY <2>1, BetweenForks
<1>6. ASSUME NEW c \in Commands, GotCommand(c) PROVE DInv'
  <2>1. UNCHANGED <<lists, env>> /\ pc \notin {"make", "init"}
    BY <1>6 DEF GotCommand
  <2>2. fpm_state' = fpm_state \/ fpm_state' # "NORMAL"
    BY <1>6 DEF GotCommand, PctlSet, NewState
  <2> QED
    BY <2>1, <2>2, BetweenForks
<1>7. ASSUME NEW z \in Pid, NEW p \in Pool, Bury(z, p) PROVE DInv'
  BY <1>7, BurySettles
<1>8. ASSUME NEW p \in Pool, OnSocketAccept(p) PROVE DInv'
  <2>1. UNCHANGED <<lists, fpm_state, env>> /\ pc \notin {"make", "init"}
    BY <1>8 DEF OnSocketAccept
  <2> QED
    BY <2>1, BetweenForks
<1>9. CASE MaintainPool
  BY <1>9, MaintenanceSettles
<1>10. CASE Restart
  <2>1. /\ children' = [p \in Pool |-> {}] /\ running' = [p \in Pool |-> 0]
        /\ idle_kill' = {} /\ pc' = "init" /\ wp' = 1 /\ env' = env
    BY <1>10 DEF Restart
  <2>2. \A p \in Pool : running'[p] = 0 /\ wp' <= p
    BY <2>1, PoolsAssumption DEF PoolsAssumption, Pool
  <2> QED
    BY <2>1, <2>2 DEF DInv, Awaiting
<1>15. CASE RestartFails
  <2>1. UNCHANGED <<lists, fpm_state, env>> /\ pc \notin {"make", "init"}
    BY <1>15 DEF RestartFails
  <2> QED
    BY <2>1, BetweenForks
<1>11. ASSUME NEW c \in Pid, CheckRequestTimeout(c) PROVE DInv'
  <2>1. UNCHANGED <<lists, loop, fpm_state, env>>
    BY <1>11 DEF CheckRequestTimeout
  <2> QED
    BY <2>1, Undisturbed
<1>12. ASSUME NEW c \in Pid, Worker(c) PROVE DInv'
  <2>1. UNCHANGED <<lists, loop, fpm_state>>
    BY <1>12 DEF Worker, ChildInit, Accepting, Accept, Rest, ReadingHeaders, RequestEnd, Crash,
                 DeliverQuit, DeliverTerm, DeliverKill, MasterUnchanged
  <2>2. env'["fork"] = env["fork"]
    BY <1>12 DEF Worker, ChildInit, Accepting, Accept, Rest, ReadingHeaders, RequestEnd, Crash,
                 DeliverQuit, DeliverTerm, DeliverKill, Spend, TypeOK
  <2> QED
    BY <2>1, <2>2, Undisturbed
<1>13. CASE Environment
  <2>1. UNCHANGED <<lists, loop, fpm_state>>
    BY <1>13 DEF Environment, FaultsAge, Connect, Command, MasterUnchanged
  <2>2. env'["fork"] = env["fork"]
    BY <1>13 DEF Environment, FaultsAge, Connect, Command, Spend, TypeOK
  <2> QED
    BY <2>1, <2>2, Undisturbed
<1>14. CASE UNCHANGED vars
  BY <1>14, Undisturbed DEF vars
<1> QED
  BY <1>1, <1>2, <1>3, <1>4, <1>5, <1>6, <1>7, <1>8, <1>9, <1>10, <1>11, <1>12, <1>13, <1>14, <1>15
     DEF Next, Master

(***************************************************************************)
(* For any pools and workers, crashes and time limits included: a running  *)
(* dynamic pool has a child whenever the master is back in its event loop. *)
(***************************************************************************)
THEOREM DynamicAlwaysPopulated == ForksSucceed /\ Spec => []DynamicPopulated
<1>1. ForksSucceed /\ Init => DInv
  <2> SUFFICES ASSUME ForksSucceed, Init PROVE DInv
    OBVIOUS
  <2>1. env["fork"] = 0 /\ idle_kill \subseteq Linked
    BY DEF ForksSucceed, Init
  <2>2. \A p \in Pool : Awaiting(p)
    BY PoolsAssumption DEF PoolsAssumption, Init, Awaiting, Pool
  <2> QED
    BY <2>1, <2>2 DEF DInv
<1>2. ForksSucceed /\ TypeOK /\ SInv /\ DInv /\ [Next]_vars => DInv'
  BY DInvStep
<1>3. TypeOK /\ SInv /\ DInv => DynamicPopulated
  <2> SUFFICES ASSUME TypeOK, SInv, DInv, pc = "loop", fpm_state = "NORMAL",
                      NEW p \in Pool, PM[p] = "dynamic"
               PROVE  running[p] >= 1
    BY DEF DynamicPopulated
  <2>1. children[p] # {}
    BY DEF DInv, Settled, Refilling, Awaiting
  <2>2. IsFiniteSet(children[p]) /\ running[p] = Cardinality(children[p])
    BY ChildrenFinite DEF SInv, ListsAgree
  <2>3. Cardinality(children[p]) \in Nat /\ Cardinality(children[p]) # 0
    BY <2>1, <2>2, FS_EmptySet, FS_CardinalityType
  <2> QED
    BY <2>2, <2>3
<1>4. CASE ForksSucceed
  BY <1>1, <1>2, <1>3, <1>4, TypeCorrect, SInvAlways, PTL DEF Spec
<1> QED
  BY <1>4
=============================================================================
