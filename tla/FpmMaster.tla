----------------------------- MODULE FpmMaster -----------------------------
(***************************************************************************)
(* The process manager of PHP-FPM (sapi/fpm/fpm): a single-threaded master *)
(* that forks, counts, signals and reaps workers, and the workers that     *)
(* accept connections.  The handlers of the master's event loop are one    *)
(* step each, except that every fork of fpm_children_make and every        *)
(* waitpid of fpm_children_bury is a step of its own: workers run, die and *)
(* receive signals in between.  Clocks are nondeterministic: a timer may   *)
(* fire and a time limit may have passed whenever it is armed.             *)
(***************************************************************************)
EXTENDS Integers, FiniteSets

CONSTANTS
    Pid,            \* process identifiers the kernel can give to a worker
    NPools,         \* worker pools, 1 .. NPools in the order of the list
    PM,             \* pm of a pool: "static", "dynamic" or "ondemand"
    MaxChildren,    \* pm.max_children of a pool
    StartServers,   \* pm.start_servers
    MinSpare,       \* pm.min_spare_servers
    MaxSpare,       \* pm.max_spare_servers
    ProcessMax,     \* process.max, 0 for no limit
    Threshold,      \* emergency_restart_threshold, 0 when it is off
    ControlTimer,   \* may process_control_timeout pass before workers react?
    RequestTimer,   \* is request_terminate_timeout set, and may it pass?
    MaxRequests,    \* is pm.max_requests set?
    Commands,       \* signals an administrator sends to the master
    Budget          \* bounds: connections, commands, crashes and failed forks

Pool == 1 .. NPools
FPM_MAX_SPAWN_RATE == 32
Rate == {1, 2, 4, 8, 16, 32}
Signal == {"QUIT", "TERM", "KILL"}

(***************************************************************************)
(* What fpm_conf_process_all_pools accepts.  There are enough identifiers  *)
(* for every worker the pools may have.                                    *)
(***************************************************************************)
ASSUME PoolsAssumption ==
    /\ NPools \in Nat \ {0} /\ ProcessMax \in Nat /\ Threshold \in Nat
    /\ PM \in [Pool -> {"static", "dynamic", "ondemand"}]
    /\ MaxChildren \in [Pool -> Nat \ {0}]
    /\ StartServers \in [Pool -> Nat]
    /\ MinSpare \in [Pool -> Nat] /\ MaxSpare \in [Pool -> Nat]
    /\ \A p \in Pool : PM[p] = "dynamic" =>
          /\ 0 < MinSpare[p] /\ MinSpare[p] <= StartServers[p]
          /\ StartServers[p] <= MaxSpare[p] /\ MaxSpare[p] <= MaxChildren[p]
ASSUME BudgetAssumption ==
    /\ Budget \in [{"conn", "command", "crash", "fork"} -> Nat]
    /\ Commands \subseteq {"T", "Q", "2"}
    /\ ControlTimer \in BOOLEAN /\ RequestTimer \in BOOLEAN /\ MaxRequests \in BOOLEAN
ASSUME PidAssumption == IsFiniteSet(Pid)

VARIABLES
    \* the control state, fpm_process_ctl.c
    fpm_state,       \* NORMAL, RELOADING, FINISHING or TERMINATING
    fpm_signal_sent, \* the last signal of kill_all, "none" when there is none
    pctl_event,      \* the control timer: "queued" or "none"
    last_faults,     \* how many of the last Threshold faults are recent
    \* the lists of children, fpm_children.c
    children,        \* pool -> the linked children
    running,         \* pool -> running_children
    total,           \* fpm_globals.running_children
    elders,          \* child -> the children started before it (started)
    idle_kill,       \* children the maintenance has asked to quit
    idle_spawn_rate, \* pool -> processes the next maintenance may fork
    \* where the master is
    pc,              \* "init", "loop", "make", "bury", "maint", "exec", "exited"
    wp,              \* the pool that init or maint has come to
    make,            \* the running fpm_children_make: pool, max, caller
    pipe,            \* signal characters not yet read from the signal pipe
    socket_event,    \* ondemand pools with an unseen edge of their socket
    \* the workers and the world
    proc,            \* pid -> what the process is doing
    how,             \* pid -> how a zombie died
    accepting,       \* children whose scoreboard stage is FPM_REQUEST_ACCEPTING
    rested,          \* children without activity for pm.process_idle_timeout
    sigs,            \* pid -> signals sent and not yet delivered
    in_shutdown,     \* workers that have handled SIGQUIT
    backlog,         \* pool -> connections not yet accepted
    lost,            \* ghost: connections that died with their worker
    env              \* ghost: what is left of Budget

ctl   == <<fpm_state, fpm_signal_sent, pctl_event>>
lists == <<children, running, total, elders, idle_kill>>
loop  == <<pc, wp, make>>
board == <<accepting, rested>>
work  == <<proc, how, sigs, in_shutdown, lost, board>>
vars  == <<ctl, last_faults, lists, idle_spawn_rate, loop, pipe, socket_event,
           work, backlog, env>>

Activity == {"none", "starting", "top", "idle", "accepted", "busy", "zombie"}
Caller == {"init", "bury", "maint", "loop"}

Spend(what) == env[what] > 0 /\ env' = [env EXCEPT ![what] = @ - 1]

Linked == UNION {children[p] : p \in Pool}
Existing == {c \in Pid : proc[c] # "none"}
Alive(c) == proc[c] \notin {"none", "zombie"}
HasConnection(c) == proc[c] \in {"accepted", "busy"}

(***************************************************************************)
(* fpm_request_is_idle reads the stage of the scoreboard without a lock.   *)
(* It is ACCEPTING from before accept is called until some time after it   *)
(* has returned a connection, and it stays what it was when a child dies,  *)
(* until the child is buried.                                              *)
(***************************************************************************)
Idle(p) == children[p] \cap accepting
\* Fault: the comparison of started is the wrong way round.
IsYoungestIdle(c, p) == c \in Idle(p) /\ \A d \in Idle(p) : c \notin elders[d]
\* The idle child with the smallest started.
IsLastIdle(c, p) == c \in Idle(p) /\ elders[c] \cap Idle(p) = {}

\* kill(pid, s) for every pid of targets; a zombie is not affected.
Send(targets, s) ==
    [c \in Pid |-> IF c \in targets /\ Alive(c) THEN sigs[c] \cup {s} ELSE sigs[c]]

(***************************************************************************)
(* fpm_pctl.                                                               *)
(***************************************************************************)
CanSpawn == fpm_state = "NORMAL"

\* Fault: a missing return lets reloading override finishing.
OverridesAny(new, old) == new # old /\ old # "TERMINATING"
Overrides(new, old) ==
    \/ old = "NORMAL" /\ new # "NORMAL"
    \/ old = "RELOADING" /\ new \in {"FINISHING", "TERMINATING"}
    \/ old = "FINISHING" /\ new = "TERMINATING"

\* fpm_pctl_action_last does not return: it executes the program again or exits.
ActionLast(state) == IF state = "RELOADING" THEN "exec" ELSE "exited"

\* Fault: there is no step from TERM to KILL.
NextSignalNoKill(state, sent) ==
    IF sent = "none" /\ state # "TERMINATING" THEN "QUIT" ELSE "TERM"
NextSignal(state, sent) ==
    CASE sent = "none" -> IF state = "TERMINATING" THEN "TERM" ELSE "QUIT"
      [] sent = "QUIT" -> "TERM"
      [] OTHER -> "KILL"

\* fpm_pctl_action_next, after the caller's change of the lists.
ActionNext(state, sent, armed, return) ==
    IF total' = 0
    THEN pc' = ActionLast(state) /\ UNCHANGED <<fpm_signal_sent, pctl_event, sigs>>
    ELSE /\ fpm_signal_sent' = NextSignal(state, sent)
         /\ pctl_event' = armed
         /\ sigs' = Send(UNION {children'[p] : p \in Pool}, NextSignal(state, sent))
         /\ pc' = return

\* fpm_pctl(new, FPM_PCTL_ACTION_SET) when new overrides the state.
PctlSet(new, return) ==
    /\ fpm_state' = new
    /\ ActionNext(new, "none", "queued", return)

(***************************************************************************)
(* fpm_children_make.  Its caller sets make; the loop forks one child per  *)
(* step, and a failed preparation or fork makes it return 2.               *)
(***************************************************************************)
MakeMax(p, in_event_loop, nb) ==
    IF PM[p] = "static" THEN MaxChildren[p]
    ELSE IF in_event_loop THEN running'[p] + nb
    ELSE IF PM[p] = "dynamic" THEN StartServers[p] ELSE 0

CallMake(p, in_event_loop, nb, caller) ==
    /\ pc' = "make"
    /\ make' = [pool |-> p, max |-> MakeMax(p, in_event_loop, nb), caller |-> caller]

NoMake == [pool |-> 1, max |-> 0, caller |-> "init"]

\* Faults: process.max is passed by one; the pool stays one below its maximum.
MayForkOneMore == CanSpawn /\ running[make.pool] < make.max /\ (ProcessMax < 1 \/ total <= ProcessMax)
MayForkOneLess == CanSpawn /\ running[make.pool] < make.max - 1

MayFork ==
    /\ CanSpawn
    /\ running[make.pool] < make.max
    /\ ProcessMax < 1 \/ total < ProcessMax

\* fork and fpm_child_link; the child still has the master's signal handlers.
Fork(c) ==
    /\ pc = "make" /\ MayFork /\ proc[c] = "none"
    /\ children' = [children EXCEPT ![make.pool] = @ \cup {c}]
    /\ running' = [running EXCEPT ![make.pool] = @ + 1]
    /\ total' = total + 1
    /\ elders' = [elders EXCEPT ![c] = Linked]
    /\ proc' = [proc EXCEPT ![c] = "starting"]
    /\ UNCHANGED <<ctl, last_faults, idle_kill, idle_spawn_rate, loop, pipe,
                   socket_event, how, sigs, in_shutdown, lost, board, backlog, env>>

\* Fault: the loop over the pools goes one too far.
NextPoolTooFar(at) ==
    IF wp <= NPools THEN pc' = at /\ wp' = wp + 1 ELSE pc' = "loop" /\ wp' = 1
\* The control flow after fpm_children_make, by its caller.
NextPool(at) ==
    IF wp < NPools THEN pc' = at /\ wp' = wp + 1 ELSE pc' = "loop" /\ wp' = 1
MakeReturns ==
    /\ make' = NoMake
    /\ IF make.caller \in {"init", "maint"}
       THEN NextPool(make.caller)
       ELSE pc' = make.caller /\ wp' = wp

ForkFails ==
    /\ pc = "make" /\ MayFork /\ Spend("fork")
    /\ IF make.caller = "init"
       THEN \* fpm_run: terminate
            /\ total' = total /\ children' = children
            /\ PctlSet("TERMINATING", "loop") /\ wp' = 1 /\ make' = NoMake
       ELSE MakeReturns /\ UNCHANGED <<ctl, total, children, sigs>>
    /\ UNCHANGED <<last_faults, running, elders, idle_kill, idle_spawn_rate, pipe,
                   socket_event, proc, how, in_shutdown, lost, board, backlog>>

MakeDone ==
    /\ pc = "make" /\ ~MayFork
    /\ MakeReturns
    /\ UNCHANGED <<ctl, last_faults, lists, idle_spawn_rate, pipe, socket_event,
                   work, backlog, env>>

\* fpm_run: fpm_children_create_initial for each pool in turn.
CreateInitial ==
    /\ pc = "init"
    /\ UNCHANGED lists
    /\ IF PM[wp] = "ondemand"
       THEN NextPool("init") /\ make' = make
       ELSE CallMake(wp, FALSE, 0, "init") /\ wp' = wp
    /\ UNCHANGED <<ctl, last_faults, idle_spawn_rate, pipe, socket_event, work, backlog, env>>

(***************************************************************************)
(* fpm_got_signal: one character of the signal pipe.                       *)
(***************************************************************************)
NewState(c) == CASE c = "T" -> "TERMINATING" [] c = "Q" -> "FINISHING" [] OTHER -> "RELOADING"

GotCommand(c) ==
    /\ pc = "loop" /\ c \in pipe \cap Commands
    /\ pipe' = pipe \ {c}
    /\ UNCHANGED lists
    /\ IF Overrides(NewState(c), fpm_state)
       THEN PctlSet(NewState(c), "loop")
       ELSE UNCHANGED <<ctl, sigs, pc>>
    /\ UNCHANGED <<last_faults, idle_spawn_rate, wp, make, socket_event, proc, how,
                   in_shutdown, lost, board, backlog, env>>

GotSigchld ==
    /\ pc = "loop" /\ "C" \in pipe
    /\ pipe' = pipe \ {"C"}
    /\ pc' = "bury"
    /\ UNCHANGED <<ctl, last_faults, lists, idle_spawn_rate, wp, make, socket_event,
                   work, backlog, env>>

(***************************************************************************)
(* fpm_children_bury: one waitpid.                                         *)
(***************************************************************************)
\* Fault: fpm_globals.running_children is not decremented.
UnlinkKeepsTotal(z, p) ==
    /\ children' = [children EXCEPT ![p] = @ \ {z}]
    /\ running' = [running EXCEPT ![p] = @ - 1]
    /\ total' = total
    /\ elders' = [c \in Pid |-> IF c = z THEN {} ELSE elders[c] \ {z}]
    /\ idle_kill' = idle_kill \ {z}

Unlink(z, p) ==
    /\ children' = [children EXCEPT ![p] = @ \ {z}]
    /\ running' = [running EXCEPT ![p] = @ - 1]
    /\ total' = total - 1
    /\ elders' = [c \in Pid |-> IF c = z THEN {} ELSE elders[c] \ {z}]
    /\ idle_kill' = idle_kill \ {z}

\* Fault: every child is replaced.
RestartAlways(z) == TRUE
\* A child asked to quit by the maintenance that did quit is not replaced.
RestartChild(z) == ~(how[z] = "exit" /\ z \in idle_kill)

\* SIGSEGV and SIGBUS are counted when the emergency restart is on; the ring of
\* their times is overwritten from the oldest on.
IsFault(z) == Threshold > 0 /\ how[z] = "segv"
Faults(z) == IF IsFault(z) /\ last_faults < Threshold THEN last_faults + 1 ELSE last_faults
EmergencyRestart(z) == IsFault(z) /\ Faults(z) = Threshold

\* Fault: the shutdown ends when one pool is empty.
AfterUnlinkOnePool(z, p) ==
    IF fpm_state # "NORMAL" /\ running'[p] = 0
    THEN pc' = ActionLast(fpm_state) /\ UNCHANGED <<ctl, sigs, make>>
    ELSE pc' = "bury" /\ UNCHANGED <<ctl, sigs, make>>

AfterUnlink(z, p) ==
    CASE fpm_state # "NORMAL" /\ total' = 0 ->
            \* fpm_pctl_child_exited
            /\ pc' = ActionLast(fpm_state)
            /\ UNCHANGED <<ctl, sigs, make>>
      [] EmergencyRestart(z) /\ Overrides("RELOADING", fpm_state) ->
            PctlSet("RELOADING", "bury") /\ make' = make
      [] OTHER ->
            /\ UNCHANGED <<ctl, sigs>>
            /\ IF RestartChild(z)
               THEN CallMake(p, TRUE, 1, "bury")
               ELSE pc' = "bury" /\ make' = make

Bury(z, p) ==
    /\ pc = "bury" /\ proc[z] = "zombie" /\ z \in children[p]
    /\ Unlink(z, p)
    /\ proc' = [proc EXCEPT ![z] = "none"] /\ how' = [how EXCEPT ![z] = "exit"]
    /\ accepting' = accepting \ {z} /\ rested' = rested \ {z}
    /\ last_faults' = Faults(z)
    /\ AfterUnlink(z, p)
    /\ UNCHANGED <<idle_spawn_rate, wp, pipe, socket_event, in_shutdown, lost, backlog, env>>

\* Fault: if instead of while around waitpid.
BuryDoneEarly ==
    /\ pc = "bury" /\ pc' = "loop"
    /\ UNCHANGED <<ctl, last_faults, lists, idle_spawn_rate, wp, make, pipe,
                   socket_event, work, backlog, env>>
BuryDone ==
    /\ pc = "bury" /\ \A c \in Pid : proc[c] # "zombie"
    /\ pc' = "loop"
    /\ UNCHANGED <<ctl, last_faults, lists, idle_spawn_rate, wp, make, pipe,
                   socket_event, work, backlog, env>>

\* Recorded times leave emergency_restart_interval.
FaultsAge ==
    /\ last_faults' \in 0 .. last_faults - 1
    /\ UNCHANGED <<ctl, lists, idle_spawn_rate, loop, pipe, socket_event, work, backlog, env>>

(***************************************************************************)
(* Timers of the event loop.                                               *)
(***************************************************************************)

\* fpm_pctl_action.  fpm_pctl_timeout_set finds the event still in the queue,
\* and the loop then deletes it, because it is not persistent.
PctlTimeout ==
    /\ pc = "loop" /\ pctl_event = "queued" /\ ControlTimer
    /\ UNCHANGED <<fpm_state, lists>>
    /\ ActionNext(fpm_state, fpm_signal_sent, "none", "loop")
    /\ UNCHANGED <<last_faults, idle_spawn_rate, wp, make, pipe, socket_event, proc,
                   how, in_shutdown, lost, board, backlog, env>>

\* fpm_pctl_heartbeat finds a request that has taken too long.
CheckRequestTimeout(c) ==
    /\ pc = "loop" /\ RequestTimer
    /\ c \in Linked /\ proc[c] = "busy"
    /\ sigs' = Send({c}, "TERM")
    /\ UNCHANGED <<ctl, last_faults, lists, idle_spawn_rate, loop, pipe, socket_event,
                   proc, how, in_shutdown, lost, board, backlog, env>>

\* The heartbeat of the maintenance, every second.
MaintenanceHeartbeat ==
    /\ pc = "loop" /\ CanSpawn
    /\ pc' = "maint" /\ wp' = 1
    /\ UNCHANGED <<ctl, last_faults, lists, idle_spawn_rate, make, pipe, socket_event,
                   work, backlog, env>>

Smaller(a, b) == IF a <= b THEN a ELSE b
ToFork(p) ==
    Smaller(Smaller(idle_spawn_rate[p], MinSpare[p] - Cardinality(Idle(p))),
            MaxChildren[p] - running[p])

\* Fault: the idle child is terminated instead of asked to quit.
TerminateLastIdle(p) ==
    \E c \in Idle(p) :
        /\ IsLastIdle(c, p)
        /\ idle_kill' = idle_kill \cup {c}
        /\ sigs' = Send({c}, "TERM")
QuitLastIdle(p) ==
    \E c \in Idle(p) :
        /\ IsLastIdle(c, p)
        /\ idle_kill' = idle_kill \cup {c}
        /\ sigs' = Send({c}, "QUIT")

SetRate(p, r) == idle_spawn_rate' = [idle_spawn_rate EXCEPT ![p] = r]

MaintainOndemand(p) ==
    /\ PM[p] = "ondemand"
    /\ IF \E c \in rested : IsLastIdle(c, p)
       THEN QuitLastIdle(p)
       ELSE UNCHANGED <<idle_kill, sigs>>
    /\ NextPool("maint")
    /\ UNCHANGED <<make, idle_spawn_rate>>

MaintainDynamic(p) ==
    LET idle == Cardinality(Idle(p)) IN
    /\ PM[p] = "dynamic"
    /\ \/ /\ idle > MaxSpare[p]
          /\ QuitLastIdle(p)
          /\ SetRate(p, 1)
          /\ NextPool("maint") /\ make' = make
       \/ /\ idle < MinSpare[p] /\ running[p] < MaxChildren[p]
          /\ SetRate(p, IF idle_spawn_rate[p] < FPM_MAX_SPAWN_RATE
                        THEN 2 * idle_spawn_rate[p] ELSE idle_spawn_rate[p])
          /\ CallMake(p, TRUE, ToFork(p), "maint")
          /\ UNCHANGED <<wp, idle_kill, sigs>>
       \/ /\ idle < MinSpare[p] => running[p] >= MaxChildren[p]
          /\ idle <= MaxSpare[p]
          /\ SetRate(p, 1)
          /\ NextPool("maint")
          /\ UNCHANGED <<make, idle_kill, sigs>>

\* fpm_pctl_perform_idle_server_maintenance, one pool of its loop.
MaintainPool ==
    /\ pc = "maint"
    /\ UNCHANGED <<children, running, total, elders>>
    /\ \/ MaintainDynamic(wp)
       \/ MaintainOndemand(wp)
       \/ /\ PM[wp] = "static"
          /\ NextPool("maint")
          /\ UNCHANGED <<make, idle_kill, sigs, idle_spawn_rate>>
    /\ UNCHANGED <<ctl, last_faults, pipe, socket_event, proc, how, in_shutdown, lost, board, backlog, env>>

\* fpm_pctl_on_socket_accept; the event is edge-triggered.
OnSocketAccept(p) ==
    /\ pc = "loop" /\ p \in socket_event
    /\ socket_event' = socket_event \ {p}
    /\ UNCHANGED lists
    /\ IF running[p] < MaxChildren[p] /\ Idle(p) = {}
       THEN CallMake(p, TRUE, 1, "loop")
       ELSE UNCHANGED <<pc, make>>
    /\ UNCHANGED <<ctl, last_faults, idle_spawn_rate, wp, pipe, work, backlog, env>>

\* The master after execvp: everything but the listening sockets is new.
\* last_faults is zeroed, which is a recent time if the machine has just booted.
Restart ==
    /\ pc = "exec"
    /\ fpm_state' = "NORMAL" /\ fpm_signal_sent' = "none" /\ pctl_event' = "none"
    /\ last_faults' \in {0, Threshold}
    /\ children' = [p \in Pool |-> {}] /\ running' = [p \in Pool |-> 0] /\ total' = 0
    /\ elders' = [c \in Pid |-> {}] /\ idle_kill' = {}
    /\ idle_spawn_rate' = [p \in Pool |-> 1]
    /\ pc' = "init" /\ wp' = 1 /\ make' = make
    /\ pipe' = {}
    /\ socket_event' = {p \in Pool : PM[p] = "ondemand" /\ backlog[p] > 0}
    /\ UNCHANGED <<work, backlog, env>>

\* execvp fails: exit(FPM_EXIT_SOFTWARE), without the workers already reaped.
RestartFails ==
    /\ pc = "exec" /\ pc' = "exited"
    /\ UNCHANGED <<ctl, last_faults, lists, idle_spawn_rate, wp, make, pipe, socket_event,
                   work, backlog, env>>

(***************************************************************************)
(* Workers: fpm_run's children, fcgi_accept_request and the request loop   *)
(* of main.                                                                *)
(***************************************************************************)
\* The process ends; its parent gets SIGCHLD.
Exits(c, cause) ==
    /\ proc' = [proc EXCEPT ![c] = "zombie"]
    /\ how' = [how EXCEPT ![c] = cause]
    /\ sigs' = [sigs EXCEPT ![c] = {}]
    /\ in_shutdown' = in_shutdown \ {c}
    /\ pipe' = pipe \cup {"C"}
    /\ UNCHANGED board

Dies(c, cause) ==
    /\ Exits(c, cause)
    /\ lost' = IF HasConnection(c) THEN lost + 1 ELSE lost

Becomes(c, activity) ==
    /\ proc' = [proc EXCEPT ![c] = activity]
    /\ UNCHANGED <<how, sigs, in_shutdown, lost, pipe>>

MasterUnchanged ==
    UNCHANGED <<ctl, last_faults, lists, idle_spawn_rate, loop>>

\* fpm_child_init up to the accept loop: from here on signals are handled.
ChildInit(c) ==
    /\ proc[c] = "starting" /\ Becomes(c, "top")
    /\ MasterUnchanged /\ UNCHANGED <<board, socket_event, backlog, env>>

\* The top of fcgi_accept_request.
Accepting(c) ==
    /\ proc[c] = "top"
    /\ IF c \in in_shutdown
       THEN Dies(c, "exit")
       ELSE Becomes(c, "idle") /\ accepting' = accepting \cup {c} /\ rested' = rested \ {c}
    /\ MasterUnchanged /\ UNCHANGED <<socket_event, backlog, env>>

Accept(c, p) ==
    /\ proc[c] = "idle" /\ c \in children[p] /\ backlog[p] > 0
    /\ backlog' = [backlog EXCEPT ![p] = @ - 1]
    /\ Becomes(c, "accepted")
    /\ MasterUnchanged /\ UNCHANGED <<board, socket_event, env>>

ReadingHeaders(c) ==
    /\ proc[c] = "accepted" /\ Becomes(c, "busy")
    /\ accepting' = accepting \ {c} /\ rested' = rested \ {c}
    /\ MasterUnchanged /\ UNCHANGED <<socket_event, backlog, env>>

\* The request is answered and its connection closed.
RequestEnd(c) ==
    /\ proc[c] = "busy"
    /\ \/ Becomes(c, "top") /\ UNCHANGED board
       \/ /\ MaxRequests
          /\ Exits(c, "exit") /\ lost' = lost
    /\ MasterUnchanged /\ UNCHANGED <<socket_event, backlog, env>>

\* A worker that cannot initialise exits, a running one gets SIGSEGV.
Crash(c) ==
    /\ Alive(c) /\ Spend("crash")
    /\ Dies(c, IF proc[c] = "starting" THEN "exit" ELSE "segv")
    /\ MasterUnchanged /\ UNCHANGED <<socket_event, backlog>>

(***************************************************************************)
(* A signal is delivered.  A child that has not come to                    *)
(* fpm_signals_init_child runs the master's handler, which returns at once;*)
(* sig_soft_quit replaces the listening socket, so that accept fails.      *)
(***************************************************************************)
Delivered(c, s) == sigs' = [sigs EXCEPT ![c] = @ \ {s}]

DeliverQuit(c) ==
    /\ "QUIT" \in sigs[c]
    /\ CASE proc[c] = "starting" ->
              Delivered(c, "QUIT") /\ UNCHANGED <<proc, how, in_shutdown, lost, board, pipe>>
         [] proc[c] = "idle" -> Dies(c, "exit")
         [] OTHER ->
              /\ Delivered(c, "QUIT") /\ in_shutdown' = in_shutdown \cup {c}
              /\ UNCHANGED <<proc, how, lost, board, pipe>>
    /\ MasterUnchanged /\ UNCHANGED <<socket_event, backlog, env>>

DeliverTerm(c) ==
    /\ "TERM" \in sigs[c]
    /\ IF proc[c] = "starting"
       THEN Delivered(c, "TERM") /\ UNCHANGED <<proc, how, in_shutdown, lost, board, pipe>>
       ELSE Dies(c, "signal")
    /\ MasterUnchanged /\ UNCHANGED <<socket_event, backlog, env>>

DeliverKill(c) ==
    /\ "KILL" \in sigs[c]
    /\ Dies(c, "signal")
    /\ MasterUnchanged /\ UNCHANGED <<socket_event, backlog, env>>

\* A worker waits so long in accept that its last activity is old.  Only
\* ondemand pools look at it.
Rest(c, p) ==
    /\ PM[p] = "ondemand" /\ c \in children[p] \ rested
    /\ proc[c] = "idle" /\ backlog[p] = 0
    /\ rested' = rested \cup {c}
    /\ MasterUnchanged
    /\ UNCHANGED <<proc, how, sigs, in_shutdown, lost, accepting, pipe, socket_event, backlog, env>>

(***************************************************************************)
(* Clients and administrators.                                             *)
(***************************************************************************)
Connect(p) ==
    /\ pc # "exited" /\ Spend("conn")
    /\ backlog' = [backlog EXCEPT ![p] = @ + 1]
    /\ socket_event' = IF PM[p] = "ondemand" THEN socket_event \cup {p} ELSE socket_event
    /\ MasterUnchanged /\ UNCHANGED <<work, pipe>>

Command(c) ==
    /\ pc \notin {"exec", "exited"} /\ Spend("command")
    /\ pipe' = pipe \cup {c}
    /\ MasterUnchanged /\ UNCHANGED <<work, socket_event, backlog>>

-----------------------------------------------------------------------------
Init ==
    /\ fpm_state = "NORMAL" /\ fpm_signal_sent = "none" /\ pctl_event = "none"
    /\ last_faults \in {0, Threshold}
    /\ children = [p \in Pool |-> {}] /\ running = [p \in Pool |-> 0] /\ total = 0
    /\ elders = [c \in Pid |-> {}] /\ idle_kill = {}
    /\ idle_spawn_rate = [p \in Pool |-> 1]
    /\ pc = "init" /\ wp = 1 /\ make = NoMake
    /\ pipe = {} /\ socket_event = {}
    /\ proc = [c \in Pid |-> "none"] /\ how = [c \in Pid |-> "exit"]
    /\ sigs = [c \in Pid |-> {}] /\ in_shutdown = {}
    /\ accepting = {} /\ rested = {}
    /\ backlog = [p \in Pool |-> 0] /\ lost = 0
    /\ env = Budget

Master ==
    \/ CreateInitial \/ (\E c \in Pid : Fork(c)) \/ ForkFails \/ MakeDone
    \/ (\E c \in Commands : GotCommand(c)) \/ GotSigchld
    \/ (\E z \in Pid, p \in Pool : Bury(z, p)) \/ BuryDone
    \/ PctlTimeout \/ (\E c \in Pid : CheckRequestTimeout(c))
    \/ MaintenanceHeartbeat \/ MaintainPool
    \/ (\E p \in Pool : OnSocketAccept(p)) \/ Restart \/ RestartFails

Worker(c) ==
    \/ ChildInit(c) \/ Accepting(c) \/ (\E p \in Pool : Accept(c, p) \/ Rest(c, p))
    \/ ReadingHeaders(c) \/ RequestEnd(c) \/ Crash(c)
    \/ DeliverQuit(c) \/ DeliverTerm(c) \/ DeliverKill(c)

Environment ==
    \/ FaultsAge \/ (\E p \in Pool : Connect(p)) \/ (\E c \in Commands : Command(c))

Next == Master \/ (\E c \in Pid : Worker(c)) \/ Environment

Spec == Init /\ [][Next]_vars

(***************************************************************************)
(* Fairness.  The event loop looks at the signal pipe, the listening       *)
(* sockets and every timer in each iteration, so a source that is again    *)
(* and again ready is served; a process that can run does run; the kernel  *)
(* delivers a pending signal; a request ends.                              *)
(***************************************************************************)
MasterFairness ==
    /\ WF_vars(CreateInitial \/ (\E c \in Pid : Fork(c)) \/ ForkFails \/ MakeDone)
    /\ WF_vars((\E z \in Pid, p \in Pool : Bury(z, p)) \/ BuryDone)
    /\ WF_vars(MaintainPool) /\ WF_vars(Restart \/ RestartFails)
    /\ SF_vars(GotSigchld) /\ \A c \in Commands : SF_vars(GotCommand(c))
    /\ SF_vars(PctlTimeout) /\ SF_vars(MaintenanceHeartbeat)
    /\ \A p \in Pool : SF_vars(OnSocketAccept(p))

WorkerFairness(c) ==
    /\ WF_vars(ChildInit(c)) /\ WF_vars(Accepting(c))
    /\ WF_vars(\E p \in Pool : Accept(c, p))
    /\ WF_vars(ReadingHeaders(c)) /\ WF_vars(RequestEnd(c))
    /\ WF_vars(DeliverQuit(c)) /\ WF_vars(DeliverTerm(c)) /\ WF_vars(DeliverKill(c))

FairSpec == Spec /\ MasterFairness /\ \A c \in Pid : WorkerFairness(c)

-----------------------------------------------------------------------------
(* Types of the control state, the lists and the processes. *)
TypeOK ==
    /\ fpm_state \in {"NORMAL", "RELOADING", "FINISHING", "TERMINATING"}
    /\ fpm_signal_sent \in Signal \cup {"none"}
    /\ pctl_event \in {"queued", "none"}
    /\ last_faults \in 0 .. Threshold
    /\ children \in [Pool -> SUBSET Pid]
    /\ running \in [Pool -> Int] /\ total \in Int
    /\ elders \in [Pid -> SUBSET Pid] /\ idle_kill \subseteq Pid
    /\ idle_spawn_rate \in [Pool -> Rate]
    /\ pc \in {"init", "loop", "make", "bury", "maint", "exec", "exited"}
    /\ wp \in Pool
    /\ make \in [pool : Pool, max : Int, caller : Caller]
    /\ pipe \subseteq Commands \cup {"C"}
    /\ socket_event \subseteq Pool
    /\ proc \in [Pid -> Activity]
    /\ how \in [Pid -> {"exit", "segv", "signal"}]
    /\ sigs \in [Pid -> SUBSET Signal]
    /\ in_shutdown \subseteq Pid
    /\ accepting \subseteq Pid /\ rested \subseteq Pid
    /\ backlog \in [Pool -> Nat] /\ lost \in Nat
    /\ env \in [{"conn", "command", "crash", "fork"} -> Nat]

(* The children linked in the pools' lists are exactly the processes that  *)
(* exist, no child is in two lists, and both counters that decide about    *)
(* forking and about the end of a shutdown agree with the lists.           *)
ListsAgree ==
    /\ Linked = Existing
    /\ \A p, q \in Pool : p # q => children[p] \cap children[q] = {}
    /\ \A p \in Pool : running[p] = Cardinality(children[p])
    /\ total = Cardinality(Linked)

(* Neither initial creation, maintenance, an ondemand fork nor a           *)
(* replacement takes a pool over pm.max_children or the master over        *)
(* process.max.                                                            *)
WithinLimits ==
    /\ \A p \in Pool : running[p] <= MaxChildren[p]
    /\ ProcessMax > 0 => total <= ProcessMax

(* When the master exits or executes itself again, it leaves no worker     *)
(* behind: fpm_pctl_action_last is only reached without children.          *)
NoOrphan == pc \in {"exec", "exited"} => Existing = {}

(* A shutdown is never taken back or weakened: states go from reloading to *)
(* finishing to terminating only, and within a state signals go from QUIT  *)
(* to TERM to KILL.                                                        *)
StateRank == [NORMAL |-> 0, RELOADING |-> 1, FINISHING |-> 2, TERMINATING |-> 3]
SignalRank == [none |-> 0, QUIT |-> 1, TERM |-> 2, KILL |-> 3]
ShutdownEscalates ==
    [][pc # "exec" =>
          /\ StateRank[fpm_state] <= StateRank[fpm_state']
          /\ fpm_state' = fpm_state =>
                SignalRank[fpm_signal_sent] <= SignalRank[fpm_signal_sent']]_vars

(* Graceful stops, reloads and idle kills lose no accepted connection:     *)
(* SIGQUIT lets a worker finish the connection it has.                     *)
GracefulLosesNothing == lost = 0

(* As php-fpm.conf.in:193-195 says of dynamic pools, "there will be always at  *)
(* least 1 children": the youngest child is never the one the maintenance  *)
(* asks to quit, whatever its earlier victims did before SIGQUIT reached   *)
(* them.                                                                   *)
DynamicPopulated ==
    pc = "loop" /\ fpm_state = "NORMAL" =>
        \A p \in Pool : PM[p] = "dynamic" => running[p] >= 1

(* The master reaps every worker that has died.                            *)
ZombiesReaped == \A c \in Pid : proc[c] = "zombie" ~> proc[c] # "zombie"

(* SIGTERM or SIGINT ends the master, whatever its workers do.             *)
TerminationCompletes == fpm_state = "TERMINATING" ~> pc = "exited"

(* Finishing and reloading come to an end as well: a worker that does not  *)
(* react within process_control_timeout is killed.                         *)
ShutdownCompletes == fpm_state # "NORMAL" ~> pc \in {"exec", "exited"}

(* A connection to a dynamic pool is accepted in the end while the master  *)
(* runs, although the maintenance may ask the idle child that would take   *)
(* it to quit: MinSpare >= 1 has the pool refilled.                        *)
DynamicAccepts ==
    \A p \in Pool : PM[p] = "dynamic" =>
        backlog[p] > 0 ~> backlog[p] = 0 \/ fpm_state # "NORMAL"

(* Once nothing disturbs a dynamic pool it comes back into the band        *)
(* between pm.min_spare_servers and pm.max_spare_servers and stays there.  *)
SpareRestored ==
    \A p \in Pool : PM[p] = "dynamic" =>
        <>[](fpm_state # "NORMAL" \/ Cardinality(Idle(p)) \in MinSpare[p] .. MaxSpare[p])
=============================================================================
