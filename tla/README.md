# TLA+ development for the App Engine PHP interpreter

The repository is the source of the PHP 5.4 interpreter shipped with the App
Engine SDK (`src/php-src`, with vendored OpenSSL and mcrypt beside it). Most of
an interpreter is sequential; this project models the parts that are not, or
whose order of operations is hard to test: signals that interrupt the engine,
the process manager that forks and reaps workers, the shared-memory cache and
its allocator, the session files, and the collector, which scripts re-enter.

## 1. Inventory

Each line: the state a component keeps, its operations, what makes it hard, and
what makes it correct. The components in bold are modelled; the status of each,
with what is left out of it, is in `PROJECT.json`.

| Component | State | Operations | Hard behaviour | Correct when |
|---|---|---|---|---|
| **Zend signal handling** (`Zend/zend_signal.c`) | flags `active`, `depth`, `blocked`, `running`; the handlers; a pool of queue entries `phead`/`ptail`/`pavail` | `handler_defer`, `handler_unblock`, BLOCK/UNBLOCK, activate, deactivate, `zend_sigaction`; `zend_timeout` | a signal may arrive between any two instructions; a handler may leave by `longjmp` or kill the process | no handler runs in a critical section; deferred signals are handled in order, once, and none is stranded |
| **FPM process manager** (`sapi/fpm/fpm`) | control state, signal sent, timers, lists and counters of children, spawn rate, signal pipe | forking, reaping, the three process managers, commands, control timer, emergency restart; the accept loop of a worker | forks, deaths, signals and connections interleave with single-threaded handlers; children swallow signals while they start; forks fail | lists, counters and processes agree; limits hold; no orphan; shutdown only escalates and ends; no accepted connection is lost by a graceful stop |
| **APC user cache** (`ext/apc/apc_cache.c`, `php_apc.c`) | a bucket of slots, deleted list, reference counts, `busy`, the lock and its private depth | store, add, fetch, delete, clear, expunge | an allocation inside an insertion expunges the cache; readers hold entries outside the lock and may never release them | no reachable slot is free; an entry in use stays what it was; no block is lost; one slot per key |
| **APC shared memory** (`ext/apc/apc_sma.c`) | one segment with boundary tags and a free list | allocate, free | splitting and joining with both neighbours | blocks are disjoint and cover the segment; a failure means that nothing fits |
| **Session files** (`ext/session/mod_files.c`, `session.c`) | names, files, advisory locks; descriptor, last key and last size per process | open, read, write, close, destroy, gc; start, `session_id`, regenerate, write_close, end | names are removed while others wait for the lock on the file; the id changes while a file is locked; workers are killed | requests of one session are serialised; no write is lost or mixed; nobody waits with a lock in hand |
| **Zend garbage collector** (`Zend/zend_gc.c`) and **object store** (`zend_objects_API.c`) | reference counts, colours, root buffer, list of what is to be freed; the buckets of the store | decrement, buffer, mark, scan, collect, destructors, destroy, free | the buffer fills up in the middle of a decrement; destructors build, drop and collect | counts are exact; what is freed is not referred to; garbage, all of it, is freed |
| FPM scoreboard (`fpm_scoreboard.c`, `fpm_atomic.h`) | slots, per-slot stage, counters, spinlocks in shared memory | acquire, release, update, copy | a worker killed with a lock held | a slot has one owner; nobody spins for ever |
| APC file cache (`apc_main.c`) | the same table under another lock | insert, find, release, expunge | two locks taken through the allocator | no deadlock |
| Output layer (`main/output.c`) | stack of handlers with flags and buffers | start, write, flush, clean, end, discard | a handler fails, or writes from within itself | each byte reaches the SAPI once and in order, or is discarded |
| PCNTL queue (`ext/pcntl/pcntl.c`) | pending and spare entries, processing flag | signal handler, tick, dispatch | signal against dispatch; a script handler that exits | each queued signal is dispatched once and in order |
| Thread-safe resources (`zend_ts_hash.c`, `TSRM.c`) | readers count, two mutexes; resource tables | begin/end read and write, destroy, allocate, fetch | readers against writers | a writer is alone |
| Request life cycle, hash tables and memory manager, compiler and executor, streams, other SAPIs, extensions, vendored code | | | | see the notes in `PROJECT.json` and section 6 |

How they interact. The request life cycle (`main/main.c`) activates the signal
handling and arms the time limit; hash tables, the memory manager and APC
bracket their updates with BLOCK/UNBLOCK, so each of them is correct only if
the signal handling keeps handlers out of sections. FPM's master talks to
workers by signals and reads their stage from the scoreboard; a worker runs
requests, and it may be killed while it holds a session's lock. APC's cache
allocates from the shared memory, and when that fails it is called back to
expunge itself. Destructors, which the collector calls, are script code and
re-enter the collector.

## 2. Modules

| Module | What it is |
|---|---|
| `ZendSignal` | detailed model of `zend_signal.c`, its callers and its properties |
| `DeferredSignals` | abstract specification: a bounded FIFO of deferred signals |
| `MCZendSignal` | TLC instances |
| `ZendSignal_proofs` | theorems about `ZendSignal` |
| `FpmMaster` | the master's state machine, its workers and the world around them |
| `MCFpmMaster` | pool configurations, budgets and symmetry for TLC |
| `FpmMaster_proofs` | theorems about `FpmMaster`, and about the connections and the dynamic pools it serves |
| `ApcCache` | the user cache: processes, one bucket, the deleted list, the lock, blocks of memory |
| `EvictingMap` | abstract specification: a map whose entries may vanish, and values taken from it that do not change |
| `MCApcCache` | TLC instances |
| `ApcCache_proofs` | theorems about `ApcCache`, and that it implements `EvictingMap` |
| `ApcSma` | the allocator: block headers at offsets, the free list as pointers |
| `RangeAllocator` | abstract specification: disjoint ranges given out and taken back |
| `MCApcSma` | view for TLC |
| `ApcSma_proofs` | theorems about `ApcSma` |
| `Iteration` | lemmas: least counterexamples, walks along pointers, sums over finite sets |
| `SessionFiles` | processes that serve requests, the file system, locks |
| `SessionStore` | abstract specification: one owner per session, data that change as a whole |
| `MCSessionFiles` | values, symmetry, view and constraints for TLC |
| `SessionFiles_proofs` | theorems about `SessionFiles`, and that it implements `SessionStore` |
| `ZendGc` | heap, root buffer, the collector by what its phases leave, and the scripts around it |
| `ZendGcPhases` | the three phases as the traversals they are, call by call |
| `MCZendGc` | symmetry and bound for TLC |
| `ZendGc_proofs` | the inductive invariant of `ZendGc`, that each action keeps it, and what it says of counts, freed nodes and what is condemned |
| `ZendGcPhases_proofs` | that garbage can be found from the root buffer, and that the traversals find it: the invariants of the three phases |

### 2.1 ZendSignal

*Correspondence.* `active`, `depth`, `blocked`, `running`, `phead`, `ptail`,
`pavail` are the fields of `SIGG`; `next` and `signo` are the fields of a queue
entry, entries being numbers and 0 the null pointer, so stale pointers stay
visible. `hpc`, `cur`, `queue`, `caller` are the frame of `handler_defer`, `pc`
is the place of the interrupted code, `mask`/`saved` are the kernel's mask and
the one a `sigreturn` or `SIGNAL_END_CRITICAL` restores. `call` is a history
variable: the signal last passed to a handler.

*Granularity.* `handler_defer` runs with all of `Sig` masked, so what it does
between two calls of handlers is one action (`DeferHandle`, `DeferDelay`,
`DrainNext`, `DrainEnd`). `HandleNested`, the signal that finds `running` set and
is dropped, is never reached: the handler masks all signals, and
`TimeoutStaysDeliverable` and `TimeoutInv` are about the one that leaves by
`longjmp`. The macro `UNBLOCK` is not protected and is split at
its three instants (`Unblock`, `Compare`, `HandlerUnblock`); so is
`zend_signal_activate`. Between any two of them a signal may arrive.

*Handlers.* `Orig` has the handlers of `global_orig_handlers`, saved at the start;
`Installed` those that the process has when its first request begins, which may
differ (a SAPI installs its own after `zend_signal_startup`). Until then they are
what a signal runs (`DeliverOriginal`), and the first `zend_signal_register` takes
them over (`ActivateRegister`).

*How a handler ends.* It returns (`HandlerReturns`), it is `SIG_DFL` and the
process dies (`HandlerKills`), or it is `zend_timeout`, which resets `running`,
arms the timeout again and leaves by `longjmp` (`HandlerBails`). `sigsetjmp` of
`zend_try` saves no mask: what else was masked stays masked.

*Abstracted.* `siginfo` and `context`, the flags of a handler (`SA_RESETHAND`),
the loop over seven signals in `zend_signal_activate` (one action per phase),
the text of the check in `zend_signal_deactivate`, ZTS.

### 2.2 DeferredSignals

What the component promises: a section during which no handler is called, a
FIFO of bounded capacity, and that a handler which does not return may take the
waiting signals and their places with it. `ZendSignal!Promise` maps the
detached queue followed by the pending queue to `waiting`, adds the signal that
`handler_unblock` carries in its hand, and maps the length of the available list
to `free`. The run `signal_timeout` checks that every step of the pointer
structure is a step of this specification.

### 2.3 FpmMaster

*Correspondence.* `fpm_state`, `fpm_signal_sent`, `pctl_event`, `last_faults`,
`idle_spawn_rate` are the variables of `fpm_process_ctl.c` and
`fpm_children.c`; `children`, `running`, `total` the lists and counters; `make`
the frame of `fpm_children_make`; `pipe` the signal pipe. The workers are
`proc` (what each process does), `how` (its exit status), `sigs` (signals on
their way), `in_shutdown`, `accepting` and `rested` (what the scoreboard says
of it). `backlog`, `socket_event` are the listening sockets. `lost` and `env`
are ghosts.

*Granularity.* The master is single-threaded: a handler of the event loop is one
action. Where the order against other processes matters it is split: every
`fork` of `fpm_children_make` (`Fork`), every `waitpid` of `fpm_children_bury`
(`Bury`) and every pool of the maintenance (`MaintainPool`) is a step, and
workers, kernel and clients move in between. `PctlSet` contains everything
`fpm_pctl` calls: the state, the next signal, the signals sent, the timer, or
the end of the master. A reload ends in `Restart`, or, if `execvp` fails, in the
exit of the master (`RestartFails`).

*Workers.* `ChildInit` is the code before `fpm_signals_init_child` has run
(until then SIGQUIT and SIGTERM run the master's handler, which drops them:
`DeliverQuit`, `DeliverTerm`); then the accept loop `Accepting`, `Accept`,
`ReadingHeaders`, `RequestEnd`. SIGQUIT ends an idle worker, and a working one
after its request; a worker can crash at any place.

*Abstracted.* The pipe is a set of characters (two SIGCHLD characters act as
one: the handler reaps all zombies); time is nondeterministic: a timer may fire
whenever it is armed, `rested` means that `process_idle_timeout` has passed and
`FaultsAge` that a recorded fault has left its interval; `elders` keeps the order
of the children's `started` times; the idle scan of one pool is atomic, as the
scoreboard stages it reads change one at a time and only the count and the
oldest idle child are used. Left out: slow log and tracer, log reopening
(SIGUSR1), the pipes of the children's output, status page, `fcgi` keep-alive.

### 2.4 ApcCache and EvictingMap

*Correspondence.* `pool` says which pool each block of shared memory belongs to;
an entry, its slot and its pool are named by the pool's first block, so memory
that is freed and used again is seen as such. `linked` is what a walk of the
bucket reaches, `deleted` the deleted list, `refs` the `ref_count` of a value,
`busy`, `num_entries`, `lock` the fields of the header, `has_lock` the private
depth of `CACHE_SAFE_LOCK`. `pc`, `ent`, `want`, `tries`, `at`, `rest` are the
frames of `_apc_store`, `apc_sma_malloc_ex` and `apc_cache_user_insert`: `at` and
`rest` are the pointer `slot` and what it pointed to when `make_slot` began to
allocate.

*Granularity.* What is done under the lock is one action, except where an
allocation or a wipe happens in between: `InsertWalks`, the attempts and expunges
of the allocator, and `LinkSlot` are steps of their own, as are `MakeEntry`,
the reads of `busy` without the lock, and the use of a value between `Find` and
`Release`.

*Abstracted.* The build with a mutex, `apc.user_ttl` 0. One bucket is a set of
slots: its order matters only for what is behind the insertion point, which is
any subset. The slam defence and the ttl of an entry are nondeterministic.
`gc_ttl` passes for an entry on the deleted list only when each of its readers
has left by `BailOut` (the `longjmp` of a time or memory limit): that gc_ttl, an
hour by default, is longer than a fetch is an assumption of the code, and with it
`Expired` assumes away the reader whose entry is freed under it. That a store for
which no pool can be allocated leaves `APCG(current_cache)` set (`php_apc.c:593`)
is left out: an allocation that is modelled belongs to a store, which has set it. The
memory has one segment of equal blocks; a pool takes one block, and, at the places
in `Grows`, another. `torn` records that the defect of finding 2 has happened; what
follows after that is not claimed.

*EvictingMap.* To its callers the cache is a map: `Put` is the linking of a slot,
`Evict` whatever takes entries away (an expunge, a clear, a deletion, a ttl, the
insertion that replaces an entry or fails), `Take` and `Drop` are the reference
of a reader. `KeepsPromise` maps a key to the slot that a walk finds.

### 2.5 ApcSma and RangeAllocator

*Correspondence.* `size`, `prev_size`, and `fnext`/`fprev` (in `list`) are the
fields of the `block_t` at an offset; headers inside blocks that were joined keep
their last contents, as memory does. `avail` is `header->avail`. `First` and
`Last` are the two sentinels; that `Last` is one `block_t` before the end that
`avail` would suggest is the code's (`apc_sma.c:400`). A call holds the lock of
the segment, so it is one action: `AllocateWhole`, `AllocateSplit`,
`AllocateFails`, `Deallocate`. `free` and `used` are history variables. Left out:
`mprotect`, canaries, statistics, the extra fragment of `realloc`; several
segments, whose loop is in `ApcCache!CallAlloc`.

### 2.6 SessionFiles and SessionStore

*Correspondence.* `name` is the directory, `content`, `touched` and `lock` belong
to a file (inode), `fd`, `lastkey`, `st_size` are the fields of `ps_files`, `id`
and `status` those of `PS()`. Every system call is a step: `Open`, `Flock`,
`Read`, `Truncate`, `PWrite`, `Close`, the `stat` and the `unlink` of the
garbage collection and of `destroy`. Between them other processes move, files
grow old (`Age`), and a process may be killed (`Die`), which closes its files.

*Abstracted.* Data are short sequences; no subdirectories; ids are valid; `unlink`
and `flock` succeed. A new id of `session_regenerate_id` is one that nobody
has. The collection reads the clock once: a file that grows old while it runs is
not in `todo`.

*History.* `seen` is what a process has read from the file it has locked,
`committed` a file's data before a write that is under way, `spoilt` says that a
file with data was opened only to be written (finding 3), or that a write was
short: a session may then be mixed, and the properties claim nothing.

*SessionStore.* The abstract session has one owner at a time, whose writes change
it as a whole; when the owner dies in between the session may be empty; and a
session may be forgotten, by `destroy` or by the collection, which also ends the
ownership although the request that had it may still write into a file without a
name. `KeepsPromise` maps a session to the file of its name.

### 2.7 ZendGc and ZendGcPhases

*Correspondence.* A node is a zval that is an array or a reference to an object,
or an object of the store; the collector treats both kinds alike. `rc`, `col`,
`addr` are `refcount__gc` or `obj.refcount` and the two parts of `u.buffered`;
`addr` is `"list"` when the word holds `u.next`. `roots` is the buffer. `stack`
has the calls that are under way, the innermost last: decrements still to do
(`drop`), what follows the release of an object (`check`, `efree`, `gone`),
destructors (`user`, with `delref` waiting behind it), the loops of
`gc_collect_cycles` over its list (`dtors`, `destroy`), and
`gc_zval_possible_root` waiting for a collection it began (`buffer`). Marking,
scanning and collecting call no script code and are one step, as is the loop that
frees the zvals; each destructor, decrement and release is a step.

*The phases.* `Collected` says what a collection leaves: of what the roots lead to
(`Found`), a node with a count above the references from inside (`Inside`) lives,
and all that it leads to (`Live`); the rest is `Garbage`. The code finds that out
by painting and by changing counts, in the order of its root buffer. That is
`ZendGcPhases`, where each operator is one traversal and stands for its function
for zvals and its function for objects; `PhasesAgree` compares the two in every
state the collector may be called in, and for every order of the roots. The
recursion of the code is a list of calls still to be made (`todo`): a call paints
its node and puts the calls for what the node refers to on top, as the C stack
and the loops over elements do, so that a count is changed when the call that
belongs to it is made. Elements are visited in one order, which is not specified,
and roots in each. `Traverse` makes as many steps as a phase can need (each root,
and each link once, or twice when scanning), and `PhasesAgree` says that no call
is left after them: the traversals end.

*Scripts.* `NewArray`, `NewObject`, `Copy`, `Link`, `Unlink`, `Unset` and
`CollectCycles` work on what the script can reach, inside destructors too.

*Abstracted.* Children are sets, so a container holds a zval at most once; the
order of the list, and of what a container drops, is any order; the `$this` of a destructor is one count.
Left out: `gc_enabled` 0, the symbol table, objects without `get_gc`, the end of
the process.

*The return of a destructor.* `zend_objects_destroy_object` lets go of `$this` by
`zval_ptr_dtor`, which ends in `GC_ZOBJ_CHECK_POSSIBLE_ROOT`
(`zend_objects_API.c:176`): the object becomes a root unless it is purple, and with
a full buffer a collection begins there. `DestructorReturns` does both, whether the
destructor was called by a release or by a collection; the task `return` waits for
that collection, and `ReturnAfterCollect` is what `gc_zobj_possible_root` does
after it.

*Not claimed.* `spoilt` marks runs for which the collector gives no guarantee. They
are not explored further, and every invariant exempts them, so nothing is said of
what the code does afterwards. These steps set it:

- when a destructor that a collection has called returns, its condemned object is
  referred to again, or it is a root, because a collection within the destructor
  had made it black, so that the return (or a decrement before it) buffered it
  (`Revived`, finding 12);
- when a collection that was begun by a full buffer is over, at a decrement
  (`BufferAfterCollect`) or at the return of a destructor (`ReturnAfterCollect`):
  the buffer is full again, so that the node stays without a root; or the node has
  been buffered meanwhile, and gets a second root; at a decrement also, the last
  other reference to the zval was dropped (it then leaks with count 0), or its
  object is gone and the root is stale (finding 11);
- a destructor links a condemned zval elsewhere (`Link`);
- a destructor copies a reference to a condemned object that nothing counts for
  (`Copy`).

`missed` marks runs in which a collection has taken garbage to be alive
(finding 13), which `GarbageFindable` alone is about: such runs go on, and the
other properties hold in them. It is a history variable that no guard reads;
`Overlooks` is the state in which a collection sets it: a root leads to a zval
that an interrupted collection has condemned, and that zval to an object which
it does not count for, and which is neither condemned nor being destructed.

## 3. Runs

`Budget` bounds what the world around FPM does: connections, commands, crashes,
failed forks. `Pid` bounds the processes that exist at a time; identifiers are
reused. A run that expects a violation shows a disagreement between the code and
its own documentation or comments, and is listed as a finding.

| Run | Question | Bounds | States |
|---|---|---|---|
| `signal_timeout` | does the pointer structure implement the FIFO, and do handlers stay out of sections, with handlers that return, kill or bail out? | 2 signals, `QSIZE` 2, `MaxDepth` 2 | 451 256 |
| `signal_returning` | with returning handlers: is a signal ever lost or stranded, and is each one that waits handled in the end, whatever others arrive? | same, fairness | 11 432 |
| `fpm_mixed` | lists, limits, orphans, escalation, when everything goes wrong once | static pool of 1, dynamic pool of 2, `process.max` 2, 2 commands of 3 kinds, 1 crash, 1 failed fork, 3 pids | 691 436 |
| `fpm_service` | are connections lost by graceful stops, idle kills, reloads or `pm.max_requests`? does a dynamic pool run empty? | dynamic pool of 2, ondemand pool of 1, 2 connections, 1 command, 3 pids | 535 914 |
| `fpm_terminate` | liveness: reaping, accepting in a dynamic pool, spare servers, termination | dynamic pool of 2, 1 command, 1 connection, 2 pids, fairness | 11 324 |
| `fpm_stuck` | does finishing end? *(violated)* | static pool of 1 | |
| `apc_user` | is an entry in use safe, is memory conserved, do lock, depth and `busy` agree, is the cache a map with vanishing entries? | 2 processes, 2 keys, 2 values, 4 blocks, 1 leak | 244 528 |
| `apc_nested` | does the bucket survive an expunge inside an insertion? *(violated)* | same | |
| `apc_sma` | tiling, tags, list, counter; is first fit complete; is it an allocator of disjoint ranges? | 15 words between the sentinels, requests of 1, 2 and 4 words | 21 118 |
| `session_files` | are updates lost or mixed, do requests wait with a lock in hand, is a session owned by one? | 2 processes, 2 ids, 3 files, data of length 1 and 2 | 645 000 |
| `session_size` | is the file truncated when the new data are smaller? *(violated)* | 1 process, 2 ids | |
| `zend_gc` | are counts exact, does anything dangle, is garbage found and nothing else condemned, do the traversals find it in any order of the roots? | 3 zvals, 2 objects, buffer of 2, 2 nested destructors | 357 541 |

*Why the bounds are enough.* Two queue entries are the least for which `ptail`,
`phead` and `pavail` can disagree and for which the pool can be partly and wholly
used up; two signals distinguish an order; depth two distinguishes an inner from
an outer UNBLOCK. For FPM two pools are needed for `process.max` to bind and for
a pool to be empty while the master has children; two children in a dynamic pool
are the least for an idle kill (`idle > MaxSpare`) and for two victims at once;
two commands are the least that can override one another. Four blocks let one
process fill the memory while another reads, and let each of the three
allocations of a store fail; with them the insertion expunges a bucket that has
slots before and behind its place. The segment has room for five of the smallest
blocks, so that both neighbours of a block can be free, allocated, or one of
each, and requests of 4 words leave remainders that are split and that are not.
Two ids are the least for a request that changes its id, and with two processes
three files exist at once (`MCSessionFiles`); of two processes at most one is
between two ids (`OneChanges`). In the heap, three zvals and two objects make
cycles through arrays, through objects and through both, with one node outside;
a buffer of two entries is full while a third node is decremented; a destructor
inside a destructor shows the nested collection. A fourth zval is out of TLC's
reach there; what it would add is finding 13, and the theorems hold for any number.

`CHECK_DEADLOCK FALSE` is set where a stop is legal: a killed process, a crashed
interpreter, an exited master, or a world that has used its budget. In the runs
of APC, the session files and the collector a process can always go on, and
deadlock is checked.

Every property has a mutant in `PROJECT.json`: a plausible bug, defined next to
the operator it replaces and marked `Fault:`, under which TLC finds the property
violated in the same run.

### Fairness

*ZendSignal.* `WF` of `HandlerStep`: a handler runs to its end, with signals
masked. `SF` of `CriticalStep` and, per depth, of `Unblock`: the interrupted code
is interrupted again and again but goes on, and sections are straight-line code.
`SF` of `Deliver(s)`: the kernel delivers an unmasked pending signal.

*FpmMaster.* `WF` for what the master's own control flow does next. `SF` for
event sources (`GotSigchld`, `GotCommand`, `PctlTimeout`,
`MaintenanceHeartbeat`, `OnSocketAccept`): one turn of `fpm_event_loop` looks at
every descriptor and every timer, so a source that is ready again and again is
served. `WF` per worker for its own steps and for the delivery of its signals; a
request ends. No fairness for crashes, clients, administrators, failed forks or
`FaultsAge`.

## 4. Findings

Kept as runs, listed in `PROJECT.json`:

1. `fpm_events.c:434`: the control timer re-armed by its own callback is deleted,
   so finishing and reloading never reach SIGKILL and may hang (`fpm_stuck`).
2. `apc_cache.c:616`: an insertion whose `make_slot` cannot be allocated expunges
   the cache under its own lock, frees the slots it remembers, and then links them
   (`apc_nested`).
3. `mod_files.c:395`: whether the file is truncated is decided with the size of the
   file that was read last, which need not be the one that is written
   (`session_size`).

Seen with TLC while modelling; each model contains the behaviour:

4. `zend_signal.c:141`: `handler_unblock` reads `phead->next` although a signal
   between the comparison and the critical part may have drained the queue: the
   action `HandlerUnblockOnNULL` is reachable.
5. `zend_signal.c:104`: a signal that finds no entry is forgotten, but `blocked`
   stays set; with the pool emptied by timeouts, UNBLOCK dereferences NULL.
6. `main.c:1727`: `php_request_shutdown` never calls `zend_signal_deactivate`.
7. `fpm_process_ctl.c:524`: "if there is at least on idle child, it will handle the
   connection, stop here". But the idle child of an ondemand pool may have been sent
   SIGQUIT by the maintenance; it exits, is not replaced (`idle_kill`), and the
   edge-triggered event (`fpm_children.c:447`) has been used up: the connection
   waits until another one comes. With one ondemand pool of one worker, two
   connections and the fairness below, TLC finds the connection waiting for ever.
   `DynamicAccepts` is about dynamic pools only, whose maintenance forks again; the
   hazard has no property.
8. `fpm_children.c:414`: a static pool is not refilled after a failed fork.
9. `fpm_children.c:272`: the zeros in `last_faults` are times of the monotonic
   clock, so soon after boot one crash is enough for the emergency restart.
10. `mod_files.c:241`: the comment says "last access", the code compares
    `st_mtime`: a session whose requests write no byte (an empty one) expires
    however often it is used.
11. `zend_gc.c:169` and `:227`: after a collection begun in the middle of a
    decrement a node may be left without a root, leak with count 0, or a freed
    object be made a root (`spoilt` in `ZendGc`).
12. `zend_gc.c:648`: a condemned object is made "PURPLE instead of BLACK to prevent
    buffering in nested gc calls", but a nested collection that reaches it from
    another root while its destructor runs finds it alive and makes it black. The
    next decrement, at the latest that of `$this` when the destructor returns, makes
    it a root, in the end one without references, and it can be condemned again,
    without its zvals, while the outer list still waits to destroy it; the second
    list then frees properties that the first still uses. The inductive invariant
    holds only with the case in `spoilt` (`Revived`).
13. `zend_gc.c:649` and `:505`: a condemned zval that waits in the list of a
    collection has given up its count of the object it refers to
    (`zval_collect_white` leaves that count to the object's own end), and has the
    list's reference. If a destructor of that list calls `gc_collect_cycles`, and a
    root leads to the zval, the scan finds the zval alive, and with it the object;
    if the object has become a garbage cycle of its own by then, and was a root, it
    is made black and leaves the buffer, and nothing will look at it again before
    the end of the request. With zvals `a`, `y`, `w`, `t` and objects `C`, `X`: `a`
    refers to `C`, `y` to `X`; `C` has `a` and `y` as properties; `w` is a variable
    that refers to `X` and a property of `X`; `a` and `y` are unset and the garbage
    is collected; the destructor of `C` copies a reference to `X` and drops it,
    makes `X` lead to `C` for the time of a collection, and drops `w` and
    collects. It takes four zvals, so `zend_gc` does not meet it (`missed` stays
    FALSE there); the search for an inductive invariant did.

## 5. Proofs

TLAPS proves, for every value of the constants that satisfies the named
assumptions (`QSIZEAssumption`, `OrigAssumption`, ... in `ZendSignal`;
`PoolsAssumption`, `BudgetAssumption`, `PidAssumption` in `FpmMaster`, which state
what `fpm_conf_process_all_pools` accepts; `SizesAssumption` in `ApcSma`: the
segment has room for its headers, and headers are not empty; `NullAssumption`,
`GrowsAssumption` and `FiniteAssumption` in `ApcCache`: processes and blocks are
finitely many; `NoneAssumption` and `ValueAssumption` in `SessionFiles`: data are
sequences; `DisjointAssumption`, `FiniteAssumption` and `MaxRootsAssumption` in
`ZendGc`: zvals are not objects, there are finitely many of both, and the buffer
has room for a root):

| Theorem | Argument |
|---|---|
| `ZendSignal_proofs!TypeCorrect` | `TypeOK` is inductive |
| `ZendSignal_proofs!NoHandlerInSection` | needs `SectionInv`: the drain runs only at depth 0, since the handler masks every signal and the interrupted code, which alone changes `depth`, stands still |
| `ZendSignal_proofs!NoSignalStranded` | for builds without the time limit: `StrandInv` relates `blocked`, `phead` and the three instants of UNBLOCK; `NothingStranded` alone says nothing about the inside of a section. It contains `NotNested`: no signal finds a handler running |
| `ZendSignal_proofs!TimeoutStays` | `TimeoutInv` says what the mask will be: inside a handler it is about `saved`, outside about `mask`; `running` is 1 only in the drain loop, and a handler that leaves by longjmp resets it |
| `ZendSignal_proofs!PoolCorrect` | the inductive invariant is `Lists(P, D, A)` for some three sequences of entries: the pointers from `phead`, `queue` and `pavail` form them (`Forms`), they are apart, and `ptail` is the last of the first. It says what the pointers are without walking along them; `ListReads` shows, by induction along the list, that the walk of `List` finds the same. One lemma per change of the pool: `ListsEnqueue`, `ListsDetach`, `ListsDrain`, `ListsPop` |
| `ZendSignal_proofs!NoneIsForgotten` | without the time limit: `CoverInv`, the three lists together have every entry until the process dies. It is what makes `blocked` true when a signal finds no entry: then all entries wait (`FullQueue`). Needs `StrandInv` |
| `ZendSignal_proofs!KeepsPromise` | the refinement of `DeferredSignals`, from `PoolInv`, `SectionInv` and `ControlInv`: one lemma per step that writes the pool (`MovesHandle`, `MovesDelay`, `MovesDrain`, `MovesUnblock`) and one for the others; `SignalsTake`, `SignalsPut` and `InHand` are about the signals of a list |
| `FpmMaster_proofs!TypeCorrect` | `TypeOK` is inductive |
| `FpmMaster_proofs!ListsAlwaysAgree`, `!LimitsHold`, `!MasterLeavesNoOrphan` | one inductive invariant `SInv`: lists and counters agree, `MakeBounded` (the bound a running `fpm_children_make` computed on entry does not exceed `pm.max_children`; without it the loop's guard says nothing), `WithinLimits`, `NoOrphan`, `NoStraySignal` (a dead process has no signal pending). `ForkStep`, `BuryStep`, `WorkerStep` treat the steps that change the lists; finite-cardinality facts come from `FiniteSetTheorems` |
| `FpmMaster_proofs!ShutdownOnlyEscalates` | action property, from `OverridesRises`, `NextSignalRises` and `BuryControl` |
| `FpmMaster_proofs!GracefulStopsLoseNothing` | under `Graceful` (no crash, no failed fork, no time limit, no SIGTERM: each of them loses connections by design): `OnlyQuit`, no signal but SIGQUIT is ever pending, so that every worker ends where it has no connection |
| `FpmMaster_proofs!DynamicAlwaysPopulated` | under `ForksSucceed` (no failed fork, `process.max` off), with crashes, commands and time limits: `DInv`, each dynamic pool is settled (its youngest child has not been asked to quit), being refilled, or not yet created. The maintenance asks only when more than `pm.max_spare_servers` are idle and picks the oldest of them (`MaintenanceSettles`), and the death of a child nobody asked to quit forks another (`BurySettles`) |
| `ApcSma_proofs!AlwaysWellFormed` | `IInv` is `TypeOK`, `Tiled`, `Tagged`, `ListConsistent` and that the sentinel at the end has size 0; none of them is inductive alone: joining relies on the tags, the tags on the tiling, and the change of the list on a free block's tag being true. `UnlinkLinked`, `PushLinked`, `ReplaceLinked` are about any list, `SplitTiles` and `JoinTiles` about any tiling; `Neighbours` turns what the tags say into free neighbours |
| `ApcSma_proofs!AlwaysCounts`, `!AlwaysFinds` | the second invariant `CInv`: the free blocks are one chain from the first sentinel (`Chained`; that each block's neighbours agree leaves room for a separate ring) and `avail` is their sum. The sum is a recursive function over a finite set; `Iteration!SumChanges` says what it becomes when elements go and come, `WalkIn` what a walk along the chain reaches |
| `ApcCache_proofs!TypeCorrect`, `!LocksAgree` | `TypeOK` with `LInv`: the private depth is what the place of the process says (`Depth`: an insertion between its walk and the end, a clear, and an expunge inside or alone), only the owner of the lock is at such a place, and a process has a pool or none as its place says. `QuietLock` and `OwnLock` are the two kinds of steps |
| `ApcCache_proofs!ChainStaysIntact`, `!InUseStaysIntact`, `!MemoryIsConserved` | one inductive invariant `MInv`, which holds until the bucket is torn: `Memory` (what is linked or deleted is live, complete, counts its readers, and is apart from what is being built) and, per process, `Private` (its pool is its own; what it reads is still in the cache; the place that its walk found is still there unless its own expunge has emptied the bucket). The last is why the lock is needed, and where the defect of finding 2 shows. `FreesStep` is about every step that frees, `MakerStep` about every step of a store, `ReaderStep` about readers |
| `ApcCache_proofs!Implements` | the refinement of `EvictingMap`, from the same invariant: a step either puts the key of the slot it links (`LinkPuts`), or shrinks the bucket (`ShrinksEvicts`), or is a reader's (`ReadsTake`), whose value is the one it found |
| `SessionFiles_proofs!TypeCorrect`, `!NobodyHoldsAndWaits`, `!NoLostUpdate`, `!NoMixture` | one inductive invariant `IInv`: `Locking` (a process that is past `flock` has the lock of the file its descriptor is for, and no other; it has read only what it has locked), `Sized` (what a request knows of the length of its file is right, unless `spoilt`, so that the write covers what the file has) and `WholeContents`, which needs `Sized` at the write |
| `SessionFiles_proofs!Implements` | the refinement of `SessionStore` needs `PInv` as well: no two ids name one file (`NamesApart`), a file that nobody can reach is empty (`FreshEmpty`), and a file has what was committed or, truncated, nothing (`Pending`) |
| `ApcSma_proofs!Implements` | the refinement of `RangeAllocator`, from the same invariant: the ranges of allocated blocks change only by the one that is given out or taken back |
| `ZendGc_proofs!TypeCorrect`, `!NeverDangles`, `!AlwaysExact` | one inductive invariant `IInv`: `TypeOK` and, unless `spoilt`, `Good`, see below |
| `ZendGcPhases_proofs!AlwaysFindable`, `!GarbageFound` | `FInv`, see below: `IInv` and, unless `spoilt`, `Sound`, which is kept only by states that are `Good` as well. At rest every node that cannot be reached is astray, and so are its referrers; they are a set that `Findable` says is empty (`SoundFinds`) |
| `ZendGc_proofs!CollectionsRight` | from `Good`: by `Exact`, what has more references than come from inside (`Outside`) is kept by a variable, a task or a counted link from elsewhere, and such a node has one (`OutsideKept`); so what the scan finds alive is what `Kept` leads to (`LiveKept`). What is condemned is in no other list and referred to by nothing but garbage (`GarbageIsolated`) |
| `ZendGcPhases_proofs!RootsPurple`, `!TraversalsAgree` | `PurpleInv`: outside of a collection the roots are purple, on which `gc_mark_roots` relies when it drops a root that is not. From it, `Good` and an invariant for each of the three traversals, see below (`PhasesRight`, for any heap that is `Fit`) |

*The invariant of the collector.* `Good` is a predicate of a heap, the variables
and a stack, so that the lemmas can follow an action through the states between
its parts. It consists of

- `Kinds` and `Rooted`: what a node can be; the buffer has the arrays and objects
  that say they are in it, and no object without references;
- `Exact`: every count is the number of counted links, variables and tasks that
  hold the node. It needs all that follows, since a collection leaves objects
  without the counts of their condemned zvals;
- `Lists` and `Apart`: the lists of the collections under way are disjoint, and a
  condemned zval is referred to by its own list, by what waits for the same end,
  or by the destructor the list has called (`Doomed`), never by a variable;
- `Waits`: an object without references waits for the newest list that leads to
  it, and that list is going to call its destructor or has called it (`Owner`);
- `Calls`: a destructor runs on behalf of a release or of a list, and
  what `free_storage` is about to free has nothing left but that;
- `Dying`: a zval that is about to be freed is out of reach.

`PopKeeps`, `PushKeeps` and `HeapKeeps` say which changes of stack and heap leave
`Shape` (the last four) alone. `GarbageIsolated` and `CollectShape` are about a
collection that begins in the middle of others, `ReachLeast` and `ReachClosed`
about what is reached in as many steps as there are nodes.

*The invariant of findability.* `GarbageFindable` speaks of the moments without
work under way, and of what is reached; in the middle of a decrement, a
destructor or a list neither is enough. `Sound` says

- `Findable`: a node is astray if it has references but no variable or task holds
  it, and if neither the buffer nor a task knows of it; no set of nodes that are
  all astray has all its (counted) referrers within itself, but the empty set.
  That is the property, for every set the script could have lost;
- `Idle`: a zval without references, or emptied, is about to be freed;
- `PurpleNoted`: a purple node is a root, or about to be one (by a decrement or by
  the return of a destructor), or a condemned object. It is needed because `gc_zval_possible_root` does nothing for a
  node that is purple already;
- `Checked`: behind the release of an object waits the check of its zval, which
  makes the object a root if it lives on (`zend_objects_store_del_ref`).

A step keeps `Findable` when whatever is astray after it was astray before, with
no fewer referrers (`Carries`); this is so for all steps but a collection. That
empties the buffer, and is treated by `CollectFindable`: take a
set that is astray afterwards, with what was condemned. What it has beyond
`Found` was astray before, so there is nothing of that; inside `Found` nothing
outside the set counts for it, so the scan can have found none of it alive,
unless it came from a condemned zval, which is what `missed` says; and what is
condemned is not astray. A node that a step has in hand is left out of account
(`X`) until the step has pushed its task. The object whose destructor is returning
is known by the task `return` (`Leaving`) while the collection runs.

*The invariants of the phases.* A traversal is a function on heaps, so its
invariants are predicates of the heap `h` that the collection began with and of
the heap `g` that it has come to. `Calm` is part of each: nothing but counts,
colours and the buffer differs, and no call is due twice. Beyond that

- `Marking`: a count is that of `h` less the references from grey nodes whose
  calls have been made (`Taken`); what a grey node refers to is grey or its call
  is due, and so is a root; what is grey can be reached from the roots that have
  been taken and have stayed in the buffer. So at the end all of `Found` is grey
  and without the references from `Inside`, although roots have left;
- `Scanning`: a count is what marking left and the references from black nodes
  whose calls have been made (`Given`); what a black node refers to is black or its
  call is due, what a white one refers to is not grey or its call is due; a white
  node, which may become black later, had no reference from outside, and nothing
  but live nodes becomes black. So at the end `Live` is black, with all counts of
  references from it, and `Garbage` is white;
- `Collecting`: garbage that has been visited (`Seen`) is listed if it is a zval
  and purple if it is an object; zvals have back the references that have been
  followed to them (`Returned`), objects none. A white node that is still a root
  is passed over until its own turn, as its `addr` is not null yet.

That each ends follows from measures: the calls that are due, and the links of
nodes that are not grey yet (`ToMark`), of found nodes that are not black and once
more of those that are grey (`ToScan`), of garbage not yet visited (`ToCollect`).
Each call lessens them. `Traverse`
counts steps, so what is proved is that the measure is 0 after as many
(`TraverseEnds`, with `Iteration!UpTo`). A call with the reference it belongs to
is a triple, so that the counts are cardinalities of sets of links.

Sums, walks and lists are recursive functions on naturals or on finite sets. What
is proved of them goes by the least counterexample: `Iteration!Least` and `!UpTo`
take a set in place of a predicate, as the library's induction theorems cannot
be instantiated here.

Only model-checked: the liveness properties and everything else under fairness
(temporal logic with `ENABLED` is out of the prover's reach); and, expected to
fail, `BucketNeverTorn` and the size of a session file. Every invariant that a
passing run checks is proved.

## 6. Not modelled

Modelled, but excluded by no property (the hazards with a note in `PROJECT.json`):
an ondemand pool that loses the race of finding 7; the zeros in `last_faults`
(finding 9); the slots that a failed `make_slot` loses (`torn`: after it only
`BucketNeverTorn` is claimed, and that is violated); a session that is destroyed,
expires or is emptied by a death under a request (`SessionStore` permits it); and
the steps that set `spoilt` in `ZendGc`. Assumed away: `gc_ttl` running out under a
live reader.

* *FPM scoreboard.* `FpmMaster` has the stage the idle test reads. The spinlocks
  (`fpm_scoreboard.c:87`) are a hazard without a property: a worker killed between
  lock and unlock leaves the lock taken, and nothing in the code would release it.
* *APC file cache* shares `apc_cache.c` with the user cache; its own part copies op
  arrays. The order of its lock and the user cache's is a hazard without a property.
* *Output layer, PCNTL queue, thread-safe resources*: each would be a module of
  its own. The first is sequential, and its hard case is a handler that fails; the
  second has the shape of `ZendSignal` with a smaller protocol; the third exists in
  ZTS builds only, and App Engine's is not one.
* *Hash tables, memory manager, life cycle, streams, extensions*: sequential code
  with tests of its own, or input and output.
* *Compiler and executor*: the semantics of a language; TLC could check toy
  programs only. The scanner, the parser and the VM are generated.
* *Vendored libraries*: not the interpreter's own logic.
