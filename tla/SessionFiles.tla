----------------------------- MODULE SessionFiles -----------------------------
(***************************************************************************)
(* Sessions kept in files (ext/session/mod_files.c) and the requests that  *)
(* use them (ext/session/session.c).  A request locks the file of its      *)
(* session from session_start to the write at its end.  The lock belongs   *)
(* to the file (the inode), not to its name, and destroying a session, or  *)
(* collecting an old one, removes the name while others may wait for the   *)
(* lock.  A request may also change its session id in between.             *)
(*                                                                         *)
(* One process serves one request after the other; pc = "run" with no id   *)
(* is the time between two.  The directory has no subdirectories           *)
(* (dirdepth 0).  Data are sequences; only their lengths and whether two   *)
(* were mixed matter.                                                      *)
(***************************************************************************)
EXTENDS Integers, Sequences

CONSTANTS
    Proc,       \* processes that serve requests
    Id,         \* session ids
    Inode,      \* files
    Value,      \* the encoded $_SESSION that a request may write
    None        \* no process, no id, no file, no data

ASSUME NoneAssumption == None \notin Proc \cup Id \cup Inode \cup Value
ASSUME ValueAssumption == \A v \in Value : v \in Seq(Nat)

VARIABLES
    \* the file system
    name,       \* id -> the file sess_<id>, or None
    content,    \* file -> its data
    touched,    \* file -> "written" within gc_maxlifetime, or "stale"
    lock,       \* file -> the process that holds its flock
    \* each process
    pc,
    status,     \* PS(session_status)
    id,         \* PS(id)
    fd,         \* data->fd, the file it refers to
    lastkey,    \* data->lastkey
    st_size,    \* data->st_size
    goal,       \* what ps_files_open was called for, "read" or "write"
    after,      \* what follows: "run" or "end" of the request, "regen" of the id
    arg,        \* the id that gc is about to unlink, or the new id
    todo,       \* the names that gc has still to look at
    val,        \* the data to be written
    \* history
    seen,       \* what the process has read from the file it has locked
    committed,  \* file -> its data before a write that is under way
    spoilt      \* a file with data was opened only to be written, or a write was short

files == <<name, content, touched, lock>>
local == <<pc, status, id, fd, lastkey, st_size, goal, after, arg, todo, val, seen>>
vars == <<files, local, committed, spoilt>>

Init ==
    /\ name = [i \in Id |-> None] /\ content = [n \in Inode |-> <<>>]
    /\ touched = [n \in Inode |-> "stale"] /\ lock = [n \in Inode |-> None]
    /\ pc = [p \in Proc |-> "run"] /\ status = [p \in Proc |-> "none"]
    /\ id = [p \in Proc |-> None] /\ fd = [p \in Proc |-> None]
    /\ lastkey = [p \in Proc |-> None] /\ st_size = [p \in Proc |-> 0]
    /\ goal = [p \in Proc |-> "read"] /\ after = [p \in Proc |-> "run"]
    /\ arg = [p \in Proc |-> None] /\ todo = [p \in Proc |-> {}]
    /\ val = [p \in Proc |-> None] /\ seen = [p \in Proc |-> None]
    /\ committed = [n \in Inode |-> <<>>] /\ spoilt = FALSE

-----------------------------------------------------------------------------
Goto(p, l) == pc' = [pc EXCEPT ![p] = l]
Named(n) == \E i \in Id : name[i] = n
Opened(n) == \E p \in Proc : fd[p] = n

\* The system frees a file without a name that nobody has open.
Reap ==
    LET Kept(n) == Named(n)' \/ Opened(n)'
    IN  /\ content' = [n \in Inode |-> IF Kept(n) THEN content[n] ELSE <<>>]
        /\ committed' = [n \in Inode |-> IF Kept(n) THEN committed[n] ELSE <<>>]
        /\ touched' = [n \in Inode |-> IF Kept(n) THEN touched[n] ELSE "stale"]

\* ps_files_close: to close the file gives up its lock.
CloseFile(p) ==
    /\ fd' = [fd EXCEPT ![p] = None]
    /\ lock' = [n \in Inode |-> IF lock[n] = p THEN None ELSE lock[n]]
    /\ seen' = [seen EXCEPT ![p] = None]

Unlink(i) == name' = [name EXCEPT ![i] = None]

\* A session id is random: the new one is nobody's.
Unused(i) == name[i] = None /\ \A p \in Proc : id[p] # i /\ arg[p] # i

-----------------------------------------------------------------------------
(***************************************************************************)
(* php_session_start.  The id is the one of an earlier session of the same *)
(* request, that of a cookie, or a new one.                                *)
(***************************************************************************)
Start(p, i) ==
    /\ pc[p] = "run" /\ status[p] = "none" /\ id[p] \in {None, i}
    /\ id' = [id EXCEPT ![p] = i]
    /\ Goto(p, "open") /\ goal' = [goal EXCEPT ![p] = "read"]
    /\ UNCHANGED <<files, status, fd, lastkey, st_size, after, arg, todo, val, seen,
                   committed, spoilt>>

(***************************************************************************)
(* ps_files_open: the file that is open is used if its key is the same,    *)
(* else it is closed and the other one opened, or created, and locked.     *)
(***************************************************************************)
KeepOpen(p) ==
    /\ pc[p] = "open" /\ fd[p] # None /\ lastkey[p] = id[p]
    /\ Goto(p, goal[p])
    /\ UNCHANGED <<files, status, id, fd, lastkey, st_size, goal, after, arg, todo, val,
                   seen, committed, spoilt>>

\* Fault: the descriptor of the other file is overwritten, not closed.
LoseOther(p) ==
    /\ pc[p] = "open" /\ fd[p] # None /\ lastkey[p] # id[p]
    /\ fd' = [fd EXCEPT ![p] = None] /\ seen' = [seen EXCEPT ![p] = None]
    /\ lastkey' = [lastkey EXCEPT ![p] = None]
    /\ UNCHANGED <<files, pc, status, id, st_size, goal, after, arg, todo, val, committed, spoilt>>

CloseOther(p) ==
    /\ pc[p] = "open" /\ fd[p] # None /\ lastkey[p] # id[p]
    /\ CloseFile(p) /\ UNCHANGED name /\ Reap
    /\ lastkey' = [lastkey EXCEPT ![p] = None]
    /\ UNCHANGED <<pc, status, id, st_size, goal, after, arg, todo, val, spoilt>>

Open(p, n) ==
    /\ pc[p] = "open" /\ fd[p] = None
    /\ \/ name[id[p]] = n /\ UNCHANGED <<name, touched>>
       \/ /\ name[id[p]] = None /\ ~Named(n) /\ ~Opened(n)     \* O_CREAT
          /\ name' = [name EXCEPT ![id[p]] = n]
          /\ touched' = [touched EXCEPT ![n] = "written"]
    /\ fd' = [fd EXCEPT ![p] = n] /\ lastkey' = [lastkey EXCEPT ![p] = id[p]]
    /\ Goto(p, "flock")
    /\ UNCHANGED <<content, lock, status, id, st_size, goal, after, arg, todo, val, seen,
                   committed, spoilt>>

\* Faults: the wait is forgotten; LOCK_NB is used and its failure ignored.
FlockSteals(p) ==
    /\ pc[p] = "flock"
    /\ lock' = [lock EXCEPT ![fd[p]] = p] /\ Goto(p, goal[p])
    /\ UNCHANGED <<name, content, touched, status, id, fd, lastkey, st_size, goal, after,
                   arg, todo, val, seen, committed, spoilt>>
FlockDoesNotWait(p) ==
    /\ pc[p] = "flock"
    /\ lock' = [lock EXCEPT ![fd[p]] = IF @ = None THEN p ELSE @] /\ Goto(p, goal[p])
    /\ UNCHANGED <<name, content, touched, status, id, fd, lastkey, st_size, goal, after,
                   arg, todo, val, seen, committed, spoilt>>

Flock(p) ==
    /\ pc[p] = "flock" /\ lock[fd[p]] = None
    /\ lock' = [lock EXCEPT ![fd[p]] = p]
    /\ spoilt' = (spoilt \/ (goal[p] = "write" /\ content[fd[p]] # <<>>))
    /\ Goto(p, goal[p])
    /\ UNCHANGED <<name, content, touched, status, id, fd, lastkey, st_size, goal, after,
                   arg, todo, val, seen, committed>>

(***************************************************************************)
(* PS_READ, after which the session is active, whether it could be read or *)
(* not, and now and then the old sessions are collected: those that have   *)
(* not been modified within gc_maxlifetime before that moment.             *)
(***************************************************************************)
Looks(p, rest) ==
    /\ todo' = [todo EXCEPT ![p] = rest]
    /\ Goto(p, IF rest = {} THEN "run" ELSE "gc")

SessionActive(p) ==
    /\ status' = [status EXCEPT ![p] = "active"]
    /\ \/ Looks(p, {})
       \/ Looks(p, {i \in Id : name[i] # None /\ touched[name[i]] # "written"})

\* open(2) fails: a read gives an empty session, a write gives up.
OpenFails(p) ==
    /\ pc[p] = "open" /\ fd[p] = None
    /\ lastkey' = [lastkey EXCEPT ![p] = id[p]]
    /\ IF goal[p] = "read" THEN SessionActive(p)
       ELSE Goto(p, "close") /\ UNCHANGED <<status, todo>>
    /\ UNCHANGED <<files, id, fd, st_size, goal, after, arg, val, seen, committed, spoilt>>

\* A pread that fails still leaves st_size, and the session starts empty.
Read(p) ==
    /\ pc[p] = "read"
    /\ st_size' = [st_size EXCEPT ![p] = Len(content[fd[p]])]
    /\ seen' = [seen EXCEPT ![p] = content[fd[p]]]
    /\ SessionActive(p)
    /\ UNCHANGED <<files, id, fd, lastkey, goal, after, arg, val, committed, spoilt>>

-----------------------------------------------------------------------------
(***************************************************************************)
(* ps_files_cleanup_dir: each name is looked at by stat and unlinked by    *)
(* another call when its file has still not been modified.                 *)
(***************************************************************************)
GcLooks(p, i) ==
    /\ pc[p] = "gc" /\ i \in todo[p]
    /\ IF name[i] # None /\ touched[name[i]] # "written"
       THEN /\ Goto(p, "gcunlink") /\ arg' = [arg EXCEPT ![p] = i]
            /\ todo' = [todo EXCEPT ![p] = @ \ {i}]
       ELSE Looks(p, todo[p] \ {i}) /\ UNCHANGED arg
    /\ UNCHANGED <<files, status, id, fd, lastkey, st_size, goal, after, val, seen,
                   committed, spoilt>>

GcUnlinks(p) ==
    /\ pc[p] = "gcunlink"
    /\ Unlink(arg[p]) /\ arg' = [arg EXCEPT ![p] = None]
    /\ Looks(p, todo[p])
    /\ UNCHANGED <<lock, fd>> /\ Reap
    /\ UNCHANGED <<status, id, lastkey, st_size, goal, after, val, seen, spoilt>>

-----------------------------------------------------------------------------
\* session_id("...") replaces the id and leaves the open file alone.
ChangeId(p, i) ==
    /\ pc[p] = "run" /\ id[p] # None /\ id[p] # i
    /\ id' = [id EXCEPT ![p] = i]
    /\ UNCHANGED <<files, pc, status, fd, lastkey, st_size, goal, after, arg, todo, val,
                   seen, committed, spoilt>>

(***************************************************************************)
(* PS_DESTROY closes the file, and so unlocks it, before it removes the    *)
(* name, which may be that of another id by now; without an open file it   *)
(* removes nothing.  Then session_regenerate_id(true) takes the new id,    *)
(* and session_destroy() does s_close and php_rinit_session_globals.       *)
(***************************************************************************)
Destroyed(p, a, i) ==
    /\ id' = [id EXCEPT ![p] = i]
    /\ Goto(p, "run")
    /\ IF a = "regen" THEN UNCHANGED <<status, lastkey, st_size>>
       ELSE /\ status' = [status EXCEPT ![p] = "none"]
            /\ lastkey' = [lastkey EXCEPT ![p] = None]
            /\ st_size' = [st_size EXCEPT ![p] = 0]

DestroyWith(p, a, i) ==
    /\ pc[p] = "run" /\ status[p] = "active"
    /\ CloseFile(p) /\ UNCHANGED name /\ Reap
    /\ IF fd[p] # None
       THEN /\ Goto(p, "unlink")
            /\ after' = [after EXCEPT ![p] = a] /\ arg' = [arg EXCEPT ![p] = i]
            /\ UNCHANGED <<status, id, lastkey, st_size>>
       ELSE Destroyed(p, a, i) /\ UNCHANGED <<after, arg>>
    /\ UNCHANGED <<goal, todo, val, spoilt>>

Destroy(p) == DestroyWith(p, "end", None)

DestroyUnlinks(p) ==
    /\ pc[p] = "unlink"
    /\ Unlink(id[p]) /\ UNCHANGED <<lock, fd>> /\ Reap
    /\ Destroyed(p, after[p], arg[p]) /\ arg' = [arg EXCEPT ![p] = None]
    /\ UNCHANGED <<goal, after, todo, val, seen, spoilt>>

\* session_regenerate_id(), without and with the deletion of the old session.
Regenerate(p, i) ==
    /\ pc[p] = "run" /\ status[p] = "active" /\ Unused(i)
    /\ id' = [id EXCEPT ![p] = i]
    /\ UNCHANGED <<files, pc, status, fd, lastkey, st_size, goal, after, arg, todo, val,
                   seen, committed, spoilt>>

RegenerateAndDelete(p, i) == Unused(i) /\ DestroyWith(p, "regen", i)

-----------------------------------------------------------------------------
(***************************************************************************)
(* php_session_flush, by session_write_close() or at the end of the        *)
(* request: the data are written and the file is closed.  Without a        *)
(* $_SESSION nothing is written.                                           *)
(***************************************************************************)
Flush(p, a) ==
    /\ pc[p] = "run" /\ status[p] = "active" /\ a \in {"run", "end"}
    /\ status' = [status EXCEPT ![p] = "none"] /\ after' = [after EXCEPT ![p] = a]
    /\ \/ Goto(p, "open") /\ goal' = [goal EXCEPT ![p] = "write"]
       \/ Goto(p, "close") /\ UNCHANGED goal
    /\ UNCHANGED <<files, id, fd, lastkey, st_size, arg, todo, val, seen, committed, spoilt>>

\* Fault: the file is never truncated.
TruncateNever(p, v) ==
    /\ pc[p] = "write"
    /\ val' = [val EXCEPT ![p] = v] /\ Goto(p, "pwrite") /\ seen' = [seen EXCEPT ![p] = None]
    /\ UNCHANGED <<files, status, id, fd, lastkey, st_size, goal, after, arg, todo,
                   committed, spoilt>>

\* PS_WRITE truncates a file that was longer when it was read.
Truncate(p, v) ==
    /\ pc[p] = "write"
    /\ val' = [val EXCEPT ![p] = v]
    /\ IF Len(v) < st_size[p]
       THEN /\ content' = [content EXCEPT ![fd[p]] = <<>>]
            /\ touched' = [touched EXCEPT ![fd[p]] = "written"]
       ELSE UNCHANGED <<content, touched>>
    /\ Goto(p, "pwrite") /\ seen' = [seen EXCEPT ![p] = None]
    /\ UNCHANGED <<name, lock, status, id, fd, lastkey, st_size, goal, after, arg, todo,
                   committed, spoilt>>

\* The data at the start of the file are overwritten; a write may be short.
MaxLength == CHOOSE k \in {Len(v) : v \in Value} : \A v \in Value : Len(v) <= k
Overwrite(v, c) == v \o SubSeq(c, Len(v) + 1, Len(c))
PWrite(p, k) ==
    /\ pc[p] = "pwrite" /\ k <= Len(val[p])
    /\ content' = [content EXCEPT ![fd[p]] = Overwrite(SubSeq(val[p], 1, k), @)]
    /\ committed' = [committed EXCEPT ![fd[p]] = content'[fd[p]]]
    /\ touched' = [touched EXCEPT ![fd[p]] = IF k > 0 THEN "written" ELSE @]
    /\ spoilt' = (spoilt \/ k < Len(val[p]))
    /\ Goto(p, "close") /\ val' = [val EXCEPT ![p] = None]
    /\ UNCHANGED <<name, lock, status, id, fd, lastkey, st_size, goal, after, arg, todo, seen>>

\* PS_CLOSE, which frees data, and at the end of the request its id.
Close(p) ==
    /\ pc[p] = "close"
    /\ CloseFile(p) /\ UNCHANGED name /\ Reap
    /\ lastkey' = [lastkey EXCEPT ![p] = None] /\ st_size' = [st_size EXCEPT ![p] = 0]
    /\ id' = IF after[p] = "end" THEN [id EXCEPT ![p] = None] ELSE id
    /\ Goto(p, "run")
    /\ UNCHANGED <<status, goal, after, arg, todo, val, spoilt>>

\* The end of a request that has no active session any more.
EndRequest(p) ==
    /\ pc[p] = "run" /\ status[p] = "none" /\ id[p] # None
    /\ id' = [id EXCEPT ![p] = None]
    /\ UNCHANGED <<files, pc, status, fd, lastkey, st_size, goal, after, arg, todo, val,
                   seen, committed, spoilt>>

-----------------------------------------------------------------------------
(***************************************************************************)
(* The process is killed (fpm terminates the worker of a request that      *)
(* takes too long): the system closes its files.  A new one replaces it.   *)
(***************************************************************************)
Die(p) ==
    /\ id[p] # None
    /\ CloseFile(p) /\ UNCHANGED name
    /\ LET Kept(n) == Named(n) \/ Opened(n)'
       IN  /\ content' = [n \in Inode |-> IF Kept(n) THEN content[n] ELSE <<>>]
           /\ touched' = [n \in Inode |-> IF Kept(n) THEN touched[n] ELSE "stale"]
           /\ committed' = [n \in Inode |-> IF ~Kept(n) THEN <<>>
                                            ELSE IF lock[n] = p THEN content[n]
                                            ELSE committed[n]]
    /\ Goto(p, "run") /\ status' = [status EXCEPT ![p] = "none"]
    /\ id' = [id EXCEPT ![p] = None] /\ lastkey' = [lastkey EXCEPT ![p] = None]
    /\ st_size' = [st_size EXCEPT ![p] = 0] /\ arg' = [arg EXCEPT ![p] = None]
    /\ todo' = [todo EXCEPT ![p] = {}] /\ val' = [val EXCEPT ![p] = None]
    /\ UNCHANGED <<goal, after, spoilt>>

\* gc_maxlifetime passes.
Age(n) ==
    /\ Named(n) /\ touched[n] # "stale"
    /\ touched' = [touched EXCEPT ![n] = "stale"]
    /\ UNCHANGED <<name, content, lock, local, committed, spoilt>>

\* What the process does by itself, once its script calls it.
Steps(p) ==
    \/ KeepOpen(p) \/ CloseOther(p) \/ OpenFails(p) \/ Flock(p) \/ Read(p)
    \/ \E n \in Inode : Open(p, n)
    \/ \E i \in Id : GcLooks(p, i)
    \/ GcUnlinks(p) \/ DestroyUnlinks(p)
    \/ \E v \in Value : Truncate(p, v)
    \/ \E k \in 0 .. MaxLength : PWrite(p, k)
    \/ Close(p)

Calls(p) ==
    \/ \E i \in Id : \/ Start(p, i) \/ ChangeId(p, i)
                    \/ Regenerate(p, i) \/ RegenerateAndDelete(p, i)
    \/ Destroy(p) \/ EndRequest(p)
    \/ \E a \in {"run", "end"} : Flush(p, a)

Next ==
    \/ \E p \in Proc : Steps(p) \/ Calls(p) \/ Die(p)
    \/ \E n \in Inode : Age(n)

Spec == Init /\ [][Next]_vars

-----------------------------------------------------------------------------
TypeOK ==
    /\ name \in [Id -> Inode \cup {None}] /\ content \in [Inode -> Seq(Nat)]
    /\ touched \in [Inode -> {"written", "stale"}]
    /\ lock \in [Inode -> Proc \cup {None}]
    /\ pc \in [Proc -> {"run", "open", "flock", "read", "gc", "gcunlink", "unlink",
                        "write", "pwrite", "close"}]
    /\ status \in [Proc -> {"none", "active"}]
    /\ id \in [Proc -> Id \cup {None}] /\ arg \in [Proc -> Id \cup {None}]
    /\ fd \in [Proc -> Inode \cup {None}] /\ lastkey \in [Proc -> Id \cup {None}]
    /\ st_size \in [Proc -> Nat]
    /\ goal \in [Proc -> {"read", "write"}] /\ after \in [Proc -> {"run", "end", "regen"}]
    /\ todo \in [Proc -> SUBSET Id]
    /\ val \in [Proc -> Value \cup {None}] /\ seen \in [Proc -> Seq(Nat) \cup {None}]
    /\ committed \in [Inode -> Seq(Nat)] /\ spoilt \in BOOLEAN
    /\ \A p \in Proc : pc[p] \in {"flock", "read", "write", "pwrite"} => fd[p] # None

(***************************************************************************)
(* A session is never a mixture of what two requests wrote: truncation by  *)
(* a size read earlier and the overwriting of the start of the file leave  *)
(* one value, as long as the file is locked from the read to the write,    *)
(* and nobody writes without a descriptor.                                 *)
(***************************************************************************)
Unmixed == spoilt \/ \A n \in Inode : content[n] \in Value \cup {<<>>}
WholeContents == TypeOK /\ Unmixed

(***************************************************************************)
(* No update is lost: what a request has read stays in the file until it   *)
(* writes there itself or lets the file go, whoever destroys or collects   *)
(* the session meanwhile.                                                  *)
(***************************************************************************)
ReadStays ==
    \A p \in Proc : seen[p] # None => /\ lock[fd[p]] = p
                                      /\ content[fd[p]] = seen[p]

(***************************************************************************)
(* A request that waits for a file holds no other, although it may change  *)
(* its id while a file is locked: requests cannot wait for each other.     *)
(***************************************************************************)
NoHoldAndWait ==
    \A p \in Proc : pc[p] = "flock" => \A n \in Inode : lock[n] # p

\* What is written is what the abstract store holds for the file of that name.
Promise == INSTANCE SessionStore WITH
    Value <- Value \cup {<<>>}, Nobody <- None, Empty <- <<>>,
    store <- [i \in Id |-> IF name[i] = None THEN <<>> ELSE committed[name[i]]],
    owner <- [i \in Id |-> IF name[i] = None THEN None ELSE lock[name[i]]]

(***************************************************************************)
(* The session files implement the store with one owner per session, up to *)
(* the first file that is written without having been read.                *)
(***************************************************************************)
KeepsPromise == Promise!Init /\ [][spoilt' \/ Promise!Next]_(Promise!vars)

(***************************************************************************)
(* The comment in PS_WRITE: the file is truncated when the new data are    *)
(* smaller than the data it holds.                                         *)
(***************************************************************************)
SmallerIsTruncated ==
    [][\A p \in Proc : pc[p] = "write" /\ pc'[p] = "pwrite" /\ Len(val'[p]) < Len(content[fd[p]])
                         => content'[fd[p]] = <<>>]_vars

=============================================================================
