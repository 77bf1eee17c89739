-------------------------------- MODULE ZendGc --------------------------------
(***************************************************************************)
(* The cycle collector of the Zend engine (Zend/zend_gc.c), the reference  *)
(* counts that feed it (_zval_ptr_dtor, the object store) and scripts that *)
(* build and drop structures, in destructors too.                          *)
(*                                                                         *)
(* A node is a zval that can be part of a cycle, an array or a reference   *)
(* to an object, or an object of the store.  An array and an object hold   *)
(* zvals; a zval of type object holds the object.  Every link is one       *)
(* reference.  A root of the buffer is an array or an object.  What a      *)
(* script does when a destructor calls it, and what is left of the calls   *)
(* it interrupted, is kept on a stack of tasks, the next one at the end.   *)
(***************************************************************************)
EXTENDS Integers, Sequences, FiniteSets

CONSTANTS
    Zval,       \* zvals
    Object,     \* handles of the object store
    NoObject,
    MaxRoots,   \* GC_ROOT_BUFFER_MAX_ENTRIES
    MaxNesting  \* bound on destructors that run inside each other

ASSUME DisjointAssumption == Zval \cap Object = {} /\ NoObject \notin Object
ASSUME FiniteAssumption == IsFiniteSet(Zval) /\ IsFiniteSet(Object)
ASSUME MaxRootsAssumption == MaxRoots \in Nat \ {0}

Node == Zval \cup Object

VARIABLES
    heap,       \* the nodes and the root buffer, see Heaps
    held,       \* the zvals that variables of the script refer to
    stack,      \* what is still to be done, the next task last
    spoilt,     \* a case the collector does not provide for has happened
    missed      \* a collection has taken garbage to be alive, see Overlooks

vars == <<heap, held, stack, spoilt, missed>>

Heaps ==
    [type : [Node -> {"free", "array", "object", "null", "valid"}],
     rc   : [Node -> Int],              \* refcount__gc, obj.refcount
     kids : [Node -> SUBSET Zval],      \* elements of an array, properties
     obj  : [Zval -> Object \cup {NoObject}],
     col  : [Node -> {"black", "purple"}],
     addr : [Node -> {"null", "root", "list"}], \* what u.buffered points to
     done : [Object -> BOOLEAN],        \* destructor_called
     roots : SUBSET Node]               \* the root buffer

Init ==
    /\ heap = [type |-> [x \in Node |-> "free"], rc |-> [x \in Node |-> 0],
               kids |-> [x \in Node |-> {}], obj |-> [z \in Zval |-> NoObject],
               col |-> [x \in Node |-> "black"], addr |-> [x \in Node |-> "null"],
               done |-> [o \in Object |-> FALSE], roots |-> {}]
    /\ held = {} /\ stack = <<>> /\ spoilt = FALSE /\ missed = FALSE

\* The nodes that x holds a reference to.
Out(h, x) ==
    CASE h.type[x] \in {"array", "valid"} -> h.kids[x]
      [] h.type[x] = "object" -> {h.obj[x]}
      [] OTHER -> {}

-----------------------------------------------------------------------------
(***************************************************************************)
(* A collection, by what its three phases leave.  Marking takes away the   *)
(* references inside of what can be reached from the roots; what still has *)
(* one, and all that this leads to, lives on, and the rest is garbage.     *)
(* ZendGcPhases has the traversals that find this out.                     *)
(***************************************************************************)
\* What can be reached from S, in as many steps as there may be nodes on a path.
Reach(next, S) ==
    LET more == [T \in SUBSET Node |-> T \cup UNION {next[x] : x \in T}]
        step[n \in 0 .. Cardinality(Node)] == IF n = 0 THEN S ELSE more[step[n - 1]]
    IN  step[Cardinality(Node)]

Links(h) == [x \in Node |-> Out(h, x)]
Found(h) == Reach(Links(h), h.roots)
Inside(h, x) == {y \in Found(h) : x \in Out(h, y)}

\* Fault: one reference from outside does not count.
LiveOffByOne(h) == Reach(Links(h), {x \in Found(h) : h.rc[x] > Cardinality(Inside(h, x)) + 1})
Live(h) ==
    LET found == Found(h)
    IN  Reach(Links(h), {x \in found : h.rc[x] > Cardinality({y \in found : x \in Out(h, y)})})
Garbage(h) == Found(h) \ Live(h)

\* A zval that is garbage gets one more reference from the list it is put into.
\* An object does not get those back that zvals of the list have, and is purple,
\* so that nested runs will not buffer it.
Collected(h) ==
    LET found == Found(h)
        garbage == Garbage(h)
    IN  [h EXCEPT
            !.rc = [x \in Node |->
                IF x \in Object THEN @[x] - Cardinality({z \in garbage : x \in Out(h, z)})
                ELSE IF x \in garbage THEN @[x] + 1 ELSE @[x]],
            !.col = [x \in Node |->
                IF x \in garbage \cap Object THEN "purple"
                ELSE IF x \in found THEN "black" ELSE @[x]],
            !.addr = [x \in Node |->
                IF x \in garbage \cap Zval THEN "list"
                ELSE IF x \in h.roots THEN "null" ELSE @[x]],
            !.roots = {}]

\* What zval_collect_white has condemned, and nobody has referred to since.
Waiting(h) == {o \in Object : h.type[o] = "valid" /\ h.rc[o] <= 0}
\* A condemned zval, which does not count for its object any more.
Uncounted(h, x) == h.type[x] = "object" /\ h.addr[x] = "list"
\* The objects whose destructors run.
ThisOf(tasks) == {tasks[i][2] : i \in {j \in DOMAIN tasks : tasks[j][1] = "user"}}

\* A zval that an interrupted collection has condemned is in its list, so it is
\* found alive, and with it an object that it does not count for.  If that is
\* garbage now it leaves the buffer all the same, and is lost.
Overlooks(h, tasks) ==
    \E z \in Found(h) : /\ Uncounted(h, z) /\ h.type[h.obj[z]] = "valid"
                       /\ h.obj[z] \notin Waiting(h) \cup ThisOf(tasks)

-----------------------------------------------------------------------------
(***************************************************************************)
(* The root buffer.  When it is full the garbage is collected first, and   *)
(* whatever that calls runs before the node is buffered.                   *)
(***************************************************************************)
Listed == \E i \in DOMAIN stack : stack[i][1] \in {"dtors", "destroy"}

Task == stack[Len(stack)]
Top == IF stack = <<>> THEN "none" ELSE Task[1]
Below == SubSeq(stack, 1, Len(stack) - 1)

\* The zvals of S are decremented one after the other, in any order.
Drops(S) == IF S = {} THEN <<>> ELSE <<<<"drop", S>>>>
Orders(S) == {l \in [1 .. Cardinality(S) -> S] : \A z \in S : \E i \in DOMAIN l : l[i] = z}

\* Tasks on top of the rest of the stack, or in place of the task on its top.
Continues(h, rest, tasks) == heap' = h /\ stack' = rest \o tasks /\ UNCHANGED missed
Becomes(h, tasks) == Continues(h, Below, tasks)

\* gc_collect_cycles: the three phases call nothing of the script, then the
\* list, in the order in which the elements of arrays and objects were visited,
\* is worked on by tasks.
Collect(h, rest) ==
    LET list == Garbage(h) \cap Zval
    IN  /\ heap' = Collected(h)
        /\ IF list = {} THEN stack' = rest
           ELSE \E l \in Orders(list) : stack' = Append(rest, <<"dtors", l, l>>)
        /\ missed' = (missed \/ Overlooks(h, rest))

\* gc_zobj_possible_root and the end of gc_zval_possible_root, as long as there is
\* room or x needs none.
AsRoot(h, x) == [h EXCEPT !.col[x] = "purple", !.addr[x] = "root", !.roots = @ \cup {x}]
Buffered(h, x) ==
    IF h.col[x] = "purple" THEN h
    ELSE IF h.addr[x] = "null" THEN AsRoot(h, x) ELSE [h EXCEPT !.col[x] = "purple"]
BufferFull(h, x) ==
    h.col[x] # "purple" /\ h.addr[x] = "null" /\ ~(Cardinality(h.roots) < MaxRoots)

\* The same with a collection, while z is what the caller holds.
Buffer(h, x, z, rest) ==
    IF BufferFull(h, x)
    THEN Collect([h EXCEPT !.col[x] = "purple", !.rc[z] = @ + 1], rest \o <<<<"buffer", x, z>>>>)
    ELSE Continues(Buffered(h, x), rest, <<>>)

\* Fault: objects are not roots.
BufferNoObject(h, z, rest) == Continues(h, rest, <<>>)

\* GC_ZOBJ_CHECK_POSSIBLE_ROOT.
BufferObject(h, z, rest) ==
    IF h.type[h.obj[z]] = "valid" THEN Buffer(h, h.obj[z], z, rest) ELSE Continues(h, rest, <<>>)

\* gc_zval_possible_root: nothing is done for what a collection is to free.
PossibleRoot(h, z, rest) ==
    IF Listed /\ h.addr[z] = "list" /\ h.col[z] = "black" THEN Continues(h, rest, <<>>)
    ELSE IF h.type[z] = "object" THEN BufferObject(h, z, rest)
    ELSE IF h.type[z] = "array" THEN Buffer(h, z, z, rest)
    ELSE Continues(h, rest, <<>>)

-----------------------------------------------------------------------------
(***************************************************************************)
(* The tasks.                                                              *)
(***************************************************************************)
\* Fault: what is freed stays in the root buffer.
UnlistNothing(h, x) == h
Unlist(h, x) ==
    IF h.addr[x] = "root"
    THEN [h EXCEPT !.addr[x] = "null", !.roots = @ \ {x}, !.col[x] = "black"] ELSE h

\* _zval_ptr_dtor and zval_dtor.
PtrDtor(h0, z, rest) ==
    LET h == [h0 EXCEPT !.rc[z] = @ - 1]
    IN  IF h.rc[z] > 0 THEN PossibleRoot(h, z, rest)
        ELSE LET g == [Unlist(h, z) EXCEPT !.type[z] = "null", !.kids[z] = {}]
             IN  IF h.type[z] = "object"
                 THEN Continues(g, rest, <<<<"efree", z>>, <<"check", z>>, <<"delref", h.obj[z]>>>>)
                 ELSE Continues(g, rest, <<<<"efree", z>>>> \o Drops(h.kids[z]))

Drop(z) ==
    /\ Top = "drop" /\ z \in Task[2]
    /\ PtrDtor(heap, z, Below \o Drops(Task[2] \ {z}))
    /\ UNCHANGED <<held, spoilt>>

\* The end of zend_objects_store_del_ref.
Check(z) ==
    /\ Top = "check" /\ z = Task[2]
    /\ BufferObject(heap, z, Below)
    /\ UNCHANGED <<held, spoilt>>

Freed(h, S) ==
    [h EXCEPT !.type = [x \in Node |-> IF x \in S THEN "free" ELSE @[x]],
              !.rc = [x \in Node |-> IF x \in S THEN 0 ELSE @[x]],
              !.kids = [x \in Node |-> IF x \in S THEN {} ELSE @[x]],
              !.obj = [z \in Zval |-> IF z \in S THEN NoObject ELSE @[z]],
              !.col = [x \in Node |-> IF x \in S THEN "black" ELSE @[x]],
              !.addr = [x \in Node |-> IF x \in S THEN "null" ELSE @[x]],
              !.done = [o \in Object |-> o \notin S /\ @[o]]]

Efree(z) ==
    /\ Top = "efree" /\ z = Task[2]
    /\ Becomes(Freed(heap, {z}), <<>>)
    /\ UNCHANGED <<held, spoilt>>

\* Fault: nothing counts for the $this of a destructor.
ReleaseUncounted(h, o, rest) ==
    IF h.type[o] # "valid" \/ h.rc[o] # 1 THEN Continues([h EXCEPT !.rc[o] = @ - 1], rest, <<>>)
    ELSE IF ~h.done[o]
    THEN Continues([h EXCEPT !.done[o] = TRUE], rest, <<<<"delref", o>>, <<"user", o>>>>)
    ELSE Continues([Unlist(h, o) EXCEPT !.kids[o] = {}],
                   rest, <<<<"gone", o>>>> \o Drops(h.kids[o]))

\* zend_objects_store_del_ref_by_handle_ex.  The destructor has its own $this.
Release(h, o, rest) ==
    IF h.type[o] # "valid" \/ h.rc[o] # 1 THEN Continues([h EXCEPT !.rc[o] = @ - 1], rest, <<>>)
    ELSE IF ~h.done[o]
    THEN Continues([h EXCEPT !.done[o] = TRUE, !.rc[o] = @ + 1],
                   rest, <<<<"delref", o>>, <<"user", o>>>>)
    ELSE Continues([Unlist(h, o) EXCEPT !.kids[o] = {}],
                   rest, <<<<"gone", o>>>> \o Drops(h.kids[o]))

DelRef(o) ==
    /\ Top = "delref" /\ o = Task[2]
    /\ Release(heap, o, Below)
    /\ UNCHANGED <<held, spoilt>>

\* The end of free_storage: the handle can be used again.
Gone(o) ==
    /\ Top = "gone" /\ o = Task[2]
    /\ Becomes(Freed(heap, {o}), <<>>)
    /\ UNCHANGED <<held, spoilt>>

(***************************************************************************)
(* Back in gc_zval_possible_root or gc_zobj_possible_root after a          *)
(* collection.  It may have called destructors that filled the buffer      *)
(* again, buffered x already, dropped the last other reference to z, which *)
(* is not freed any more, or freed the object x.                           *)
(***************************************************************************)
BufferAfterCollect(x, z) ==
    /\ Top = "buffer" /\ x = Task[2] /\ z = Task[3]
    /\ LET h == [heap EXCEPT !.rc[z] = @ - 1]
           full == Cardinality(h.roots) = MaxRoots
       IN  /\ Becomes(IF full THEN h ELSE AsRoot(h, x), <<>>)
           /\ spoilt' = (spoilt \/ full \/ h.addr[x] # "null"
                                \/ (h.rc[z] = 0 /\ h.type[z] # "null") \/ h.type[x] = "free")
    /\ UNCHANGED held

\* The next element of free_list that a loop over it has work for.
IsNext(rest, i, due) ==
    /\ i \in DOMAIN rest /\ rest[i] \in due
    /\ \A j \in 1 .. i - 1 : rest[j] \notin due
None(rest, due) == \A i \in DOMAIN rest : rest[i] \notin due
After(rest, i) == SubSeq(rest, i + 1, Len(rest))

RefersTo(h, O) == {z \in Zval : h.type[z] = "object" /\ h.obj[z] \in O}

\* The first loop over free_list: destructors.
CallDestructors ==
    /\ Top = "dtors"
    /\ LET list == Task[2]
           rest == Task[3]
           due == RefersTo(heap, {o \in Waiting(heap) : ~heap.done[o]})
       IN  \/ /\ None(rest, due)
              /\ Becomes(heap, <<<<"destroy", list, list>>>>)
           \/ \E i \in DOMAIN rest :
                 /\ IsNext(rest, i, due)
                 /\ LET o == heap.obj[rest[i]]
                    IN  Becomes([heap EXCEPT !.done[o] = TRUE, !.rc[o] = @ + 1],
                                <<<<"dtors", list, After(rest, i)>>, <<"user", o>>>>)
    /\ UNCHANGED <<held, spoilt>>

\* The second loop, over what the zvals refer to, and the third, which frees
\* the zvals themselves.
Destroy ==
    /\ Top = "destroy"
    /\ LET list == Task[2]
           rest == Task[3]
           due == {z \in Zval : heap.type[z] = "array"} \cup RefersTo(heap, Waiting(heap))
       IN  \/ /\ None(rest, due)
              /\ Becomes(Freed(heap, {list[i] : i \in DOMAIN list}), <<>>)
           \/ \E i \in DOMAIN rest :
                 /\ IsNext(rest, i, due)
                 /\ LET z == rest[i]
                        next == Append(Below, <<"destroy", list, After(rest, i)>>)
                    IN  IF heap.type[z] = "object"
                        THEN Release([heap EXCEPT !.rc[heap.obj[z]] = 1, !.type[z] = "null"],
                                     heap.obj[z], next)
                        ELSE Continues([heap EXCEPT !.type[z] = "null", !.kids[z] = {}],
                                       next, Drops(heap.kids[z]))
    /\ UNCHANGED <<held, spoilt>>

-----------------------------------------------------------------------------
(***************************************************************************)
(* The script, which runs by itself or in a destructor.  What it can reach *)
(* it can link, unlink and refer to once more.                             *)
(***************************************************************************)
Running == Top \in {"none", "user"}
This == ThisOf(stack)

\* As long as nothing counts for a condemned object, it and the condemned zvals
\* that refer to it wait for the same end; a destructor that followed one to an
\* object that lives on, or is gone, would be on its own.
Followed(h) ==
    [x \in Node |-> IF Uncounted(h, x) THEN {h.obj[x]} \cap Waiting(h) ELSE Out(h, x)]
Accessible == Reach(Followed(heap), held \cup This)

New(z, t, o) == [heap EXCEPT !.type[z] = t, !.rc[z] = 1, !.obj[z] = o]

NewArray(z) ==
    /\ Running /\ heap.type[z] = "free"
    /\ heap' = New(z, "array", NoObject) /\ held' = held \cup {z}
    /\ UNCHANGED <<stack, spoilt, missed>>

\* zend_objects_store_put.
NewObject(z, o) ==
    /\ Running /\ heap.type[z] = "free" /\ heap.type[o] = "free"
    /\ heap' = [New(z, "object", o) EXCEPT !.type[o] = "valid", !.rc[o] = 1]
    /\ held' = held \cup {z}
    /\ UNCHANGED <<stack, spoilt, missed>>

\* A copy of a zval: zend_objects_store_add_ref.
Copy(z, o) ==
    /\ Running /\ heap.type[z] = "free" /\ heap.type[o] # "free" /\ o \in Accessible
    /\ heap' = [New(z, "object", o) EXCEPT !.rc[o] = @ + 1]
    /\ held' = held \cup {z}
    /\ spoilt' = (spoilt \/ heap.rc[o] <= 0)
    /\ UNCHANGED <<stack, missed>>

Link(c, z) ==
    /\ Running
    /\ heap.type[c] \in {"array", "valid"} /\ z \notin heap.kids[c] /\ heap.type[z] # "free"
    /\ {c, z} \subseteq Accessible
    /\ heap' = [heap EXCEPT !.kids[c] = @ \cup {z}, !.rc[z] = @ + 1]
    /\ spoilt' = (spoilt \/ heap.addr[z] = "list")
    /\ UNCHANGED <<held, stack, missed>>

Unlink(c, z) ==
    /\ Running /\ z \in heap.kids[c] /\ c \in Accessible
    /\ PtrDtor([heap EXCEPT !.kids[c] = @ \ {z}], z, stack)
    /\ UNCHANGED <<held, spoilt>>

Unset(z) ==
    /\ Running /\ z \in held
    /\ held' = held \ {z} /\ PtrDtor(heap, z, stack)
    /\ UNCHANGED spoilt

\* gc_collect_cycles().
CollectCycles ==
    /\ Running
    /\ Collect(heap, stack)
    /\ UNCHANGED <<held, spoilt>>

\* The end of the destructor that a task of rest has called, with its $this.
Leaves(h, o, rest) == Continues([h EXCEPT !.rc[o] = @ - 1], rest, <<>>)
\* The collector does not expect that the object it has condemned is referred to
\* again, or has become a root: the next collection would condemn it on its own.
Revived(h, o, rest) == rest[Len(rest)][1] = "dtors" /\ (h.rc[o] > 1 \/ h.addr[o] = "root")

\* The destructor returns.  Letting go of $this buffers the object unless it is
\* purple, as what is condemned is until a collection within the destructor
\* finds it.  When the buffer is full that collects garbage first.
DestructorReturns ==
    /\ Top = "user"
    /\ LET o == Task[2]
           g == Buffered(heap, o)
       IN  IF BufferFull(heap, o)
           THEN /\ Collect([heap EXCEPT !.col[o] = "purple"], Append(stack, <<"return", o>>))
                /\ UNCHANGED spoilt
           ELSE Leaves(g, o, Below) /\ spoilt' = (spoilt \/ Revived(g, o, Below))
    /\ UNCHANGED held

\* That collection is over.  It may have filled the buffer again, or buffered o.
ReturnAfterCollect(o) ==
    /\ Len(stack) > 1 /\ Task = <<"return", o>> /\ Below[Len(Below)] = <<"user", o>>
    /\ LET rest == SubSeq(Below, 1, Len(Below) - 1)
           full == Cardinality(heap.roots) = MaxRoots
           g == IF full THEN heap ELSE AsRoot(heap, o)
       IN  /\ Leaves(g, o, rest)
           /\ spoilt' = (spoilt \/ full \/ heap.addr[o] # "null" \/ Revived(g, o, rest))
    /\ UNCHANGED held

Work ==
    \/ \E z \in Zval : Drop(z) \/ Check(z) \/ Efree(z)
    \/ \E o \in Object : DelRef(o) \/ Gone(o) \/ ReturnAfterCollect(o)
    \/ \E x \in Node, z \in Zval : BufferAfterCollect(x, z)
    \/ CallDestructors \/ Destroy

Script ==
    \/ \E z \in Zval : NewArray(z) \/ Unset(z)
    \/ \E z \in Zval, o \in Object : NewObject(z, o) \/ Copy(z, o)
    \/ \E c \in Node, z \in Zval : Link(c, z) \/ Unlink(c, z)
    \/ CollectCycles \/ DestructorReturns

Next == ~spoilt /\ (Work \/ Script)

Spec == Init /\ [][Next]_vars

-----------------------------------------------------------------------------
Allocated(x) == heap.type[x] # "free"
In(op) == {i \in DOMAIN stack : stack[i][1] = op}
InList(t) == IF t[1] \in {"dtors", "destroy"} THEN {t[2][i] : i \in DOMAIN t[2]} ELSE {}
Condemned == UNION {InList(stack[i]) : i \in DOMAIN stack}

Tasks ==
    ({"drop"} \X {S \in SUBSET Zval : S # {}}) \cup ({"check", "efree"} \X Zval)
    \cup ({"delref", "gone", "user", "return"} \X Object) \cup ({"buffer"} \X Node \X Zval)
    \cup ({"dtors", "destroy"} \X Seq(Zval) \X Seq(Zval))

TypeOK ==
    /\ heap \in Heaps
    /\ held \subseteq Zval
    /\ stack \in Seq(Tasks)
    /\ Cardinality(heap.roots) <= MaxRoots
    /\ spoilt \in BOOLEAN /\ missed \in BOOLEAN

(***************************************************************************)
(* Nothing that is freed is referred to: by a variable, an array, an       *)
(* object, the root buffer, or work that is still to be done.  The buffer  *)
(* never holds more than it has room for.                                  *)
(***************************************************************************)
NothingDangles ==
    /\ TypeOK
    /\ spoilt \/
          /\ \A x \in held \cup heap.roots \cup Condemned : Allocated(x)
          /\ \A x \in Node : Allocated(x) => \A y \in heap.kids[x] : Allocated(y)
          /\ \A i \in In("delref") : Allocated(stack[i][2])
          /\ \A i \in In("drop") : \A z \in stack[i][2] : Allocated(z)
          /\ \A x \in Accessible : Allocated(x)

(***************************************************************************)
(* Between two calls of the collector every count is what it stands for,   *)
(* although the phases take references away and give them back.            *)
(***************************************************************************)
\* The nodes that x is counted for.
Counted(h, x) == IF Uncounted(h, x) THEN {} ELSE Out(h, x)

\* The task t is going to drop a reference to x, or relies on it.
Holds(t, x) ==
    \/ t[1] = "drop" /\ x \in t[2]
    \/ t[1] \in {"user", "delref", "gone"} /\ x = t[2]
    \/ t[1] = "buffer" /\ x = t[3]
    \/ x \in InList(t)

Refs(x) ==
    Cardinality({y \in Node : x \in Counted(heap, y)}) + (IF x \in held THEN 1 ELSE 0)
    + Cardinality({i \in DOMAIN stack : Holds(stack[i], x)})

CountsExact == spoilt \/ \A x \in Node : Allocated(x) => heap.rc[x] = Refs(x)

(***************************************************************************)
(* No garbage is out of the collector's reach: what the script has lost    *)
(* can be found from the root buffer, unless a collection in a destructor  *)
(* has overlooked it.                                                      *)
(***************************************************************************)
GarbageFindable ==
    spoilt \/ missed \/ stack # <<>>
    \/ {x \in Node : Allocated(x)} \subseteq Reach(Links(heap), held \cup heap.roots)

(***************************************************************************)
(* A collection, whenever it is called, condemns what can be found from    *)
(* the roots and is kept by nothing: neither by a variable, nor by work    *)
(* that is under way, nor by a counted reference from what the roots do    *)
(* not lead to.  Lists of collections that it interrupts stay apart.       *)
(***************************************************************************)
Kept ==
    LET found == Found(heap)
    IN  {x \in found : \/ x \in held
                       \/ \E i \in DOMAIN stack : Holds(stack[i], x)
                       \/ \E y \in Node \ found : x \in Counted(heap, y)}

CollectsGarbage ==
    LET garbage == Garbage(heap)
    IN  spoilt \/ /\ garbage = Found(heap) \ Reach(Links(heap), Kept)
                  /\ garbage \cap Condemned = {}
                  /\ \A x \in garbage \cap Object : Collected(heap).rc[x] = 0

===============================================================================
