---------------------------- MODULE ZendGcPhases ----------------------------
(***************************************************************************)
(* The three phases of gc_collect_cycles as the traversals they are.       *)
(* ZendGc says what they leave; the two agree.  Each traversal is for      *)
(* zvals and objects alike, and takes away, or gives back, the references  *)
(* inside of what it visits.  What its recursive calls have still to do is *)
(* kept in todo, the next one last.                                        *)
(***************************************************************************)
EXTENDS ZendGc

\* The heap during a collection, with zval_to_free and the calls to be made.
During(h) ==
    [type |-> h.type, obj |-> h.obj, kids |-> h.kids, rc |-> h.rc, col |-> h.col,
     addr |-> h.addr, roots |-> h.roots, list |-> {}, todo |-> <<>>]

\* The calls for what x refers to.
Visits(call, h, x) ==
    LET kids == CHOOSE l \in Orders(Out(h, x)) : TRUE
    IN  [i \in 1 .. Cardinality(Out(h, x)) |-> <<call, kids[i], x>>]
Paint(h, x, colour, call) ==
    [h EXCEPT !.col[x] = colour, !.todo = @ \o Visits(call, h, x)]
Count(h, x, n) == [h EXCEPT !.rc[x] = @ + n]
Unbuffer(h, x) == [h EXCEPT !.addr[x] = "null", !.roots = @ \ {x}]

MarkGrey(h, x) == IF h.col[x] = "grey" THEN h ELSE Paint(h, x, "grey", "mark")

\* Fault: the reference is not given back.
ScanBlackForgets(h, x) == IF h.col[x] = "black" THEN h ELSE Paint(h, x, "black", "black")
ScanBlack(h, x) ==
    LET g == Count(h, x, 1) IN IF g.col[x] = "black" THEN g ELSE Paint(g, x, "black", "black")

Scan(h, x) ==
    IF h.col[x] # "grey" THEN h
    ELSE IF h.rc[x] > 0 THEN Paint(h, x, "black", "black")
    ELSE Paint(h, x, "white", "scan")

\* A white zval gets its references from zvals and objects back, and one more
\* from the list it is put into.  A white object does not get those back that
\* white zvals have, and is purple, so that nested runs will not buffer it.
CollectWhite(h, x) ==
    IF h.col[x] # "white" \/ h.addr[x] # "null" THEN h
    ELSE IF x \in Zval
    THEN [Paint(Count(h, x, 1), x, "black", "collect") EXCEPT
            !.addr[x] = "list", !.list = @ \cup {x}]
    ELSE Paint(h, x, "purple", "collect")

\* A call for a root or, with the reference that leads there, for any node.  A
\* root that another one has reached leaves the buffer.
Call(h, call, x) ==
    CASE call = "mark_root" -> IF h.col[x] = "purple" THEN MarkGrey(h, x) ELSE Unbuffer(h, x)
      [] call = "mark" -> MarkGrey(Count(h, x, -1), x)
      [] call = "scan_root" -> IF x \in h.roots THEN Scan(h, x) ELSE h
      [] call = "scan" -> Scan(h, x)
      [] call = "black" -> ScanBlack(h, x)
      [] call = "collect_root" -> IF x \in h.roots THEN CollectWhite(Unbuffer(h, x), x) ELSE h
      [] call = "collect" -> CollectWhite(IF x \in Zval THEN Count(h, x, 1) ELSE h, x)

Step(h) ==
    IF h.todo = <<>> THEN h
    ELSE LET n == Len(h.todo)
         IN  Call([h EXCEPT !.todo = SubSeq(@, 1, n - 1)], h.todo[n][1], h.todo[n][2])

\* A phase makes a call for each root, and follows each link once or, when it
\* scans, twice at most.
Traverse(h) ==
    LET most == Len(h.todo) + 2 * Cardinality(UNION {{x} \X Out(h, x) : x \in Node})
        run[n \in 0 .. most] == IF n = 0 THEN h ELSE Step(run[n - 1])
    IN  run[most]

\* gc_mark_roots, gc_scan_roots and gc_collect_roots.
Phase(call, h, order) ==
    Traverse([h EXCEPT !.todo = [i \in 1 .. Len(order) |-> <<call, order[i]>>]])
-----------------------------------------------------------------------------
(***************************************************************************)
(* Whatever the order of the roots, the traversals end, condemn the zvals  *)
(* that ZendGc says are garbage, and leave counts, colours and the root    *)
(* buffer as it says.                                                      *)
(***************************************************************************)
Agree(h, c, garbage, order) ==
    LET marked == Phase("mark_root", During(h), order)
        scanned == Phase("scan_root", marked, order)
        g == Phase("collect_root", scanned, order)
    IN  /\ marked.todo = <<>> /\ scanned.todo = <<>> /\ g.todo = <<>>
        /\ g.list = garbage \cap Zval /\ g.roots = c.roots
        /\ g.rc = c.rc /\ g.col = c.col /\ g.addr = c.addr
PhasesAgree ==
    LET c == Collected(heap)
        garbage == Garbage(heap)
    IN  spoilt \/ \A order \in Orders(heap.roots) : Agree(heap, c, garbage, order)

=============================================================================
