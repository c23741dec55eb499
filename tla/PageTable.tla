----------------------------- MODULE PageTable ------------------------------
(***************************************************************************)
(* shared/page_table: the 4-level page table of the kernel, in the memory  *)
(* it lies in. map_raw() runs under the lock of the page table, but its    *)
(* writes are steps of their own, because the MMUs of all cores walk the   *)
(* same memory meanwhile. A virtual address is the number of its page.     *)
(***************************************************************************)
EXTENDS Naturals, Sequences, FiniteSets

CONSTANTS
    Radix,              \* entries of a table (512)
    None

VARIABLES
    tables,     \* [frame of a table -> [0 .. Radix - 1 -> entry or None]]
    root,       \* PageTable.table
    map,        \* the map_raw() in progress, or None
    view        \* what has been mapped, to compare the tables with

\* A present entry: the frame it points to, PAGE_SIZE, and the number of
\* entries in use in the table that it points to (bits 52 to 61).
Entry(addr, ps) == [addr |-> addr, ps |-> ps, refs |-> 0]
EmptyTable == [i \in 0 .. Radix - 1 |-> None]

\* Mapping::get_indices()
Pages == 0 .. Radix^4 - 1
Indices == [v \in Pages |-> <<(v \div Radix^3) % Radix, (v \div Radix^2) % Radix, (v \div Radix) % Radix, v % Radix>>]

\* components_inner(): the tables that are walked through for a page. The walk
\* ends at an entry that is absent, or is a page.
Walk(v) ==
    LET Below(t, k) ==
            IF t = None THEN None
            ELSE LET e == tables[t][Indices[v][k]] IN IF e = None THEN None ELSE IF e.ps THEN None ELSE e.addr
        t2 == Below(root, 1)
        t3 == Below(t2, 2)
        t4 == Below(t3, 3)
    IN  IF t2 = None THEN <<root>> ELSE IF t3 = None THEN <<root, t2>>
        ELSE IF t4 = None THEN <<root, t2, t3>> ELSE <<root, t2, t3, t4>>
Components(v) ==
    LET walk == Walk(v)
        depth == Len(walk)
    IN  [walk |-> walk, depth |-> depth, page |-> tables[walk[depth]][Indices[v][depth]]]
Last(v) == Components(v).depth

\* What the MMU makes of an address: the page's base and its size class.
Translate(v) ==
    LET c == Components(v) IN
    IF c.page = None THEN None ELSE [addr |-> c.page.addr, depth |-> c.depth]

-----------------------------------------------------------------------------
(* map_raw() *)

\* The depth that the page type stands for.
Page4K == 4
Page2M == 3
Page1G == 2
PagesOf(depth) == Radix^(4 - depth)

\* The checks: the page is not mapped, and no table with smaller pages is
\* in its place.
MapAnyway(v, depth) ==              \* Mutant: only a table is in the way
    IF Components(v).depth > depth THEN "SmallerPagesPresent" ELSE "Ok"
MapError(v, depth) ==
    LET c == Components(v) IN
    IF c.page # None THEN "MappedAlready"
    ELSE IF c.depth > depth THEN "SmallerPagesPresent"
    ELSE "Ok"

MapBegin(v, depth, raw) ==
    /\ map = None /\ MapError(v, depth) = "Ok"
    /\ map' = [v |-> v, depth |-> depth, raw |-> raw, counted |-> FALSE]
    /\ UNCHANGED <<tables, root, view>>

\* The reference count of the entry on level k of the walk to v.
Counted(ts, walk, v, k) == [ts EXCEPT ![walk[k]][Indices[v][k]].refs = @ + 1]

\* The table on the next level is missing: count it in the entry two levels
\* up, and insert the new one, which is `frame' and all zero.
WithTableUncounted(walk, v, frame) ==       \* Mutant: the count is left as it is
    LET n == Len(walk) IN
    [x \in DOMAIN tables \cup {frame} |->
        IF x = frame THEN EmptyTable
        ELSE IF x = walk[n] THEN [tables[x] EXCEPT ![Indices[v][n]] = Entry(frame, FALSE)]
        ELSE tables[x]]
WithTable(walk, v, frame) ==
    LET n == Len(walk)
        counted == IF n > 1 THEN Counted(tables, walk, v, n - 1) ELSE tables
    IN  [x \in DOMAIN tables \cup {frame} |->
            IF x = frame THEN EmptyTable
            ELSE IF x = walk[n] THEN [counted[x] EXCEPT ![Indices[v][n]] = Entry(frame, FALSE)]
            ELSE counted[x]]
MissesTable == map # None /\ map.depth > Last(map.v)
MapTable(frame) ==
    /\ MissesTable
    /\ tables' = WithTable(Walk(map.v), map.v, frame)
    /\ UNCHANGED <<root, map, view>>

\* All tables are there: count the page in the entry above, then write it.
MapCount ==
    /\ map # None /\ ~MissesTable /\ ~map.counted
    /\ tables' = Counted(tables, Walk(map.v), map.v, map.depth - 1)
    /\ map' = [map EXCEPT !.counted = TRUE]
    /\ UNCHANGED <<root, view>>

MapWrite ==
    /\ map # None /\ map.counted
    /\ tables' = [tables EXCEPT ![Walk(map.v)[map.depth]][Indices[map.v][map.depth]] =
                    Entry(map.raw, map.depth < Page4K)]
    /\ map' = None
    /\ view' = [v \in Pages |->
                  IF view[v] = None /\ v \in map.v .. map.v + PagesOf(map.depth) - 1
                  THEN [addr |-> map.raw, depth |-> map.depth] ELSE view[v]]
    /\ UNCHANGED root

-----------------------------------------------------------------------------
(* Properties *)

Used(f) == {i \in 0 .. Radix - 1 : tables[f][i] # None}

\* The counts are what a later unmap has to rely on: whenever no map_raw() is
\* in progress, every entry that points to a table holds the number of entries
\* in use there, through every order in which tables and pages are added.
RefCounts ==
    map = None =>
        \A f \in DOMAIN tables : \A i \in Used(f) :
            LET e == tables[f][i] IN
            e.addr \in DOMAIN tables /\ ~e.ps => e.refs = Cardinality(Used(e.addr))

\* The MMUs of all cores walk the tables while a core maps a page. After each
\* single write they see what they saw before, up to the last write, which adds
\* the page that was asked for and changes no other address.
MmuSeesView == \A v \in Pages : Translate(v) = view[v]
=============================================================================
