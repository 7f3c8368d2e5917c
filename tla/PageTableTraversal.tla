------------------------- MODULE PageTableTraversal -------------------------
(***************************************************************************)
(* traverse_page_table as it is written: a depth-first search that carries *)
(* its out-parameters, stops at the first empty table and unlinks it on    *)
(* the way back.  VirtualMemory states what the search finds.  The calls   *)
(* are functions, one for each number of levels of tables below.           *)
(***************************************************************************)
EXTENDS VirtualMemory

\* allocate_frame: the out-parameters before the search.
Nothing == [ram |-> ram, empty |-> FALSE, dist |-> 0,
            frame |-> ROOT_FRAME, page |-> 0, table |-> ROOT_FRAME,
            max |-> 0, nonzero |-> 0, result |-> ROOT_FRAME]

\* Mutation: the last of the pages at the largest distance is remembered.
ConsiderLast(s, page, frame, table) ==
    LET dist == get_cyclical_distance(page, Target)
    IN  IF dist >= s.dist
        THEN [s EXCEPT !.dist = dist, !.frame = frame, !.page = page, !.table = table]
        ELSE s

\* Only a page farther than all before it is remembered.
Consider(s, page, frame, table) ==
    LET dist == get_cyclical_distance(page, Target)
    IN  IF dist > s.dist
        THEN [s EXCEPT !.dist = dist, !.frame = frame, !.page = page, !.table = table]
        ELSE s

\* The end of the loop over one table: is it an empty table, and not the host?
Finish(s, table) ==
    IF s.nonzero = 0 /\ table # node
    THEN [s EXCEPT !.empty = TRUE, !.result = table]
    ELSE [s EXCEPT !.result = Max({s.max, table})]

\* An entry that is not zero counts, and f is the largest frame below it.
Count(s, t, f) == [t EXCEPT !.max = Max({s.max, f}), !.nonzero = s.nonzero + 1]

\* The calls of the search: a table, the branch that leads to it, and what is known.
Knowledge == [ram : [Frames -> [Offsets -> Nat]], empty : BOOLEAN, dist : Nat,
              frame : Nat, page : Nat, table : Nat, max : Nat, nonzero : Nat, result : Nat]
Calls == [table : Frames, branch : Nat, s : Knowledge]

\* An entry of a table of tables: `below` searches one level down.
VisitTable(below, child, page, c, s, offset) ==
    LET t == below[[table |-> child, branch |-> page, s |-> [s EXCEPT !.max = 0, !.nonzero = 0]]]
    IN  IF ~t.empty THEN Count(s, t, t.result)
        ELSE IF t.result = child THEN [t EXCEPT !.ram[c.table][offset] = ROOT_FRAME]
        ELSE t

\* One entry, unless the search is over; the entries of the lowest tables are pages.
Visit(below, height, c, s, offset) ==
    LET child == s.ram[c.table][offset]
        page == c.branch * PAGE_SIZE + offset
    IN  IF s.empty \/ child = ROOT_FRAME THEN s
        ELSE IF height = 0 THEN Count(s, Consider(s, page, child, c.table), child)
        ELSE VisitTable(below, child, page, c, s, offset)

\* What is known after the first entries of the table.
Entries(below, height, c) ==
    LET loop[n \in 0..PAGE_SIZE] ==
            IF n = 0 THEN c.s ELSE Visit(below, height, c, loop[n - 1], n - 1)
    IN  loop

Scan(below, height, c) ==
    LET s == Entries(below, height, c)[PAGE_SIZE]
    IN  IF s.empty THEN s ELSE Finish(s, c.table)

\* The search through the tables with so many levels of tables below them.
Searches ==
    LET search[height \in 0..(TABLES_DEPTH - 1)] ==
            [c \in Calls |-> Scan(IF height = 0 THEN <<>> ELSE search[height - 1], height, c)]
    IN  search

\* The wrapper: the search starts at the root.
Search == Searches[TABLES_DEPTH - 1][[table |-> ROOT_FRAME, branch |-> 0, s |-> Nothing]]

\* traverse_page_table: the search of the code and its declarative statement in
\* VirtualMemory take the same frame, leave the same RAM and name the same victim.
SearchAgrees ==
    Missing =>
        LET s == Search
            first == Min(EmptyTables)
        IN  /\ s.empty <=> EmptyTables # {}
            /\ s.empty => s.result = RouteEnd(first) /\ s.ram = Unlink(first)
            /\ ~s.empty =>
                 /\ s.result = MaxFrame
                 /\ s.ram = ram
                 /\ <<s.page, s.frame, s.table>> = <<VictimPage, VictimFrame, VictimTable>>

=============================================================================
