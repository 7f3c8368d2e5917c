--------------------------- MODULE VirtualMemory ---------------------------
(***************************************************************************)
(* ex4: a tree of page tables kept in the frames it maps.  A call walks    *)
(* from the root to its page; every entry that is missing takes a frame,   *)
(* from an empty table, from the unused frames or from a page that is      *)
(* evicted.  The search for that frame (traverse_page_table) is stated     *)
(* here by what it finds; PageTableTraversal checks this against the       *)
(* depth-first search of the code.                                         *)
(***************************************************************************)
EXTENDS Integers, FiniteSets, FiniteSetsExt, Functions

CONSTANTS
    OFFSET_WIDTH,
    PHYSICAL_ADDRESS_WIDTH,
    VIRTUAL_ADDRESS_WIDTH,
    Used,       \* the virtual addresses clients use, in the memory or not
    Written,    \* of these, the ones clients write
    Values      \* and the words they write

PAGE_SIZE == 2 ^ OFFSET_WIDTH
NUM_FRAMES == 2 ^ PHYSICAL_ADDRESS_WIDTH \div PAGE_SIZE
VIRTUAL_MEMORY_SIZE == 2 ^ VIRTUAL_ADDRESS_WIDTH
NUM_PAGES == VIRTUAL_MEMORY_SIZE \div PAGE_SIZE
PAGE_INDEX_WIDTH == VIRTUAL_ADDRESS_WIDTH - OFFSET_WIDTH
TABLES_DEPTH == (PAGE_INDEX_WIDTH + OFFSET_WIDTH - 1) \div OFFSET_WIDTH

\* Otherwise the last shift of page_get_index_depth is by a negative number.
ASSUME WidthsAssumption ==
    /\ OFFSET_WIDTH \in Nat \ {0}
    /\ PHYSICAL_ADDRESS_WIDTH \in Nat /\ VIRTUAL_ADDRESS_WIDTH \in Nat
    /\ PAGE_INDEX_WIDTH \in Nat \ {0}
    /\ PAGE_INDEX_WIDTH % OFFSET_WIDTH = 0

\* One path of tables and its page fit: otherwise the root would be evicted.
ASSUME RamAssumption == NUM_FRAMES >= TABLES_DEPTH + 1

ASSUME ClientAssumption ==
    /\ Used \subseteq Nat
    /\ Written \subseteq Used
    /\ Values \subseteq Nat /\ 0 \in Values

Frames == 0..(NUM_FRAMES - 1)
Offsets == 0..(PAGE_SIZE - 1)
Pages == 0..(NUM_PAGES - 1)
Depths == 0..TABLES_DEPTH

ROOT_FRAME == 0
ZeroFrame == [o \in Offsets |-> 0]
NoFrame == -1

VARIABLES
    ram,      \* RAM: the words of every frame
    swap,     \* swapFile: the pages evicted, with their words
    request,  \* the call being served and its arguments
    depth,    \* load_page: how far the walk has come
    node,     \* load_page: ancestor_node
    isNew,    \* load_page: is_new_page
    reply     \* the status and the word of the last call

vars == <<ram, swap, request, depth, node, isNew, reply>>

NoRequest == [op |-> "none", addr |-> 0, word |-> 0]
NoReply == [status |-> -1, word |-> 0]

\* The parts of a virtual address: its offset, its page, the indices of the tables.
va_get_page(va) == va \div PAGE_SIZE
va_get_offset(va) == va % PAGE_SIZE

page_get_index_depth(page, d) ==
    (page \div 2 ^ (PAGE_INDEX_WIDTH - OFFSET_WIDTH * (d + 1))) % PAGE_SIZE

\* Mutation: the last page is not next to the first.
StraightDistance(mapped, target) ==
    IF mapped < target THEN target - mapped ELSE mapped - target

get_cyclical_distance(mapped, target) ==
    LET dist == IF mapped < target THEN target - mapped ELSE mapped - target
    IN  Min({dist, NUM_PAGES - dist})

-----------------------------------------------------------------------------
(* The tree.  A page stands for its route; the routes in the order of a    *)
(* depth-first search are the pages in their order.                        *)

\* The frames on the route of a page, as far as they are mapped.
Route(page) ==
    LET r[d \in Depths] ==
            IF d = 0 THEN ROOT_FRAME
            ELSE LET table == r[d - 1]
                     f == IF table = NoFrame THEN ROOT_FRAME
                          ELSE ram[table][page_get_index_depth(page, d - 1)]
                 IN  IF f = ROOT_FRAME THEN NoFrame ELSE f
    IN  r

RouteLength(page) ==
    LET r == Route(page) IN Cardinality({d \in Depths \ {0} : r[d] # NoFrame})

RouteEnd(page) == Route(page)[RouteLength(page)]

\* The page is in the RAM, and where.
PageFrame(page) == Route(page)[TABLES_DEPTH]
Mapped(page) == PageFrame(page) # NoFrame

\* Mutation: the table that will host the new frame counts as well.
EndsInEmptyTableOrHost(page) ==
    /\ ~Mapped(page)
    /\ ram[RouteEnd(page)] = ZeroFrame
    /\ RouteEnd(page) # ROOT_FRAME

\* traverse_page_table: empty_table, for the routes that end in one.
EndsInEmptyTable(page) ==
    /\ ~Mapped(page)
    /\ ram[RouteEnd(page)] = ZeroFrame
    /\ RouteEnd(page) # node

\* traverse_page_table: the largest frame of the tree.
MaxFrame == Max(UNION {Range(Route(page)) : page \in Pages})

Target == va_get_page(request.addr)

\* Mutation: max_dist does not start at zero.
FarthestBeyondTwo ==
    {p \in Pages : /\ Mapped(p)
                   /\ get_cyclical_distance(p, Target) > 2
                   /\ \A q \in Pages : Mapped(q) => get_cyclical_distance(q, Target)
                                                     <= get_cyclical_distance(p, Target)}

\* traverse_page_table: max_dist_page may be any of these, the first is taken.
Farthest ==
    {p \in Pages : /\ Mapped(p)
                   /\ get_cyclical_distance(p, Target) > 0
                   /\ \A q \in Pages : Mapped(q) => get_cyclical_distance(q, Target)
                                                     <= get_cyclical_distance(p, Target)}

\* max_dist_page, max_dist_frame, max_dist_page_table; 0 when no page is mapped.
VictimPage == IF Farthest = {} THEN 0 ELSE Min(Farthest)
VictimFrame == IF Farthest = {} THEN ROOT_FRAME ELSE PageFrame(VictimPage)
VictimTable == IF Farthest = {} THEN ROOT_FRAME ELSE Route(VictimPage)[TABLES_DEPTH - 1]

-----------------------------------------------------------------------------
Idle == request = NoRequest
Walking == ~Idle /\ depth < TABLES_DEPTH
Arrived == ~Idle /\ depth = TABLES_DEPTH

\* The entry the walk is at.
Entry == page_get_index_depth(Target, depth)
Missing == Walking /\ ram[node][Entry] = ROOT_FRAME

Init ==
    /\ ram = [f \in Frames |-> ZeroFrame]
    /\ swap = [p \in {} |-> ZeroFrame]
    /\ request = NoRequest
    /\ depth = 0 /\ node = ROOT_FRAME /\ isNew = FALSE
    /\ reply = NoReply

\* VMread and VMwrite.
Call(op, va, w) ==
    /\ Idle
    /\ va < VIRTUAL_MEMORY_SIZE
    /\ request' = [op |-> op, addr |-> va, word |-> w]
    /\ reply' = NoReply
    /\ UNCHANGED <<ram, swap, depth, node, isNew>>

\* VMread refuses a null pointer for the word, too.
Refuse(va, noPlace) ==
    /\ Idle
    /\ va >= VIRTUAL_MEMORY_SIZE \/ noPlace
    /\ reply' = [status |-> 0, word |-> 0]
    /\ UNCHANGED <<ram, swap, request, depth, node, isNew>>

\* load_page: the entry is there.
Descend ==
    /\ Walking
    /\ ~Missing
    /\ node' = ram[node][Entry]
    /\ depth' = depth + 1
    /\ UNCHANGED <<ram, swap, request, isNew, reply>>

\* Mutation: the page is not restored after its frame was taken.
LinkSilently(m, f) ==
    /\ ram' = [m EXCEPT ![node][Entry] = f]
    /\ node' = f
    /\ depth' = depth + 1
    /\ UNCHANGED <<isNew, request, reply>>

\* The entry takes the frame f of a RAM that is m when f has been found.
Link(m, f) ==
    /\ ram' = [m EXCEPT ![node][Entry] = f]
    /\ node' = f
    /\ depth' = depth + 1
    /\ isNew' = TRUE
    /\ UNCHANGED <<request, reply>>

\* Mutation: a reused table stays linked where it was.
UnlinkNothing(page) == IF page \in Pages THEN ram ELSE <<>>

\* The RAM without the last link of a route.
Unlink(page) ==
    LET d == RouteLength(page) - 1
    IN  [ram EXCEPT ![Route(page)[d]][page_get_index_depth(page, d)] = ROOT_FRAME]

EmptyTables == {p \in Pages : EndsInEmptyTable(p)}

\* CASE 1: the first empty table, wherever it is, but not the one that is the host.
ReuseTable ==
    /\ Missing
    /\ EmptyTables # {}
    /\ LET page == Min(EmptyTables) IN Link(Unlink(page), RouteEnd(page))
    /\ UNCHANGED swap

\* Mutation: the frame after the last one counts.
HasUnusedOrLast == MaxFrame < NUM_FRAMES

HasUnused == MaxFrame + 1 < NUM_FRAMES

\* CASE 2.
TakeUnused ==
    /\ Missing
    /\ EmptyTables = {}
    /\ HasUnused
    /\ Link([ram EXCEPT ![MaxFrame + 1] = ZeroFrame], MaxFrame + 1)
    /\ UNCHANGED swap

\* Its assertion, that the page is not in the swap file, is a guard of Pager.
PMevict(f, page) ==
    swap' = [p \in DOMAIN swap \cup {page} |-> IF p = page THEN ram[f] ELSE swap[p]]

\* Mutation: the frame keeps the words of the evicted page.
ClearedLinkOnly(f, page, table) ==
    [ram EXCEPT ![table][page_get_index_depth(page, TABLES_DEPTH - 1)] = ROOT_FRAME]

\* Mutation: the table loses all its entries.
ClearedTable(f, page, table) == [ram EXCEPT ![table] = ZeroFrame, ![f] = ZeroFrame]

\* The RAM once the evicted page is unlinked and its frame zeroed.
Cleared(f, page, table) ==
    [ram EXCEPT ![table][page_get_index_depth(page, TABLES_DEPTH - 1)] = ROOT_FRAME,
                ![f] = ZeroFrame]

\* Mutation: a page is evicted though there is an empty table.
EvictBeforeReuse ==
    /\ Missing
    /\ ~HasUnused
    /\ PMevict(VictimFrame, VictimPage)
    /\ Link(Cleared(VictimFrame, VictimPage, VictimTable), VictimFrame)

\* CASE 3.
EvictPage ==
    /\ Missing
    /\ EmptyTables = {}
    /\ ~HasUnused
    /\ PMevict(VictimFrame, VictimPage)
    /\ Link(Cleared(VictimFrame, VictimPage, VictimTable), VictimFrame)

\* Mutation: the restored page stays in the swap file.
KeepInSwap(page) == page \in Pages /\ swap' = swap

Erase(page) == swap' = [p \in DOMAIN swap \ {page} |-> swap[p]]

\* PMrestore, after a walk that took a frame.
PMrestore ==
    /\ Arrived
    /\ isNew
    /\ ram' = IF Target \in DOMAIN swap THEN [ram EXCEPT ![node] = swap[Target]] ELSE ram
    /\ Erase(Target)
    /\ isNew' = FALSE
    /\ UNCHANGED <<request, depth, node, reply>>

\* The end of VMread and VMwrite: the locals of load_page are gone.
Return(word) ==
    /\ Arrived
    /\ ~isNew
    /\ reply' = [status |-> 1, word |-> word]
    /\ request' = NoRequest
    /\ depth' = 0 /\ node' = ROOT_FRAME /\ isNew' = FALSE
    /\ UNCHANGED swap

ReadWord ==
    /\ request.op = "read"
    /\ Return(ram[node][va_get_offset(request.addr)])
    /\ UNCHANGED ram

WriteWord ==
    /\ request.op = "write"
    /\ Return(0)
    /\ ram' = [ram EXCEPT ![node][va_get_offset(request.addr)] = request.word]

Next ==
    \/ \E va \in Used, noPlace \in BOOLEAN : Refuse(va, noPlace)
    \/ \E va \in Used : Call("read", va, 0)
    \/ \E va \in Written, w \in Values : Call("write", va, w)
    \/ Descend \/ ReuseTable \/ TakeUnused \/ EvictPage
    \/ PMrestore
    \/ ReadWord \/ WriteWord

Spec == Init /\ [][Next]_vars

-----------------------------------------------------------------------------
\* The nodes of the tree: a frame and the place it is linked at.
Prefix(page, d) == page \div 2 ^ (PAGE_INDEX_WIDTH - OFFSET_WIDTH * d)
Nodes ==
    {n \in {<<Route(p)[d], d, Prefix(p, d)>> : p \in Pages, d \in Depths} : n[1] # NoFrame}

\* Types: the entries of the tables are frames, the words of the pages, in the
\* RAM and in the swap file, are words of the clients.
TypeOK ==
    /\ ram \in [Frames -> [Offsets -> Frames \cup Values]]
    /\ \A n \in Nodes :
         ram[n[1]] \in [Offsets -> IF n[2] < TABLES_DEPTH THEN Frames ELSE Values]
    /\ DOMAIN swap \subseteq Pages
    /\ \A p \in DOMAIN swap : swap[p] \in [Offsets -> Values]
    /\ depth \in Depths /\ node \in Frames /\ isNew \in BOOLEAN

\* traverse_page_table, allocate_frame: a frame that is handed out is linked
\* nowhere else, so the tables remain a tree and no two pages share a frame.
FramesLinkedOnce == \A m, n \in Nodes : m[1] = n[1] => m = n

\* traverse_page_table: the largest frame of the tree says which frames are
\* unused, because every smaller one is a table or a page: none is ever lost.
NoFrameLost == {n[1] : n \in Nodes} = 0..MaxFrame

\* load_page: the frames that are taken on the way never pull the walk off its
\* route, neither by a table reused nor by the link reset for an eviction.
WalkOnRoute == node = Route(Target)[depth]

\* allocate_frame: what the frame held before is never taken for entries of the
\* new table, nor for the words of a page used for the first time.
NewFrameBlank == isNew => ram[node] = ZeroFrame

\* PMevict, PMrestore: no page is in the RAM and in the swap file at once,
\* the one that is about to be restored apart.
RamOrSwap ==
    \A p \in DOMAIN swap : Mapped(p) => p = Target /\ Arrived /\ isNew

\* allocate_frame: when the RAM is full of frames in use one of them is a page
\* that can go; the root and the tables never do.
SomeoneToEvict == Missing /\ EmptyTables = {} /\ ~HasUnused => Farthest # {}

\* An eviction leaves at most one table empty, and the next frame comes from there.
OneEmptyTable == Cardinality({RouteEnd(p) : p \in EmptyTables}) <= 1

\* The pages and the swap file are a pager: what a call reads is in the frame its
\* walk arrives at, and the page evicted is the farthest.
Resident == {p \in Pages : Mapped(p) /\ ~(p = Target /\ Arrived /\ isNew)}
Memory == INSTANCE Pager WITH
    NumPages <- NUM_PAGES, PageSize <- PAGE_SIZE, Words <- Values,
    resident <- [p \in Resident |-> ram[PageFrame(p)]]
ImplementsPager == Memory!Spec

\* VirtualMemory.h: reads return what was last written, through every eviction.
ImplementsFlatMemory == Memory!Flat!Spec

=============================================================================
