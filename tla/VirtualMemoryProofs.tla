------------------------- MODULE VirtualMemoryProofs -------------------------
(***************************************************************************)
(* Theorems about VirtualMemory, for every width of addresses and offsets: *)
(* the tables remain a tree, no frame is lost or linked twice, the search  *)
(* for a frame finds what the model states of it, and the whole is a       *)
(* pager, so that reads return what was last written.                      *)
(***************************************************************************)
EXTENDS PageTreeProofs, PageTableTraversal

(***************************************************************************)
(* The inductive invariant                                                 *)
(***************************************************************************)
\* The frames of the tree are the first ones.
NoGap == \E k \in Frames : InTree(ram) = 0..k

\* The swap file holds words of pages.
SwapTyped ==
    /\ DOMAIN swap \subseteq Pages
    /\ \A p \in DOMAIN swap : swap[p] \in [Offsets -> Values]

\* The call that is served, and how far its walk has come.
RequestTyped ==
    request \in [op : {"none", "read", "write"}, addr : 0..(VIRTUAL_MEMORY_SIZE - 1),
                 word : Values]

WalkState ==
    /\ depth \in Depths /\ isNew \in BOOLEAN
    /\ node \in Frames /\ node = At(ram, Target, depth)
    /\ isNew => ram[node] = ZeroFrame
    /\ request.op = "none" => Idle
    /\ Idle => depth = 0 /\ node = ROOT_FRAME /\ ~isNew

\* A table without entries that is not n, the host of the next link.
EmptyNode(m, n, p, d) ==
    At(m, p, d) # NoFrame /\ At(m, p, d) # n /\ m[At(m, p, d)] = ZeroFrame

OneEmpty(m, n) ==
    \A p, q \in Pages, d, e \in 0..(TABLES_DEPTH - 1) :
        EmptyNode(m, n, p, d) /\ EmptyNode(m, n, q, e) => At(m, p, d) = At(m, q, e)

SwapApart ==
    \A p \in DOMAIN swap :
        At(ram, p, TABLES_DEPTH) # NoFrame => p = Target /\ Arrived /\ isNew

IInv ==
    /\ Tree(ram) /\ NoGap /\ SwapTyped /\ RequestTyped /\ WalkState
    /\ OneEmpty(ram, node) /\ SwapApart

(***************************************************************************)
(* The state in terms of the routes                                        *)
(***************************************************************************)
\* The operators of the model are those of the routes in its RAM.
LEMMA InTermsOfRoutes ==
    ASSUME NEW p \in Pages
    PROVE  /\ \A d : Route(p)[d] = At(ram, p, d)
           /\ RouteLength(p) = LengthIn(ram, p)
           /\ RouteEnd(p) = At(ram, p, LengthIn(ram, p))
           /\ PageFrame(p) = At(ram, p, TABLES_DEPTH)
           /\ Mapped(p) <=> At(ram, p, TABLES_DEPTH) # NoFrame
<1>1. \A d : Route(p)[d] = At(ram, p, d)
  BY RoutesAreIn DEF At
<1>2. RouteLength(p) = LengthIn(ram, p)
  BY <1>1 DEF RouteLength, LengthIn
<1> QED
  BY <1>1, <1>2 DEF RouteEnd, PageFrame, Mapped

\* The page of the call is a page.
LEMMA TargetIsPage ==
    ASSUME RequestTyped
    PROVE  Target \in Pages
<1>1. request.addr \in 0..(VIRTUAL_MEMORY_SIZE - 1)
  BY DEF RequestTyped
<1>2. /\ NUM_PAGES \in Nat \ {0} /\ PAGE_SIZE \in Nat \ {0}
      /\ VIRTUAL_MEMORY_SIZE = NUM_PAGES * PAGE_SIZE
  BY Sizes
<1>3. request.addr \in Nat /\ request.addr < NUM_PAGES * PAGE_SIZE
  BY <1>1, <1>2
<1>4. request.addr \div PAGE_SIZE < NUM_PAGES /\ request.addr \div PAGE_SIZE \in Nat
  BY <1>2, <1>3, Divisions
<1> QED
  BY <1>2, <1>4 DEF Target, va_get_page, Pages

\* A route that ends in an empty table ends where the search stops, and an empty
\* table is the end of a route.
LEMMA EmptyTableEnds ==
    ASSUME Tree(ram)
    PROVE  /\ EmptyTables \subseteq Pages
           /\ \A p \in EmptyTables :
                 /\ RouteLength(p) \in 0..(TABLES_DEPTH - 1)
                 /\ RouteEnd(p) = At(ram, p, RouteLength(p))
                 /\ EmptyNode(ram, node, p, RouteLength(p))
           /\ \A p \in Pages, d \in 0..(TABLES_DEPTH - 1) :
                 EmptyNode(ram, node, p, d) => p \in EmptyTables /\ RouteEnd(p) = At(ram, p, d)
<1>1. Depths = 0..TABLES_DEPTH /\ TABLES_DEPTH \in Nat \ {0}
  BY FrameNumbers
<1>2. ASSUME NEW p \in EmptyTables
      PROVE  /\ RouteLength(p) \in 0..(TABLES_DEPTH - 1)
             /\ RouteEnd(p) = At(ram, p, RouteLength(p))
             /\ EmptyNode(ram, node, p, RouteLength(p))
  <2>1. p \in Pages /\ EndsInEmptyTable(p)
    BY DEF EmptyTables
  <2>2. /\ RouteLength(p) = LengthIn(ram, p) /\ RouteEnd(p) = At(ram, p, LengthIn(ram, p))
        /\ Mapped(p) <=> At(ram, p, TABLES_DEPTH) # NoFrame
    BY <2>1, InTermsOfRoutes
  <2>3. /\ LengthIn(ram, p) \in Depths
        /\ \A d \in Depths : At(ram, p, d) # NoFrame <=> d <= LengthIn(ram, p)
    BY RouteLengths
  <2>4. ~Mapped(p) /\ ram[RouteEnd(p)] = ZeroFrame /\ RouteEnd(p) # node
    BY <2>1 DEF EndsInEmptyTable
  <2>5. LengthIn(ram, p) \in 0..(TABLES_DEPTH - 1)
    BY <1>1, <2>2, <2>3, <2>4
  <2>6. At(ram, p, LengthIn(ram, p)) # NoFrame
    BY <1>1, <2>3
  <2> QED
    BY <2>2, <2>4, <2>5, <2>6 DEF EmptyNode
<1>3. ASSUME NEW p \in Pages, NEW d \in 0..(TABLES_DEPTH - 1), EmptyNode(ram, node, p, d)
      PROVE  p \in EmptyTables /\ RouteEnd(p) = At(ram, p, d)
  <2>1. At(ram, p, d) # NoFrame /\ At(ram, p, d) # node /\ ram[At(ram, p, d)] = ZeroFrame
    BY <1>3 DEF EmptyNode
  <2>2. page_get_index_depth(p, d) \in Offsets /\ d \in Depths /\ d + 1 \in Depths
    BY <1>1, Prefixes
  <2>3. ram[At(ram, p, d)][page_get_index_depth(p, d)] = ROOT_FRAME
    BY <2>1, <2>2 DEF ZeroFrame, ROOT_FRAME
  <2>4. At(ram, p, d + 1) = NoFrame
    BY <2>3, RouteSteps
  <2>5. /\ LengthIn(ram, p) \in Depths
        /\ \A e \in Depths : At(ram, p, e) # NoFrame <=> e <= LengthIn(ram, p)
    BY RouteLengths
  <2>6. LengthIn(ram, p) = d
    BY <1>1, <2>1, <2>2, <2>4, <2>5
  <2>7. At(ram, p, TABLES_DEPTH) = NoFrame
    BY <1>1, <2>5, <2>6
  <2> QED
    BY <2>1, <2>6, <2>7, InTermsOfRoutes DEF EmptyTables, EndsInEmptyTable
<1> QED
  BY <1>2, <1>3 DEF EmptyTables

\* The smallest of a set of pages is the one that Min gives.
LEMMA FirstPage ==
    ASSUME NEW S \in SUBSET Pages, S # {}
    PROVE  Min(S) \in S
<1>1. S \in SUBSET Nat
  BY FrameNumbers
<1>2. \E x \in S : \A y \in S : x <= y
  BY <1>1, Smallest
<1> QED
  BY <1>2 DEF Min

\* The largest frame of the tree.
LEMMA LargestFrame ==
    ASSUME Tree(ram), NEW k \in Frames, InTree(ram) = 0..k
    PROVE  MaxFrame = k
<1> DEFINE R == UNION {Range(Route(p)) : p \in Pages}
<1>1. ASSUME NEW p \in Pages PROVE Range(Route(p)) = {At(ram, p, d) : d \in Depths}
  <2>1. DOMAIN Route(p) = Depths /\ \A d : Route(p)[d] = At(ram, p, d)
    BY RoutesAreIn, RouteSteps, InTermsOfRoutes
  <2> QED
    BY <2>1 DEF Range
<1>2. \A x : x \in R <=> \E p \in Pages, d \in Depths : x = At(ram, p, d)
  BY <1>1
<1> HIDE DEF R
<1>3. k \in R /\ \A x \in R : x <= k
  <2>1. k \in Nat /\ NoFrame = -1
    BY FrameNumbers
  <2>2. k \in InTree(ram)
    BY <2>1
  <2>3. \A x \in R : x = NoFrame \/ x \in 0..k
    BY <1>2 DEF InTree
  <2> QED
    BY <1>2, <2>1, <2>2, <2>3 DEF InTree
<1>4. \A x \in R : x \in Int
  <2>1. \A p \in Pages, d \in Depths : At(ram, p, d) \in Frames \cup {NoFrame}
    BY RouteTypes DEF Tree
  <2>2. \A x \in Frames \cup {NoFrame} : x \in Int
    <3>1. Frames \subseteq Nat /\ NoFrame = -1
      BY FrameNumbers
    <3> QED
      BY <3>1
  <2>3. ASSUME NEW x \in R PROVE x \in Frames \cup {NoFrame}
    BY <1>2, <2>1
  <2> QED
    BY <2>2, <2>3
<1>5. Max(R) = k
  BY <1>3, <1>4 DEF Max
<1> QED
  BY <1>5 DEF MaxFrame, R

(***************************************************************************)
(* A frame linked at the entry the walk is at                              *)
(***************************************************************************)
\* Where the walk is when an entry is missing.
LEMMA WhereMissing ==
    ASSUME IInv, Missing
    PROVE  /\ Target \in Pages /\ depth \in 0..(TABLES_DEPTH - 1) /\ depth + 1 \in Depths
           /\ node = At(ram, Target, depth) /\ node \in Frames /\ At(ram, Target, depth) # NoFrame
           /\ Entry = page_get_index_depth(Target, depth) /\ Entry \in Offsets
           /\ ram[node][Entry] = ROOT_FRAME /\ ~Idle
           /\ At(ram, Target, TABLES_DEPTH) = NoFrame
<1>1. Target \in Pages
  BY TargetIsPage DEF IInv
<1>2. depth \in 0..(TABLES_DEPTH - 1) /\ depth + 1 \in Depths
  BY FrameNumbers DEF IInv, WalkState, Missing, Walking
<1>3. /\ node = At(ram, Target, depth) /\ node \in Frames /\ node # NoFrame
      /\ ram[node][Entry] = ROOT_FRAME /\ ~Idle
  BY FrameNumbers DEF IInv, WalkState, Missing, Walking
<1>4. Entry = page_get_index_depth(Target, depth) /\ Entry \in Offsets
  BY <1>1, <1>2, Prefixes DEF Entry
<1>5. At(ram, Target, TABLES_DEPTH) = NoFrame
  <2>1. At(ram, Target, depth + 1) = NoFrame
    BY <1>2, <1>3, <1>4, RouteSteps
  <2>2. TABLES_DEPTH \in Depths /\ depth + 1 \in 0..TABLES_DEPTH
    BY <1>2, FrameNumbers
  <2> QED
    BY <2>1, <2>2, RouteDown
<1> QED
  BY <1>1, <1>2, <1>3, <1>4, <1>5

\* The RAM m when the frame f has been found: f is blank and linked nowhere, all
\* else is where it was, and besides f only the table t is changed.
Found(m, f, t) ==
    /\ Tree(m) /\ f \in Frames /\ f # node /\ m[f] = ZeroFrame
    /\ \A p \in Pages, e \in Depths :
          At(m, p, e) = IF At(ram, p, e) = f THEN NoFrame ELSE At(ram, p, e)
    /\ m[node][Entry] = ROOT_FRAME
    /\ \A u \in Frames : u # t /\ u # f => m[u] = ram[u]

\* Linking it changes the route of the target, and of no other page but those
\* that f was on.
LEMMA LinkRoutes ==
    ASSUME IInv, Missing, NEW m, NEW f, NEW t, Found(m, f, t), Link(m, f)
    PROVE  /\ Tree(ram') /\ ram'[f] = ZeroFrame
           /\ ram' = Put(m, node, Entry, f)
           /\ \A p \in Pages, e \in Depths :
                 At(ram', p, e) =
                     IF e = depth + 1 /\ Prefix(p, depth + 1) = Prefix(Target, depth + 1) THEN f
                     ELSE IF At(ram, p, e) = f THEN NoFrame ELSE At(ram, p, e)
<1>1. /\ Target \in Pages /\ depth \in 0..(TABLES_DEPTH - 1) /\ depth \in Depths
      /\ node = At(ram, Target, depth) /\ node # NoFrame
      /\ Entry = page_get_index_depth(Target, depth)
  BY WhereMissing, FrameNumbers
<1>2. At(m, Target, depth) = node
  BY <1>1 DEF Found
<1>3. ram' = Put(m, node, Entry, f)
  BY DEF Link, Put
<1>4. f \notin InTree(m)
  BY FrameNumbers DEF Found, InTree
<1>5. /\ Tree(m) /\ f \in Frames /\ m[f] = ZeroFrame
      /\ m[At(m, Target, depth)][page_get_index_depth(Target, depth)] = ROOT_FRAME
      /\ ram' = Put(m, At(m, Target, depth), page_get_index_depth(Target, depth), f)
  BY <1>1, <1>2, <1>3 DEF Found
<1>6. /\ Tree(ram') /\ ram'[f] = ZeroFrame
      /\ \A p \in Pages, e \in Depths :
            At(ram', p, e) =
                IF e = depth + 1 /\ Prefix(p, depth + 1) = Prefix(Target, depth + 1) THEN f
                ELSE At(m, p, e)
  BY <1>1, <1>2, <1>4, <1>5, Linking
<1> QED
  BY <1>3, <1>6 DEF Found

\* The walk goes on at the linked frame.
LEMMA LinkWalk ==
    ASSUME IInv, Missing, NEW m, NEW f, NEW t, Found(m, f, t), Link(m, f)
    PROVE  WalkState' /\ RequestTyped' /\ Target' = Target
<1>1. /\ depth \in 0..(TABLES_DEPTH - 1) /\ depth + 1 \in Depths /\ ~Idle /\ Target \in Pages
  BY WhereMissing
<1>2. /\ request' = request /\ node' = f /\ depth' = depth + 1 /\ isNew' = TRUE
      /\ f \in Frames
  BY DEF Link, Found
<1>3. Target' = Target /\ (Idle' <=> Idle) /\ RequestTyped'
  BY <1>2 DEF Target, Idle, IInv, RequestTyped
<1>4. At(ram', Target, depth + 1) = f /\ ram'[f] = ZeroFrame
  BY <1>1, LinkRoutes
<1>5. request.op # "none"
  BY <1>1 DEF IInv, WalkState
<1> QED
  BY <1>1, <1>2, <1>3, <1>4, <1>5 DEF WalkState

\* The tree has one frame more, or as many as before.
LEMMA LinkFrames ==
    ASSUME IInv, Missing, NEW m, NEW f, NEW t, Found(m, f, t), Link(m, f)
    PROVE  InTree(ram') = InTree(ram) \cup {f}
<1>1. /\ Target \in Pages /\ depth + 1 \in Depths
      /\ \A p \in Pages, e \in Depths :
            At(ram', p, e) =
                IF e = depth + 1 /\ Prefix(p, depth + 1) = Prefix(Target, depth + 1) THEN f
                ELSE IF At(ram, p, e) = f THEN NoFrame ELSE At(ram, p, e)
  BY WhereMissing, LinkRoutes
<1>2. At(ram', Target, depth + 1) = f /\ f # NoFrame
  BY <1>1, FrameNumbers DEF Found
<1>3. ASSUME NEW x \in InTree(ram') PROVE x \in InTree(ram) \cup {f}
  <2>1. PICK p \in Pages, e \in Depths : x = At(ram', p, e) /\ x # NoFrame
    BY DEF InTree
  <2> QED
    BY <1>1, <2>1 DEF InTree
<1>4. ASSUME NEW x \in InTree(ram), x # f PROVE x \in InTree(ram')
  <2>1. PICK p \in Pages, e \in Depths : x = At(ram, p, e) /\ x # NoFrame
    BY DEF InTree
  <2>2. ~(e = depth + 1 /\ Prefix(p, depth + 1) = Prefix(Target, depth + 1))
    <3>1. At(ram, Target, depth + 1) = NoFrame
      BY WhereMissing, RouteSteps
    <3>2. depth + 1 \in 0..(depth + 1)
      BY <1>1, FrameNumbers
    <3> QED
      BY <1>1, <2>1, <3>1, <3>2, RouteOfPrefix
  <2>3. At(ram', p, e) = x
    BY <1>1, <1>4, <2>1, <2>2
  <2> QED
    BY <2>1, <2>3 DEF InTree
<1>5. f \in InTree(ram')
  BY <1>1, <1>2 DEF InTree
<1> QED
  BY <1>3, <1>4, <1>5

\* At most the table that lost a link is left empty.
LEMMA LinkEmpties ==
    ASSUME IInv, Missing, NEW m, NEW f, NEW t, Found(m, f, t), Link(m, f),
           \A p \in Pages, d \in 0..(TABLES_DEPTH - 1) :
               EmptyNode(ram, node, p, d) => At(ram, p, d) = f
    PROVE  OneEmpty(ram, node)'
<1>1. /\ Target \in Pages /\ Entry \in Offsets /\ node \in Frames /\ TABLES_DEPTH \in Nat
      /\ ram' = Put(m, node, Entry, f)
      /\ \A p \in Pages, e \in Depths :
            At(ram', p, e) =
                IF e = depth + 1 /\ Prefix(p, depth + 1) = Prefix(Target, depth + 1) THEN f
                ELSE IF At(ram, p, e) = f THEN NoFrame ELSE At(ram, p, e)
  BY WhereMissing, LinkRoutes, FrameNumbers
<1>2. node' = f /\ f \in Frames /\ f # ROOT_FRAME
  <2>1. At(ram', Target, 0) = ROOT_FRAME /\ At(ram, Target, 0) = ROOT_FRAME
        /\ ROOT_FRAME # NoFrame /\ 0 \in Depths /\ 0 # depth + 1
    BY RouteSteps, WhereMissing, FrameNumbers
  <2>2. f # ROOT_FRAME
    BY <1>1, <2>1
  <2> QED
    BY <2>2 DEF Link, Found
<1>3. \A u \in Frames, x \in Offsets :
         ram'[u][x] = IF u = node /\ x = Entry THEN f ELSE m[u][x]
  <2>1. m \in [Frames -> [Offsets -> Frames \cup Values]]
    BY DEF Found, Tree, FramesTyped
  <2> QED
    BY <1>1, <1>2, <2>1, PutWord
<1>4. \A u \in Frames : u # node => ram'[u] = m[u]
  <2>1. m \in [Frames -> [Offsets -> Frames \cup Values]]
    BY DEF Found, Tree, FramesTyped
  <2> QED
    BY <1>1, <1>2, <2>1, PutWord
<1>5. ASSUME NEW p \in Pages, NEW d \in 0..(TABLES_DEPTH - 1), EmptyNode(ram', f, p, d)
      PROVE  At(ram', p, d) = t
  <2>1. /\ At(ram', p, d) # NoFrame /\ At(ram', p, d) # f /\ ram'[At(ram', p, d)] = ZeroFrame
        /\ d \in Depths
    BY <1>5, FrameNumbers DEF EmptyNode
  <2>2. At(ram', p, d) = At(ram, p, d)
    BY <1>1, <2>1
  <2>3. At(ram, p, d) \in Frames
    BY <2>1, <2>2, RouteTypes DEF IInv, Tree
  <2>4. At(ram, p, d) # node
    <3>1. ram'[node][Entry] = f
      BY <1>1, <1>3
    <3>2. ZeroFrame[Entry] = ROOT_FRAME
      BY <1>1 DEF ZeroFrame, ROOT_FRAME
    <3> QED
      BY <1>2, <2>1, <2>2, <3>1, <3>2
  <2>5. ~EmptyNode(ram, node, p, d)
    BY <2>1, <2>2
  <2>6. ram[At(ram, p, d)] # ZeroFrame
    BY <2>1, <2>2, <2>4, <2>5 DEF EmptyNode
  <2>7. m[At(ram, p, d)] = ZeroFrame
    BY <1>4, <2>1, <2>2, <2>3, <2>4
  <2> QED
    BY <2>1, <2>2, <2>3, <2>6, <2>7 DEF Found
<1> QED
  BY <1>2, <1>5 DEF OneEmpty

\* No page comes into the RAM but the target, so none that is in the swap file.
LEMMA LinkSwap ==
    ASSUME IInv, Missing, NEW m, NEW f, NEW t, Found(m, f, t), Link(m, f),
           SwapTyped',
           \A p \in DOMAIN swap' : p \in DOMAIN swap \/ At(ram, p, TABLES_DEPTH) = f
    PROVE  SwapApart'
<1>1. /\ Target \in Pages /\ depth \in 0..(TABLES_DEPTH - 1) /\ ~Arrived
      /\ \A p \in Pages, e \in Depths :
            At(ram', p, e) =
                IF e = depth + 1 /\ Prefix(p, depth + 1) = Prefix(Target, depth + 1) THEN f
                ELSE IF At(ram, p, e) = f THEN NoFrame ELSE At(ram, p, e)
  BY WhereMissing, LinkRoutes, FrameNumbers DEF Missing, Walking, Arrived
<1>2. /\ Target' = Target /\ depth' = depth + 1 /\ isNew' /\ ~Idle'
  BY LinkWalk, WhereMissing DEF Link, Idle
<1>3. ASSUME NEW p \in DOMAIN swap', At(ram', p, TABLES_DEPTH) # NoFrame
      PROVE  p = Target' /\ Arrived' /\ isNew'
  <2>1. p \in Pages /\ TABLES_DEPTH \in Depths
    BY FrameNumbers DEF SwapTyped
  <2>2. CASE TABLES_DEPTH = depth + 1 /\ Prefix(p, depth + 1) = Prefix(Target, depth + 1)
    <3>1. p = Target
      BY <1>1, <2>1, <2>2, Prefixes
    <3> QED
      BY <1>2, <2>2, <3>1 DEF Arrived
  <2>3. CASE ~(TABLES_DEPTH = depth + 1 /\ Prefix(p, depth + 1) = Prefix(Target, depth + 1))
    <3>1. At(ram, p, TABLES_DEPTH) # f /\ At(ram, p, TABLES_DEPTH) # NoFrame
      BY <1>1, <1>3, <2>1, <2>3
    <3>2. p \in DOMAIN swap
      BY <3>1
    <3> QED
      BY <1>1, <3>1, <3>2 DEF IInv, SwapApart
  <2> QED
    BY <2>2, <2>3
<1> QED
  BY <1>3 DEF SwapApart

(***************************************************************************)
(* The three ways to find a frame                                          *)
(***************************************************************************)
\* The route and the table above the empty table that is reused.
LEMMA ReuseFinds ==
    ASSUME IInv, Missing, EmptyTables # {}
    PROVE  LET p == Min(EmptyTables)
               f == RouteEnd(p)
           IN  /\ p \in Pages /\ RouteLength(p) \in 1..(TABLES_DEPTH - 1)
               /\ f = At(ram, p, RouteLength(p))
               /\ f \in InTree(ram) /\ ram[f] = ZeroFrame
               /\ Found(Unlink(p), f, At(ram, p, RouteLength(p) - 1))
               /\ \A q \in Pages, d \in 0..(TABLES_DEPTH - 1) :
                     EmptyNode(ram, node, q, d) => At(ram, q, d) = f
<1> DEFINE p == Min(EmptyTables)
           f == RouteEnd(p)
           l == RouteLength(p)
           d == l - 1
           t == At(ram, p, d)
           o == page_get_index_depth(p, d)
<1>1. Tree(ram) /\ OneEmpty(ram, node)
  BY DEF IInv
<1>2. /\ p \in Pages /\ l \in 0..(TABLES_DEPTH - 1) /\ f = At(ram, p, l)
      /\ EmptyNode(ram, node, p, l)
  BY <1>1, EmptyTableEnds, FirstPage
<1>3. f # NoFrame /\ f # node /\ ram[f] = ZeroFrame
  BY <1>2 DEF EmptyNode
<1>4. /\ Target \in Pages /\ node = At(ram, Target, depth) /\ node \in Frames
      /\ Entry \in Offsets /\ ram[node][Entry] = ROOT_FRAME /\ depth \in 0..(TABLES_DEPTH - 1)
      /\ Entry = page_get_index_depth(Target, depth)
  BY WhereMissing
<1>5. l # 0
  <2>1. ASSUME l = 0 PROVE FALSE
    <3>1. f = At(ram, p, 0) /\ At(ram, p, 0) = ROOT_FRAME /\ At(ram, Target, 0) = ROOT_FRAME
      BY <1>2, <2>1, RouteSteps
    <3>2. depth # 0
      BY <1>3, <1>4, <3>1
    <3>3. 1 \in 0..depth /\ depth \in Depths /\ node # NoFrame /\ 0 + 1 = 1
          /\ 0 \in 0..(TABLES_DEPTH - 1)
      BY <1>4, <3>2, FrameNumbers
    <3>4. At(ram, Target, 0 + 1) # NoFrame
      BY <1>4, <3>3, RouteDown
    <3>5. ram[ROOT_FRAME][page_get_index_depth(Target, 0)] # ROOT_FRAME
      BY <3>1, <3>3, <3>4, RouteSteps
    <3>6. page_get_index_depth(Target, 0) \in Offsets
      BY <1>4, <3>3, Prefixes
    <3> QED
      BY <1>3, <3>1, <3>5, <3>6 DEF ZeroFrame, ROOT_FRAME
  <2> QED
    BY <2>1
<1>6. l \in 1..(TABLES_DEPTH - 1) /\ d \in 0..(TABLES_DEPTH - 1) /\ d + 1 = l /\ d \in 0..l
      /\ l \in Depths /\ d \in Depths
  BY <1>2, <1>5, FrameNumbers
<1>7. Unlink(p) = Put(ram, t, o, ROOT_FRAME)
  <2>1. Route(p)[d] = t
    BY <1>2, InTermsOfRoutes
  <2> QED
    BY <2>1 DEF Unlink, Put
<1>8. t # NoFrame /\ t # f /\ t \in Frames /\ f \in Frames /\ o \in Offsets
  <2>1. t # NoFrame
    BY <1>2, <1>3, <1>6, RouteDown
  <2>2. t # f
    BY <1>1, <1>2, <1>3, <1>6 DEF Tree, LinkedOnce
  <2>3. t \in Frames /\ f \in Frames
    BY <1>1, <1>2, <1>3, <1>6, <2>1, RouteTypes DEF Tree
  <2>4. o \in Offsets
    BY <1>2, <1>6, Prefixes
  <2> QED
    BY <2>1, <2>2, <2>3, <2>4
<1> HIDE DEF p, f, d, t, o
<1>9. /\ Tree(Unlink(p))
      /\ \A q \in Pages, e \in Depths :
            At(Unlink(p), q, e) = IF At(ram, q, e) = f THEN NoFrame ELSE At(ram, q, e)
  <2>1. At(ram, p, d + 1) # NoFrame /\ ram[At(ram, p, d + 1)] = ZeroFrame
    BY <1>2, <1>3, <1>6
  <2>2. Unlink(p) = Put(ram, At(ram, p, d), page_get_index_depth(p, d), ROOT_FRAME)
    BY <1>7 DEF t, o
  <2>3. f = At(ram, p, d + 1)
    BY <1>2, <1>6
  <2> QED
    BY <1>1, <1>2, <1>6, <2>1, <2>2, <2>3, UnlinkingLeaf
<1>10. ram \in [Frames -> [Offsets -> Frames \cup Values]] /\ ROOT_FRAME \in Frames \cup Values
  BY <1>1, FrameNumbers DEF Tree, FramesTyped
<1>11. /\ \A u \in Frames : u # t => Unlink(p)[u] = ram[u]
       /\ \A u \in Frames, x \in Offsets :
             Unlink(p)[u][x] = IF u = t /\ x = o THEN ROOT_FRAME ELSE ram[u][x]
  <2> HIDE DEF p, f, t, o, d, l
  <2>1. \A u \in Frames : u # t => Put(ram, t, o, ROOT_FRAME)[u] = ram[u]
    <3>1. DOMAIN ram = Frames
      BY <1>10
    <3> QED
      BY <3>1, PutOther
  <2>2. \A u \in Frames, x \in Offsets :
           Put(ram, t, o, ROOT_FRAME)[u][x] = IF u = t /\ x = o THEN ROOT_FRAME ELSE ram[u][x]
    <3>1. t \in Frames /\ o \in Offsets
      BY <1>8
    <3>2. ROOT_FRAME \in Frames \cup Values /\ ram \in [Frames -> [Offsets -> Frames \cup Values]]
      BY <1>10
    <3> QED
      BY <3>1, <3>2, PutWord
  <2> QED
    BY <1>7, <2>1, <2>2
<1>12. Unlink(p)[f] = ZeroFrame /\ Unlink(p)[node][Entry] = ROOT_FRAME
  BY <1>3, <1>4, <1>8, <1>11
<1>13. Found(Unlink(p), f, t)
  BY <1>3, <1>8, <1>9, <1>11, <1>12 DEF Found
<1>14. f \in InTree(ram)
  BY <1>2, <1>3, <1>6 DEF InTree
<1>15. ASSUME NEW q \in Pages, NEW e \in 0..(TABLES_DEPTH - 1), EmptyNode(ram, node, q, e)
       PROVE  At(ram, q, e) = f
  BY <1>1, <1>2, <1>15 DEF OneEmpty
<1> QED
  BY <1>2, <1>3, <1>6, <1>13, <1>14, <1>15 DEF p, f, t, d

\* The frame after the last one of the tree.
LEMMA TakeFinds ==
    ASSUME IInv, Missing, EmptyTables = {}, HasUnused
    PROVE  LET f == MaxFrame + 1
           IN  /\ Found([ram EXCEPT ![f] = ZeroFrame], f, f)
               /\ f \in Frames /\ f \notin InTree(ram) /\ InTree(ram) = 0..MaxFrame
               /\ \A q \in Pages, d \in 0..(TABLES_DEPTH - 1) : ~EmptyNode(ram, node, q, d)
<1>1. PICK k \in Frames : InTree(ram) = 0..k
  BY DEF IInv, NoGap
<1>2. MaxFrame = k /\ Tree(ram)
  BY <1>1, LargestFrame DEF IInv
<1> DEFINE f == k + 1
           m == [ram EXCEPT ![f] = ZeroFrame]
<1>3. f \in Frames /\ f \notin InTree(ram)
  <2>1. k \in Nat /\ k + 1 < NUM_FRAMES /\ NUM_FRAMES \in Nat
    BY <1>2, Sizes, FrameNumbers DEF HasUnused
  <2> QED
    BY <1>1, <2>1 DEF Frames
<1>4. \A p \in Pages, e \in Depths : At(ram, p, e) # f
  <2>1. f # NoFrame
    BY <1>3, FrameNumbers
  <2> HIDE DEF f, m
  <2> QED
    BY <1>3, <2>1 DEF InTree
<1>5. /\ ram \in [Frames -> [Offsets -> Frames \cup Values]]
      /\ ZeroFrame \in [Offsets -> Frames \cup Values]
  BY <1>2, FrameNumbers DEF Tree, FramesTyped
<1>6. /\ m \in [Frames -> [Offsets -> Frames \cup Values]] /\ m[f] = ZeroFrame
      /\ \A u \in Frames : u # f => m[u] = ram[u]
  BY <1>3, <1>5
<1> HIDE DEF f, m
<1>7. ASSUME NEW p \in Pages, NEW d \in Depths, At(ram, p, d) # NoFrame
      PROVE  /\ m[At(ram, p, d)] = ram[At(ram, p, d)]
             /\ d = TABLES_DEPTH => m[At(ram, p, d)] \in [Offsets -> Values]
  <2>1. At(ram, p, d) \in Frames
    BY <1>2, <1>7, RouteTypes DEF Tree
  <2>2. m[At(ram, p, d)] = ram[At(ram, p, d)]
    BY <1>4, <1>6, <2>1
  <2>3. ram[At(ram, p, d)] \in [Offsets -> IF d < TABLES_DEPTH THEN Frames ELSE Values]
    BY <1>2, <1>7 DEF Tree, FramesTyped
  <2>4. ~(TABLES_DEPTH < TABLES_DEPTH)
    BY FrameNumbers
  <2> QED
    BY <2>2, <2>3, <2>4
<1>8. Tree(m) /\ \A p \in Pages, e \in Depths : At(m, p, e) = At(ram, p, e)
  <2>1. \A d \in Depths : ~(d < TABLES_DEPTH) => d = TABLES_DEPTH
    BY FrameNumbers
  <2> QED
    BY <1>2, <1>6, <1>7, <2>1, Rewriting
<1>9. /\ node \in Frames /\ node = At(ram, Target, depth) /\ Target \in Pages /\ depth \in Depths
      /\ ram[node][Entry] = ROOT_FRAME
  BY WhereMissing, FrameNumbers
<1>10. Found(m, f, f)
  BY <1>3, <1>4, <1>6, <1>8, <1>9 DEF Found
<1>11. ASSUME NEW q \in Pages, NEW d \in 0..(TABLES_DEPTH - 1) PROVE ~EmptyNode(ram, node, q, d)
  BY <1>2, EmptyTableEnds
<1> QED
  BY <1>1, <1>2, <1>3, <1>10, <1>11 DEF f, m

\* When no page is in the RAM and no table is empty but the one the walk is at,
\* every table is on the way to there.
LEMMA OnlyTheWalk ==
    ASSUME IInv, Missing, EmptyTables = {}, \A p \in Pages : ~Mapped(p)
    PROVE  InTree(ram) \subseteq {At(ram, Target, d) : d \in 0..depth}
<1>1. /\ Tree(ram) /\ Target \in Pages /\ depth \in 0..(TABLES_DEPTH - 1) /\ depth \in Depths
      /\ node = At(ram, Target, depth) /\ node # NoFrame
      /\ TABLES_DEPTH \in Nat /\ Depths = 0..TABLES_DEPTH
  BY WhereMissing, FrameNumbers DEF IInv
<1>2. ASSUME NEW x \in InTree(ram) PROVE \E d \in 0..depth : x = At(ram, Target, d)
  <2>1. PICK p \in Pages, d \in Depths : x = At(ram, p, d) /\ x # NoFrame
    BY DEF InTree
  <2> DEFINE B == {e \in Depths : e >= d /\ \E q \in Pages : /\ Prefix(q, d) = Prefix(p, d)
                                                            /\ At(ram, q, e) # NoFrame}
  <2>2. B \in SUBSET Int /\ B # {} /\ \A e \in B : e <= TABLES_DEPTH
    <3>1. d >= d
      BY <1>1
    <3>2. d \in B
      BY <2>1, <3>1
    <3>3. \A e \in Depths : e \in Int /\ e <= TABLES_DEPTH
      BY <1>1
    <3>4. B \subseteq Depths
      OBVIOUS
    <3> HIDE DEF B
    <3> QED
      BY <3>2, <3>3, <3>4
  <2> HIDE DEF B
  <2>3. PICK e \in B : \A i \in B : i <= e
    <3>1. TABLES_DEPTH \in Int
      BY <1>1
    <3> QED
      BY <2>2, <3>1, BoundedMax
  <2>4. PICK q \in Pages : e \in Depths /\ e >= d /\ Prefix(q, d) = Prefix(p, d)
                           /\ At(ram, q, e) # NoFrame
    BY DEF B
  <2>5. e \in 0..(TABLES_DEPTH - 1) /\ e + 1 \in Depths /\ d \in 0..e /\ e \in 0..e
    <3>1. At(ram, q, TABLES_DEPTH) = NoFrame
      BY InTermsOfRoutes
    <3>2. e # TABLES_DEPTH
      BY <2>4, <3>1
    <3> QED
      BY <1>1, <2>1, <2>4, <3>2
  <2>6. ASSUME NEW o \in Offsets PROVE ram[At(ram, q, e)][o] = ROOT_FRAME
    <3>1. PICK r \in Pages : Prefix(r, e) = Prefix(q, e) /\ page_get_index_depth(r, e) = o
      BY <2>5, Branch
    <3>2. At(ram, r, e) = At(ram, q, e)
      BY <2>4, <2>5, <3>1, RouteOfPrefix
    <3>3. Prefix(r, d) = Prefix(p, d)
      BY <2>4, <2>5, <3>1, PrefixUp
    <3>4. e + 1 \notin B
      BY <1>1, <2>3, <2>5
    <3>5. e + 1 >= d
      BY <1>1, <2>4, <2>5
    <3>6. At(ram, r, e + 1) = NoFrame
      BY <2>5, <3>3, <3>4, <3>5 DEF B
    <3>7. At(ram, r, e + 1) =
            IF At(ram, r, e) = NoFrame \/ ram[At(ram, r, e)][o] = ROOT_FRAME THEN NoFrame
            ELSE ram[At(ram, r, e)][o]
      BY <2>5, <3>1, RouteSteps
    <3>8. ram[At(ram, q, e)] \in [Offsets -> Frames]
      BY <1>1, <2>4, <2>5, FrameNumbers DEF Tree, FramesTyped
    <3> QED
      BY <2>4, <3>2, <3>6, <3>7, <3>8, FrameNumbers
  <2>7. ram[At(ram, q, e)] = ZeroFrame
    <3>1. ram[At(ram, q, e)] \in [Offsets -> Frames]
      BY <1>1, <2>4, <2>5, FrameNumbers DEF Tree, FramesTyped
    <3> QED
      BY <2>6, <3>1 DEF ZeroFrame, ROOT_FRAME
  <2>8. At(ram, q, e) = node
    <3>1. ~EmptyNode(ram, node, q, e)
      BY <1>1, <2>5, EmptyTableEnds
    <3> QED
      BY <2>4, <2>7, <3>1 DEF EmptyNode
  <2>9. e = depth /\ Prefix(q, e) = Prefix(Target, e)
    BY <1>1, <2>4, <2>8 DEF Tree, LinkedOnce
  <2>10. Prefix(Target, d) = Prefix(p, d)
    BY <1>1, <2>4, <2>5, <2>9, PrefixUp
  <2>11. d \in 0..d
    BY <1>1, <2>1
  <2>12. At(ram, Target, d) = x
    BY <1>1, <2>1, <2>10, <2>11, RouteOfPrefix
  <2> QED
    BY <2>5, <2>9, <2>12
<1> QED
  BY <1>2

\* These are fewer than the frames: a page is in the RAM when all frames are used.
LEMMA SomeoneMapped ==
    ASSUME IInv, Missing, EmptyTables = {}, ~HasUnused
    PROVE  \E p \in Pages : Mapped(p)
<1> SUFFICES ASSUME \A p \in Pages : ~Mapped(p) PROVE FALSE
  OBVIOUS
<1> DEFINE D == TABLES_DEPTH
           h == [d \in 0..depth |-> At(ram, Target, d)]
           T == {h[d] : d \in 0..depth}
<1>1. depth \in Nat /\ depth < D /\ D \in Nat /\ NUM_FRAMES \in Nat /\ NUM_FRAMES >= D + 1
  BY WhereMissing, FrameNumbers, Sizes, RamAssumption
<1>2. InTree(ram) \subseteq T
  <2>1. T = {At(ram, Target, d) : d \in 0..depth}
    OBVIOUS
  <2> HIDE DEF T
  <2> QED
    BY <2>1, OnlyTheWalk
<1>3. PICK k \in Frames : InTree(ram) = 0..k
  BY DEF IInv, NoGap
<1>4. k = NUM_FRAMES - 1
  <2>1. MaxFrame = k
    BY <1>3, LargestFrame DEF IInv
  <2>2. k \in Nat /\ k <= NUM_FRAMES - 1
    BY <1>1 DEF Frames
  <2> QED
    BY <1>1, <2>1, <2>2 DEF HasUnused
<1>5. h \in Surjection(0..depth, T)
  BY DEF Surjection
<1> HIDE DEF h, T, D
<1>6. IsFiniteSet(0..depth) /\ Cardinality(0..depth) = depth + 1
  <2>1. /\ IsFiniteSet(0..depth)
        /\ Cardinality(0..depth) = IF 0 > depth THEN 0 ELSE depth - 0 + 1
    BY <1>1, FS_Interval
  <2> QED
    BY <1>1, <2>1
<1>7. IsFiniteSet(T) /\ Cardinality(T) <= depth + 1
  BY <1>5, <1>6, FS_Surjection
<1>8. Cardinality(InTree(ram)) <= Cardinality(T)
  BY <1>2, <1>7, FS_Subset
<1>9. Cardinality(InTree(ram)) = NUM_FRAMES
  <2>1. InTree(ram) = 0..(NUM_FRAMES - 1)
    BY <1>3, <1>4
  <2>2. Cardinality(0..(NUM_FRAMES - 1)) =
          IF 0 > NUM_FRAMES - 1 THEN 0 ELSE (NUM_FRAMES - 1) - 0 + 1
    BY <1>1, FS_Interval
  <2> QED
    BY <1>1, <2>1, <2>2
<1>10. Cardinality(T) \in Nat
  BY <1>7, FS_CardinalityType
<1> QED
  BY <1>1, <1>7, <1>8, <1>9, <1>10

\* The distance of two pages, which is zero for a page and itself only.
LEMMA CyclicalDistance ==
    ASSUME NEW p \in Pages, NEW q \in Pages
    PROVE  LET d == IF p < q THEN q - p ELSE p - q
           IN  /\ get_cyclical_distance(p, q) = IF d < NUM_PAGES - d THEN d ELSE NUM_PAGES - d
               /\ get_cyclical_distance(p, q) \in Int
               /\ get_cyclical_distance(p, q) <= NUM_PAGES
               /\ p # q => get_cyclical_distance(p, q) > 0
<1> DEFINE d == IF p < q THEN q - p ELSE p - q
           N == NUM_PAGES
           g == get_cyclical_distance(p, q)
<1>1. N \in Nat /\ p \in Nat /\ q \in Nat /\ p < N /\ q < N
  BY Sizes DEF Pages
<1>2. g = Min({d, N - d})
  BY DEF get_cyclical_distance
<1>3. d \in Int /\ N - d \in Int /\ d <= N /\ (p # q => d > 0 /\ N - d > 0)
  BY <1>1
<1> HIDE DEF d, N, g
<1>4. g = IF d < N - d THEN d ELSE N - d
  <2>1. \E x \in {d, N - d} : \A y \in {d, N - d} : x <= y
    BY <1>3
  <2>2. g \in {d, N - d} /\ \A y \in {d, N - d} : g <= y
    BY <1>2, <2>1 DEF Min
  <2> QED
    BY <1>3, <2>2
<1>5. g \in Int /\ g <= N /\ (p # q => g > 0)
  BY <1>1, <1>3, <1>4
<1> QED
  BY <1>4, <1>5 DEF d, N, g

\* A page in the RAM that is not the target can be evicted.
LEMMA FarthestExists ==
    ASSUME Target \in Pages, ~Mapped(Target), NEW p \in Pages, Mapped(p)
    PROVE  Farthest # {}
<1> DEFINE dist(q) == get_cyclical_distance(q, Target)
           S == {dist(q) : q \in {r \in Pages : Mapped(r)}}
<1>1. \A q \in Pages : dist(q) \in Int /\ dist(q) <= NUM_PAGES /\ (q # Target => dist(q) > 0)
  BY CyclicalDistance
<1> HIDE DEF dist
<1>2. S \in SUBSET Int /\ S # {} /\ \A x \in S : x <= NUM_PAGES
  BY <1>1
<1>3. NUM_PAGES \in Int
  BY Sizes
<1> HIDE DEF S
<1>4. PICK x \in S : \A y \in S : y <= x
  BY <1>2, <1>3, BoundedMax
<1>5. PICK q \in Pages : Mapped(q) /\ x = dist(q)
  BY DEF S
<1>6. dist(q) > 0
  BY <1>1, <1>5
<1>7. \A r \in Pages : Mapped(r) => dist(r) <= dist(q)
  BY <1>4, <1>5 DEF S
<1> QED
  BY <1>5, <1>6, <1>7 DEF Farthest, dist

\* The page that is evicted is in the RAM, and it is a farthest one.
LEMMA VictimIsFarthest ==
    ASSUME IInv, Missing, EmptyTables = {}, ~HasUnused
    PROVE  /\ VictimPage \in Farthest /\ VictimPage \in Pages /\ Mapped(VictimPage)
           /\ VictimFrame = At(ram, VictimPage, TABLES_DEPTH)
           /\ VictimTable = At(ram, VictimPage, TABLES_DEPTH - 1)
<1>1. Target \in Pages /\ ~Mapped(Target)
  BY WhereMissing, InTermsOfRoutes
<1>2. Farthest # {}
  BY <1>1, SomeoneMapped, FarthestExists
<1>3. Farthest \in SUBSET Pages /\ \A p \in Farthest : Mapped(p)
  BY DEF Farthest
<1>4. Min(Farthest) \in Farthest
  BY <1>2, <1>3, FirstPage
<1>5. VictimPage = Min(Farthest)
  BY <1>2 DEF VictimPage
<1>6. VictimFrame = PageFrame(VictimPage) /\ VictimTable = Route(VictimPage)[TABLES_DEPTH - 1]
  BY <1>2 DEF VictimFrame, VictimTable
<1> QED
  BY <1>3, <1>4, <1>5, <1>6, InTermsOfRoutes

\* Its frame, when it is unlinked and blank.
LEMMA EvictFinds ==
    ASSUME IInv, Missing, EmptyTables = {}, ~HasUnused
    PROVE  /\ Found(Cleared(VictimFrame, VictimPage, VictimTable), VictimFrame, VictimTable)
           /\ VictimFrame \in InTree(ram)
           /\ \A q \in Pages, d \in 0..(TABLES_DEPTH - 1) : ~EmptyNode(ram, node, q, d)
<1> DEFINE p == VictimPage
           f == VictimFrame
           t == VictimTable
           d == TABLES_DEPTH - 1
           o == page_get_index_depth(p, d)
           n == Put(ram, t, o, ROOT_FRAME)
           m == Cleared(f, p, t)
<1>1. /\ p \in Pages /\ f = At(ram, p, TABLES_DEPTH) /\ f # NoFrame /\ t = At(ram, p, d)
  BY VictimIsFarthest, InTermsOfRoutes
<1>2. Tree(ram) /\ d \in 0..(TABLES_DEPTH - 1) /\ d + 1 = TABLES_DEPTH /\ d \in Depths
      /\ TABLES_DEPTH \in Depths /\ d \in 0..TABLES_DEPTH
  BY FrameNumbers DEF IInv
<1>3. /\ Target \in Pages /\ node = At(ram, Target, depth) /\ node \in Frames
      /\ Entry \in Offsets /\ ram[node][Entry] = ROOT_FRAME /\ depth \in 0..(TABLES_DEPTH - 1)
      /\ depth \in Depths /\ depth # TABLES_DEPTH
  BY WhereMissing, FrameNumbers
<1>4. t # NoFrame /\ t # f /\ t \in Frames /\ f \in Frames /\ o \in Offsets /\ f # node
  <2>1. t # NoFrame
    BY <1>1, <1>2, RouteDown
  <2>2. LinkedOnce(ram)
    BY <1>2 DEF Tree
  <2>3. t # f
    BY <1>1, <1>2, <2>2 DEF LinkedOnce
  <2>4. t \in Frames /\ f \in Frames
    BY <1>1, <1>2, <2>1, RouteTypes DEF Tree
  <2>5. o \in Offsets
    BY <1>1, <1>2, Prefixes
  <2>6. f # node
    BY <1>1, <1>2, <1>3, <2>2 DEF LinkedOnce
  <2> QED
    BY <2>1, <2>3, <2>4, <2>5, <2>6
<1> HIDE DEF p, f, t, d, o
<1>5. /\ ram \in [Frames -> [Offsets -> Frames \cup Values]] /\ ROOT_FRAME \in Frames \cup Values
      /\ ZeroFrame \in [Offsets -> Frames \cup Values]
  BY <1>2, FrameNumbers DEF Tree, FramesTyped
<1>6. /\ Tree(n)
      /\ \A q \in Pages, e \in Depths :
            At(n, q, e) = IF At(ram, q, e) = f THEN NoFrame ELSE At(ram, q, e)
  <2>1. At(ram, p, d + 1) = f /\ At(ram, p, d + 1) # NoFrame
    BY <1>1, <1>2
  <2>2. n = Put(ram, At(ram, p, d), page_get_index_depth(p, d), ROOT_FRAME)
    BY <1>1 DEF o
  <2> HIDE DEF n
  <2> QED
    BY <1>1, <1>2, <2>1, <2>2, UnlinkingLeaf
<1>7. /\ n \in [Frames -> [Offsets -> Frames \cup Values]]
      /\ \A u \in Frames : u # t => n[u] = ram[u]
      /\ \A u \in Frames, x \in Offsets :
            n[u][x] = IF u = t /\ x = o THEN ROOT_FRAME ELSE ram[u][x]
  BY <1>4, <1>5, PutWord
<1>8. m = [n EXCEPT ![f] = ZeroFrame]
  BY <1>4 DEF Cleared, Put, o, d
<1> HIDE DEF n, m
<1>9. /\ m \in [Frames -> [Offsets -> Frames \cup Values]] /\ m[f] = ZeroFrame
      /\ \A u \in Frames : u # f => m[u] = n[u]
  BY <1>4, <1>5, <1>7, <1>8
<1>10. ASSUME NEW q \in Pages, NEW e \in Depths, At(n, q, e) # NoFrame
       PROVE  /\ m[At(n, q, e)] = n[At(n, q, e)]
              /\ e = TABLES_DEPTH => m[At(n, q, e)] \in [Offsets -> Values]
  <2>1. At(n, q, e) \in Frames /\ At(n, q, e) # f
    BY <1>6, <1>10, RouteTypes DEF Tree
  <2>2. m[At(n, q, e)] = n[At(n, q, e)]
    BY <1>9, <2>1
  <2>3. n[At(n, q, e)] \in [Offsets -> IF e < TABLES_DEPTH THEN Frames ELSE Values]
    BY <1>6, <1>10 DEF Tree, FramesTyped
  <2>4. ~(TABLES_DEPTH < TABLES_DEPTH)
    BY FrameNumbers
  <2> QED
    BY <2>2, <2>3, <2>4
<1>11. Tree(m) /\ \A q \in Pages, e \in Depths : At(m, q, e) = At(n, q, e)
  <2>1. \A e \in Depths : ~(e < TABLES_DEPTH) => e = TABLES_DEPTH
    BY FrameNumbers
  <2> QED
    BY <1>6, <1>9, <1>10, <2>1, Rewriting
<1>12. m[node][Entry] = ROOT_FRAME /\ \A u \in Frames : u # t /\ u # f => m[u] = ram[u]
  BY <1>3, <1>4, <1>7, <1>9
<1>13. Found(m, f, t)
  BY <1>4, <1>6, <1>9, <1>11, <1>12 DEF Found
<1>14. f \in InTree(ram)
  BY <1>1, <1>2 DEF InTree
<1>15. ASSUME NEW q \in Pages, NEW e \in 0..(TABLES_DEPTH - 1) PROVE ~EmptyNode(ram, node, q, e)
  BY <1>2, EmptyTableEnds
<1> QED
  BY <1>13, <1>14, <1>15 DEF p, f, t, m

(***************************************************************************)
(* The invariant is kept                                                   *)
(***************************************************************************)
\* The tree of the start is its root.
LEMMA InitialInvariant ==
    ASSUME Init
    PROVE  IInv
<1>1. /\ ram = [f \in Frames |-> ZeroFrame] /\ ROOT_FRAME \in Frames
      /\ ZeroFrame \in [Offsets -> Frames] /\ ZeroFrame \in [Offsets -> Values]
      /\ Depths = 0..TABLES_DEPTH /\ TABLES_DEPTH \in Nat \ {0} /\ ROOT_FRAME # NoFrame
      /\ ROOT_FRAME = 0 /\ 0 \in Pages
  BY FrameNumbers DEF Init
<1>2. \A p \in Pages : At(ram, p, 0) = ROOT_FRAME
  BY RouteSteps
<1>3. ASSUME NEW p \in Pages, NEW d \in Depths, d # 0 PROVE At(ram, p, d) = NoFrame
  <2>1. 0 \in 0..(TABLES_DEPTH - 1) /\ 0 + 1 \in 0..d
    BY <1>1, <1>3
  <2>2. page_get_index_depth(p, 0) \in Offsets
    BY <2>1, Prefixes
  <2>3. ram[ROOT_FRAME][page_get_index_depth(p, 0)] = ROOT_FRAME
    BY <1>1, <2>2 DEF ZeroFrame
  <2>4. At(ram, p, 0 + 1) = NoFrame
    BY <1>2, <2>1, <2>3, RouteSteps
  <2> QED
    BY <2>1, <2>4, RouteDown
<1>4. \A p, q \in Pages : Prefix(p, 0) = Prefix(q, 0)
  BY Prefixes
<1>5. LinkedOnce(ram)
  BY <1>3, <1>4 DEF LinkedOnce
<1>6. FramesTyped(ram)
  <2>1. ram \in [Frames -> [Offsets -> Frames \cup Values]]
    BY <1>1
  <2>2. ASSUME NEW p \in Pages, NEW d \in Depths, At(ram, p, d) # NoFrame
        PROVE  ram[At(ram, p, d)] \in [Offsets -> IF d < TABLES_DEPTH THEN Frames ELSE Values]
    BY <1>1, <1>2, <1>3, <2>2
  <2> QED
    BY <2>1, <2>2 DEF FramesTyped
<1>7. InTree(ram) = 0..0
  <2>1. ASSUME NEW x \in InTree(ram) PROVE x = 0
    <3>1. PICK p \in Pages, d \in Depths : x = At(ram, p, d) /\ x # NoFrame
      BY DEF InTree
    <3> QED
      BY <1>1, <1>2, <1>3, <3>1
  <2>2. 0 \in Depths
    BY <1>1
  <2>3. At(ram, 0, 0) = 0 /\ 0 # NoFrame
    BY <1>1, <1>2
  <2>4. 0 \in InTree(ram)
    BY <1>1, <2>2, <2>3 DEF InTree
  <2> QED
    BY <2>1, <2>4
<1>8. NoGap
  BY <1>1, <1>7 DEF NoGap
<1>9. SwapTyped /\ SwapApart
  BY DEF Init, SwapTyped, SwapApart
<1>10. RequestTyped
  <2>1. 0 \in 0..(VIRTUAL_MEMORY_SIZE - 1)
    <3>1. NUM_PAGES \in Nat \ {0} /\ PAGE_SIZE \in Nat \ {0}
          /\ VIRTUAL_MEMORY_SIZE = NUM_PAGES * PAGE_SIZE
      BY Sizes
    <3>2. VIRTUAL_MEMORY_SIZE \in Nat \ {0}
      BY <3>1
    <3> QED
      BY <3>2
  <2> QED
    BY <2>1, ClientAssumption DEF Init, RequestTyped, NoRequest
<1>11. WalkState
  <2>1. Target \in Pages
    BY <1>10, TargetIsPage
  <2> QED
    BY <1>1, <1>2, <2>1 DEF Init, WalkState, Idle
<1>12. OneEmpty(ram, node)
  <2>1. ASSUME NEW p \in Pages, NEW d \in 0..(TABLES_DEPTH - 1) PROVE ~EmptyNode(ram, node, p, d)
    BY <1>1, <1>2, <1>3 DEF Init, EmptyNode
  <2> QED
    BY <2>1 DEF OneEmpty
<1> QED
  BY <1>5, <1>6, <1>8, <1>9, <1>10, <1>11, <1>12 DEF IInv, Tree

\* A call starts at the root.
LEMMA CallKeeps ==
    ASSUME IInv, NEW op \in {"read", "write"}, NEW va \in Used, NEW w \in Values, Call(op, va, w)
    PROVE  IInv'
<1>1. /\ ram' = ram /\ swap' = swap /\ depth' = depth /\ node' = node /\ isNew' = isNew
      /\ Idle /\ request' = [op |-> op, addr |-> va, word |-> w]
  BY DEF Call
<1>2. depth = 0 /\ node = ROOT_FRAME /\ isNew = FALSE
  BY <1>1 DEF IInv, WalkState
<1>3. RequestTyped'
  <2>1. va \in Nat /\ va < VIRTUAL_MEMORY_SIZE
    BY ClientAssumption DEF Call
  <2>2. VIRTUAL_MEMORY_SIZE \in Int
    BY Sizes
  <2>3. va \in 0..(VIRTUAL_MEMORY_SIZE - 1)
    BY <2>1, <2>2
  <2> QED
    BY <1>1, <2>3 DEF RequestTyped
<1>4. ~Idle' /\ request'.op # "none"
  BY <1>1 DEF Idle, NoRequest
<1>5. WalkState'
  <2>1. At(ram', Target', 0) = ROOT_FRAME
    BY RouteSteps
  <2> QED
    BY <1>1, <1>2, <1>4, <2>1 DEF WalkState, IInv
<1>6. SwapApart'
  BY <1>1, <1>2 DEF IInv, SwapApart
<1> QED
  BY <1>1, <1>3, <1>5, <1>6 DEF IInv, NoGap, SwapTyped

\* A step along the entries there are.
LEMMA DescendKeeps ==
    ASSUME IInv, Descend
    PROVE  IInv'
<1>1. /\ ram' = ram /\ swap' = swap /\ isNew' = isNew /\ request' = request
      /\ node' = ram[node][Entry] /\ depth' = depth + 1 /\ ~Idle
      /\ depth < TABLES_DEPTH /\ ram[node][Entry] # ROOT_FRAME
  BY DEF Descend, Missing, Walking
<1>2. Target \in Pages /\ Target' = Target /\ (Idle' <=> Idle)
  BY <1>1, TargetIsPage DEF IInv, Target, Idle
<1>3. depth \in 0..(TABLES_DEPTH - 1) /\ depth + 1 \in Depths /\ depth \in Depths
  BY <1>1, FrameNumbers DEF IInv, WalkState
<1>4. /\ node = At(ram, Target, depth) /\ node \in Frames /\ node # NoFrame
      /\ Entry = page_get_index_depth(Target, depth) /\ Entry \in Offsets
  BY <1>2, <1>3, Prefixes, FrameNumbers DEF IInv, WalkState, Entry
<1>5. ram[node][Entry] = At(ram, Target, depth + 1)
  BY <1>1, <1>3, <1>4, RouteSteps
<1>6. ram[node][Entry] \in Frames
  <2>1. ram[node] \in [Offsets -> Frames]
    BY <1>1, <1>2, <1>3, <1>4 DEF IInv, Tree, FramesTyped
  <2> QED
    BY <1>4, <2>1
<1>7. ram[node] # ZeroFrame
  BY <1>1, <1>4 DEF ZeroFrame, ROOT_FRAME
<1>8. isNew = FALSE
  BY <1>7 DEF IInv, WalkState
<1>9. WalkState'
  BY <1>1, <1>2, <1>3, <1>5, <1>6, <1>8 DEF WalkState, IInv
<1>10. SwapApart'
  BY <1>1, <1>8 DEF IInv, SwapApart
<1>11. OneEmpty(ram, node)'
  <2>1. ASSUME NEW p \in Pages, NEW d, EmptyNode(ram, node', p, d)
        PROVE  EmptyNode(ram, node, p, d)
    BY <1>7, <2>1 DEF EmptyNode
  <2>2. OneEmpty(ram, node)
    BY DEF IInv
  <2>3. OneEmpty(ram, node')
    BY <2>1, <2>2 DEF OneEmpty
  <2> QED
    BY <1>1, <2>3
<1> QED
  BY <1>1, <1>9, <1>10, <1>11 DEF IInv, NoGap, SwapTyped, RequestTyped

\* An empty table that is linked anew.
LEMMA ReuseKeeps ==
    ASSUME IInv, ReuseTable
    PROVE  IInv'
<1> DEFINE p == Min(EmptyTables)
           f == RouteEnd(p)
           m == Unlink(p)
           t == At(ram, p, RouteLength(p) - 1)
<1>1. Missing /\ EmptyTables # {} /\ Link(m, f) /\ swap' = swap
  BY DEF ReuseTable
<1>2. /\ Found(m, f, t) /\ f \in InTree(ram)
      /\ \A q \in Pages, d \in 0..(TABLES_DEPTH - 1) :
            EmptyNode(ram, node, q, d) => At(ram, q, d) = f
  BY <1>1, ReuseFinds
<1> HIDE DEF p, f, m, t
<1>3. Tree(ram')
  BY <1>1, <1>2, LinkRoutes
<1>4. WalkState' /\ RequestTyped'
  BY <1>1, <1>2, LinkWalk
<1>5. NoGap'
  <2>1. InTree(ram') = InTree(ram)
    BY <1>1, <1>2, LinkFrames
  <2> QED
    BY <2>1 DEF IInv, NoGap
<1>6. OneEmpty(ram, node)'
  BY <1>1, <1>2, LinkEmpties
<1>7. SwapTyped'
  BY <1>1 DEF IInv, SwapTyped
<1>8. SwapApart'
  BY <1>1, <1>2, <1>7, LinkSwap
<1> QED
  BY <1>3, <1>4, <1>5, <1>6, <1>7, <1>8 DEF IInv

\* The frame after those of the tree.
LEMMA TakeKeeps ==
    ASSUME IInv, TakeUnused
    PROVE  IInv'
<1> DEFINE f == MaxFrame + 1
           m == [ram EXCEPT ![f] = ZeroFrame]
<1>1. Missing /\ EmptyTables = {} /\ HasUnused /\ Link(m, f) /\ swap' = swap
  BY DEF TakeUnused
<1>2. /\ Found(m, f, f) /\ f \in Frames /\ InTree(ram) = 0..MaxFrame
      /\ \A q \in Pages, d \in 0..(TABLES_DEPTH - 1) : ~EmptyNode(ram, node, q, d)
  BY <1>1, TakeFinds
<1>3. MaxFrame \in Nat
  <2>1. PICK k \in Frames : InTree(ram) = 0..k
    BY DEF IInv, NoGap
  <2> QED
    BY <2>1, LargestFrame, FrameNumbers DEF IInv
<1>4. 0..MaxFrame \cup {f} = 0..f
  BY <1>3
<1> HIDE DEF f, m
<1>5. Tree(ram')
  BY <1>1, <1>2, LinkRoutes
<1>6. WalkState' /\ RequestTyped'
  BY <1>1, <1>2, LinkWalk
<1>7. NoGap'
  <2>1. InTree(ram') = 0..f
    BY <1>1, <1>2, <1>4, LinkFrames
  <2> QED
    BY <1>2, <2>1 DEF NoGap
<1>8. OneEmpty(ram, node)'
  BY <1>1, <1>2, LinkEmpties
<1>9. SwapTyped'
  BY <1>1 DEF IInv, SwapTyped
<1>10. SwapApart'
  BY <1>1, <1>2, <1>9, LinkSwap
<1> QED
  BY <1>5, <1>6, <1>7, <1>8, <1>9, <1>10 DEF IInv

\* The frame of the page farthest from the target, which goes to the swap file.
LEMMA EvictKeeps ==
    ASSUME IInv, EvictPage
    PROVE  IInv'
<1> DEFINE f == VictimFrame
           t == VictimTable
           m == Cleared(f, VictimPage, t)
<1>1. /\ Missing /\ EmptyTables = {} /\ ~HasUnused /\ Link(m, f)
      /\ swap' = [p \in DOMAIN swap \cup {VictimPage} |-> IF p = VictimPage THEN ram[f] ELSE swap[p]]
  BY DEF EvictPage, PMevict
<1>2. /\ Found(m, f, t) /\ f \in InTree(ram)
      /\ \A q \in Pages, d \in 0..(TABLES_DEPTH - 1) : ~EmptyNode(ram, node, q, d)
  BY <1>1, EvictFinds
<1>3. /\ VictimPage \in Pages /\ f = At(ram, VictimPage, TABLES_DEPTH) /\ f # NoFrame
  BY <1>1, VictimIsFarthest, InTermsOfRoutes
<1>4. ram[f] \in [Offsets -> Values]
  <2>1. TABLES_DEPTH \in Depths /\ ~(TABLES_DEPTH < TABLES_DEPTH)
    BY FrameNumbers
  <2> QED
    BY <1>3, <2>1 DEF IInv, Tree, FramesTyped
<1> HIDE DEF f, m, t
<1>5. Tree(ram')
  BY <1>1, <1>2, LinkRoutes
<1>6. WalkState' /\ RequestTyped'
  BY <1>1, <1>2, LinkWalk
<1>7. NoGap'
  <2>1. InTree(ram') = InTree(ram)
    BY <1>1, <1>2, LinkFrames
  <2> QED
    BY <2>1 DEF IInv, NoGap
<1>8. OneEmpty(ram, node)'
  BY <1>1, <1>2, LinkEmpties
<1>9. SwapTyped'
  <2>1. SwapTyped
    BY DEF IInv
  <2>2. DOMAIN swap' \subseteq Pages
    BY <1>1, <1>3, <2>1 DEF SwapTyped
  <2>3. ASSUME NEW p \in DOMAIN swap' PROVE swap'[p] \in [Offsets -> Values]
    BY <1>1, <1>4, <2>1, <2>3 DEF SwapTyped
  <2> QED
    BY <2>2, <2>3 DEF SwapTyped
<1>10. SwapApart'
  <2>1. \A p \in DOMAIN swap' : p \in DOMAIN swap \/ At(ram, p, TABLES_DEPTH) = f
    BY <1>1, <1>3
  <2> QED
    BY <1>1, <1>2, <1>9, <2>1, LinkSwap
<1> QED
  BY <1>5, <1>6, <1>7, <1>8, <1>9, <1>10 DEF IInv

\* Routes say which frames are in the tree.
LEMMA SameFrames ==
    ASSUME NEW m, NEW n, \A p \in Pages, e \in Depths : At(n, p, e) = At(m, p, e)
    PROVE  InTree(n) = InTree(m)
<1>1. \A x : x \in InTree(n) <=> x \in InTree(m)
  BY DEF InTree
<1> QED
  BY <1>1

\* At most one table is empty when none has become empty.
LEMMA FewerEmpties ==
    ASSUME NEW m, NEW n, NEW i, NEW j, OneEmpty(m, i),
           \A p \in Pages, e \in 0..(TABLES_DEPTH - 1) :
               EmptyNode(n, j, p, e) => EmptyNode(m, i, p, e) /\ At(n, p, e) = At(m, p, e)
    PROVE  OneEmpty(n, j)
BY DEF OneEmpty

\* The page the walk has arrived at gets other words.
Rewritten(c) == ram' = [ram EXCEPT ![node] = c]

\* The words of the page the walk has arrived at change nothing of the tree.
LEMMA PageWords ==
    ASSUME IInv, Arrived, NEW c \in [Offsets -> Values], Rewritten(c)
    PROVE  /\ Target \in Pages /\ node = At(ram, Target, TABLES_DEPTH) /\ node \in Frames
           /\ node # NoFrame
           /\ \A u \in Frames : ram'[u] = IF u = node THEN c ELSE ram[u]
           /\ Tree(ram') /\ NoGap'
           /\ \A p \in Pages, e \in Depths : At(ram', p, e) = At(ram, p, e)
           /\ \A p \in Pages, e \in 0..(TABLES_DEPTH - 1) : At(ram, p, e) # node
           /\ OneEmpty(ram', node) /\ OneEmpty(ram', ROOT_FRAME)
<1>1. /\ Target \in Pages /\ depth = TABLES_DEPTH /\ node = At(ram, Target, TABLES_DEPTH)
      /\ node \in Frames /\ TABLES_DEPTH \in Depths /\ Tree(ram) /\ node # NoFrame
  BY TargetIsPage, FrameNumbers DEF IInv, WalkState, Arrived
<1>2. /\ ram \in [Frames -> [Offsets -> Frames \cup Values]]
      /\ c \in [Offsets -> Frames \cup Values]
  BY <1>1 DEF Tree, FramesTyped
<1>3. /\ ram' \in [Frames -> [Offsets -> Frames \cup Values]]
      /\ \A u \in Frames : ram'[u] = IF u = node THEN c ELSE ram[u]
  BY <1>1, <1>2 DEF Rewritten
<1>4. ASSUME NEW p \in Pages, NEW e \in Depths, At(ram, p, e) # NoFrame
      PROVE  IF e < TABLES_DEPTH THEN At(ram, p, e) # node /\ ram'[At(ram, p, e)] = ram[At(ram, p, e)]
             ELSE ram'[At(ram, p, e)] \in [Offsets -> Values]
  <2>1. At(ram, p, e) \in Frames
    BY <1>1, <1>4, RouteTypes DEF Tree
  <2>2. CASE e < TABLES_DEPTH
    <3>1. At(ram, p, e) # node
      BY <1>1, <1>4, <2>2, FrameNumbers DEF Tree, LinkedOnce
    <3> QED
      BY <1>3, <2>1, <2>2, <3>1
  <2>3. CASE ~(e < TABLES_DEPTH)
    <3>1. ram[At(ram, p, e)] \in [Offsets -> Values]
      BY <1>1, <1>4, <2>3 DEF Tree, FramesTyped
    <3> QED
      BY <1>3, <2>1, <2>3, <3>1
  <2> QED
    BY <2>2, <2>3
<1>5. Tree(ram') /\ \A p \in Pages, e \in Depths : At(ram', p, e) = At(ram, p, e)
  <2>1. \A p \in Pages, e \in Depths :
           At(ram, p, e) # NoFrame =>
               IF e < TABLES_DEPTH THEN ram'[At(ram, p, e)] = ram[At(ram, p, e)]
               ELSE ram'[At(ram, p, e)] \in [Offsets -> Values]
    BY <1>4
  <2>2. ram' \in [Frames -> [Offsets -> Frames \cup Values]]
    BY <1>3
  <2>3. Tree(ram)
    BY <1>1
  <2> QED
    BY <2>1, <2>2, <2>3, Rewriting
<1>6. \A p \in Pages, e \in 0..(TABLES_DEPTH - 1) : At(ram, p, e) # node
  BY <1>1, <1>4, FrameNumbers
<1>7. InTree(ram') = InTree(ram)
  <2>1. \A p \in Pages, e \in Depths : At(ram', p, e) = At(ram, p, e)
    BY <1>5
  <2> QED
    BY <2>1, SameFrames
<1>8. NoGap'
  BY <1>7 DEF IInv, NoGap
<1>9. ASSUME NEW p \in Pages, NEW e \in 0..(TABLES_DEPTH - 1), NEW n \in {node, ROOT_FRAME},
             EmptyNode(ram', n, p, e)
      PROVE  EmptyNode(ram, node, p, e) /\ At(ram', p, e) = At(ram, p, e)
  <2>1. e \in Depths /\ e < TABLES_DEPTH /\ At(ram', p, e) = At(ram, p, e)
    BY <1>5, FrameNumbers
  <2> QED
    BY <1>4, <1>6, <1>9, <2>1 DEF EmptyNode
<1>10. OneEmpty(ram, node)
  BY DEF IInv
<1>11. ASSUME NEW n \in {node, ROOT_FRAME} PROVE OneEmpty(ram', n)
  <2>1. \A p \in Pages, e \in 0..(TABLES_DEPTH - 1) :
           EmptyNode(ram', n, p, e) => EmptyNode(ram, node, p, e) /\ At(ram', p, e) = At(ram, p, e)
    BY <1>9
  <2> QED
    BY <1>10, <2>1, FewerEmpties
<1> QED
  BY <1>1, <1>3, <1>5, <1>6, <1>8, <1>11

\* A page restored, or one used for the first time.
LEMMA RestoreKeeps ==
    ASSUME IInv, PMrestore
    PROVE  IInv'
<1>1. /\ Arrived /\ isNew' = FALSE /\ request' = request /\ depth' = depth /\ node' = node
      /\ ram' = IF Target \in DOMAIN swap THEN [ram EXCEPT ![node] = swap[Target]] ELSE ram
      /\ swap' = [p \in DOMAIN swap \ {Target} |-> swap[p]]
  BY DEF PMrestore, Erase
<1>2. Target' = Target /\ (Idle' <=> Idle) /\ ~Idle
  BY <1>1 DEF Target, Idle, Arrived
<1> DEFINE c == IF Target \in DOMAIN swap THEN swap[Target] ELSE ram[node]
<1>3. c \in [Offsets -> Values]
  <2>1. ram[node] \in [Offsets -> Values]
    <3>1. /\ Target \in Pages /\ node = At(ram, Target, TABLES_DEPTH) /\ node # NoFrame
          /\ TABLES_DEPTH \in Depths /\ ~(TABLES_DEPTH < TABLES_DEPTH)
      BY <1>1, TargetIsPage, FrameNumbers DEF IInv, WalkState, Arrived
    <3> QED
      BY <3>1 DEF IInv, Tree, FramesTyped
  <2> QED
    BY <2>1 DEF IInv, SwapTyped
<1>4. Rewritten(c)
  BY <1>1 DEF IInv, Tree, FramesTyped, Rewritten
<1> HIDE DEF c
<1>5. /\ Target \in Pages /\ node = At(ram, Target, TABLES_DEPTH)
      /\ Tree(ram') /\ NoGap'
      /\ \A p \in Pages, e \in Depths : At(ram', p, e) = At(ram, p, e)
      /\ OneEmpty(ram', node)
  BY <1>1, <1>3, <1>4, PageWords
<1>6. depth \in Depths /\ node = At(ram, Target, depth)
  BY DEF IInv, WalkState
<1>7. WalkState'
  BY <1>1, <1>2, <1>5, <1>6 DEF IInv, WalkState
<1>8. SwapTyped'
  BY <1>1 DEF IInv, SwapTyped
<1>9. SwapApart'
  <2>1. SwapApart /\ SwapTyped
    BY DEF IInv
  <2>2. TABLES_DEPTH \in Depths
    BY FrameNumbers
  <2>3. ASSUME NEW p \in DOMAIN swap' PROVE At(ram', p, TABLES_DEPTH) = NoFrame
    BY <1>1, <1>5, <2>1, <2>2, <2>3 DEF SwapApart, SwapTyped
  <2> QED
    BY <2>3 DEF SwapApart
<1> QED
  BY <1>1, <1>5, <1>7, <1>8, <1>9 DEF IInv, RequestTyped

\* The end of a call.
LEMMA ReturnKeeps ==
    ASSUME IInv, NEW word, Return(word), NEW c \in [Offsets -> Values],
           Rewritten(c)
    PROVE  IInv'
<1>1. /\ Arrived /\ isNew = FALSE /\ request' = NoRequest /\ depth' = 0 /\ node' = ROOT_FRAME
      /\ isNew' = FALSE /\ swap' = swap
  BY DEF Return, IInv, WalkState
<1>2. /\ Tree(ram') /\ NoGap' /\ OneEmpty(ram', ROOT_FRAME)
      /\ \A p \in Pages, e \in Depths : At(ram', p, e) = At(ram, p, e)
  BY <1>1, PageWords
<1>3. RequestTyped'
  <2>1. 0 \in 0..(VIRTUAL_MEMORY_SIZE - 1)
    <3>1. request.addr \in 0..(VIRTUAL_MEMORY_SIZE - 1) /\ VIRTUAL_MEMORY_SIZE \in Int
      BY Sizes DEF IInv, RequestTyped
    <3> QED
      BY <3>1
  <2> QED
    BY <1>1, <2>1, ClientAssumption DEF RequestTyped, NoRequest
<1>4. WalkState'
  <2>1. At(ram', Target', 0) = ROOT_FRAME /\ 0 \in Depths /\ ROOT_FRAME \in Frames
    BY RouteSteps, FrameNumbers
  <2>2. Idle'
    BY <1>1 DEF Idle
  <2> QED
    BY <1>1, <2>1, <2>2 DEF WalkState
<1>5. SwapApart'
  <2>1. SwapApart /\ SwapTyped /\ TABLES_DEPTH \in Depths
    BY FrameNumbers DEF IInv
  <2>2. ASSUME NEW p \in DOMAIN swap' PROVE At(ram', p, TABLES_DEPTH) = NoFrame
    BY <1>1, <1>2, <2>1, <2>2 DEF SwapApart, SwapTyped
  <2> QED
    BY <2>2 DEF SwapApart
<1> QED
  BY <1>1, <1>2, <1>3, <1>4, <1>5 DEF IInv, SwapTyped

\* What the page of a call holds when the walk has arrived.
LEMMA ArrivedPage ==
    ASSUME IInv, Arrived
    PROVE  /\ ram[node] \in [Offsets -> Values] /\ ram = [ram EXCEPT ![node] = ram[node]]
           /\ va_get_offset(request.addr) \in Offsets
<1>1. /\ Target \in Pages /\ node = At(ram, Target, TABLES_DEPTH) /\ node # NoFrame
      /\ TABLES_DEPTH \in Depths /\ ~(TABLES_DEPTH < TABLES_DEPTH) /\ node \in Frames
  BY TargetIsPage, FrameNumbers DEF IInv, WalkState, Arrived
<1>2. ram[node] \in [Offsets -> Values] /\ ram \in [Frames -> [Offsets -> Frames \cup Values]]
  BY <1>1 DEF IInv, Tree, FramesTyped
<1>3. request.addr \in Nat /\ PAGE_SIZE \in Nat \ {0}
  BY Sizes DEF IInv, RequestTyped
<1>4. request.addr % PAGE_SIZE \in 0..(PAGE_SIZE - 1)
  BY <1>3, Divisions
<1> QED
  BY <1>1, <1>2, <1>4 DEF va_get_offset, Offsets

\* A read leaves the words of its page, a write changes one.
LEMMA AccessKeeps ==
    ASSUME IInv, ReadWord \/ WriteWord
    PROVE  IInv'
<1>1. CASE ReadWord
  <2>1. /\ Return(ram[node][va_get_offset(request.addr)]) /\ ram' = ram
    BY <1>1 DEF ReadWord
  <2>2. Arrived
    BY <2>1 DEF Return
  <2>3. ram[node] \in [Offsets -> Values] /\ Rewritten(ram[node])
    BY <2>1, <2>2, ArrivedPage DEF Rewritten
  <2> QED
    BY <2>1, <2>3, ReturnKeeps
<1>2. CASE WriteWord
  <2> DEFINE o == va_get_offset(request.addr)
             c == [ram[node] EXCEPT ![o] = request.word]
  <2>1. Return(0) /\ ram' = [ram EXCEPT ![node][o] = request.word]
    BY <1>2 DEF WriteWord
  <2>2. Arrived
    BY <2>1 DEF Return
  <2>3. ram[node] \in [Offsets -> Values] /\ o \in Offsets /\ request.word \in Values
    BY <2>2, ArrivedPage DEF IInv, RequestTyped
  <2>4. c \in [Offsets -> Values] /\ Rewritten(c)
    BY <2>1, <2>3 DEF Rewritten
  <2> HIDE DEF c, o
  <2> QED
    BY <2>1, <2>4, ReturnKeeps
<1> QED
  BY <1>1, <1>2

\* Every step keeps the invariant.
LEMMA NextInvariant ==
    ASSUME IInv, [Next]_vars
    PROVE  IInv'
<1>1. ASSUME NEW va \in Used, NEW noPlace \in BOOLEAN, Refuse(va, noPlace) PROVE IInv'
  BY <1>1 DEF Refuse, IInv, NoGap, SwapTyped, RequestTyped, WalkState, SwapApart, Idle, Target, Arrived
<1>2. ASSUME NEW va \in Used, Call("read", va, 0) PROVE IInv'
  BY <1>2, CallKeeps, ClientAssumption
<1>3. ASSUME NEW va \in Written, NEW w \in Values, Call("write", va, w) PROVE IInv'
  BY <1>3, CallKeeps, ClientAssumption
<1>4. CASE UNCHANGED vars
  BY <1>4 DEF vars, IInv, NoGap, SwapTyped, RequestTyped, WalkState, SwapApart, Idle, Target, Arrived
<1> QED
  BY <1>1, <1>2, <1>3, <1>4, DescendKeeps, ReuseKeeps, TakeKeeps, EvictKeeps, RestoreKeeps,
     AccessKeeps DEF Next

\* The tree, the walk and the swap file are as IInv says in all reachable states.
THEOREM VirtualMemoryInvariant == Spec => []IInv
<1>1. Init => IInv
  BY InitialInvariant
<1>2. IInv /\ [Next]_vars => IInv'
  BY NextInvariant
<1> QED
  BY <1>1, <1>2, PTL DEF Spec

(***************************************************************************)
(* What the invariant says                                                 *)
(***************************************************************************)
\* A node of the tree is a frame at a place of a route.
LEMMA NodesAreRoutes ==
    \A n : n \in Nodes <=>
              \E p \in Pages, d \in Depths : n = <<At(ram, p, d), d, Prefix(p, d)>>
                                             /\ At(ram, p, d) # NoFrame
<1>1. \A p \in Pages, d \in Depths : Route(p)[d] = At(ram, p, d)
  BY InTermsOfRoutes
<1> QED
  BY <1>1 DEF Nodes

\* Entries of tables are frames, words of pages are those clients wrote, in the
\* RAM and in the swap file (TypeOK).
THEOREM TypesCorrect == Spec => []TypeOK
<1>1. ASSUME IInv PROVE TypeOK
  <2>1. ASSUME NEW n \in Nodes
        PROVE  ram[n[1]] \in [Offsets -> IF n[2] < TABLES_DEPTH THEN Frames ELSE Values]
    <3>1. PICK p \in Pages, d \in Depths : n = <<At(ram, p, d), d, Prefix(p, d)>>
                                           /\ At(ram, p, d) # NoFrame
      BY NodesAreRoutes
    <3>2. ram[At(ram, p, d)] \in [Offsets -> IF d < TABLES_DEPTH THEN Frames ELSE Values]
      BY <1>1, <3>1 DEF IInv, Tree, FramesTyped
    <3> QED
      BY <3>1, <3>2
  <2> QED
    BY <1>1, <2>1 DEF IInv, Tree, FramesTyped, SwapTyped, WalkState, TypeOK
<1> QED
  BY <1>1, VirtualMemoryInvariant, PTL

\* allocate_frame: no frame is handed out twice, the tables remain a tree
\* (FramesLinkedOnce).
THEOREM NoFrameLinkedTwice == Spec => []FramesLinkedOnce
<1>1. ASSUME IInv PROVE FramesLinkedOnce
  <2>1. ASSUME NEW m \in Nodes, NEW n \in Nodes, m[1] = n[1] PROVE m = n
    <3>1. PICK p \in Pages, d \in Depths : m = <<At(ram, p, d), d, Prefix(p, d)>>
                                           /\ At(ram, p, d) # NoFrame
      BY NodesAreRoutes
    <3>2. PICK q \in Pages, e \in Depths : n = <<At(ram, q, e), e, Prefix(q, e)>>
                                           /\ At(ram, q, e) # NoFrame
      BY NodesAreRoutes
    <3>3. At(ram, p, d) = At(ram, q, e)
      BY <2>1, <3>1, <3>2
    <3>4. d = e /\ Prefix(p, d) = Prefix(q, d)
      BY <1>1, <3>1, <3>3 DEF IInv, Tree, LinkedOnce
    <3> QED
      BY <3>1, <3>2, <3>3, <3>4
  <2> QED
    BY <2>1 DEF FramesLinkedOnce
<1> QED
  BY <1>1, VirtualMemoryInvariant, PTL

\* traverse_page_table: the frames up to the largest of the tree are all in it, so
\* that the next one is unused and none is ever lost (NoFrameLost).
THEOREM FramesInUse == Spec => []NoFrameLost
<1>1. ASSUME IInv PROVE NoFrameLost
  <2>1. PICK k \in Frames : InTree(ram) = 0..k
    BY <1>1 DEF IInv, NoGap
  <2>2. MaxFrame = k
    BY <1>1, <2>1, LargestFrame DEF IInv
  <2>3. ASSUME NEW n \in Nodes PROVE n[1] \in InTree(ram)
    BY NodesAreRoutes DEF InTree
  <2>4. ASSUME NEW x \in InTree(ram) PROVE \E n \in Nodes : x = n[1]
    <3>1. PICK p \in Pages, d \in Depths : x = At(ram, p, d) /\ x # NoFrame
      BY DEF InTree
    <3>2. <<At(ram, p, d), d, Prefix(p, d)>> \in Nodes
      BY <3>1, NodesAreRoutes
    <3> QED
      BY <3>1, <3>2
  <2> QED
    BY <2>1, <2>2, <2>3, <2>4 DEF NoFrameLost
<1> QED
  BY <1>1, VirtualMemoryInvariant, PTL

\* load_page: whatever frame is taken on the way, the walk stays on the route of
\* its page (WalkOnRoute).
THEOREM WalkStaysOnRoute == Spec => []WalkOnRoute
<1>1. ASSUME IInv PROVE WalkOnRoute
  <2>1. Target \in Pages
    BY <1>1, TargetIsPage DEF IInv
  <2> QED
    BY <1>1, <2>1, InTermsOfRoutes DEF IInv, WalkState, WalkOnRoute
<1> QED
  BY <1>1, VirtualMemoryInvariant, PTL

\* allocate_frame: the frame that is linked is blank (NewFrameBlank).
THEOREM LinkedFrameIsBlank == Spec => []NewFrameBlank
<1>1. IInv => NewFrameBlank
  BY DEF IInv, WalkState, NewFrameBlank
<1> QED
  BY <1>1, VirtualMemoryInvariant, PTL

\* PMevict, PMrestore: no page has words at two places (RamOrSwap).
THEOREM NoPageTwice == Spec => []RamOrSwap
<1>1. ASSUME IInv PROVE RamOrSwap
  BY <1>1, InTermsOfRoutes DEF IInv, SwapApart, SwapTyped, RamOrSwap
<1> QED
  BY <1>1, VirtualMemoryInvariant, PTL

\* allocate_frame: when all frames are in use and no table is empty there is a page
\* to evict, because one path of tables does not fill the RAM (SomeoneToEvict).
THEOREM EvictionPossible == Spec => []SomeoneToEvict
<1>1. ASSUME IInv PROVE SomeoneToEvict
  BY <1>1, VictimIsFarthest DEF SomeoneToEvict
<1> QED
  BY <1>1, VirtualMemoryInvariant, PTL

\* allocate_frame: evictions and reuses leave at most one table empty (OneEmptyTable).
THEOREM AtMostOneEmptyTable == Spec => []OneEmptyTable
<1>1. ASSUME IInv PROVE OneEmptyTable
  <2> DEFINE E == {RouteEnd(p) : p \in EmptyTables}
  <2>1. ASSUME NEW p \in EmptyTables, NEW q \in EmptyTables PROVE RouteEnd(p) = RouteEnd(q)
    <3>1. /\ p \in Pages /\ RouteLength(p) \in 0..(TABLES_DEPTH - 1)
          /\ RouteEnd(p) = At(ram, p, RouteLength(p))
          /\ EmptyNode(ram, node, p, RouteLength(p))
      BY <1>1, EmptyTableEnds DEF IInv
    <3>2. /\ q \in Pages /\ RouteLength(q) \in 0..(TABLES_DEPTH - 1)
          /\ RouteEnd(q) = At(ram, q, RouteLength(q))
          /\ EmptyNode(ram, node, q, RouteLength(q))
      BY <1>1, EmptyTableEnds DEF IInv
    <3>3. OneEmpty(ram, node)
      BY <1>1 DEF IInv
    <3> QED
      BY <3>1, <3>2, <3>3 DEF OneEmpty
  <2>2. CASE EmptyTables = {}
    <3>1. E = {}
      BY <2>2
    <3> HIDE DEF E
    <3>2. Cardinality(E) = 0
      BY <3>1, FS_EmptySet
    <3> QED
      BY <3>2 DEF E, OneEmptyTable
  <2>3. CASE EmptyTables # {}
    <3>1. PICK p \in EmptyTables : TRUE
      BY <2>3
    <3>2. E = {RouteEnd(p)}
      BY <2>1
    <3> HIDE DEF E
    <3>3. Cardinality(E) = 1
      BY <3>2, FS_Singleton
    <3> QED
      BY <3>3 DEF E, OneEmptyTable
  <2> QED
    BY <2>2, <2>3
<1> QED
  BY <1>1, VirtualMemoryInvariant, PTL

(***************************************************************************)
(* The tree and the swap file are a pager                                  *)
(***************************************************************************)
\* The pages in the RAM, but the one that is to be restored, and their words.
Loaded ==
    {p \in Pages : At(ram, p, TABLES_DEPTH) # NoFrame /\ ~(p = Target /\ Arrived /\ isNew)}
LoadedWords == [p \in Loaded |-> ram[At(ram, p, TABLES_DEPTH)]]

\* They are what the model calls the resident pages, before and after a step.
LEMMA ResidentIsLoaded ==
    Resident = Loaded /\ [p \in Resident |-> ram[PageFrame(p)]] = LoadedWords
<1>1. Resident = Loaded
  BY InTermsOfRoutes DEF Resident, Loaded
<1>2. \A p \in Loaded : PageFrame(p) = At(ram, p, TABLES_DEPTH)
  BY InTermsOfRoutes DEF Loaded
<1> QED
  BY <1>1, <1>2 DEF LoadedWords

\* The same after a step.
LEMMA ResidentIsLoadedAfter ==
    [p \in Resident |-> ram[PageFrame(p)]]' = LoadedWords'
<1>1. [p \in Resident |-> ram[PageFrame(p)]] = LoadedWords
  BY ResidentIsLoaded
<1>2. ([p \in Resident |-> ram[PageFrame(p)]] = LoadedWords)'
  BY <1>1, PTL
<1> QED
  BY <1>2

\* A linked frame takes no page out of the RAM but the one it held.
LEMMA LinkPages ==
    ASSUME IInv, Missing, NEW m, NEW f, NEW t, Found(m, f, t), Link(m, f),
           \A p \in Pages : At(ram, p, TABLES_DEPTH) = t => t = f
    PROVE  LoadedWords' = [p \in {q \in Loaded : At(ram, q, TABLES_DEPTH) # f} |-> LoadedWords[p]]
<1> DEFINE D == TABLES_DEPTH
<1>1. /\ Target \in Pages /\ depth \in 0..(D - 1) /\ depth \in Depths /\ depth # D
      /\ D \in Depths /\ node \in Frames /\ node = At(ram, Target, depth) /\ node # NoFrame
      /\ Entry \in Offsets
      /\ At(ram, Target, D) = NoFrame /\ ~Arrived
      /\ ram' = Put(m, node, Entry, f)
      /\ \A p \in Pages, e \in Depths :
            At(ram', p, e) =
                IF e = depth + 1 /\ Prefix(p, depth + 1) = Prefix(Target, depth + 1) THEN f
                ELSE IF At(ram, p, e) = f THEN NoFrame ELSE At(ram, p, e)
  BY WhereMissing, LinkRoutes, FrameNumbers DEF Missing, Walking, Arrived
<1>2. /\ Target' = Target /\ depth' = depth + 1 /\ isNew' /\ ~Idle' /\ f \in Frames /\ f # NoFrame
  <2>1. f \in Frames /\ f # NoFrame
    BY FrameNumbers DEF Found
  <2>2. Target' = Target /\ depth' = depth + 1 /\ isNew' /\ ~Idle'
    BY LinkWalk, WhereMissing DEF Link, Idle
  <2> QED
    BY <2>1, <2>2
<1>3. \A p \in Pages : p # Target => ~(D = depth + 1 /\ Prefix(p, depth + 1) = Prefix(Target, depth + 1))
  BY <1>1, Prefixes
<1>4. \A p \in Pages : p # Target =>
         At(ram', p, D) = IF At(ram, p, D) = f THEN NoFrame ELSE At(ram, p, D)
  BY <1>1, <1>3
<1>5. Target \notin Loaded /\ Target \notin Loaded'
  <2>1. CASE D = depth + 1
    BY <1>1, <1>2, <2>1 DEF Loaded, Arrived
  <2>2. CASE D # depth + 1
    BY <1>1, <1>2, <2>2 DEF Loaded
  <2> QED
    BY <2>1, <2>2
<1>6. \A p \in Pages : p # Target => (p \in Loaded <=> At(ram, p, D) # NoFrame)
  BY <1>1 DEF Loaded
<1>7. \A p \in Pages : p # Target => (p \in Loaded' <=> At(ram', p, D) # NoFrame)
  BY <1>2 DEF Loaded
<1>8. Loaded \subseteq Pages /\ Loaded' \subseteq Pages
  BY DEF Loaded
<1>9. Loaded' = {q \in Loaded : At(ram, q, D) # f}
  BY <1>4, <1>5, <1>6, <1>7, <1>8
<1>10. ASSUME NEW p \in Loaded'
       PROVE  ram'[At(ram', p, D)] = ram[At(ram, p, D)]
  <2>1. p \in Pages /\ p # Target /\ At(ram, p, D) # f /\ At(ram, p, D) # NoFrame
        /\ At(ram', p, D) = At(ram, p, D)
    BY <1>4, <1>5, <1>6, <1>8, <1>9
  <2>2. At(ram, p, D) \in Frames
    BY <1>1, <2>1, RouteTypes DEF IInv, Tree
  <2>3. LinkedOnce(ram)
    BY DEF IInv, Tree
  <2>4. At(ram, p, D) # node
    BY <1>1, <2>1, <2>3 DEF LinkedOnce
  <2>5. At(ram, p, D) # t
    BY <2>1
  <2>6. m[At(ram, p, D)] = ram[At(ram, p, D)]
    BY <2>1, <2>2, <2>5 DEF Found
  <2>7. Put(m, node, Entry, f)[At(ram, p, D)] = m[At(ram, p, D)]
    <3>1. m \in [Frames -> [Offsets -> Frames \cup Values]] /\ f \in Frames \cup Values
      BY <1>2 DEF Found, Tree, FramesTyped
    <3> QED
      BY <1>1, <2>2, <2>4, <3>1, PutWord
  <2> QED
    BY <1>1, <2>1, <2>6, <2>7
<1>11. LoadedWords' = [p \in Loaded' |-> ram'[At(ram', p, D)]]
  BY DEF LoadedWords
<1>12. LoadedWords' = [p \in Loaded' |-> ram[At(ram, p, D)]]
  BY <1>10, <1>11
<1>13. \A p \in Loaded : LoadedWords[p] = ram[At(ram, p, D)]
  BY DEF LoadedWords
<1> QED
  BY <1>9, <1>12, <1>13

\* A table that is reused is no page.
LEMMA ReusePages ==
    ASSUME IInv, ReuseTable
    PROVE  LoadedWords' = LoadedWords
<1> DEFINE p == Min(EmptyTables)
           f == RouteEnd(p)
           m == Unlink(p)
           l == RouteLength(p)
           t == At(ram, p, l - 1)
<1>1. Missing /\ EmptyTables # {} /\ Link(m, f)
  BY DEF ReuseTable
<1>2. /\ p \in Pages /\ l \in 1..(TABLES_DEPTH - 1) /\ f = At(ram, p, l) /\ f \in InTree(ram)
      /\ Found(m, f, t)
  BY <1>1, ReuseFinds
<1> HIDE DEF p, f, m, t, l
<1>3. /\ l \in Depths /\ l - 1 \in Depths /\ l # TABLES_DEPTH /\ l - 1 # TABLES_DEPTH
      /\ TABLES_DEPTH \in Depths /\ l - 1 \in 0..l
  BY <1>2, FrameNumbers
<1>4. f # NoFrame
  BY <1>2 DEF InTree
<1>5. t # NoFrame
  BY <1>2, <1>3, <1>4, RouteDown DEF t
<1>6. LinkedOnce(ram)
  BY DEF IInv, Tree
<1>7. \A q \in Pages : At(ram, q, TABLES_DEPTH) # t
  BY <1>2, <1>3, <1>5, <1>6 DEF LinkedOnce, t
<1>8. \A q \in Pages : At(ram, q, TABLES_DEPTH) # f
  BY <1>2, <1>3, <1>4, <1>6 DEF LinkedOnce
<1>9. LoadedWords' = [r \in {q \in Loaded : At(ram, q, TABLES_DEPTH) # f} |-> LoadedWords[r]]
  <2>1. Missing /\ Link(m, f) /\ Found(m, f, t)
    BY <1>1, <1>2
  <2>2. \A q \in Pages : At(ram, q, TABLES_DEPTH) = t => t = f
    BY <1>7
  <2> HIDE DEF Loaded
  <2> QED
    BY <2>1, <2>2, LinkPages
<1>10. {q \in Loaded : At(ram, q, TABLES_DEPTH) # f} = Loaded
  BY <1>8 DEF Loaded
<1>11. LoadedWords = [r \in Loaded |-> LoadedWords[r]]
  BY DEF LoadedWords
<1> QED
  BY <1>9, <1>10, <1>11

\* Nor is an unused frame.
LEMMA TakePages ==
    ASSUME IInv, TakeUnused
    PROVE  LoadedWords' = LoadedWords
<1> DEFINE f == MaxFrame + 1
           m == [ram EXCEPT ![f] = ZeroFrame]
<1>1. Missing /\ EmptyTables = {} /\ HasUnused /\ Link(m, f)
  BY DEF TakeUnused
<1>2. Found(m, f, f) /\ f \in Frames /\ f \notin InTree(ram)
  BY <1>1, TakeFinds
<1> HIDE DEF f, m
<1>3. \A q \in Pages : At(ram, q, TABLES_DEPTH) # f
  <2>1. f # NoFrame /\ TABLES_DEPTH \in Depths
    BY <1>2, FrameNumbers
  <2> QED
    BY <1>2, <2>1 DEF InTree
<1>4. LoadedWords' = [r \in {q \in Loaded : At(ram, q, TABLES_DEPTH) # f} |-> LoadedWords[r]]
  BY <1>1, <1>2, LinkPages
<1>5. {q \in Loaded : At(ram, q, TABLES_DEPTH) # f} = Loaded
  BY <1>3 DEF Loaded
<1>6. LoadedWords = [r \in Loaded |-> LoadedWords[r]]
  BY DEF LoadedWords
<1> QED
  BY <1>4, <1>5, <1>6

\* An eviction takes its page out of the RAM.
LEMMA EvictPages ==
    ASSUME IInv, EvictPage
    PROVE  /\ VictimPage \in Loaded /\ LoadedWords[VictimPage] = ram[VictimFrame]
           /\ LoadedWords' = [p \in Loaded \ {VictimPage} |-> LoadedWords[p]]
<1> DEFINE f == VictimFrame
           t == VictimTable
           m == Cleared(f, VictimPage, t)
           D == TABLES_DEPTH
<1>1. /\ Missing /\ EmptyTables = {} /\ ~HasUnused /\ Link(m, f)
  BY DEF EvictPage
<1>2. Found(m, f, t)
  BY <1>1, EvictFinds
<1>3. /\ VictimPage \in Pages /\ f = At(ram, VictimPage, D) /\ f # NoFrame
      /\ t = At(ram, VictimPage, D - 1)
  BY <1>1, VictimIsFarthest, InTermsOfRoutes
<1> HIDE DEF f, m, t
<1>4. D \in Depths /\ D - 1 \in Depths /\ D - 1 # D /\ D - 1 \in 0..D
  BY FrameNumbers
<1>5. t # NoFrame
  BY <1>3, <1>4, RouteDown
<1>6. LinkedOnce(ram)
  BY DEF IInv, Tree
<1>7. \A q \in Pages : At(ram, q, D) # t
  BY <1>3, <1>4, <1>5, <1>6 DEF LinkedOnce
<1>8. \A q \in Pages : At(ram, q, D) = f <=> q = VictimPage
  <2>1. \A q \in Pages : At(ram, q, D) = f => Prefix(q, D) = Prefix(VictimPage, D)
    BY <1>3, <1>4, <1>6 DEF LinkedOnce
  <2>2. \A q \in Pages : Prefix(q, D) = q
    BY Prefixes
  <2> QED
    BY <1>3, <2>1, <2>2
<1>9. LoadedWords' = [r \in {q \in Loaded : At(ram, q, D) # f} |-> LoadedWords[r]]
  BY <1>1, <1>2, <1>7, LinkPages
<1>10. {q \in Loaded : At(ram, q, D) # f} = Loaded \ {VictimPage}
  BY <1>8 DEF Loaded
<1>11. VictimPage \in Loaded
  <2>1. depth # D
    BY <1>1, WhereMissing, FrameNumbers
  <2> QED
    BY <1>3, <2>1 DEF Loaded, Arrived
<1>12. LoadedWords[VictimPage] = ram[f]
  BY <1>3, <1>11 DEF LoadedWords
<1> QED
  BY <1>9, <1>10, <1>11, <1>12 DEF f

\* The words of the page the walk has arrived at are those of no other page.
LEMMA RewrittenPages ==
    ASSUME IInv, Arrived, NEW c \in [Offsets -> Values], Rewritten(c)
    PROVE  /\ Target \in Pages /\ At(ram, Target, TABLES_DEPTH) = node /\ node # NoFrame
           /\ \A p \in Pages : At(ram', p, TABLES_DEPTH) = At(ram, p, TABLES_DEPTH)
           /\ \A p \in Pages : At(ram, p, TABLES_DEPTH) # NoFrame =>
                 ram'[At(ram, p, TABLES_DEPTH)] =
                     IF p = Target THEN c ELSE ram[At(ram, p, TABLES_DEPTH)]
<1> DEFINE D == TABLES_DEPTH
<1>1. /\ Target \in Pages /\ node = At(ram, Target, D) /\ node \in Frames /\ node # NoFrame
      /\ \A u \in Frames : ram'[u] = IF u = node THEN c ELSE ram[u]
      /\ \A p \in Pages, e \in Depths : At(ram', p, e) = At(ram, p, e)
      /\ D \in Depths
  BY PageWords, FrameNumbers
<1>2. Tree(ram) /\ LinkedOnce(ram)
  BY DEF IInv, Tree
<1>3. \A p \in Pages : At(ram, p, D) = node => Prefix(p, D) = Prefix(Target, D)
  BY <1>1, <1>2 DEF LinkedOnce
<1>4. \A p \in Pages : Prefix(p, D) = p
  BY Prefixes
<1>5. \A p \in Pages : At(ram, p, D) # NoFrame => At(ram, p, D) \in Frames
  BY <1>1, <1>2, RouteTypes DEF Tree
<1>6. \A p \in Pages : At(ram, p, D) # NoFrame =>
         ram'[At(ram, p, D)] = IF p = Target THEN c ELSE ram[At(ram, p, D)]
  BY <1>1, <1>3, <1>4, <1>5
<1> QED
  BY <1>1, <1>6

\* Pages do not move when the RAM remains and no page is being restored.
LEMMA PagesRemain ==
    ASSUME ram' = ram, isNew = FALSE, isNew' = FALSE
    PROVE  LoadedWords' = LoadedWords
<1>1. Loaded' = Loaded
  BY DEF Loaded
<1> QED
  BY <1>1 DEF LoadedWords

\* VMread and VMwrite: the call of a client is one of the pager.
LEMMA CallIsCall ==
    ASSUME IInv, NEW op \in {"read", "write"}, NEW va \in Used, NEW w \in Values, Call(op, va, w)
    PROVE  Memory!Next
<1>1. /\ ram' = ram /\ swap' = swap /\ isNew' = isNew /\ Idle /\ va < VIRTUAL_MEMORY_SIZE
      /\ request' = [op |-> op, addr |-> va, word |-> w] /\ reply' = NoReply
  BY DEF Call
<1>2. LoadedWords' = LoadedWords
  BY <1>1, PagesRemain DEF IInv, WalkState
<1>3. va \in Memory!Addresses
  <2>1. /\ va \in Nat /\ NUM_PAGES \in Nat \ {0} /\ PAGE_SIZE \in Nat \ {0}
        /\ va < NUM_PAGES * PAGE_SIZE
    BY <1>1, Sizes, ClientAssumption
  <2>2. va \div PAGE_SIZE \in Nat /\ va \div PAGE_SIZE < NUM_PAGES
    BY <2>1, Divisions
  <2> QED
    BY <2>1, <2>2 DEF Memory!Addresses, Memory!PageOf, Memory!Pages
<1>4. Memory!Call(op, va, w)
  BY <1>1, <1>2, ResidentIsLoaded, ResidentIsLoadedAfter
     DEF Memory!Call, Memory!NoRequest, Memory!NoReply, NoRequest, NoReply, Idle
<1> QED
  BY <1>3, <1>4 DEF Memory!Next

\* A call that is refused.
LEMMA RefuseIsRefuse ==
    ASSUME IInv, NEW va, NEW noPlace, Refuse(va, noPlace)
    PROVE  Memory!Next
<1>1. /\ ram' = ram /\ swap' = swap /\ isNew' = isNew /\ Idle /\ request' = request
      /\ reply' = [status |-> 0, word |-> 0]
  BY DEF Refuse
<1>2. LoadedWords' = LoadedWords
  BY <1>1, PagesRemain DEF IInv, WalkState
<1>3. Memory!Refuse
  BY <1>1, <1>2, ResidentIsLoaded, ResidentIsLoadedAfter
     DEF Memory!Refuse, Memory!NoRequest, NoRequest, Idle
<1> QED
  BY <1>3 DEF Memory!Next

\* The walk along the tables, and a frame that no page was in, are no steps of the pager.
LEMMA WalkIsStutter ==
    ASSUME IInv, Descend \/ ReuseTable \/ TakeUnused
    PROVE  UNCHANGED Memory!vars
<1>1. request' = request /\ reply' = reply /\ swap' = swap
  BY DEF Descend, ReuseTable, TakeUnused, Link
<1>2. LoadedWords' = LoadedWords
  <2>1. CASE Descend
    <3>1. ram' = ram /\ isNew' = isNew /\ Walking /\ ~Missing
      BY <2>1 DEF Descend
    <3>2. isNew = FALSE
      <4>1. Target \in Pages /\ depth \in 0..(TABLES_DEPTH - 1)
        BY <3>1, TargetIsPage, FrameNumbers DEF IInv, WalkState, Walking
      <4>2. Entry \in Offsets
        BY <4>1, Prefixes DEF Entry
      <4>3. ram[node] # ZeroFrame
        BY <3>1, <4>2 DEF Missing, ZeroFrame, ROOT_FRAME
      <4> QED
        BY <4>3 DEF IInv, WalkState
    <3> QED
      BY <3>1, <3>2, PagesRemain
  <2> QED
    BY <2>1, ReusePages, TakePages
<1> QED
  BY <1>1, <1>2, ResidentIsLoaded, ResidentIsLoadedAfter DEF Memory!vars

\* Both measures of distance are the same.
LEMMA SameDistance ==
    ASSUME NEW p \in Pages, NEW q \in Pages
    PROVE  Memory!Distance(p, q) = get_cyclical_distance(p, q)
BY CyclicalDistance DEF Memory!Distance

\* PMevict: the page that goes to the swap file is a farthest one, and none that is
\* there already.
LEMMA EvictIsEvict ==
    ASSUME IInv, EvictPage
    PROVE  Memory!Next
<1> DEFINE v == VictimPage
<1>1. /\ Missing /\ EmptyTables = {} /\ ~HasUnused /\ request' = request /\ reply' = reply
      /\ swap' = [p \in DOMAIN swap \cup {v} |-> IF p = v THEN ram[VictimFrame] ELSE swap[p]]
  BY DEF EvictPage, PMevict, Link
<1>2. v \in Farthest /\ v \in Pages /\ Mapped(v)
  BY <1>1, VictimIsFarthest
<1>3. /\ v \in Loaded /\ LoadedWords[v] = ram[VictimFrame]
      /\ LoadedWords' = [p \in Loaded \ {v} |-> LoadedWords[p]]
  BY EvictPages
<1>4. DOMAIN LoadedWords = Loaded
  BY DEF LoadedWords
<1>5. Target \in Pages /\ request # NoRequest /\ ~Arrived /\ Target \notin Loaded
  BY <1>1, WhereMissing DEF Idle, Missing, Walking, Arrived, Loaded
<1>6. v \notin DOMAIN swap
  <2>1. At(ram, v, TABLES_DEPTH) # NoFrame
    BY <1>2, InTermsOfRoutes
  <2> QED
    BY <1>5, <2>1 DEF IInv, SwapApart
<1>7. ASSUME NEW q \in Loaded PROVE Memory!Distance(q, Target) <= Memory!Distance(v, Target)
  <2>1. q \in Pages /\ Mapped(q)
    BY InTermsOfRoutes DEF Loaded
  <2> QED
    BY <1>2, <1>5, <2>1, SameDistance DEF Farthest
<1>8. Memory!Target = Target
  BY DEF Memory!Target, Memory!PageOf, Target, va_get_page
<1> HIDE DEF v
<1>9. [p \in Resident |-> ram[PageFrame(p)]] = LoadedWords
  BY ResidentIsLoaded
<1>10. Memory!Evict(v)
  <2>1. swap' = Memory!With(swap, v, LoadedWords[v])
    BY <1>1, <1>3 DEF Memory!With, v
  <2>2. LoadedWords' = Memory!Without(LoadedWords, v)
    BY <1>3, <1>4 DEF Memory!Without
  <2> QED
    BY <1>1, <1>4, <1>5, <1>6, <1>7, <1>8, <1>9, <2>1, <2>2, ResidentIsLoadedAfter
       DEF Memory!Evict, Memory!NoRequest, NoRequest
<1> QED
  BY <1>3, <1>4, <1>9, <1>10 DEF Memory!Next

\* PMrestore: the target is in the RAM, with its words from the swap file or blank.
LEMMA RestoreIsLoad ==
    ASSUME IInv, PMrestore
    PROVE  Memory!Next
<1> DEFINE D == TABLES_DEPTH
           c == IF Target \in DOMAIN swap THEN swap[Target] ELSE ZeroFrame
<1>1. /\ Arrived /\ isNew /\ isNew' = FALSE /\ request' = request /\ reply' = reply
      /\ ram' = IF Target \in DOMAIN swap THEN [ram EXCEPT ![node] = swap[Target]] ELSE ram
      /\ swap' = [p \in DOMAIN swap \ {Target} |-> swap[p]]
  BY DEF PMrestore, Erase
<1>2. ram[node] = ZeroFrame /\ ram = [ram EXCEPT ![node] = ram[node]]
  BY <1>1, ArrivedPage DEF IInv, WalkState
<1>3. Rewritten(c)
  BY <1>1, <1>2 DEF Rewritten
<1>4. c \in [Offsets -> Values]
  BY FrameNumbers DEF IInv, SwapTyped
<1>5. /\ Target \in Pages /\ At(ram, Target, D) = node /\ node # NoFrame
      /\ \A p \in Pages : At(ram', p, D) = At(ram, p, D)
      /\ \A p \in Pages : At(ram, p, D) # NoFrame =>
            ram'[At(ram, p, D)] = IF p = Target THEN c ELSE ram[At(ram, p, D)]
  BY <1>1, <1>3, <1>4, RewrittenPages
<1> HIDE DEF c
<1>6. Target \notin Loaded /\ Loaded' = Loaded \cup {Target}
  BY <1>1, <1>5 DEF Loaded, Arrived
<1>7. LoadedWords' = [p \in Loaded \cup {Target} |-> IF p = Target THEN c ELSE LoadedWords[p]]
  <2>1. LoadedWords' = [p \in Loaded' |-> ram'[At(ram', p, D)]]
    BY DEF LoadedWords
  <2>2. \A p \in Loaded : p \in Pages /\ At(ram, p, D) # NoFrame /\ LoadedWords[p] = ram[At(ram, p, D)]
    BY DEF Loaded, LoadedWords
  <2>3. \A p \in Loaded' : ram'[At(ram', p, D)] = IF p = Target THEN c ELSE LoadedWords[p]
    BY <1>5, <1>6, <2>2
  <2> QED
    BY <1>6, <2>1, <2>3
<1>8. DOMAIN LoadedWords = Loaded
  BY DEF LoadedWords
<1>9. Memory!Target = Target
  BY DEF Memory!Target, Memory!PageOf, Target, va_get_page
<1>10. [p \in Resident |-> ram[PageFrame(p)]] = LoadedWords
  BY ResidentIsLoaded
<1>11. Memory!Load
  <2>1. c = IF Target \in DOMAIN swap THEN swap[Target] ELSE Memory!ZeroPage
    BY DEF c, ZeroFrame, Offsets, Memory!ZeroPage, Memory!Offsets
  <2>2. LoadedWords' = Memory!With(LoadedWords, Target, c)
    BY <1>7, <1>8 DEF Memory!With
  <2>3. swap' = Memory!Without(swap, Target)
    BY <1>1 DEF Memory!Without
  <2>4. request # NoRequest
    BY <1>1 DEF Arrived, Idle
  <2> QED
    BY <1>1, <1>6, <1>8, <1>9, <1>10, <2>1, <2>2, <2>3, <2>4, ResidentIsLoadedAfter
       DEF Memory!Load, Memory!NoRequest, NoRequest
<1> QED
  BY <1>11 DEF Memory!Next

\* The end of a call that leaves the words c in its page.
LEMMA AccessedPages ==
    ASSUME IInv, NEW word, Return(word), NEW c \in [Offsets -> Values], Rewritten(c)
    PROVE  /\ Target \in Loaded /\ LoadedWords[Target] = ram[node]
           /\ LoadedWords' = [p \in Loaded |-> IF p = Target THEN c ELSE LoadedWords[p]]
           /\ Memory!Target = Target /\ DOMAIN LoadedWords = Loaded
<1> DEFINE D == TABLES_DEPTH
<1>1. Arrived /\ isNew = FALSE /\ isNew' = FALSE
  BY DEF Return, IInv, WalkState
<1>2. /\ Target \in Pages /\ At(ram, Target, D) = node /\ node # NoFrame
      /\ \A p \in Pages : At(ram', p, D) = At(ram, p, D)
      /\ \A p \in Pages : At(ram, p, D) # NoFrame =>
            ram'[At(ram, p, D)] = IF p = Target THEN c ELSE ram[At(ram, p, D)]
  BY <1>1, RewrittenPages
<1>3. Target \in Loaded /\ Loaded' = Loaded
  BY <1>1, <1>2 DEF Loaded
<1>4. LoadedWords[Target] = ram[node]
  BY <1>2, <1>3 DEF LoadedWords
<1>5. LoadedWords' = [p \in Loaded' |-> ram'[At(ram', p, D)]]
  BY DEF LoadedWords
<1>6. \A p \in Loaded : p \in Pages /\ At(ram, p, D) # NoFrame /\ LoadedWords[p] = ram[At(ram, p, D)]
  BY DEF Loaded, LoadedWords
<1>7. \A p \in Loaded : ram'[At(ram', p, D)] = IF p = Target THEN c ELSE LoadedWords[p]
  BY <1>2, <1>6
<1>8. LoadedWords' = [p \in Loaded |-> IF p = Target THEN c ELSE LoadedWords[p]]
  BY <1>3, <1>5, <1>7
<1>9. Memory!Target = Target /\ DOMAIN LoadedWords = Loaded
  BY DEF Memory!Target, Memory!PageOf, Target, va_get_page, LoadedWords
<1> QED
  BY <1>3, <1>4, <1>8, <1>9

\* VMread returns the word of the page, wherever the page has been in between.
LEMMA ReadIsRead ==
    ASSUME IInv, ReadWord
    PROVE  Memory!Next
<1> DEFINE o == va_get_offset(request.addr)
<1>1. /\ request.op = "read" /\ Return(ram[node][o]) /\ ram' = ram
  BY DEF ReadWord
<1>2. /\ request' = NoRequest /\ reply' = [status |-> 1, word |-> ram[node][o]] /\ swap' = swap
      /\ Arrived
  BY <1>1 DEF Return
<1>3. ram[node] \in [Offsets -> Values] /\ Rewritten(ram[node])
  BY <1>1, <1>2, ArrivedPage DEF Rewritten
<1>4. /\ Target \in Loaded /\ LoadedWords[Target] = ram[node]
      /\ LoadedWords' = [p \in Loaded |-> IF p = Target THEN ram[node] ELSE LoadedWords[p]]
      /\ Memory!Target = Target /\ DOMAIN LoadedWords = Loaded
  BY <1>1, <1>3, AccessedPages
<1>5. LoadedWords' = LoadedWords
  <2>1. LoadedWords = [p \in Loaded |-> LoadedWords[p]]
    BY DEF LoadedWords
  <2> QED
    BY <1>4, <2>1
<1>6. Memory!OffsetOf(request.addr) = o
  BY DEF Memory!OffsetOf, va_get_offset
<1> HIDE DEF o
<1>7. [p \in Resident |-> ram[PageFrame(p)]] = LoadedWords
  BY ResidentIsLoaded
<1>8. Memory!Read
  BY <1>1, <1>2, <1>4, <1>5, <1>6, <1>7, ResidentIsLoadedAfter
     DEF Memory!Read, Memory!NoRequest, NoRequest
<1> QED
  BY <1>8 DEF Memory!Next

\* VMwrite changes that word and no other.
LEMMA WriteIsWrite ==
    ASSUME IInv, WriteWord
    PROVE  Memory!Next
<1> DEFINE o == va_get_offset(request.addr)
           c == [ram[node] EXCEPT ![o] = request.word]
<1>1. /\ request.op = "write" /\ Return(0) /\ ram' = [ram EXCEPT ![node][o] = request.word]
  BY DEF WriteWord
<1>2. /\ request' = NoRequest /\ reply' = [status |-> 1, word |-> 0] /\ swap' = swap
      /\ Arrived
  BY <1>1 DEF Return
<1>3. c \in [Offsets -> Values] /\ Rewritten(c)
  <2>1. ram[node] \in [Offsets -> Values] /\ o \in Offsets /\ request.word \in Values
    BY <1>2, ArrivedPage DEF IInv, RequestTyped
  <2> QED
    BY <1>1, <2>1 DEF Rewritten
<1>4. /\ Target \in Loaded /\ LoadedWords[Target] = ram[node]
      /\ LoadedWords' = [p \in Loaded |-> IF p = Target THEN c ELSE LoadedWords[p]]
      /\ Memory!Target = Target /\ DOMAIN LoadedWords = Loaded
  <2> HIDE DEF c
  <2> QED
    BY <1>1, <1>3, AccessedPages
<1>5. LoadedWords' = [LoadedWords EXCEPT ![Target][o] = request.word]
  <2>1. LoadedWords = [p \in Loaded |-> LoadedWords[p]]
    BY DEF LoadedWords
  <2> QED
    BY <1>4, <2>1
<1>6. Memory!OffsetOf(request.addr) = o
  BY DEF Memory!OffsetOf, va_get_offset
<1> HIDE DEF o, c
<1>7. [p \in Resident |-> ram[PageFrame(p)]] = LoadedWords
  BY ResidentIsLoaded
<1>8. Memory!Write
  BY <1>1, <1>2, <1>4, <1>5, <1>6, <1>7, ResidentIsLoadedAfter
     DEF Memory!Write, Memory!NoRequest, NoRequest
<1> QED
  BY <1>8 DEF Memory!Next

\* At the start no page is anywhere.
LEMMA InitIsInit ==
    ASSUME Init, IInv
    PROVE  Memory!Init
<1>1. Loaded = {}
  <2>1. ASSUME NEW p \in Pages PROVE At(ram, p, TABLES_DEPTH) = NoFrame
    <3>1. /\ 0 \in 0..(TABLES_DEPTH - 1) /\ 0 + 1 \in 0..TABLES_DEPTH /\ TABLES_DEPTH \in Depths
      BY FrameNumbers
    <3>2. page_get_index_depth(p, 0) \in Offsets /\ At(ram, p, 0) = ROOT_FRAME
      BY <3>1, Prefixes, RouteSteps
    <3>3. ram[ROOT_FRAME][page_get_index_depth(p, 0)] = ROOT_FRAME
      BY <3>2, FrameNumbers DEF Init, ZeroFrame
    <3>4. At(ram, p, 0 + 1) = NoFrame
      BY <3>1, <3>2, <3>3, RouteSteps
    <3> QED
      BY <3>1, <3>4, RouteDown
  <2> QED
    BY <2>1 DEF Loaded
<1>2. LoadedWords = [p \in {} |-> Memory!ZeroPage]
  BY <1>1 DEF LoadedWords
<1>3. swap = [p \in {} |-> Memory!ZeroPage]
  BY DEF Init
<1> QED
  BY <1>2, <1>3, ResidentIsLoaded
     DEF Init, Memory!Init, Memory!NoRequest, Memory!NoReply, NoRequest, NoReply

\* Every step of the virtual memory is one of the pager or none.
LEMMA StepOfPager ==
    ASSUME IInv, [Next]_vars
    PROVE  [Memory!Next]_(Memory!vars)
<1>1. ASSUME NEW va \in Used, NEW noPlace \in BOOLEAN, Refuse(va, noPlace) PROVE Memory!Next
  BY <1>1, RefuseIsRefuse
<1>2. ASSUME NEW va \in Used, Call("read", va, 0) PROVE Memory!Next
  BY <1>2, CallIsCall, ClientAssumption
<1>3. ASSUME NEW va \in Written, NEW w \in Values, Call("write", va, w) PROVE Memory!Next
  BY <1>3, CallIsCall, ClientAssumption
<1>4. CASE UNCHANGED vars
  <2>1. LoadedWords' = LoadedWords
    BY <1>4 DEF vars, LoadedWords, Loaded, Target, Arrived, Idle
  <2> QED
    BY <1>4, <2>1, ResidentIsLoaded, ResidentIsLoadedAfter DEF vars, Memory!vars
<1> QED
  BY <1>1, <1>2, <1>3, <1>4, WalkIsStutter, EvictIsEvict, RestoreIsLoad, ReadIsRead, WriteIsWrite
     DEF Next

\* VirtualMemory.cpp is demand paging: whatever frames the tables take, a page is in
\* the RAM, in the swap file or nowhere, its words go with it, and the one that is
\* evicted is the farthest from the one that is loaded (ImplementsPager).
THEOREM VirtualMemoryImplementsPager == Spec => ImplementsPager
<1>1. Init => Memory!Init
  BY InitialInvariant, InitIsInit
<1>2. IInv /\ [Next]_vars => [Memory!Next]_(Memory!vars)
  BY StepOfPager
<1> QED
  BY <1>1, <1>2, VirtualMemoryInvariant, PTL DEF Spec, ImplementsPager, Memory!Spec

\* The proofs about the pager, for this one.
PagerOf == INSTANCE PagerProofs WITH
    NumPages <- NUM_PAGES, PageSize <- PAGE_SIZE, Words <- Values,
    resident <- [p \in Resident |-> ram[PageFrame(p)]]

\* It is the same pager.
LEMMA SamePager ==
    /\ Memory!Init <=> PagerOf!Init
    /\ [Memory!Next]_(Memory!vars) <=> [PagerOf!Next]_(PagerOf!vars)
<1>1. Memory!Init <=> PagerOf!Init
  BY DEF Memory!Init, Memory!ZeroPage, Memory!Offsets, Memory!NoRequest, Memory!NoReply,
         PagerOf!Init, PagerOf!ZeroPage, PagerOf!Offsets, PagerOf!NoRequest, PagerOf!NoReply
<1>2. [Memory!Next]_(Memory!vars) <=> [PagerOf!Next]_(PagerOf!vars)
  BY DEF Memory!Next, Memory!vars, Memory!Call, Memory!Refuse, Memory!Evict, Memory!Load,
         Memory!Read, Memory!Write, Memory!Addresses, Memory!PageOf, Memory!OffsetOf,
         Memory!Pages, Memory!Offsets, Memory!NoRequest, Memory!NoReply, Memory!ZeroPage,
         Memory!Target, Memory!With, Memory!Without, Memory!Distance,
         PagerOf!Next, PagerOf!vars, PagerOf!Call, PagerOf!Refuse, PagerOf!Evict, PagerOf!Load,
         PagerOf!Read, PagerOf!Write, PagerOf!Addresses, PagerOf!PageOf, PagerOf!OffsetOf,
         PagerOf!Pages, PagerOf!Offsets, PagerOf!NoRequest, PagerOf!NoReply, PagerOf!ZeroPage,
         PagerOf!Target, PagerOf!With, PagerOf!Without, PagerOf!Distance
<1> QED
  BY <1>1, <1>2

\* And the same flat memory that it implements.
LEMMA SameFlatMemory ==
    /\ Memory!Flat!Init <=> PagerOf!Flat!Init
    /\ [Memory!Flat!Next]_(Memory!Flat!vars) <=> [PagerOf!Flat!Next]_(PagerOf!Flat!vars)
<1> USE DEF Memory!Addresses, Memory!PageOf, Memory!OffsetOf, Memory!Pages, Memory!Offsets,
            Memory!ZeroPage, Memory!WordsOf, PagerOf!Addresses, PagerOf!PageOf,
            PagerOf!OffsetOf, PagerOf!Pages, PagerOf!Offsets, PagerOf!ZeroPage, PagerOf!WordsOf
<1>1. Memory!Flat!Init <=> PagerOf!Flat!Init
  BY DEF Memory!Flat!Init, Memory!Flat!NoRequest, Memory!Flat!NoReply,
         PagerOf!Flat!Init, PagerOf!Flat!NoRequest, PagerOf!Flat!NoReply
<1>2. [Memory!Flat!Next]_(Memory!Flat!vars) <=> [PagerOf!Flat!Next]_(PagerOf!Flat!vars)
  BY DEF Memory!Flat!Next, Memory!Flat!vars, Memory!Flat!Call, Memory!Flat!Refuse,
         Memory!Flat!AnswerRead, Memory!Flat!AnswerWrite, Memory!Flat!NoRequest,
         Memory!Flat!NoReply, Memory!Flat!Failure, Memory!Flat!Success,
         PagerOf!Flat!Next, PagerOf!Flat!vars, PagerOf!Flat!Call, PagerOf!Flat!Refuse,
         PagerOf!Flat!AnswerRead, PagerOf!Flat!AnswerWrite, PagerOf!Flat!NoRequest,
         PagerOf!Flat!NoReply, PagerOf!Flat!Failure, PagerOf!Flat!Success
<1> QED
  BY <1>1, <1>2

\* VirtualMemory.h: VMread returns what VMwrite last wrote to the address, zero before
\* the first write, whatever was evicted and restored since (ImplementsFlatMemory).
THEOREM ReadsReturnLastWritten == Spec => ImplementsFlatMemory
<1>1. PAGE_SIZE \in Nat \ {0} /\ Used \subseteq Nat /\ 0 \in Values
  BY Sizes, ClientAssumption
<1>2. Init => PagerOf!Init
  BY InitialInvariant, InitIsInit, SamePager
<1>3. IInv /\ [Next]_vars => [PagerOf!Next]_(PagerOf!vars)
  BY StepOfPager, SamePager
<1>4. Init => PagerOf!Inv /\ Memory!Flat!Init
  BY <1>1, <1>2, PagerOf!InitialInv, PagerOf!InitRefines, SameFlatMemory
<1>5. IInv /\ PagerOf!Inv /\ [Next]_vars => PagerOf!Inv'
  BY <1>1, <1>3, PagerOf!NextInv
<1>6. IInv /\ PagerOf!Inv /\ [Next]_vars => [Memory!Flat!Next]_(Memory!Flat!vars)
  BY <1>1, <1>3, PagerOf!StepRefines, SameFlatMemory
<1> QED
  BY <1>4, <1>5, <1>6, VirtualMemoryInvariant, PTL
     DEF Spec, ImplementsFlatMemory, Memory!Flat!Spec

(***************************************************************************)
(* The search as it is written                                             *)
(***************************************************************************)
\* The pages whose branch at a depth comes before b, and those whose branch is b.
Seen(d, b) == {p \in Pages : Prefix(p, d) < b}
Under(d, b) == {p \in Pages : Prefix(p, d) = b}

\* Division keeps the order.
LEMMA DivideInOrder ==
    ASSUME NEW a \in Nat, NEW b \in Nat, a <= b, NEW c \in Nat \ {0}
    PROVE  a \div c <= b \div c
<1>1. /\ a = (a \div c) * c + (a % c) /\ a % c \in 0..(c - 1) /\ a \div c \in Nat
      /\ b = (b \div c) * c + (b % c) /\ b % c \in 0..(c - 1) /\ b \div c \in Nat
  BY Divisions
<1> DEFINE x == a \div c
           y == b \div c
<1> SUFFICES ASSUME x > y PROVE FALSE
  BY <1>1
<1>2. x >= y + 1 /\ x \in Nat /\ y \in Nat
  BY <1>1
<1>3. a >= x * c /\ b < y * c + c
  BY <1>1
<1> HIDE DEF x, y
<1>4. x * c >= (y + 1) * c
  BY <1>2
<1>5. (y + 1) * c = y * c + c
  BY <1>2
<1>6. x * c \in Nat /\ y * c \in Nat
  BY <1>2
<1> QED
  BY <1>3, <1>4, <1>5, <1>6

\* The search goes through the pages in their order, table by table.
LEMMA SearchOrder ==
    /\ Seen(0, 0) = {} /\ Seen(0, 1) = Pages
    /\ \A p, q \in Pages, d \in Depths : p <= q => Prefix(p, d) <= Prefix(q, d)
    /\ \A b \in Nat, d \in Depths : Seen(d, b + 1) = Seen(d, b) \cup Under(d, b)
    /\ \A b \in Nat : Seen(TABLES_DEPTH, b) = {p \in Pages : p < b}
    /\ \A b \in Nat : Under(TABLES_DEPTH, b) = {p \in Pages : p = b}
<1>1. \A p \in Pages : /\ Prefix(p, 0) = 0 /\ Prefix(p, TABLES_DEPTH) = p
                       /\ \A d \in Depths : Prefix(p, d) \in Nat
  BY Prefixes
<1>2. Seen(0, 0) = {} /\ Seen(0, 1) = Pages
  BY <1>1 DEF Seen
<1>3. ASSUME NEW p \in Pages, NEW q \in Pages, NEW d \in Depths, p <= q
      PROVE  Prefix(p, d) <= Prefix(q, d)
  <2>1. p \in Nat /\ q \in Nat /\ Shift(d) \in Nat \ {0}
    BY FrameNumbers, Shifts
  <2>2. p \div Shift(d) <= q \div Shift(d)
    BY <1>3, <2>1, DivideInOrder
  <2> QED
    BY <2>2 DEF Prefix, Shift
<1>4. ASSUME NEW b \in Nat, NEW d \in Depths
      PROVE  Seen(d, b + 1) = Seen(d, b) \cup Under(d, b)
  <2>1. \A p \in Pages : Prefix(p, d) < b + 1 <=> Prefix(p, d) < b \/ Prefix(p, d) = b
    BY <1>1
  <2> QED
    BY <2>1 DEF Seen, Under
<1>5. ASSUME NEW b \in Nat
      PROVE  /\ Seen(TABLES_DEPTH, b) = {p \in Pages : p < b}
             /\ Under(TABLES_DEPTH, b) = {p \in Pages : p = b}
  BY <1>1 DEF Seen, Under
<1> QED
  BY <1>2, <1>3, <1>4, <1>5

\* The entries of a table are the branches of the next depth.
LEMMA SearchBranches ==
    ASSUME NEW d \in 0..(TABLES_DEPTH - 1), NEW b \in Nat
    PROVE  /\ Seen(d + 1, b * PAGE_SIZE) = Seen(d, b)
           /\ Seen(d + 1, b * PAGE_SIZE + PAGE_SIZE) = Seen(d, b + 1)
           /\ \A o \in Offsets :
                 /\ b * PAGE_SIZE + o \in Nat
                 /\ Under(d + 1, b * PAGE_SIZE + o) =
                      {p \in Under(d, b) : page_get_index_depth(p, d) = o}
<1> DEFINE S == PAGE_SIZE
<1>1. S \in Nat \ {0} /\ d + 1 \in Depths /\ d \in Depths /\ b * S \in Nat
  <2>1. S \in Nat \ {0}
    BY Sizes
  <2> QED
    BY <2>1, FrameNumbers
<1>2. ASSUME NEW p \in Pages
      PROVE  /\ Prefix(p, d) \in Nat /\ Prefix(p, d + 1) \in Nat
             /\ page_get_index_depth(p, d) \in 0..(S - 1)
             /\ Prefix(p, d + 1) = Prefix(p, d) * S + page_get_index_depth(p, d)
  <2>1. /\ Prefix(p, d) = Prefix(p, d + 1) \div S /\ Prefix(p, d + 1) \in Nat
        /\ page_get_index_depth(p, d) = Prefix(p, d + 1) % S
    BY <1>1, Prefixes
  <2> DEFINE x == Prefix(p, d + 1)
  <2> HIDE DEF S, x
  <2>2. x \div S \in Nat /\ x % S \in 0..(S - 1) /\ x = (x \div S) * S + (x % S)
    BY <1>1, <2>1, Divisions DEF x
  <2> QED
    BY <2>1, <2>2 DEF x
<1>3. Offsets = 0..(S - 1)
  BY DEF Offsets
<1> HIDE DEF S
<1>4. ASSUME NEW x \in Nat, NEW y \in Nat, x < y PROVE x * S + S <= y * S
  <2>1. (x + 1) * S <= y * S
    BY <1>1, <1>4
  <2> QED
    BY <1>1, <2>1
<1>5. ASSUME NEW p \in Pages PROVE Prefix(p, d + 1) < b * S <=> Prefix(p, d) < b
  <2> DEFINE x == Prefix(p, d)
             i == page_get_index_depth(p, d)
  <2>1. x \in Nat /\ i \in 0..(S - 1) /\ Prefix(p, d + 1) = x * S + i /\ x * S \in Nat
    BY <1>1, <1>2
  <2> HIDE DEF x, i
  <2>2. CASE x < b
    <3>1. x * S + S <= b * S
      BY <1>4, <2>1, <2>2
    <3> QED
      BY <1>1, <2>1, <2>2, <3>1 DEF x
  <2>3. CASE ~(x < b)
    <3>1. b * S <= x * S
      <4>1. b = x \/ b < x
        BY <2>1, <2>3
      <4>2. b < x => b * S + S <= x * S
        BY <1>4, <2>1
      <4> QED
        BY <1>1, <2>1, <4>1, <4>2
    <3> QED
      BY <1>1, <2>1, <2>3, <3>1 DEF x
  <2> QED
    BY <2>2, <2>3
<1>6. ASSUME NEW p \in Pages PROVE Prefix(p, d + 1) < b * S + S <=> Prefix(p, d) < b + 1
  <2> DEFINE x == Prefix(p, d)
             i == page_get_index_depth(p, d)
  <2>1. x \in Nat /\ i \in 0..(S - 1) /\ Prefix(p, d + 1) = x * S + i /\ x * S \in Nat
    BY <1>1, <1>2
  <2> HIDE DEF x, i
  <2>2. CASE x < b + 1
    <3>1. x * S <= b * S
      <4>1. b = x \/ x < b
        BY <2>1, <2>2
      <4>2. x < b => x * S + S <= b * S
        BY <1>4, <2>1
      <4> QED
        BY <1>1, <2>1, <4>1, <4>2
    <3> QED
      BY <1>1, <2>1, <2>2, <3>1 DEF x
  <2>3. CASE ~(x < b + 1)
    <3>1. b * S + S <= x * S
      <4>1. b < x
        BY <2>1, <2>3
      <4> QED
        BY <1>4, <2>1, <4>1
    <3> QED
      BY <1>1, <2>1, <2>3, <3>1 DEF x
  <2> QED
    BY <2>2, <2>3
<1>7. ASSUME NEW o \in 0..(S - 1)
      PROVE  /\ b * S + o \in Nat
             /\ \A p \in Pages : Prefix(p, d + 1) = b * S + o
                                   <=> Prefix(p, d) = b /\ page_get_index_depth(p, d) = o
  <2>1. b * S + o \in Nat
    BY <1>1
  <2>2. ASSUME NEW p \in Pages
        PROVE  Prefix(p, d + 1) = b * S + o
                 <=> Prefix(p, d) = b /\ page_get_index_depth(p, d) = o
    <3> DEFINE x == Prefix(p, d)
               i == page_get_index_depth(p, d)
    <3>1. x \in Nat /\ i \in 0..(S - 1) /\ Prefix(p, d + 1) = x * S + i /\ x * S \in Nat
      BY <1>1, <1>2
    <3> HIDE DEF x, i
    <3>2. x < b => x * S + S <= b * S
      BY <1>4, <3>1
    <3>3. b < x => b * S + S <= x * S
      BY <1>4, <3>1
    <3>4. x * S + i = b * S + o <=> x = b /\ i = o
      <4>1. CASE x = b
        BY <1>1, <3>1, <4>1
      <4>2. CASE x < b
        BY <1>1, <3>1, <3>2, <4>2
      <4>3. CASE b < x
        BY <1>1, <3>1, <3>3, <4>3
      <4> QED
        BY <3>1, <4>1, <4>2, <4>3
    <3> QED
      BY <3>1, <3>4 DEF x, i
  <2> QED
    BY <2>1, <2>2
<1>8. Seen(d + 1, b * S) = Seen(d, b) /\ Seen(d + 1, b * S + S) = Seen(d, b + 1)
  BY <1>5, <1>6 DEF Seen
<1>9. ASSUME NEW o \in Offsets
      PROVE  /\ b * S + o \in Nat
             /\ Under(d + 1, b * S + o) = {p \in Under(d, b) : page_get_index_depth(p, d) = o}
  BY <1>3, <1>7 DEF Under
<1> QED
  BY <1>8, <1>9 DEF S

\* The larger of two numbers.
LEMMA LargerOfTwo ==
    ASSUME NEW a \in Nat, NEW b \in Nat
    PROVE  Max({a, b}) \in {a, b} /\ Max({a, b}) >= a /\ Max({a, b}) >= b
<1>1. \E x \in {a, b} : \A y \in {a, b} : x >= y
  OBVIOUS
<1>2. Max({a, b}) \in {a, b} /\ \A y \in {a, b} : Max({a, b}) >= y
  BY <1>1 DEF Max
<1> QED
  BY <1>2

\* What Count changes.
LEMMA CountIs ==
    ASSUME NEW s \in Knowledge, NEW t \in Knowledge, NEW f \in Nat
    PROVE  LET u == Count(s, t, f)
           IN  /\ u \in Knowledge /\ u.nonzero # 0
               /\ u.max \in {s.max, f} /\ u.max >= s.max /\ u.max >= f
               /\ u.ram = t.ram /\ u.empty = t.empty /\ u.dist = t.dist
               /\ u.frame = t.frame /\ u.page = t.page /\ u.table = t.table
<1> DEFINE k == Max({s.max, f})
<1>1. s.max \in Nat /\ s.nonzero \in Nat
  BY DEF Knowledge
<1>2. k \in {s.max, f} /\ k >= s.max /\ k >= f
  BY <1>1, LargerOfTwo
<1> HIDE DEF k
<1>3. k \in Nat /\ s.nonzero + 1 \in Nat /\ s.nonzero + 1 # 0
  BY <1>1, <1>2
<1>4. Count(s, t, f) = [t EXCEPT !.max = k, !.nonzero = s.nonzero + 1]
  BY DEF Count, k
<1> QED
  BY <1>2, <1>3, <1>4 DEF Knowledge

\* What Consider changes.
LEMMA ConsiderPage ==
    ASSUME NEW s, NEW p, NEW f, NEW t
    PROVE  LET u == Consider(s, p, f, t)
               g == get_cyclical_distance(p, Target)
           IN  u = IF g > s.dist
                   THEN [s EXCEPT !.dist = g, !.frame = f, !.page = p, !.table = t] ELSE s
BY DEF Consider

\* And what it leaves alone.
LEMMA ConsiderIs ==
    ASSUME NEW s \in Knowledge, NEW p \in Pages, NEW f \in Nat, NEW t \in Nat, Target \in Pages
    PROVE  /\ Consider(s, p, f, t) \in Knowledge
           /\ Consider(s, p, f, t).ram = s.ram /\ Consider(s, p, f, t).empty = s.empty
<1> DEFINE g == get_cyclical_distance(p, Target)
           u == Consider(s, p, f, t)
<1>1. g \in Int
  BY CyclicalDistance
<1>2. p \in Nat /\ s.dist \in Nat
  BY FrameNumbers DEF Knowledge
<1>3. u = IF g > s.dist THEN [s EXCEPT !.dist = g, !.frame = f, !.page = p, !.table = t] ELSE s
  BY ConsiderPage
<1> HIDE DEF g, u
<1>4. g > s.dist => g \in Nat
  BY <1>1, <1>2
<1>5. CASE g > s.dist
  <2>1. u = [s EXCEPT !.dist = g, !.frame = f, !.page = p, !.table = t]
    BY <1>3, <1>5
  <2>2. u \in Knowledge /\ u.ram = s.ram /\ u.empty = s.empty
    BY <1>2, <1>4, <1>5, <2>1 DEF Knowledge
  <2> QED
    BY <2>2 DEF u
<1>6. CASE ~(g > s.dist)
  BY <1>3, <1>6 DEF u
<1> QED
  BY <1>5, <1>6

\* What the search below a table starts with.
LEMMA FreshIs ==
    ASSUME NEW s \in Knowledge
    PROVE  LET u == [s EXCEPT !.max = 0, !.nonzero = 0]
           IN  /\ u \in Knowledge /\ u.max = 0 /\ u.nonzero = 0
               /\ u.ram = s.ram /\ u.empty = s.empty /\ u.dist = s.dist
               /\ u.frame = s.frame /\ u.page = s.page /\ u.table = s.table
BY DEF Knowledge

\* What Finish changes.
LEMMA FinishIs ==
    ASSUME NEW s \in Knowledge, ~s.empty, NEW t \in Nat
    PROVE  LET u == Finish(s, t)
           IN  /\ u \in Knowledge
               /\ u.ram = s.ram /\ u.dist = s.dist
               /\ u.frame = s.frame /\ u.page = s.page /\ u.table = s.table
               /\ u.empty <=> s.nonzero = 0 /\ t # node
               /\ u.empty => u.result = t
               /\ ~u.empty => u.result \in {s.max, t} /\ u.result >= s.max /\ u.result >= t
<1> DEFINE k == Max({s.max, t})
<1>1. s.max \in Nat
  BY DEF Knowledge
<1>2. k \in {s.max, t} /\ k >= s.max /\ k >= t
  BY <1>1, LargerOfTwo
<1>3. Finish(s, t) = IF s.nonzero = 0 /\ t # node
                     THEN [s EXCEPT !.empty = TRUE, !.result = t]
                     ELSE [s EXCEPT !.result = k]
  BY DEF Finish
<1> HIDE DEF k
<1>4. k \in Nat
  BY <1>1, <1>2
<1>5. CASE s.nonzero = 0 /\ t # node
  <2>1. Finish(s, t) = [s EXCEPT !.empty = TRUE, !.result = t]
    BY <1>3, <1>5
  <2> QED
    BY <1>5, <2>1 DEF Knowledge
<1>6. CASE ~(s.nonzero = 0 /\ t # node)
  <2>1. Finish(s, t) = [s EXCEPT !.result = k]
    BY <1>3, <1>6
  <2> QED
    BY <1>2, <1>4, <1>6, <2>1 DEF Knowledge
<1> QED
  BY <1>5, <1>6

\* What a search that has come across the pages of S remembers of them: the first of
\* those that are farthest from the target, and the place it is linked at.
Knows(s, S) ==
    /\ \A q \in S : At(ram, q, TABLES_DEPTH) # NoFrame =>
          get_cyclical_distance(q, Target) <= s.dist
    /\ s.dist = 0 => s.page = 0 /\ s.frame = ROOT_FRAME /\ s.table = ROOT_FRAME
    /\ s.dist # 0 =>
          /\ s.page \in S /\ At(ram, s.page, TABLES_DEPTH) # NoFrame
          /\ get_cyclical_distance(s.page, Target) = s.dist
          /\ s.frame = At(ram, s.page, TABLES_DEPTH)
          /\ s.table = At(ram, s.page, TABLES_DEPTH - 1)
          /\ \A q \in S : At(ram, q, TABLES_DEPTH) # NoFrame /\ q < s.page =>
                get_cyclical_distance(q, Target) < s.dist

\* The search goes on: no table is unlinked yet.
Searching(s, S) == s \in Knowledge /\ ~s.empty /\ s.ram = ram /\ Knows(s, S)

\* k is at least as large as every frame on the routes of the pages of S from depth d on.
High(k, d, S) ==
    \A p \in S, e \in Depths : e >= d /\ At(ram, p, e) # NoFrame => At(ram, p, e) <= k

\* The call of the search for the table at depth d of some page.
CallFor(c, d) ==
    /\ c \in Calls /\ c.s.max = 0 /\ c.s.nonzero = 0
    /\ \E p \in Pages : Prefix(p, d) = c.branch /\ At(ram, p, d) = c.table /\ c.table # NoFrame
    /\ Searching(c.s, Seen(d, c.branch))
    /\ EmptyTables \cap Seen(d, c.branch) = {}

FirstEmpty == Min(EmptyTables)

\* The search has ended below the branch b with the first empty table, which is
\* unlinked unless it is the table at depth d itself: that is left to the caller.
Ended(s, d, b) ==
    /\ s \in Knowledge /\ s.empty
    /\ EmptyTables # {} /\ FirstEmpty \in Under(d, b) /\ RouteLength(FirstEmpty) >= d
    /\ s.result = RouteEnd(FirstEmpty)
    /\ s.ram = IF RouteLength(FirstEmpty) = d THEN ram ELSE Unlink(FirstEmpty)

\* It has found no empty table there, and returns the largest frame.
Passed(s, d, b) ==
    /\ Searching(s, Seen(d, b + 1))
    /\ EmptyTables \cap Seen(d, b + 1) = {}
    /\ s.result \in InTree(ram)
    /\ High(s.result, d, Under(d, b))

\* The branch that an entry leads to, at the next depth.
Number(c, n) == c.branch * PAGE_SIZE + n

\* What holds after the first n entries of a table.
Looking(s, c, d, n) ==
    LET S == Seen(d + 1, Number(c, n))
    IN  /\ Searching(s, S)
        /\ EmptyTables \cap S # {} => ram[c.table] = ZeroFrame /\ c.table # node
        /\ s.nonzero = 0 <=> \A o \in 0..(n - 1) : ram[c.table][o] = ROOT_FRAME
        /\ s.max \in InTree(ram)
        /\ \A o \in 0..(n - 1) : High(s.max, d + 1, Under(d + 1, Number(c, o)))

Scanned(s, c, d, n) ==
    \/ Ended(s, d, c.branch) /\ RouteLength(FirstEmpty) # d
    \/ Looking(s, c, d, n)

\* Pages that are not in the RAM are nothing to remember.
LEMMA KnowsNoMore ==
    ASSUME NEW s, NEW S, NEW T, Knows(s, S), \A q \in T : At(ram, q, TABLES_DEPTH) = NoFrame
    PROVE  Knows(s, S \cup T)
BY DEF Knows

\* What else the search carries does not matter.
LEMMA KnowsAsMuch ==
    ASSUME NEW s, NEW t, NEW S, Knows(s, S), t.dist = s.dist, t.page = s.page,
           t.frame = s.frame, t.table = s.table
    PROVE  Knows(t, S)
BY DEF Knows

\* The next page is remembered when it is farther than all before it.
LEMMA KnowsNext ==
    ASSUME NEW s \in Knowledge, NEW p \in Pages, Target \in Pages,
           Knows(s, {q \in Pages : q < p}), At(ram, p, TABLES_DEPTH) \in Nat,
           At(ram, p, TABLES_DEPTH - 1) \in Nat
    PROVE  Knows(Consider(s, p, At(ram, p, TABLES_DEPTH), At(ram, p, TABLES_DEPTH - 1)),
                 {q \in Pages : q < p + 1})
<1> DEFINE u == Consider(s, p, At(ram, p, TABLES_DEPTH), At(ram, p, TABLES_DEPTH - 1))
           g(q) == get_cyclical_distance(q, Target)
           In(q) == At(ram, q, TABLES_DEPTH) # NoFrame
           S == {q \in Pages : q < p}
           T == {q \in Pages : q < p + 1}
<1>1. <<u.dist, u.page, u.frame, u.table>> =
         IF g(p) > s.dist THEN <<g(p), p, At(ram, p, TABLES_DEPTH), At(ram, p, TABLES_DEPTH - 1)>>
         ELSE <<s.dist, s.page, s.frame, s.table>>
  BY ConsiderPage DEF Knowledge
<1>2. s.dist \in Nat /\ Pages \subseteq Nat /\ NoFrame \notin Nat
  BY FrameNumbers DEF Knowledge
<1>3. \A q \in Pages : g(q) \in Int
  BY CyclicalDistance
<1>4. In(p)
  BY <1>2
<1>5. \A q \in T : q \in S \/ q = p
  BY <1>2
<1>6. p \in T /\ S \subseteq T /\ \A q \in S : q < p /\ q \in Pages
  <2>1. p \in Nat /\ \A q \in Pages : q < p => q < p + 1
    BY <1>2
  <2>2. p < p + 1
    BY <2>1
  <2> QED
    BY <2>1, <2>2
<1>7. /\ \A q \in S : In(q) => g(q) <= s.dist
      /\ s.dist = 0 => s.page = 0 /\ s.frame = ROOT_FRAME /\ s.table = ROOT_FRAME
      /\ s.dist # 0 =>
          /\ s.page \in S /\ In(s.page) /\ g(s.page) = s.dist
          /\ s.frame = At(ram, s.page, TABLES_DEPTH)
          /\ s.table = At(ram, s.page, TABLES_DEPTH - 1)
          /\ \A q \in S : In(q) /\ q < s.page => g(q) < s.dist
  BY DEF Knows
<1> SUFFICES /\ \A q \in T : In(q) => g(q) <= u.dist
             /\ u.dist = 0 => u.page = 0 /\ u.frame = ROOT_FRAME /\ u.table = ROOT_FRAME
             /\ u.dist # 0 =>
                 /\ u.page \in T /\ In(u.page) /\ g(u.page) = u.dist
                 /\ u.frame = At(ram, u.page, TABLES_DEPTH)
                 /\ u.table = At(ram, u.page, TABLES_DEPTH - 1)
                 /\ \A q \in T : In(q) /\ q < u.page => g(q) < u.dist
  BY DEF Knows
<1> HIDE DEF u, g, In, S, T
<1>8. CASE g(p) > s.dist
  <2>1. /\ u.dist = g(p) /\ u.page = p /\ u.frame = At(ram, p, TABLES_DEPTH)
        /\ u.table = At(ram, p, TABLES_DEPTH - 1)
    BY <1>1, <1>8
  <2>2. \A q \in S : In(q) => g(q) < g(p)
    BY <1>2, <1>3, <1>6, <1>7, <1>8
  <2>3. \A q \in T : In(q) => g(q) <= g(p)
    BY <1>3, <1>5, <1>6, <2>2
  <2>4. \A q \in T : In(q) /\ q < p => g(q) < g(p)
    BY <1>2, <1>5, <2>2
  <2>5. g(p) # 0
    BY <1>2, <1>3, <1>8
  <2> QED
    BY <1>4, <1>6, <2>1, <2>3, <2>4, <2>5
<1>9. CASE ~(g(p) > s.dist)
  <2>1. /\ u.dist = s.dist /\ u.page = s.page /\ u.frame = s.frame /\ u.table = s.table
    BY <1>1, <1>9
  <2>2. \A q \in T : In(q) => g(q) <= s.dist
    BY <1>2, <1>3, <1>5, <1>7, <1>9
  <2>3. s.dist # 0 => \A q \in T : In(q) /\ q < s.page => g(q) < s.dist
    <3> SUFFICES ASSUME s.dist # 0, NEW q \in T, In(q), q < s.page PROVE g(q) < s.dist
      OBVIOUS
    <3>1. s.page \in S
      BY <1>7
    <3>2. s.page < p /\ s.page \in Nat /\ p \in Nat
      BY <1>2, <1>6, <3>1
    <3>3. q # p
      BY <3>2
    <3> QED
      BY <1>5, <1>7, <3>3
  <2> QED
    BY <1>6, <1>7, <2>1, <2>2, <2>3
<1> QED
  BY <1>8, <1>9

\* The entries of a table are visited one after the other.
LEMMA EntriesSteps ==
    ASSUME NEW below, NEW height, NEW c
    PROVE  LET loop == Entries(below, height, c)
           IN  /\ loop[0] = c.s
               /\ \A n \in 0..(PAGE_SIZE - 1) :
                     loop[n + 1] = Visit(below, height, c, loop[n], n)
<1> DEFINE next(n, s) == Visit(below, height, c, s, n - 1)
           Good(n, g) == g = [i \in 0..n |-> IF i = 0 THEN c.s ELSE next(i, g[i - 1])]
           S == {n \in 0..PAGE_SIZE : \E g : Good(n, g)}
<1>1. PAGE_SIZE \in Nat \ {0} /\ 0 \in 0..PAGE_SIZE
  BY Sizes
<1>2. 0 \in S
  <2> DEFINE g == [i \in 0..0 |-> c.s]
  <2>1. Good(0, g)
    OBVIOUS
  <2> HIDE DEF Good, g
  <2> QED
    BY <1>1, <2>1
<1> HIDE DEF next
<1>3. ASSUME NEW n \in 0..(PAGE_SIZE - 1), n \in S PROVE n + 1 \in S
  <2>1. PICK g : Good(n, g)
    BY <1>3
  <2> DEFINE h == [i \in 0..(n + 1) |-> IF i = n + 1 THEN next(n + 1, g[n]) ELSE g[i]]
  <2>2. h[n] = g[n] /\ \A i \in 0..n : h[i] = g[i]
    BY <1>1
  <2>3. ASSUME NEW i \in 0..(n + 1)
        PROVE  h[i] = IF i = 0 THEN c.s ELSE next(i, h[i - 1])
    <3>1. CASE i = n + 1
      <4>1. i - 1 = n /\ i # 0
        BY <1>1, <3>1
      <4> QED
        BY <2>2, <3>1, <4>1
    <3>2. CASE i \in 0..n /\ i # 0
      <4>1. i - 1 \in 0..n
        BY <1>1, <3>2
      <4> QED
        BY <2>1, <2>2, <3>2, <4>1
    <3>3. CASE i = 0
      BY <1>1, <2>1, <2>2, <3>3
    <3> QED
      BY <1>1, <3>1, <3>2, <3>3
  <2>4. Good(n + 1, h)
    BY <2>3
  <2>5. n + 1 \in 0..PAGE_SIZE
    BY <1>1
  <2> HIDE DEF Good, h
  <2> QED
    BY <2>4, <2>5
<1> HIDE DEF S
<1>4. PAGE_SIZE \in S
  <2>1. 0..PAGE_SIZE \subseteq S
    BY <1>1, <1>2, <1>3, SetInduction
  <2> QED
    BY <1>1, <2>1
<1> DEFINE loop == Entries(below, height, c)
<1>5. \E g : g = [i \in 0..PAGE_SIZE |-> IF i = 0 THEN c.s ELSE next(i, g[i - 1])]
  BY <1>4 DEF S
<1>6. loop = [i \in 0..PAGE_SIZE |-> IF i = 0 THEN c.s ELSE next(i, loop[i - 1])]
  BY <1>5 DEF Entries, next
<1> HIDE DEF loop
<1>7. loop[0] = c.s
  BY <1>1, <1>6
<1>8. ASSUME NEW n \in 0..(PAGE_SIZE - 1)
      PROVE  loop[n + 1] = Visit(below, height, c, loop[n], n)
  <2>1. n + 1 \in 0..PAGE_SIZE /\ n + 1 # 0 /\ (n + 1) - 1 = n
    BY <1>1
  <2>2. loop[n + 1] = next(n + 1, loop[n])
    BY <1>6, <2>1
  <2> QED
    BY <2>1, <2>2 DEF next
<1> QED
  BY <1>7, <1>8 DEF loop

\* The search through a table uses the search one level below.
LEMMA SearchSteps ==
    /\ \A c \in Calls : Searches[0][c] = Scan(<<>>, 0, c)
    /\ \A height \in 0..(TABLES_DEPTH - 1) : height # 0 =>
          \A c \in Calls : Searches[height][c] = Scan(Searches[height - 1], height, c)
<1> DEFINE next(height, below) == [c \in Calls |-> Scan(below, height, c)]
           first == next(0, <<>>)
           Good(n, g) == g = [i \in 0..n |-> IF i = 0 THEN first ELSE next(i, g[i - 1])]
           H == TABLES_DEPTH - 1
           S == {n \in 0..H : \E g : Good(n, g)}
<1>1. H \in Nat /\ 0 \in 0..H
  BY FrameNumbers
<1> HIDE DEF H, next, first
<1>2. 0 \in S
  <2> DEFINE g == [i \in 0..0 |-> first]
  <2>1. Good(0, g)
    OBVIOUS
  <2> HIDE DEF Good, g
  <2> QED
    BY <1>1, <2>1
<1>3. ASSUME NEW n \in 0..(H - 1), n \in S PROVE n + 1 \in S
  <2>1. PICK g : Good(n, g)
    BY <1>3
  <2> DEFINE h == [i \in 0..(n + 1) |-> IF i = n + 1 THEN next(n + 1, g[n]) ELSE g[i]]
  <2>2. h[n] = g[n] /\ \A i \in 0..n : h[i] = g[i]
    BY <1>1
  <2>3. ASSUME NEW i \in 0..(n + 1)
        PROVE  h[i] = IF i = 0 THEN first ELSE next(i, h[i - 1])
    <3>1. CASE i = n + 1
      <4>1. i - 1 = n /\ i # 0
        BY <1>1, <3>1
      <4> QED
        BY <2>2, <3>1, <4>1
    <3>2. CASE i \in 0..n /\ i # 0
      <4>1. i - 1 \in 0..n
        BY <1>1, <3>2
      <4> QED
        BY <2>1, <2>2, <3>2, <4>1
    <3>3. CASE i = 0
      BY <1>1, <2>1, <2>2, <3>3
    <3> QED
      BY <1>1, <3>1, <3>2, <3>3
  <2>4. Good(n + 1, h)
    BY <2>3
  <2>5. n + 1 \in 0..H
    BY <1>1
  <2> HIDE DEF Good, h
  <2> QED
    BY <2>4, <2>5
<1> HIDE DEF S
<1>4. H \in S
  <2>1. 0..H \subseteq S
    BY <1>1, <1>2, <1>3, SetInduction
  <2> QED
    BY <1>1, <2>1
<1>5. \E g : g = [i \in 0..H |-> IF i = 0 THEN first ELSE next(i, g[i - 1])]
  BY <1>4 DEF S
<1> DEFINE body(i, g) == [c \in Calls |-> Scan(IF i = 0 THEN <<>> ELSE g[i - 1], i, c)]
<1>6. ASSUME NEW g, NEW i \in 0..H
      PROVE  body(i, g) = IF i = 0 THEN first ELSE next(i, g[i - 1])
  BY <1>6 DEF next, first
<1>7. \E g : g = [i \in 0..H |-> body(i, g)]
  <2>1. PICK g : g = [i \in 0..H |-> IF i = 0 THEN first ELSE next(i, g[i - 1])]
    BY <1>5
  <2> HIDE DEF body
  <2>2. g = [i \in 0..H |-> body(i, g)]
    BY <1>6, <2>1
  <2> QED
    BY <2>2
<1>8. Searches = [i \in 0..H |-> body(i, Searches)]
  BY <1>7 DEF Searches, H
<1> HIDE DEF body
<1>9. Searches[0] = first /\ \A i \in 0..H : i # 0 => Searches[i] = next(i, Searches[i - 1])
  BY <1>1, <1>6, <1>8
<1>10. \A c \in Calls : first[c] = Scan(<<>>, 0, c)
  BY DEF first, next
<1>11. \A i, b : \A c \in Calls : next(i, b)[c] = Scan(b, i, c)
  BY DEF next
<1> QED
  BY <1>9, <1>10, <1>11 DEF H

\* The branches of the entries follow each other, and fill that of their table.
LEMMA EntryNumbers ==
    ASSUME NEW d \in 0..(TABLES_DEPTH - 1), NEW c, CallFor(c, d)
    PROVE  /\ Seen(d + 1, Number(c, 0)) = Seen(d, c.branch)
           /\ Seen(d + 1, Number(c, PAGE_SIZE)) = Seen(d, c.branch + 1)
           /\ \A n \in Offsets :
                 /\ Number(c, n) \in Nat /\ Number(c, n + 1) = Number(c, n) + 1
                 /\ Seen(d + 1, Number(c, n) + 1) =
                      Seen(d + 1, Number(c, n)) \cup Under(d + 1, Number(c, n))
                 /\ Under(d + 1, Number(c, n)) =
                      {p \in Under(d, c.branch) : page_get_index_depth(p, d) = n}
<1> DEFINE b == c.branch
           S == PAGE_SIZE
<1>1. b \in Nat
  BY DEF CallFor, Calls
<1>2. S \in Nat \ {0} /\ b * S \in Nat
  BY <1>1, Sizes
<1>3. /\ Seen(d + 1, b * S) = Seen(d, b)
      /\ Seen(d + 1, b * S + S) = Seen(d, b + 1)
      /\ \A o \in Offsets :
            /\ b * S + o \in Nat
            /\ Under(d + 1, b * S + o) = {p \in Under(d, b) : page_get_index_depth(p, d) = o}
  BY <1>1, SearchBranches
<1>4. /\ b * S + 0 = b * S
      /\ \A n \in Offsets : n \in Nat /\ b * S + (n + 1) = (b * S + n) + 1
  BY <1>2 DEF Offsets
<1>5. \A k \in Nat : Seen(d + 1, k + 1) = Seen(d + 1, k) \cup Under(d + 1, k)
  BY FrameNumbers, SearchOrder
<1> HIDE DEF b, S
<1> QED
  BY <1>3, <1>4, <1>5 DEF Number, b, S

\* The entries before the next one are those before this one, and this one.
LEMMA EarlierEntries ==
    ASSUME NEW n \in Offsets
    PROVE  /\ n \in Nat
           /\ \A o \in 0..((n + 1) - 1) : o \in 0..(n - 1) \/ o = n
           /\ n \in 0..((n + 1) - 1) /\ 0..(n - 1) \subseteq 0..((n + 1) - 1)
           /\ 0..(n - 1) \subseteq Offsets
<1>1. PAGE_SIZE \in Nat \ {0}
  BY Sizes
<1> QED
  BY <1>1 DEF Offsets

\* The pages below the table of a call, and the entry each of them takes.
LEMMA CallTable ==
    ASSUME IInv, Missing, NEW d \in 0..(TABLES_DEPTH - 1), NEW c, CallFor(c, d)
    PROVE  /\ c.s \in Knowledge /\ c.branch \in Nat
           /\ c.table \in Frames /\ c.table # NoFrame /\ c.table \in InTree(ram)
           /\ ram \in [Frames -> [Offsets -> Nat]] /\ ram[c.table] \in [Offsets -> Frames]
           /\ Under(d, c.branch) # {}
           /\ \A p \in Under(d, c.branch) : p \in Pages /\ At(ram, p, d) = c.table
<1> DEFINE b == c.branch
           t == c.table
<1>1. PICK p0 \in Pages : Prefix(p0, d) = b /\ At(ram, p0, d) = t /\ t # NoFrame
  BY DEF CallFor
<1>2. c.s \in Knowledge /\ b \in Nat /\ t \in Frames
  BY DEF CallFor, Calls
<1>3. d \in Depths /\ d + 1 \in Depths /\ d < TABLES_DEPTH /\ d \in 0..d /\ Frames \subseteq Nat
  BY FrameNumbers
<1>4. /\ ram \in [Frames -> [Offsets -> Frames \cup Values]]
      /\ ram[At(ram, p0, d)] \in [Offsets -> IF d < TABLES_DEPTH THEN Frames ELSE Values]
  BY <1>1, <1>3 DEF IInv, Tree, FramesTyped
<1>5. ram \in [Frames -> [Offsets -> Nat]]
  <2>1. Frames \cup Values \subseteq Nat
    BY <1>3, ClientAssumption
  <2> QED
    BY <1>4, <2>1
<1>6. ram[t] \in [Offsets -> Frames]
  BY <1>1, <1>3, <1>4
<1>7. p0 \in Under(d, b) /\ t \in InTree(ram)
  BY <1>1, <1>3 DEF Under, InTree
<1>8. \A p \in Under(d, b) : p \in Pages /\ At(ram, p, d) = t
  <2> SUFFICES ASSUME NEW p \in Under(d, b) PROVE p \in Pages /\ At(ram, p, d) = t
    OBVIOUS
  <2>1. p \in Pages /\ Prefix(p, d) = Prefix(p0, d)
    BY <1>1 DEF Under
  <2>2. At(ram, p, d) = At(ram, p0, d)
    BY <1>3, <2>1, RouteOfPrefix
  <2> QED
    BY <1>1, <2>1, <2>2
<1> QED
  BY <1>1, <1>2, <1>5, <1>6, <1>7, <1>8

\* The pages below an entry, and the frame each of them has there.
LEMMA EntryPages ==
    ASSUME IInv, Missing, NEW d \in 0..(TABLES_DEPTH - 1), NEW c, CallFor(c, d),
           NEW o \in Offsets
    PROVE  /\ Under(d + 1, Number(c, o)) # {}
           /\ \A p \in Under(d + 1, Number(c, o)) :
                 /\ p \in Under(d, c.branch) /\ page_get_index_depth(p, d) = o
                 /\ ram[c.table][o] = ROOT_FRAME => At(ram, p, d + 1) = NoFrame
                 /\ ram[c.table][o] # ROOT_FRAME => At(ram, p, d + 1) = ram[c.table][o]
<1> DEFINE b == c.branch
           t == c.table
<1>1. PICK p0 \in Pages : Prefix(p0, d) = b /\ At(ram, p0, d) = t /\ t # NoFrame
  BY DEF CallFor
<1>2. Under(d + 1, Number(c, o)) = {p \in Under(d, b) : page_get_index_depth(p, d) = o}
  BY EntryNumbers
<1>3. PICK q \in Pages : Prefix(q, d) = Prefix(p0, d) /\ page_get_index_depth(q, d) = o
  BY Branch
<1>4. q \in Under(d, b)
  BY <1>1, <1>3 DEF Under
<1>5. ASSUME NEW p \in Under(d, b), page_get_index_depth(p, d) = o
      PROVE  /\ ram[t][o] = ROOT_FRAME => At(ram, p, d + 1) = NoFrame
             /\ ram[t][o] # ROOT_FRAME => At(ram, p, d + 1) = ram[t][o]
  <2>1. At(ram, p, d) = t /\ t # NoFrame
    BY <1>1, CallTable
  <2>2. At(ram, p, d + 1) =
           IF \/ At(ram, p, d) = NoFrame
              \/ ram[At(ram, p, d)][page_get_index_depth(p, d)] = ROOT_FRAME
           THEN NoFrame ELSE ram[At(ram, p, d)][page_get_index_depth(p, d)]
    BY RouteSteps
  <2> QED
    BY <1>5, <2>1, <2>2
<1> QED
  BY <1>2, <1>3, <1>4, <1>5

\* Where the first empty table is found, if it is not below the pages seen before.
LEMMA FirstFound ==
    ASSUME IInv, NEW d \in Depths, NEW b \in Nat, EmptyTables \cap Seen(d, b) = {},
           NEW p \in Under(d, b), p \in EmptyTables
    PROVE  FirstEmpty \in Under(d, b) /\ FirstEmpty \in EmptyTables
<1>1. EmptyTables \subseteq Pages /\ Pages \subseteq Nat
  BY EmptyTableEnds, FrameNumbers DEF IInv
<1>2. EmptyTables \in SUBSET Nat /\ EmptyTables # {}
  BY <1>1
<1>3. \E m \in EmptyTables : \A i \in EmptyTables : m <= i
  BY <1>2, Smallest
<1>4. FirstEmpty \in EmptyTables /\ FirstEmpty <= p
  BY <1>3 DEF FirstEmpty, Min
<1>5. FirstEmpty \in Pages /\ p \in Pages /\ Prefix(p, d) = b
  BY <1>1, <1>4 DEF Under
<1>6. Prefix(FirstEmpty, d) <= b /\ Prefix(FirstEmpty, d) \in Nat
  BY <1>4, <1>5, SearchOrder, Prefixes
<1>7. ~(Prefix(FirstEmpty, d) < b)
  BY <1>4, <1>5 DEF Seen
<1>8. Prefix(FirstEmpty, d) = b
  BY <1>6, <1>7
<1> QED
  BY <1>4, <1>5, <1>8 DEF Under

\* Before the first entry nothing is known of the table.
LEMMA NothingScanned ==
    ASSUME IInv, Missing, NEW d \in 0..(TABLES_DEPTH - 1), NEW c, CallFor(c, d)
    PROVE  Scanned(c.s, c, d, 0)
<1>2. 0..(0 - 1) = {}
  OBVIOUS
<1>3. Seen(d + 1, Number(c, 0)) = Seen(d, c.branch)
  BY EntryNumbers
<1>4. 0 \in InTree(ram)
  <2>1. 0 \in Pages /\ 0 \in Depths /\ At(ram, 0, 0) = ROOT_FRAME /\ ROOT_FRAME = 0 /\ NoFrame = -1
    BY FrameNumbers, RouteSteps
  <2> QED
    BY <2>1 DEF InTree
<1>5. /\ Searching(c.s, Seen(d, c.branch)) /\ EmptyTables \cap Seen(d, c.branch) = {}
      /\ c.s.max = 0 /\ c.s.nonzero = 0
  BY DEF CallFor
<1> QED
  BY <1>2, <1>3, <1>4, <1>5 DEF Scanned, Looking

\* An entry that is zero: a table that ends here is found only if all its entries are.
LEMMA ZeroEntry ==
    ASSUME IInv, Missing, NEW d \in 0..(TABLES_DEPTH - 1), NEW c, CallFor(c, d),
           NEW n \in Offsets, NEW s, Looking(s, c, d, n), ram[c.table][n] = ROOT_FRAME
    PROVE  Looking(s, c, d, n + 1)
<1> DEFINE k == Number(c, n)
           S == Seen(d + 1, k)
           T == Under(d + 1, k)
<1>1. /\ k \in Nat /\ n \in Nat /\ Number(c, n + 1) = k + 1
      /\ \A o \in 0..((n + 1) - 1) : o \in 0..(n - 1) \/ o = n
      /\ n \in 0..((n + 1) - 1) /\ 0..(n - 1) \subseteq 0..((n + 1) - 1)
  BY EntryNumbers, EarlierEntries
<1>2. d \in Depths /\ d + 1 \in Depths /\ TABLES_DEPTH \in Nat /\ d \in Nat
      /\ d + 1 \in 0..TABLES_DEPTH /\ Depths = 0..TABLES_DEPTH
  BY FrameNumbers
<1>3. Seen(d + 1, k + 1) = S \cup T
  BY EntryNumbers
<1>4. \A p \in T : p \in Pages /\ At(ram, p, d) = c.table /\ At(ram, p, d + 1) = NoFrame
  <2>1. \A p \in T : p \in Under(d, c.branch) /\ At(ram, p, d + 1) = NoFrame
    BY EntryPages
  <2>2. \A p \in Under(d, c.branch) : p \in Pages /\ At(ram, p, d) = c.table
    BY CallTable
  <2> QED
    BY <2>1, <2>2
<1>5. ASSUME NEW p \in T, NEW e \in Depths, e >= d + 1 PROVE At(ram, p, e) = NoFrame
  <2>1. d + 1 \in 0..e
    BY <1>2, <1>5
  <2> QED
    BY <1>4, <2>1, RouteDown
<1>6. /\ Searching(s, S)
      /\ EmptyTables \cap S # {} => ram[c.table] = ZeroFrame /\ c.table # node
      /\ s.nonzero = 0 <=> \A o \in 0..(n - 1) : ram[c.table][o] = ROOT_FRAME
      /\ s.max \in InTree(ram)
      /\ \A o \in 0..(n - 1) : High(s.max, d + 1, Under(d + 1, Number(c, o)))
  BY DEF Looking
<1>7. Searching(s, S \cup T)
  <2>1. \A p \in T : At(ram, p, TABLES_DEPTH) = NoFrame
    BY <1>2, <1>5
  <2> HIDE DEF S, T
  <2> QED
    BY <1>6, <2>1, KnowsNoMore DEF Searching
<1>8. ASSUME NEW p \in T, p \in EmptyTables PROVE ram[c.table] = ZeroFrame /\ c.table # node
  <2>1. p \in Pages /\ RouteLength(p) = LengthIn(ram, p)
    BY <1>4, InTermsOfRoutes
  <2>2. At(ram, p, d) # NoFrame /\ At(ram, p, d + 1) = NoFrame
    BY <1>4, CallTable
  <2>3. LengthIn(ram, p) \in Depths /\ d <= LengthIn(ram, p) /\ ~(d + 1 <= LengthIn(ram, p))
    BY <1>2, <2>2, RouteLengths
  <2>4. RouteLength(p) = d
    BY <1>2, <2>1, <2>3
  <2>5. EmptyNode(ram, node, p, d)
    BY <1>8, <2>4, EmptyTableEnds DEF IInv
  <2> QED
    BY <1>4, <2>5 DEF EmptyNode
<1>9. High(s.max, d + 1, T)
  BY <1>5 DEF High
<1> HIDE DEF S, T, k
<1>10. s.nonzero = 0 <=> \A o \in 0..((n + 1) - 1) : ram[c.table][o] = ROOT_FRAME
  BY <1>1, <1>6
<1>11. \A o \in 0..((n + 1) - 1) : High(s.max, d + 1, Under(d + 1, Number(c, o)))
  BY <1>1, <1>6, <1>9 DEF T, k
<1>12. EmptyTables \cap (S \cup T) # {} => ram[c.table] = ZeroFrame /\ c.table # node
  BY <1>6, <1>8
<1> QED
  BY <1>1, <1>3, <1>6, <1>7, <1>10, <1>11, <1>12 DEF Looking

\* An entry that is not zero, when no empty table is found below it.
LEMMA OtherEntry ==
    ASSUME IInv, Missing, NEW d \in 0..(TABLES_DEPTH - 1), NEW c, CallFor(c, d),
           NEW n \in Offsets, NEW s, Looking(s, c, d, n), ram[c.table][n] # ROOT_FRAME,
           NEW u, u.nonzero # 0, u.max \in InTree(ram), u.max >= s.max,
           Searching(u, Seen(d + 1, Number(c, n) + 1)),
           EmptyTables \cap Seen(d + 1, Number(c, n) + 1) = {},
           High(u.max, d + 1, Under(d + 1, Number(c, n)))
    PROVE  Looking(u, c, d, n + 1)
<1>1. /\ n \in Nat /\ Number(c, n + 1) = Number(c, n) + 1
      /\ \A o \in 0..((n + 1) - 1) : o \in 0..(n - 1) \/ o = n
      /\ n \in 0..((n + 1) - 1)
  BY EntryNumbers, EarlierEntries
<1>2. \A o \in 0..(n - 1) : High(s.max, d + 1, Under(d + 1, Number(c, o)))
  BY DEF Looking
<1>3. ASSUME NEW o \in 0..(n - 1)
      PROVE  High(u.max, d + 1, Under(d + 1, Number(c, o)))
  <2>1. s.max \in Nat /\ u.max \in Nat
    BY DEF Looking, Searching, Knowledge
  <2>3. \A p \in Under(d + 1, Number(c, o)) : p \in Pages
    BY DEF Under
  <2>4. \A p \in Pages, e \in Depths : At(ram, p, e) \in Int
    <3>1. FramesTyped(ram) /\ Frames \subseteq Nat /\ NoFrame \in Int
      BY FrameNumbers DEF IInv, Tree
    <3>2. \A p \in Pages, e \in Depths : At(ram, p, e) \in Frames \cup {NoFrame}
      BY <3>1, RouteTypes
    <3>3. \A x \in Frames \cup {NoFrame} : x \in Int
      BY <3>1
    <3> QED
      BY <3>2, <3>3
  <2> QED
    BY <1>2, <2>1, <2>3, <2>4 DEF High
<1>4. \A o \in 0..((n + 1) - 1) : High(u.max, d + 1, Under(d + 1, Number(c, o)))
  BY <1>1, <1>3
<1>5. u.nonzero = 0 <=> \A o \in 0..((n + 1) - 1) : ram[c.table][o] = ROOT_FRAME
  BY <1>1
<1> QED
  BY <1>1, <1>4, <1>5 DEF Looking

\* A table with an entry that is not zero is not empty.
LEMMA NotEmptyNow ==
    ASSUME IInv, Missing, NEW d \in 0..(TABLES_DEPTH - 1), NEW c, CallFor(c, d),
           NEW n \in Offsets, NEW s, Looking(s, c, d, n), ram[c.table][n] # ROOT_FRAME
    PROVE  EmptyTables \cap Seen(d + 1, Number(c, n)) = {}
<1>1. ZeroFrame[n] = ROOT_FRAME
  BY DEF ZeroFrame, ROOT_FRAME
<1> QED
  BY <1>1 DEF Looking

\* An entry of a table at the last depth is a page in the RAM.
LEMMA PageVisited ==
    ASSUME IInv, Missing, NEW d \in 0..(TABLES_DEPTH - 1), d + 1 = TABLES_DEPTH,
           NEW c, CallFor(c, d), NEW n \in Offsets, NEW s, Looking(s, c, d, n),
           ram[c.table][n] # ROOT_FRAME
    PROVE  Looking(Count(s, Consider(s, Number(c, n), ram[c.table][n], c.table),
                         ram[c.table][n]),
                   c, d, n + 1)
<1> DEFINE p == Number(c, n)
           f == ram[c.table][n]
           v == Consider(s, p, f, c.table)
           u == Count(s, v, f)
<1>1. p \in Nat
  BY EntryNumbers
<1>2. /\ \A b \in Nat : Seen(TABLES_DEPTH, b) = {q \in Pages : q < b}
      /\ \A b \in Nat : Under(TABLES_DEPTH, b) = {q \in Pages : q = b}
  BY SearchOrder
<1>3. Under(d + 1, p) # {} /\ \A q \in Under(d + 1, p) :
         q \in Under(d, c.branch) /\ At(ram, q, d + 1) = f
  BY EntryPages
<1>4. p \in Pages /\ p \in Under(d, c.branch) /\ At(ram, p, TABLES_DEPTH) = f
  BY <1>1, <1>2, <1>3
<1>5. At(ram, p, TABLES_DEPTH - 1) = c.table
  <2>1. TABLES_DEPTH - 1 = d
    BY FrameNumbers
  <2> QED
    BY <1>4, <2>1, CallTable
<1>6. f \in Frames /\ f \in Nat /\ c.table \in Frames /\ c.table \in Nat /\ f # NoFrame
  <2>1. c.table \in Frames /\ ram[c.table] \in [Offsets -> Frames]
    BY CallTable
  <2>2. f \in Frames
    BY <2>1
  <2> QED
    BY <2>1, <2>2, FrameNumbers
<1>7. Target \in Pages
  BY TargetIsPage DEF IInv
<1>8. /\ s \in Knowledge /\ ~s.empty /\ s.ram = ram /\ Knows(s, Seen(d + 1, p))
      /\ s.max \in InTree(ram)
  BY DEF Looking, Searching
<1> HIDE DEF p, f
<1>9. Knows(v, {q \in Pages : q < p + 1})
  <2>1. Knows(s, {q \in Pages : q < p})
    BY <1>1, <1>2, <1>8
  <2>2. At(ram, p, TABLES_DEPTH) \in Nat /\ At(ram, p, TABLES_DEPTH - 1) \in Nat
    BY <1>4, <1>5, <1>6
  <2>3. Knows(Consider(s, p, At(ram, p, TABLES_DEPTH), At(ram, p, TABLES_DEPTH - 1)),
              {q \in Pages : q < p + 1})
    BY <1>4, <1>7, <1>8, <2>1, <2>2, KnowsNext
  <2> QED
    BY <1>4, <1>5, <2>3
<1> HIDE DEF v
<1>10. /\ v \in Knowledge /\ v.ram = s.ram /\ v.empty = s.empty
  <2>1. s \in Knowledge /\ p \in Pages /\ f \in Nat /\ c.table \in Nat /\ Target \in Pages
    BY <1>4, <1>6, <1>7, <1>8
  <2> QED
    <3>1. v = Consider(s, p, f, c.table)
      BY DEF v
    <3>2. /\ Consider(s, p, f, c.table) \in Knowledge
          /\ Consider(s, p, f, c.table).ram = s.ram
          /\ Consider(s, p, f, c.table).empty = s.empty
      BY <2>1, ConsiderIs
    <3> QED
      BY <3>1, <3>2
<1>11. /\ u \in Knowledge /\ u.nonzero # 0
       /\ u.max \in {s.max, f} /\ u.max >= s.max /\ u.max >= f
       /\ u.ram = v.ram /\ u.empty = v.empty /\ u.dist = v.dist
       /\ u.frame = v.frame /\ u.page = v.page /\ u.table = v.table
  BY <1>6, <1>8, <1>10, CountIs
<1> HIDE DEF u
<1>12. Searching(u, Seen(d + 1, p + 1))
  <2>1. Seen(d + 1, p + 1) = {q \in Pages : q < p + 1}
    BY <1>1, <1>2
  <2>2. Knows(u, Seen(d + 1, p + 1))
    BY <1>9, <1>11, <2>1, KnowsAsMuch
  <2> QED
    BY <1>8, <1>10, <1>11, <2>2 DEF Searching
<1>13. EmptyTables \cap Seen(d + 1, p + 1) = {}
  <2>1. EmptyTables \cap Seen(d + 1, p) = {}
    BY NotEmptyNow DEF p, f
  <2>2. p \notin EmptyTables
    BY <1>4, <1>6, InTermsOfRoutes DEF EmptyTables, EndsInEmptyTable
  <2>3. Seen(d + 1, p + 1) = Seen(d + 1, p) \cup Under(d + 1, p)
    BY <1>1, FrameNumbers, SearchOrder
  <2>4. \A q \in Under(d + 1, p) : q = p
    BY <1>1, <1>2
  <2> QED
    BY <2>1, <2>2, <2>3, <2>4
<1>14. High(u.max, d + 1, Under(d + 1, p))
  <2>1. ASSUME NEW q \in Under(d + 1, p), NEW e \in Depths, e >= d + 1
        PROVE  At(ram, q, e) <= u.max
    <3>1. e = d + 1
      BY <2>1, FrameNumbers
    <3>2. At(ram, q, e) = f
      BY <1>3, <3>1
    <3>3. u.max \in Nat
      BY <1>11 DEF Knowledge
    <3> QED
      BY <1>6, <1>11, <3>2, <3>3
  <2> QED
    BY <2>1 DEF High
<1>15. u.max \in InTree(ram)
  <2>1. f \in InTree(ram)
    BY <1>4, <1>6, FrameNumbers DEF InTree
  <2> QED
    BY <1>8, <1>11, <2>1
<1>16. Looking(u, c, d, n + 1)
  BY <1>11, <1>12, <1>13, <1>14, <1>15, OtherEntry DEF p, f
<1> QED
  BY <1>16 DEF u, v, p, f

\* The search one level below keeps its promise: it ends or it passes.
Promised(below, d) ==
    \A e : CallFor(e, d) => Ended(below[e], d, e.branch) \/ Passed(below[e], d, e.branch)

\* The call of the search for an entry that is a table.
LEMMA CallBelow ==
    ASSUME IInv, Missing, NEW d \in 0..(TABLES_DEPTH - 1), d + 1 \in 0..(TABLES_DEPTH - 1),
           NEW c, CallFor(c, d), NEW n \in Offsets, NEW s, Looking(s, c, d, n),
           ram[c.table][n] # ROOT_FRAME
    PROVE  CallFor([table |-> ram[c.table][n], branch |-> Number(c, n),
                    s |-> [s EXCEPT !.max = 0, !.nonzero = 0]], d + 1)
<1> DEFINE b == Number(c, n)
           f == ram[c.table][n]
           u == [s EXCEPT !.max = 0, !.nonzero = 0]
           e == [table |-> f, branch |-> b, s |-> u]
<1>1. b \in Nat
  BY EntryNumbers
<1>2. f \in Frames /\ f # NoFrame
  BY CallTable, FrameNumbers
<1>3. \E p \in Under(d + 1, b) : p \in Pages /\ At(ram, p, d + 1) = f
  BY EntryPages DEF Under
<1>4. s \in Knowledge /\ ~s.empty /\ s.ram = ram /\ Knows(s, Seen(d + 1, b))
  BY DEF Looking, Searching
<1>5. EmptyTables \cap Seen(d + 1, b) = {}
  BY NotEmptyNow
<1>6. /\ u \in Knowledge /\ u.max = 0 /\ u.nonzero = 0
      /\ u.ram = s.ram /\ u.empty = s.empty /\ u.dist = s.dist
      /\ u.frame = s.frame /\ u.page = s.page /\ u.table = s.table
  BY <1>4, FreshIs
<1> HIDE DEF b, f, u
<1>7. Knows(u, Seen(d + 1, b))
  BY <1>4, <1>6, KnowsAsMuch
<1>8. e.table = f /\ e.branch = b /\ e.s = u /\ e \in Calls
  BY <1>1, <1>2, <1>6 DEF Calls
<1> HIDE DEF e
<1>9. \E p \in Pages : Prefix(p, d + 1) = b /\ At(ram, p, d + 1) = f /\ f # NoFrame
  BY <1>2, <1>3 DEF Under
<1>10. CallFor(e, d + 1)
  BY <1>4, <1>5, <1>6, <1>7, <1>8, <1>9 DEF CallFor, Searching
<1> QED
  BY <1>10 DEF e, u, f, b

\* The first empty table, when a search has ended with it.
LEMMA EndedWith ==
    ASSUME IInv, NEW s, NEW d, NEW b, Ended(s, d, b)
    PROVE  /\ FirstEmpty \in Pages /\ RouteLength(FirstEmpty) \in 0..(TABLES_DEPTH - 1)
           /\ RouteEnd(FirstEmpty) = At(ram, FirstEmpty, RouteLength(FirstEmpty))
           /\ RouteEnd(FirstEmpty) # NoFrame
<1>1. EmptyTables \subseteq Pages /\ EmptyTables # {} /\ Tree(ram)
  BY EmptyTableEnds DEF IInv, Ended
<1>2. FirstEmpty \in EmptyTables
  BY <1>1, FirstPage DEF FirstEmpty
<1> QED
  BY <1>1, <1>2, EmptyTableEnds DEF EmptyNode

\* An entry that is a table: the search below it passes, or ends; if it ends with
\* that table itself, the entry is reset.
LEMMA TableVisited ==
    ASSUME IInv, Missing, NEW d \in 0..(TABLES_DEPTH - 1), d + 1 \in 0..(TABLES_DEPTH - 1),
           NEW c, CallFor(c, d), NEW n \in Offsets, NEW s, Looking(s, c, d, n),
           ram[c.table][n] # ROOT_FRAME, NEW below, Promised(below, d + 1)
    PROVE  Scanned(VisitTable(below, ram[c.table][n], Number(c, n), c, s, n), c, d, n + 1)
<1> DEFINE f == ram[c.table][n]
           b == Number(c, n)
           e == [table |-> f, branch |-> b, s |-> [s EXCEPT !.max = 0, !.nonzero = 0]]
           t == below[e]
           l == RouteLength(FirstEmpty)
           u == VisitTable(below, f, b, c, s, n)
<1>1. CallFor(e, d + 1) /\ e.branch = b
  BY CallBelow
<1>2. u = IF ~t.empty THEN Count(s, t, t.result)
          ELSE IF t.result = f THEN [t EXCEPT !.ram[c.table][n] = ROOT_FRAME]
          ELSE t
  BY DEF VisitTable
<1> HIDE DEF e
<1>3. Ended(t, d + 1, b) \/ Passed(t, d + 1, b)
  BY <1>1 DEF Promised
<1>4. /\ \A q \in Under(d + 1, b) : q \in Under(d, c.branch) /\ At(ram, q, d + 1) = f
      /\ c.table \in Frames /\ f \in Frames
  <2>1. \A q \in Under(d + 1, b) : q \in Under(d, c.branch) /\ At(ram, q, d + 1) = f
    BY EntryPages
  <2>2. c.table \in Frames /\ ram[c.table] \in [Offsets -> Frames]
    BY CallTable
  <2> QED
    BY <2>1, <2>2
<1> HIDE DEF t, u, f, b
<1>5. CASE Ended(t, d + 1, b)
  <2>1. /\ t \in Knowledge /\ t.empty /\ EmptyTables # {} /\ FirstEmpty \in Under(d + 1, b)
        /\ l >= d + 1 /\ t.result = RouteEnd(FirstEmpty)
        /\ t.ram = IF l = d + 1 THEN ram ELSE Unlink(FirstEmpty)
    BY <1>5 DEF Ended
  <2>2. /\ FirstEmpty \in Pages /\ l \in 0..(TABLES_DEPTH - 1)
        /\ RouteEnd(FirstEmpty) = At(ram, FirstEmpty, l) /\ RouteEnd(FirstEmpty) # NoFrame
    BY <1>5, EndedWith
  <2>3. FirstEmpty \in Under(d, c.branch) /\ At(ram, FirstEmpty, d + 1) = f
    BY <1>4, <2>1
  <2>4. t.result = f <=> l = d + 1
    <3>1. LinkedOnce(ram) /\ d + 1 \in Depths /\ l \in Depths
      BY <2>2, FrameNumbers DEF IInv, Tree
    <3>2. At(ram, FirstEmpty, l) = At(ram, FirstEmpty, d + 1) => l = d + 1
      BY <2>2, <3>1 DEF LinkedOnce
    <3> QED
      BY <2>1, <2>2, <2>3, <3>2
  <2>5. l >= d /\ l # d
    BY <2>1, <2>2
  <2>6. CASE l = d + 1
    <3>1. u = [t EXCEPT !.ram[c.table][n] = ROOT_FRAME] /\ t.ram = ram
      BY <1>2, <2>1, <2>4, <2>6
    <3>2. /\ u \in Knowledge /\ u.empty /\ u.result = RouteEnd(FirstEmpty)
          /\ u.ram = [ram EXCEPT ![c.table][n] = ROOT_FRAME]
      <4> DEFINE w == [t EXCEPT !.ram[c.table][n] = ROOT_FRAME]
      <4>1. t \in Knowledge /\ c.table \in Frames /\ n \in Offsets
        BY <1>4, <2>1
      <4>2. /\ w \in Knowledge /\ w.empty = t.empty /\ w.result = t.result
            /\ w.ram = [t.ram EXCEPT ![c.table][n] = ROOT_FRAME]
        BY <4>1, FrameNumbers DEF Knowledge
      <4> HIDE DEF w
      <4>3. u = w
        BY <3>1 DEF w
      <4> QED
        BY <2>1, <3>1, <4>2, <4>3
    <3>3. l - 1 = d
      BY <2>2, <2>6
    <3>4. Route(FirstEmpty)[d] = c.table /\ page_get_index_depth(FirstEmpty, d) = n
      <4>1. Route(FirstEmpty)[d] = At(ram, FirstEmpty, d)
        BY <2>2, InTermsOfRoutes
      <4>2. At(ram, FirstEmpty, d) = c.table
        BY <2>3, CallTable
      <4>3. page_get_index_depth(FirstEmpty, d) = n
        BY <2>1, EntryPages DEF b
      <4> QED
        BY <4>1, <4>2, <4>3
    <3>5. u.ram = Unlink(FirstEmpty)
      BY <3>2, <3>3, <3>4 DEF Unlink
    <3> QED
      BY <2>1, <2>3, <2>5, <3>2, <3>5 DEF Scanned, Ended, u, f, b
  <2>7. CASE l # d + 1
    <3>1. u = t /\ t.ram = Unlink(FirstEmpty)
      BY <1>2, <2>1, <2>4, <2>7
    <3> QED
      BY <2>1, <2>3, <2>5, <3>1 DEF Scanned, Ended, u, f, b
  <2> QED
    BY <2>6, <2>7
<1>6. CASE Passed(t, d + 1, b)
  <2>1. /\ t \in Knowledge /\ ~t.empty /\ t.ram = ram /\ Knows(t, Seen(d + 1, b + 1))
        /\ EmptyTables \cap Seen(d + 1, b + 1) = {}
        /\ t.result \in InTree(ram) /\ High(t.result, d + 1, Under(d + 1, b))
    BY <1>6 DEF Passed, Searching
  <2>2. s \in Knowledge /\ s.max \in InTree(ram)
    BY DEF Looking, Searching
  <2>3. u = Count(s, t, t.result) /\ t.result \in Nat
    BY <1>2, <2>1 DEF Knowledge
  <2>4. /\ u \in Knowledge /\ u.nonzero # 0
        /\ u.max \in {s.max, t.result} /\ u.max >= s.max /\ u.max >= t.result
        /\ u.ram = t.ram /\ u.empty = t.empty /\ u.dist = t.dist
        /\ u.frame = t.frame /\ u.page = t.page /\ u.table = t.table
    <3>1. s \in Knowledge /\ t \in Knowledge /\ t.result \in Nat
      BY <2>1, <2>2, <2>3
    <3>2. u = Count(s, t, t.result)
      BY <2>3
    <3> QED
      BY <3>1, <3>2, CountIs
  <2>5. Searching(u, Seen(d + 1, b + 1))
    BY <2>1, <2>4, KnowsAsMuch DEF Searching
  <2>6. High(u.max, d + 1, Under(d + 1, b))
    <3>1. u.max \in Nat /\ t.result \in Nat
      BY <2>3, <2>4 DEF Knowledge
    <3>2. FramesTyped(ram) /\ \A x \in Frames \cup {NoFrame} : x \in Int
      BY FrameNumbers DEF IInv, Tree
    <3>3. \A q \in Under(d + 1, b), x \in Depths : At(ram, q, x) \in Int
      BY <3>2, RouteTypes DEF Under
    <3> QED
      BY <2>1, <2>4, <3>1, <3>3 DEF High
  <2>7. u.max \in InTree(ram)
    BY <2>1, <2>2, <2>4
  <2>8. Looking(u, c, d, n + 1)
    BY <2>1, <2>4, <2>5, <2>6, <2>7, OtherEntry DEF f, b
  <2> QED
    BY <2>8 DEF Scanned, u, f, b
<1> QED
  BY <1>3, <1>5, <1>6

\* One entry, whatever it is.
LEMMA EntryVisited ==
    ASSUME IInv, Missing, NEW d \in 0..(TABLES_DEPTH - 1), NEW c, CallFor(c, d),
           NEW n \in Offsets, NEW s, Scanned(s, c, d, n), NEW height,
           height = 0 <=> d + 1 = TABLES_DEPTH,
           NEW below, height # 0 => Promised(below, d + 1)
    PROVE  Scanned(Visit(below, height, c, s, n), c, d, n + 1)
<1> DEFINE u == Visit(below, height, c, s, n)
<1>1. u = LET child == s.ram[c.table][n]
              page == Number(c, n)
          IN  IF s.empty \/ child = ROOT_FRAME THEN s
              ELSE IF height = 0 THEN Count(s, Consider(s, page, child, c.table), child)
              ELSE VisitTable(below, child, page, c, s, n)
  BY DEF Visit, Number
<1> HIDE DEF u
<1>2. CASE Ended(s, d, c.branch) /\ RouteLength(FirstEmpty) # d
  <2>1. s.empty
    BY <1>2 DEF Ended
  <2>2. u = s
    BY <1>1, <2>1
  <2> QED
    BY <1>2, <2>2 DEF Scanned, u
<1>3. CASE Looking(s, c, d, n)
  <2>1. ~s.empty /\ s.ram = ram
    BY <1>3 DEF Looking, Searching
  <2>2. CASE ram[c.table][n] = ROOT_FRAME
    <3>1. u = s
      BY <1>1, <2>1, <2>2
    <3>2. Looking(s, c, d, n + 1)
      BY <1>3, <2>2, ZeroEntry
    <3> QED
      BY <3>1, <3>2 DEF Scanned, u
  <2>3. CASE ram[c.table][n] # ROOT_FRAME /\ height = 0
    <3>1. u = Count(s, Consider(s, Number(c, n), ram[c.table][n], c.table), ram[c.table][n])
      BY <1>1, <2>1, <2>3
    <3>2. Looking(u, c, d, n + 1)
      BY <1>3, <2>3, <3>1, PageVisited
    <3> QED
      BY <3>2 DEF Scanned, u
  <2>4. CASE ram[c.table][n] # ROOT_FRAME /\ height # 0
    <3>1. u = VisitTable(below, ram[c.table][n], Number(c, n), c, s, n)
      BY <1>1, <2>1, <2>4
    <3>2. d + 1 \in 0..(TABLES_DEPTH - 1) /\ Promised(below, d + 1)
      BY <2>4, FrameNumbers
    <3>3. Scanned(u, c, d, n + 1)
      BY <1>3, <2>4, <3>1, <3>2, TableVisited
    <3> QED
      BY <3>3 DEF u
  <2> QED
    BY <2>2, <2>3, <2>4
<1> QED
  BY <1>2, <1>3 DEF Scanned

\* The loop over the entries of a table.
LEMMA EntriesVisited ==
    ASSUME IInv, Missing, NEW d \in 0..(TABLES_DEPTH - 1), NEW c, CallFor(c, d), NEW height,
           height = 0 <=> d + 1 = TABLES_DEPTH,
           NEW below, height # 0 => Promised(below, d + 1)
    PROVE  Scanned(Entries(below, height, c)[PAGE_SIZE], c, d, PAGE_SIZE)
<1> DEFINE loop == Entries(below, height, c)
           S == {n \in 0..PAGE_SIZE : Scanned(loop[n], c, d, n)}
<1>1. PAGE_SIZE \in Nat \ {0} /\ Offsets = 0..(PAGE_SIZE - 1)
  BY Sizes DEF Offsets
<1>2. /\ loop[0] = c.s
      /\ \A n \in 0..(PAGE_SIZE - 1) : loop[n + 1] = Visit(below, height, c, loop[n], n)
  BY EntriesSteps
<1> HIDE DEF loop
<1>3. 0 \in S
  BY <1>1, <1>2, NothingScanned
<1>4. ASSUME NEW n \in 0..(PAGE_SIZE - 1), n \in S PROVE n + 1 \in S
  <2>1. Scanned(loop[n], c, d, n) /\ n \in Offsets /\ n + 1 \in 0..PAGE_SIZE
    BY <1>1, <1>4
  <2>2. Scanned(Visit(below, height, c, loop[n], n), c, d, n + 1)
    BY <2>1, EntryVisited
  <2> QED
    BY <1>2, <2>1, <2>2
<1> HIDE DEF S
<1>5. 0..PAGE_SIZE \subseteq S
  BY <1>1, <1>3, <1>4, SetInduction
<1>6. PAGE_SIZE \in S
  BY <1>1, <1>5
<1> QED
  BY <1>6 DEF S, loop

\* The end of the loop: the table itself may be the first empty one.
LEMMA TableFinished ==
    ASSUME IInv, Missing, NEW d \in 0..(TABLES_DEPTH - 1), NEW c, CallFor(c, d),
           NEW s, Looking(s, c, d, PAGE_SIZE)
    PROVE  LET u == Finish(s, c.table)
           IN  Ended(u, d, c.branch) \/ Passed(u, d, c.branch)
<1> DEFINE u == Finish(s, c.table)
           t == c.table
           b == c.branch
           S == Seen(d, b + 1)
<1>1. PAGE_SIZE \in Nat \ {0} /\ Offsets = 0..(PAGE_SIZE - 1)
  BY Sizes DEF Offsets
<1>2. Seen(d + 1, Number(c, PAGE_SIZE)) = S /\ b \in Nat
  BY EntryNumbers, CallTable
<1>3. /\ s \in Knowledge /\ ~s.empty /\ s.ram = ram /\ Knows(s, S)
      /\ EmptyTables \cap S # {} => ram[t] = ZeroFrame /\ t # node
      /\ s.nonzero = 0 <=> \A o \in Offsets : ram[t][o] = ROOT_FRAME
      /\ s.max \in InTree(ram)
      /\ \A o \in Offsets : High(s.max, d + 1, Under(d + 1, Number(c, o)))
  BY <1>1, <1>2 DEF Looking, Searching
<1>4. /\ t \in Frames /\ t \in Nat /\ t # NoFrame /\ t \in InTree(ram)
      /\ ram[t] \in [Offsets -> Frames] /\ Under(d, b) # {}
  BY CallTable, FrameNumbers
<1>5. \A p \in Under(d, b) : p \in Pages /\ At(ram, p, d) = t
  BY CallTable
<1>6. /\ u \in Knowledge /\ u.ram = s.ram /\ u.dist = s.dist
      /\ u.frame = s.frame /\ u.page = s.page /\ u.table = s.table
      /\ u.empty <=> s.nonzero = 0 /\ t # node
      /\ u.empty => u.result = t
      /\ ~u.empty => u.result \in {s.max, t} /\ u.result >= s.max /\ u.result >= t
  BY <1>3, <1>4, FinishIs
<1>7. d \in Depths /\ d + 1 \in Depths /\ d \in Nat /\ d < TABLES_DEPTH
  BY FrameNumbers
<1> HIDE DEF u, t, b, S
<1>8. CASE u.empty
  <2>1. ram[t] = ZeroFrame /\ t # node
    BY <1>3, <1>4, <1>6, <1>8 DEF ZeroFrame, ROOT_FRAME
  <2>2. PICK p \in Under(d, b) : TRUE
    BY <1>4
  <2>3. \A q \in Under(d, b) : EmptyNode(ram, node, q, d)
    BY <1>4, <1>5, <2>1 DEF EmptyNode
  <2>4. \A q \in Under(d, b) : q \in EmptyTables /\ RouteEnd(q) = t
    BY <1>5, <2>3, EmptyTableEnds DEF IInv
  <2>5. EmptyTables \cap Seen(d, b) = {}
    BY DEF CallFor, b
  <2>6. FirstEmpty \in Under(d, b) /\ FirstEmpty \in EmptyTables
    BY <1>2, <1>7, <2>2, <2>4, <2>5, FirstFound
  <2>7. RouteLength(FirstEmpty) = d
    <3>1. FirstEmpty \in Pages /\ At(ram, FirstEmpty, d) = t
      BY <1>5, <2>6
    <3>2. /\ RouteLength(FirstEmpty) \in 0..(TABLES_DEPTH - 1)
          /\ RouteEnd(FirstEmpty) = At(ram, FirstEmpty, RouteLength(FirstEmpty))
      BY <2>6, EmptyTableEnds DEF IInv
    <3>3. RouteEnd(FirstEmpty) = t
      BY <2>4, <2>6
    <3>4. RouteLength(FirstEmpty) \in Depths /\ LinkedOnce(ram)
      BY <3>2, FrameNumbers DEF IInv, Tree
    <3>5. /\ At(ram, FirstEmpty, d) # NoFrame
          /\ At(ram, FirstEmpty, d) = At(ram, FirstEmpty, RouteLength(FirstEmpty))
      BY <1>4, <3>1, <3>2, <3>3
    <3> QED
      BY <1>7, <3>1, <3>4, <3>5 DEF LinkedOnce
  <2>8. Ended(u, d, b)
    BY <1>3, <1>6, <1>7, <1>8, <2>4, <2>6, <2>7 DEF Ended
  <2> QED
    BY <2>8 DEF u, t, b
<1>9. CASE ~u.empty
  <2>1. Searching(u, S)
    BY <1>3, <1>6, <1>9, KnowsAsMuch DEF Searching
  <2>2. EmptyTables \cap S = {}
    <3>1. ASSUME EmptyTables \cap S # {} PROVE FALSE
      <4>1. ram[t] = ZeroFrame /\ t # node
        BY <1>3, <3>1
      <4>2. s.nonzero = 0
        BY <1>3, <4>1 DEF ZeroFrame, ROOT_FRAME
      <4> QED
        BY <1>6, <1>9, <4>1, <4>2
    <3> QED
      BY <3>1
  <2>3. u.result \in InTree(ram)
    BY <1>3, <1>4, <1>6, <1>9
  <2>4. High(u.result, d, Under(d, b))
    <3>1. ASSUME NEW p \in Under(d, b), NEW e \in Depths, e >= d, At(ram, p, e) # NoFrame
          PROVE  At(ram, p, e) <= u.result
      <4>1. CASE e = d
        BY <1>5, <1>6, <1>9, <4>1
      <4>2. CASE e # d
        <5>1. e >= d + 1
          BY <1>7, <3>1, <4>2 DEF Depths
        <5>2. page_get_index_depth(p, d) \in Offsets
          BY <1>5, Prefixes
        <5>3. p \in Under(d + 1, Number(c, page_get_index_depth(p, d)))
          BY <5>2, EntryNumbers DEF b
        <5>4. At(ram, p, e) <= s.max
          BY <1>3, <3>1, <5>1, <5>2, <5>3 DEF High
        <5>5. At(ram, p, e) \in Frames \cup {NoFrame}
          BY <1>5, RouteTypes DEF IInv, Tree
        <5>6. At(ram, p, e) \in Nat
          BY <3>1, <5>5, FrameNumbers
        <5>7. s.max \in Nat /\ u.result \in Nat /\ u.result >= s.max
          BY <1>3, <1>6, <1>9 DEF Knowledge
        <5> QED
          BY <5>4, <5>6, <5>7
      <4> QED
        BY <4>1, <4>2
    <3> QED
      BY <3>1 DEF High
  <2>5. Passed(u, d, b)
    BY <2>1, <2>2, <2>3, <2>4 DEF Passed, S
  <2> QED
    BY <2>5 DEF u, t, b
<1> QED
  BY <1>8, <1>9

\* One call of the search.
LEMMA TableScanned ==
    ASSUME IInv, Missing, NEW d \in 0..(TABLES_DEPTH - 1), NEW c, CallFor(c, d), NEW height,
           height = 0 <=> d + 1 = TABLES_DEPTH,
           NEW below, height # 0 => Promised(below, d + 1)
    PROVE  LET t == Scan(below, height, c)
           IN  Ended(t, d, c.branch) \/ Passed(t, d, c.branch)
<1> DEFINE s == Entries(below, height, c)[PAGE_SIZE]
           t == Scan(below, height, c)
<1>1. t = IF s.empty THEN s ELSE Finish(s, c.table)
  BY DEF Scan
<1>2. Scanned(s, c, d, PAGE_SIZE)
  BY EntriesVisited
<1> HIDE DEF s, t
<1>3. CASE Ended(s, d, c.branch)
  BY <1>1, <1>3 DEF Ended, t
<1>4. CASE Looking(s, c, d, PAGE_SIZE)
  <2>1. t = Finish(s, c.table)
    BY <1>1, <1>4 DEF Looking, Searching
  <2>2. Ended(t, d, c.branch) \/ Passed(t, d, c.branch)
    BY <1>4, <2>1, TableFinished
  <2> QED
    BY <2>2 DEF t
<1> QED
  BY <1>2, <1>3, <1>4 DEF Scanned

\* All calls, from the lowest tables up to the root.
LEMMA SearchPromise ==
    ASSUME IInv, Missing
    PROVE  \A height \in 0..(TABLES_DEPTH - 1) :
              Promised(Searches[height], TABLES_DEPTH - 1 - height)
<1> DEFINE H == TABLES_DEPTH - 1
           S == {h \in 0..H : Promised(Searches[h], H - h)}
<1>1. H \in Nat /\ TABLES_DEPTH = H + 1 /\ 0 \in 0..H /\ H - 0 = H
  BY FrameNumbers
<1>2. \A e, d : CallFor(e, d) => e \in Calls
  BY DEF CallFor
<1>3. 0 \in S
  <2>1. ASSUME NEW e, CallFor(e, H)
        PROVE  Ended(Searches[0][e], H, e.branch) \/ Passed(Searches[0][e], H, e.branch)
    <3>1. Searches[0][e] = Scan(<<>>, 0, e)
      BY <1>2, <2>1, SearchSteps
    <3>2. H \in 0..(TABLES_DEPTH - 1) /\ H + 1 = TABLES_DEPTH
      BY <1>1
    <3> HIDE DEF H
    <3>3. Ended(Scan(<<>>, 0, e), H, e.branch) \/ Passed(Scan(<<>>, 0, e), H, e.branch)
      BY <2>1, <3>2, TableScanned
    <3> QED
      BY <3>1, <3>3
  <2> QED
    BY <1>1, <2>1 DEF Promised
<1>4. ASSUME NEW h \in 0..(H - 1), h \in S PROVE h + 1 \in S
  <2> DEFINE d == H - (h + 1)
  <2>1. /\ d \in 0..(TABLES_DEPTH - 1) /\ d + 1 = H - h /\ d + 1 # TABLES_DEPTH
        /\ h + 1 \in 0..H /\ h + 1 # 0 /\ (h + 1) - 1 = h
    BY <1>1
  <2>2. Promised(Searches[h], d + 1)
    BY <1>4, <2>1
  <2>3. ASSUME NEW e, CallFor(e, d)
        PROVE  Ended(Searches[h + 1][e], d, e.branch) \/ Passed(Searches[h + 1][e], d, e.branch)
    <3>1. Searches[h + 1][e] = Scan(Searches[h], h + 1, e)
      BY <1>2, <2>1, <2>3, SearchSteps
    <3> HIDE DEF d, H
    <3>2. \/ Ended(Scan(Searches[h], h + 1, e), d, e.branch)
          \/ Passed(Scan(Searches[h], h + 1, e), d, e.branch)
      BY <2>1, <2>2, <2>3, TableScanned
    <3> QED
      BY <3>1, <3>2
  <2>4. Promised(Searches[h + 1], d)
    BY <2>3 DEF Promised
  <2> QED
    BY <2>1, <2>4
<1> HIDE DEF S, H
<1>5. 0..H \subseteq S
  BY <1>1, <1>3, <1>4, SetInduction
<1> QED
  BY <1>5 DEF S, H

\* The search starts at the root and knows nothing.
LEMMA FirstCall ==
    ASSUME IInv, Missing
    PROVE  CallFor([table |-> ROOT_FRAME, branch |-> 0, s |-> Nothing], 0)
<1> DEFINE c == [table |-> ROOT_FRAME, branch |-> 0, s |-> Nothing]
<1>1. /\ ROOT_FRAME \in Frames /\ ROOT_FRAME = 0 /\ 0 \in Pages /\ ROOT_FRAME # NoFrame
      /\ Frames \subseteq Nat
  BY FrameNumbers
<1>2. ram \in [Frames -> [Offsets -> Nat]]
  <2>1. ram \in [Frames -> [Offsets -> Frames \cup Values]]
    BY DEF IInv, Tree, FramesTyped
  <2>2. Frames \cup Values \subseteq Nat
    BY <1>1, ClientAssumption
  <2> QED
    BY <2>1, <2>2
<1>3. /\ Nothing \in Knowledge /\ ~Nothing.empty /\ Nothing.ram = ram /\ Nothing.max = 0
      /\ Nothing.nonzero = 0 /\ Nothing.dist = 0 /\ Nothing.page = 0
      /\ Nothing.frame = ROOT_FRAME /\ Nothing.table = ROOT_FRAME
  BY <1>1, <1>2 DEF Nothing, Knowledge
<1>4. Seen(0, 0) = {}
  BY SearchOrder
<1>5. Searching(Nothing, {})
  BY <1>3 DEF Searching, Knows
<1>6. c.table = ROOT_FRAME /\ c.branch = 0 /\ c.s = Nothing /\ c \in Calls
  BY <1>1, <1>3 DEF Calls
<1>7. Prefix(0, 0) = 0 /\ At(ram, 0, 0) = ROOT_FRAME
  BY <1>1, Prefixes, RouteSteps
<1> HIDE DEF c
<1>8. CallFor(c, 0)
  BY <1>1, <1>3, <1>4, <1>5, <1>6, <1>7 DEF CallFor
<1> QED
  BY <1>8 DEF c

\* The whole search ends with the first empty table, or passes all the pages.
LEMMA WholeSearch ==
    ASSUME IInv, Missing
    PROVE  Ended(Search, 0, 0) \/ Passed(Search, 0, 0)
<1> DEFINE c == [table |-> ROOT_FRAME, branch |-> 0, s |-> Nothing]
           H == TABLES_DEPTH - 1
<1>1. H \in 0..H /\ H - H = 0
  BY FrameNumbers
<1>2. Search = Searches[H][c]
  BY DEF Search
<1>3. CallFor(c, 0) /\ c.branch = 0
  BY FirstCall
<1>4. \A height \in 0..H : Promised(Searches[height], H - height)
  BY SearchPromise
<1> HIDE DEF c, H
<1>5. Promised(Searches[H], 0)
  BY <1>1, <1>4
<1> QED
  BY <1>2, <1>3, <1>5 DEF Promised

\* What is remembered of all pages is the victim.
LEMMA RemembersVictim ==
    ASSUME Target \in Pages, NEW s \in Knowledge, Knows(s, Pages)
    PROVE  s.page = VictimPage /\ s.frame = VictimFrame /\ s.table = VictimTable
<1> DEFINE g(q) == get_cyclical_distance(q, Target)
<1>1. \A q \in Pages : g(q) \in Int
  BY CyclicalDistance
<1>2. s.dist \in Nat /\ Pages \subseteq Nat
  BY FrameNumbers DEF Knowledge
<1>3. /\ \A q \in Pages : Mapped(q) => g(q) <= s.dist
      /\ s.dist = 0 => s.page = 0 /\ s.frame = ROOT_FRAME /\ s.table = ROOT_FRAME
      /\ s.dist # 0 =>
          /\ s.page \in Pages /\ Mapped(s.page) /\ g(s.page) = s.dist
          /\ s.frame = PageFrame(s.page)
          /\ s.table = Route(s.page)[TABLES_DEPTH - 1]
          /\ \A q \in Pages : Mapped(q) /\ q < s.page => g(q) < s.dist
  BY InTermsOfRoutes DEF Knows
<1>4. Farthest = {p \in Pages : /\ Mapped(p) /\ g(p) > 0
                                /\ \A q \in Pages : Mapped(q) => g(q) <= g(p)}
  BY DEF Farthest
<1> HIDE DEF g
<1>5. CASE s.dist = 0
  <2>1. Farthest = {}
    BY <1>1, <1>3, <1>4, <1>5
  <2> QED
    BY <1>3, <1>5, <2>1 DEF VictimPage, VictimFrame, VictimTable
<1>6. CASE s.dist # 0
  <2>1. s.page \in Farthest
    BY <1>2, <1>3, <1>4, <1>6
  <2>2. \A q \in Farthest : s.page <= q
    <3> SUFFICES ASSUME NEW q \in Farthest, ~(s.page <= q) PROVE FALSE
      OBVIOUS
    <3>1. q \in Pages /\ Mapped(q) /\ g(s.page) <= g(q) /\ s.page \in Pages
      BY <1>3, <1>4, <1>6
    <3>2. q < s.page
      <4>1. q \in Nat /\ s.page \in Nat
        BY <1>2, <3>1
      <4> QED
        BY <4>1
    <3>3. g(q) < s.dist /\ g(s.page) = s.dist
      BY <1>3, <1>6, <3>1, <3>2
    <3> QED
      BY <1>1, <1>2, <3>1, <3>3
  <2>3. Min(Farthest) = s.page
    <3>1. Farthest \subseteq Nat
      BY <1>2, <1>4
    <3>2. \E x \in Farthest : \A y \in Farthest : x <= y
      BY <2>1, <2>2
    <3>3. Min(Farthest) \in Farthest /\ \A y \in Farthest : Min(Farthest) <= y
      BY <3>2 DEF Min
    <3>4. Min(Farthest) <= s.page /\ s.page <= Min(Farthest)
      BY <2>1, <2>2, <3>3
    <3>5. Min(Farthest) \in Nat /\ s.page \in Nat
      BY <2>1, <3>1, <3>3
    <3> QED
      BY <3>4, <3>5
  <2>4. VictimPage = s.page
    BY <2>1, <2>3 DEF VictimPage
  <2> QED
    BY <1>3, <1>6, <2>1, <2>4 DEF VictimFrame, VictimTable
<1> QED
  BY <1>5, <1>6

\* The search of the code and what the model states of it are the same.
LEMMA SearchIsStated ==
    ASSUME IInv
    PROVE  SearchAgrees
<1> SUFFICES ASSUME Missing
             PROVE  /\ Search.empty <=> EmptyTables # {}
                    /\ Search.empty => /\ Search.result = RouteEnd(FirstEmpty)
                                       /\ Search.ram = Unlink(FirstEmpty)
                    /\ ~Search.empty =>
                         /\ Search.result = MaxFrame
                         /\ Search.ram = ram
                         /\ Search.page = VictimPage
                         /\ Search.frame = VictimFrame
                         /\ Search.table = VictimTable
  BY DEF SearchAgrees, FirstEmpty
<1>1. CASE Ended(Search, 0, 0)
  <2>1. /\ Search.empty /\ EmptyTables # {} /\ Search.result = RouteEnd(FirstEmpty)
        /\ Search.ram = IF RouteLength(FirstEmpty) = 0 THEN ram ELSE Unlink(FirstEmpty)
    BY <1>1 DEF Ended
  <2>2. RouteLength(FirstEmpty) \in 1..(TABLES_DEPTH - 1)
    BY <2>1, ReuseFinds DEF FirstEmpty
  <2> QED
    BY <2>1, <2>2
<1>2. CASE Passed(Search, 0, 0)
  <2>1. Seen(0, 0 + 1) = Pages /\ Under(0, 0) = Pages
    <3>1. \A p \in Pages : Prefix(p, 0) = 0
      BY Prefixes
    <3>2. Seen(0, 1) = Pages
      BY SearchOrder
    <3> QED
      BY <3>1, <3>2 DEF Under
  <2>2. /\ Search \in Knowledge /\ ~Search.empty /\ Search.ram = ram /\ Knows(Search, Pages)
        /\ EmptyTables \cap Pages = {} /\ Search.result \in InTree(ram)
        /\ High(Search.result, 0, Pages)
    BY <1>2, <2>1 DEF Passed, Searching
  <2>3. EmptyTables = {}
    BY <2>2 DEF EmptyTables
  <2>4. Target \in Pages
    BY TargetIsPage DEF IInv
  <2>5. Search.page = VictimPage /\ Search.frame = VictimFrame /\ Search.table = VictimTable
    BY <2>2, <2>4, RemembersVictim
  <2>6. Search.result = MaxFrame
    <3>1. PICK k \in Frames : InTree(ram) = 0..k
      BY DEF IInv, NoGap
    <3>2. MaxFrame = k
      BY <3>1, LargestFrame DEF IInv
    <3>3. k \in Nat /\ \A e \in Depths : e >= 0
      BY FrameNumbers
    <3>4. k \in InTree(ram)
      BY <3>1, <3>3
    <3>5. PICK p \in Pages, e \in Depths : k = At(ram, p, e) /\ At(ram, p, e) # NoFrame
      BY <3>4 DEF InTree
    <3>6. k <= Search.result
      BY <2>2, <3>3, <3>5 DEF High
    <3>7. Search.result \in 0..k
      BY <2>2, <3>1
    <3> QED
      BY <3>2, <3>3, <3>6, <3>7
  <2> QED
    BY <2>2, <2>3, <2>5, <2>6
<1> QED
  BY <1>1, <1>2, WholeSearch

\* traverse_page_table: the depth-first search takes the first empty table and unlinks
\* it, or returns the largest frame and the first of the pages that are farthest.
THEOREM SearchFindsWhatIsStated == Spec => []SearchAgrees
<1>1. IInv => SearchAgrees
  BY SearchIsStated
<1> QED
  BY <1>1, VirtualMemoryInvariant, PTL

===============================================================================
