------------------------------- MODULE Pager -------------------------------
(***************************************************************************)
(* Demand paging without frames and tables: a page is in the RAM, in the   *)
(* swap file or, before its first use, in neither.  It is what the         *)
(* comments of VirtualMemory.cpp and the assertions of PhysicalMemory.cpp  *)
(* say of loading and evicting, and it implements FlatMemory.              *)
(***************************************************************************)
EXTENDS Integers

CONSTANTS
    NumPages,
    PageSize,
    Used,      \* the addresses clients use, in the memory or not
    Words

Pages == 0..(NumPages - 1)
Offsets == 0..(PageSize - 1)
PageOf(a) == a \div PageSize
OffsetOf(a) == a % PageSize
Addresses == {a \in Used : PageOf(a) \in Pages}

VARIABLES
    resident,  \* the pages in the RAM, with their words
    swap,      \* the pages in the swap file, with their words
    request,   \* the call being served
    reply      \* what the last call returned

vars == <<resident, swap, request, reply>>

NoRequest == [op |-> "none", addr |-> 0, word |-> 0]
NoReply == [status |-> -1, word |-> 0]

ZeroPage == [o \in Offsets |-> 0]

Target == PageOf(request.addr)

With(f, p, c) == [q \in DOMAIN f \cup {p} |-> IF q = p THEN c ELSE f[q]]
Without(f, p) == [q \in DOMAIN f \ {p} |-> f[q]]

\* How far two pages are apart when the last one is next to the first.
Distance(p, q) ==
    LET d == IF p < q THEN q - p ELSE p - q
    IN  IF d < NumPages - d THEN d ELSE NumPages - d

Init ==
    /\ resident = [p \in {} |-> ZeroPage]
    /\ swap = [p \in {} |-> ZeroPage]
    /\ request = NoRequest
    /\ reply = NoReply

Call(op, a, w) ==
    /\ request = NoRequest
    /\ request' = [op |-> op, addr |-> a, word |-> w]
    /\ reply' = NoReply
    /\ UNCHANGED <<resident, swap>>

Refuse ==
    /\ request = NoRequest
    /\ reply' = [status |-> 0, word |-> 0]
    /\ UNCHANGED <<resident, swap, request>>

\* Of the pages in the RAM the one farthest from the page to load makes room.
Evict(p) ==
    /\ request # NoRequest
    /\ Target \notin DOMAIN resident
    /\ p \notin DOMAIN swap
    /\ \A q \in DOMAIN resident : Distance(q, Target) <= Distance(p, Target)
    /\ swap' = With(swap, p, resident[p])
    /\ resident' = Without(resident, p)
    /\ UNCHANGED <<request, reply>>

Load ==
    /\ request # NoRequest
    /\ Target \notin DOMAIN resident
    /\ resident' = With(resident, Target, IF Target \in DOMAIN swap THEN swap[Target]
                                                                    ELSE ZeroPage)
    /\ swap' = Without(swap, Target)
    /\ UNCHANGED <<request, reply>>

Read ==
    /\ request.op = "read"
    /\ Target \in DOMAIN resident
    /\ reply' = [status |-> 1, word |-> resident[Target][OffsetOf(request.addr)]]
    /\ request' = NoRequest
    /\ UNCHANGED <<resident, swap>>

Write ==
    /\ request.op = "write"
    /\ Target \in DOMAIN resident
    /\ resident' = [resident EXCEPT ![Target][OffsetOf(request.addr)] = request.word]
    /\ reply' = [status |-> 1, word |-> 0]
    /\ request' = NoRequest
    /\ UNCHANGED swap

Next ==
    \/ \E op \in {"read", "write"}, a \in Addresses, w \in Words : Call(op, a, w)
    \/ Refuse
    \/ \E p \in DOMAIN resident : Evict(p)
    \/ Load
    \/ Read
    \/ Write

Spec == Init /\ [][Next]_vars

\* The words of a page, wherever it is.
WordsOf(p) ==
    IF p \in DOMAIN resident THEN resident[p]
    ELSE IF p \in DOMAIN swap THEN swap[p]
    ELSE ZeroPage

Flat == INSTANCE FlatMemory WITH
    mem <- [a \in Addresses |-> WordsOf(PageOf(a))[OffsetOf(a)]]

=============================================================================
