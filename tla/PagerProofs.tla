---------------------------- MODULE PagerProofs ----------------------------
(***************************************************************************)
(* A pager is a memory: whatever is loaded and evicted, and in whatever    *)
(* order, for every number and size of pages.                              *)
(***************************************************************************)
EXTENDS Pager, TLAPS

Contents == [Offsets -> Words]

\* A call that is served is one of an address of the memory, and a page is a
\* word for every offset wherever it is.
Inv ==
    /\ request = NoRequest \/ request \in [op : {"read", "write"}, addr : Addresses, word : Words]
    /\ resident \in [DOMAIN resident -> Contents]
    /\ swap \in [DOMAIN swap -> Contents]

-----------------------------------------------------------------------------
\* Before the first call no page is anywhere.
LEMMA InitialInv ==
    ASSUME 0 \in Words, Init
    PROVE  Inv
BY DEF Init, Inv, ZeroPage, Contents

\* Every step of the pager keeps it.
LEMMA NextInv ==
    ASSUME 0 \in Words, Inv, [Next]_vars
    PROVE  Inv'
<1> USE DEF Inv, Contents
<1>1. ASSUME NEW op \in {"read", "write"}, NEW a \in Addresses, NEW w \in Words, Call(op, a, w)
      PROVE  Inv'
    BY <1>1 DEF Call
<1>2. CASE Refuse
    BY <1>2 DEF Refuse
<1>3. ASSUME NEW p \in DOMAIN resident, Evict(p)
      PROVE  Inv'
    BY <1>3 DEF Evict, With, Without
<1>4. CASE Load
  <2>1. ZeroPage \in Contents
      BY DEF ZeroPage
  <2>2. QED
      BY <1>4, <2>1 DEF Load, With, Without
<1>5. CASE Read
    BY <1>5 DEF Read
<1>6. CASE Write
  <2>1. request \in [op : {"read", "write"}, addr : Addresses, word : Words]
      BY <1>6 DEF Write, NoRequest
  <2>2. QED
      BY <1>6, <2>1 DEF Write
<1>7. CASE UNCHANGED vars
    BY <1>7 DEF vars
<1>8. QED
    BY <1>1, <1>2, <1>3, <1>4, <1>5, <1>6, <1>7 DEF Next

-----------------------------------------------------------------------------
Mem == [a \in Addresses |-> WordsOf(PageOf(a))[OffsetOf(a)]]

\* An address is its page and its offset.
LEMMA AddressIsPageAndOffset ==
    ASSUME PageSize \in Nat \ {0}, NEW a \in Nat, NEW b \in Nat,
           PageOf(a) = PageOf(b), OffsetOf(a) = OffsetOf(b)
    PROVE  a = b
BY DEF PageOf, OffsetOf

\* The offset of an address is one of a page.
LEMMA OffsetInPage ==
    ASSUME PageSize \in Nat \ {0}, NEW a \in Nat
    PROVE  OffsetOf(a) \in Offsets
BY DEF OffsetOf, Offsets

\* Moving a page changes no word of it.
LEMMA SameWords ==
    ASSUME \A p \in Pages : WordsOf(p)' = WordsOf(p)
    PROVE  UNCHANGED Mem
BY DEF Mem, Addresses

\* An eviction changes no word of the memory.
LEMMA EvictKeepsWords ==
    ASSUME NEW q \in DOMAIN resident, Evict(q)
    PROVE  UNCHANGED Mem
<1>1. \A p \in Pages : WordsOf(p)' = WordsOf(p)
    BY DEF Evict, With, Without, WordsOf
<1>2. QED
    BY <1>1, SameWords

\* Nor does a load, from the swap file or of a new page.
LEMMA LoadKeepsWords ==
    ASSUME Load
    PROVE  UNCHANGED Mem
<1>1. \A p \in Pages : WordsOf(p)' = WordsOf(p)
    BY DEF Load, With, Without, WordsOf
<1>2. QED
    BY <1>1, SameWords

\* A write changes the word at its address and no other one.
LEMMA WriteChangesOneWord ==
    ASSUME PageSize \in Nat \ {0}, Used \subseteq Nat, Inv, Write
    PROVE  Mem' = [Mem EXCEPT ![request.addr] = request.word]
<1> DEFINE addr == request.addr
<1>1. /\ addr \in Addresses /\ addr \in Nat
      /\ Target = PageOf(addr) /\ Target \in DOMAIN resident
    BY DEF Write, Inv, NoRequest, Target, Addresses
<1>2. /\ OffsetOf(addr) \in Offsets
      /\ resident[Target] \in [Offsets -> Words]
    BY <1>1, OffsetInPage DEF Inv, Contents
<1>3. /\ resident' = [resident EXCEPT ![Target][OffsetOf(addr)] = request.word]
      /\ swap' = swap
    BY DEF Write
<1>4. ASSUME NEW a \in Addresses
      PROVE  WordsOf(PageOf(a))'[OffsetOf(a)] =
                 IF a = addr THEN request.word ELSE WordsOf(PageOf(a))[OffsetOf(a)]
  <2>1. CASE PageOf(a) # Target
      BY <2>1, <1>1, <1>3 DEF WordsOf
  <2>2. CASE PageOf(a) = Target
    <3>1. /\ WordsOf(PageOf(a)) = resident[Target]
          /\ WordsOf(PageOf(a))' = [resident[Target] EXCEPT ![OffsetOf(addr)] = request.word]
        BY <2>2, <1>1, <1>3 DEF WordsOf
    <3>2. a \in Nat /\ OffsetOf(a) \in Offsets
        BY OffsetInPage DEF Addresses
    <3>3. OffsetOf(a) = OffsetOf(addr) => a = addr
        BY <2>2, <3>2, <1>1, AddressIsPageAndOffset
    <3>4. QED
        BY <3>1, <3>2, <3>3, <1>2
  <2>3. QED
      BY <2>1, <2>2
<1>5. QED
    BY <1>1, <1>4 DEF Mem

-----------------------------------------------------------------------------
\* The memory is zero before the first call.
LEMMA InitRefines ==
    ASSUME PageSize \in Nat \ {0}, Used \subseteq Nat, Init
    PROVE  Flat!Init
<1>1. \A a \in Addresses : WordsOf(PageOf(a))[OffsetOf(a)] = 0
    BY OffsetInPage DEF Init, WordsOf, ZeroPage, Addresses
<1>2. QED
    BY <1>1 DEF Init, Flat!Init, Flat!NoRequest, Flat!NoReply, NoRequest, NoReply

\* Every step of the pager is one of the flat memory or none.
LEMMA StepRefines ==
    ASSUME PageSize \in Nat \ {0}, Used \subseteq Nat, Inv, [Next]_vars
    PROVE  [Flat!Next]_(Flat!vars)
<1> USE DEF Flat!vars, Flat!NoRequest, Flat!NoReply, NoRequest, NoReply
<1>0. UNCHANGED <<resident, swap>> => UNCHANGED Mem
  <2>1. UNCHANGED <<resident, swap>> => \A p \in Pages : WordsOf(p)' = WordsOf(p)
      BY DEF WordsOf
  <2>2. QED
      BY <2>1, SameWords
<1>1. ASSUME NEW op \in {"read", "write"}, NEW a \in Addresses, NEW w \in Words, Call(op, a, w)
      PROVE  Flat!Next
    BY <1>0, <1>1 DEF Call, Mem, Flat!Call, Flat!Next
<1>2. CASE Refuse
    BY <1>0, <1>2 DEF Refuse, Mem, Flat!Refuse, Flat!Failure, Flat!Next
<1>3. ASSUME NEW p \in DOMAIN resident, Evict(p)
      PROVE  UNCHANGED Flat!vars
    BY <1>3, EvictKeepsWords DEF Evict, Mem
<1>4. CASE Load
    BY <1>4, LoadKeepsWords DEF Load, Mem
<1>5. CASE Read
  <2>1. request.addr \in Addresses /\ Target \in DOMAIN resident
      BY <1>5 DEF Read, Inv
  <2>2. Mem[request.addr] = resident[Target][OffsetOf(request.addr)]
      BY <2>1 DEF Mem, WordsOf, Target
  <2>3. QED
      BY <1>0, <1>5, <2>2 DEF Read, Mem, Flat!AnswerRead, Flat!Success, Flat!Next
<1>6. CASE Write
    BY <1>6, WriteChangesOneWord DEF Write, Mem, Flat!AnswerWrite, Flat!Success, Flat!Next
<1>7. CASE UNCHANGED vars
    BY <1>0, <1>7 DEF vars, Mem
<1>8. QED
    BY <1>1, <1>2, <1>3, <1>4, <1>5, <1>6, <1>7 DEF Next

\* The pager keeps the types of its calls and pages.
THEOREM PagerInvariant ==
    ASSUME 0 \in Words
    PROVE  Spec => []Inv
<1>1. Init => Inv
    BY InitialInv
<1>2. Inv /\ [Next]_vars => Inv'
    BY NextInv
<1>3. QED
    BY <1>1, <1>2, PTL DEF Spec

\* VirtualMemory.h: for every number and size of pages a pager that evicts and
\* loads as it likes answers every call as a memory of words would.
THEOREM PagerImplementsFlatMemory ==
    ASSUME PageSize \in Nat \ {0}, Used \subseteq Nat, 0 \in Words
    PROVE  Spec => Flat!Spec
<1>1. Init => Flat!Init
    BY InitRefines
<1>2. Inv /\ [Next]_vars => [Flat!Next]_(Flat!vars)
    BY StepRefines
<1>3. Spec => []Inv
    BY PagerInvariant
<1>4. QED
    BY <1>1, <1>2, <1>3, PTL DEF Spec, Flat!Spec

=============================================================================
