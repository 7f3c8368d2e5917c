----------------------------- MODULE FlatMemory -----------------------------
(***************************************************************************)
(* What VirtualMemory.h promises: a memory of words, one call at a time.   *)
(* A read returns the word last written, or the initial word.              *)
(***************************************************************************)
EXTENDS Integers

CONSTANTS Addresses, Words

VARIABLES
    mem,      \* the word at each address
    request,  \* the call being served, or NoRequest
    reply     \* what the last call returned

vars == <<mem, request, reply>>

NoRequest == [op |-> "none", addr |-> 0, word |-> 0]
Failure == [status |-> 0, word |-> 0]
Success(w) == [status |-> 1, word |-> w]
NoReply == [status |-> -1, word |-> 0]

Init ==
    /\ mem = [a \in Addresses |-> 0]
    /\ request = NoRequest
    /\ reply = NoReply

Call(op, a, w) ==
    /\ request = NoRequest
    /\ request' = [op |-> op, addr |-> a, word |-> w]
    /\ reply' = NoReply
    /\ UNCHANGED mem

\* An address outside the memory.
Refuse ==
    /\ request = NoRequest
    /\ reply' = Failure
    /\ UNCHANGED <<mem, request>>

AnswerRead ==
    /\ request.op = "read"
    /\ request' = NoRequest
    /\ reply' = Success(mem[request.addr])
    /\ UNCHANGED mem

AnswerWrite ==
    /\ request.op = "write"
    /\ request' = NoRequest
    /\ mem' = [mem EXCEPT ![request.addr] = request.word]
    /\ reply' = Success(0)

Next ==
    \/ \E op \in {"read", "write"}, a \in Addresses, w \in Words : Call(op, a, w)
    \/ Refuse
    \/ AnswerRead
    \/ AnswerWrite

Spec == Init /\ [][Next]_vars

=============================================================================
