------------------------- MODULE MapReduceContract -------------------------
(***************************************************************************)
(* What a MapReduce job promises to its client (MapReduceClient.h and the  *)
(* comments of Job.h), with no worker in sight: every input is mapped      *)
(* once, the pairs of all the map calls are split into one group per key   *)
(* only after the last of them, and every group is reduced once.           *)
(***************************************************************************)
EXTENDS Naturals, Sequences

CONSTANTS NumInputs, EmitChoices

VARIABLES
    todo,    \* the inputs not mapped yet
    pairs,   \* every pair emitted so far
    phase,   \* "map" until the groups exist, then "reduce"
    groups,  \* the groups not reduced yet
    out      \* the groups reduced, in the order of their outputs

vars == <<todo, pairs, phase, groups, out>>

Init ==
    /\ todo = 1..NumInputs
    /\ pairs = {}
    /\ phase = "map"
    /\ groups = {}
    /\ out = <<>>

Emitted(i, keys) ==
    {[key |-> keys[p], input |-> i, pos |-> p] : p \in 1..Len(keys)}

MapInput(i) ==
    /\ phase = "map"
    /\ todo' = todo \ {i}
    /\ \E keys \in EmitChoices : pairs' = pairs \cup Emitted(i, keys)
    /\ UNCHANGED <<phase, groups, out>>

GroupsOf(ps) == {{p \in ps : p.key = k} : k \in {p.key : p \in ps}}

Shuffle ==
    /\ phase = "map"
    /\ todo = {}
    /\ phase' = "reduce"
    /\ groups' = GroupsOf(pairs)
    /\ UNCHANGED <<todo, pairs, out>>

ReduceGroup(g) ==
    /\ phase = "reduce"
    /\ groups' = groups \ {g}
    /\ out' = Append(out, g)
    /\ UNCHANGED <<todo, pairs, phase>>

Next ==
    \/ \E i \in todo : MapInput(i)
    \/ Shuffle
    \/ \E g \in groups : ReduceGroup(g)

Spec == Init /\ [][Next]_vars

=============================================================================
