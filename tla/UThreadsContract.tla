-------------------------- MODULE UThreadsContract --------------------------
(***************************************************************************)
(* What uthreads.h promises of the life of a thread: an id names at most   *)
(* one thread, one thread runs at a time, and a thread goes from one state *)
(* to another only as the documentation of the calls says.  A thread that  *)
(* is terminated is gone at once.                                          *)
(***************************************************************************)
CONSTANTS Threads, MainThread

VARIABLES st, exited

vars == <<st, exited>>

Init ==
    /\ st = [t \in Threads |-> IF t = MainThread THEN "RUNNING" ELSE "none"]
    /\ exited = FALSE

Move(t, from, to) ==
    /\ st[t] = from
    /\ st' = [st EXCEPT ![t] = to]
    /\ UNCHANGED exited

Create(t) == Move(t, "none", "READY")

Terminate(t) ==
    t # MainThread /\ (Move(t, "READY", "none") \/ Move(t, "BLOCKED", "none"))

Block(t) == t # MainThread /\ Move(t, "READY", "BLOCKED")

Resume(t) == Move(t, "BLOCKED", "READY")

\* A scheduling decision: t stops running, some sleepers wake, u runs.
Schedule(t, to, woken, u) ==
    /\ st[t] = "RUNNING"
    /\ t = MainThread => to = "READY"
    /\ \A w \in woken : st[w] = "BLOCKED"
    /\ u \in woken \/ st[u] = "READY" \/ (u = t /\ to = "READY")
    /\ st' = [v \in Threads |-> IF v = u THEN "RUNNING"
                                ELSE IF v = t THEN to
                                ELSE IF v \in woken THEN "READY" ELSE st[v]]
    /\ UNCHANGED exited

\* Sleepers wake only when the timer ends a quantum.
Preempt(t) ==
    \E woken \in SUBSET (Threads \ {MainThread}), u \in Threads :
        Schedule(t, "READY", woken, u)

Yield(t) ==
    \E to \in {"BLOCKED", "none"}, u \in Threads : Schedule(t, to, {}, u)

Exit ==
    /\ exited' = TRUE
    /\ UNCHANGED st

Next ==
    /\ ~exited
    /\ \/ Exit
       \/ \E t \in Threads :
            Create(t) \/ Terminate(t) \/ Block(t) \/ Resume(t) \/ Preempt(t)
                \/ Yield(t)

Spec == Init /\ [][Next]_vars

=============================================================================
