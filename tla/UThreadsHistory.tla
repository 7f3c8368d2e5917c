--------------------------- MODULE UThreadsHistory ---------------------------
(***************************************************************************)
(* UThreads with two history variables that record what the clients have   *)
(* asked for, to compare what uthreads.h says with what becomes of it.     *)
(***************************************************************************)
EXTENDS UThreads

VARIABLES
    asked,  \* uthread_block was called on the thread, and no uthread_resume since
    due     \* the last quantum of the thread's last sleep

history == <<asked, due>>

HInit ==
    /\ Init
    /\ asked = [t \in Ids |-> FALSE]
    /\ due = [t \in Ids |-> 0]

Asks(t, answer) ==
    /\ asked' = [asked EXCEPT ![t] = answer]
    /\ UNCHANGED due

HNext ==
    \/ (TimerExpires \/ Preempt \/ TerminateSelf \/ Exit \/ Exited)
         /\ UNCHANGED history
    \/ Spawn /\ Asks(ready'[Len(ready')], FALSE)
    \/ BlockSelf /\ Asks(running, TRUE)
    \/ \E n \in 1..MaxSleep :
         /\ Sleep(n)
         /\ due' = [due EXCEPT ![running] = total + n]
         /\ UNCHANGED asked
    \/ \E t \in Ids : BlockOther(t) /\ Asks(t, TRUE)
    \/ \E t \in Known :
         \/ TerminateOther(t) /\ UNCHANGED history
         \/ Resume(t) /\ Asks(t, FALSE)

HSpec == HInit /\ [][HNext]_<<vars, history>>

\* "After the sleeping time is over, the thread should go back to the end of the
\* READY queue" (uthread_sleep): a thread that is blocked with no sleep left is
\* one that somebody blocked and nobody has resumed.
SleepersComeBack ==
    alive => \A t \in Known :
        state[t] = "BLOCKED" /\ sleep[t] = 0 => asked[t]

\* "The number of quantums refers to the number of times a new quantum starts,
\* regardless of the reason": a thread that went to sleep for n quantums does
\* not sleep in the n + 1st quantum that starts after its own.
SleepCountsQuantums ==
    alive /\ total < QuantumCap =>
        \A t \in Known : sleep[t] # 0 => total <= due[t]

=============================================================================
