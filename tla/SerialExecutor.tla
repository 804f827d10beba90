---------------------------- MODULE SerialExecutor ----------------------------
(* What TaskQueue promises (TaskQueue.hpp): submitted tasks run one after the   *)
(* other in the order they were submitted, none starts after one has failed,    *)
(* and none starts or runs once the queue has been shut down.                   *)
EXTENDS Naturals, Sequences

CONSTANT Task

VARIABLES
    submitted,  \* the tasks accepted so far, in order
    started,    \* the tasks begun so far, in order
    busy,       \* the last of them is still running
    failed,     \* a task threw
    closed      \* shutdown has returned

vars == <<submitted, started, busy, failed, closed>>

Init == submitted = << >> /\ started = << >> /\ ~busy /\ ~failed /\ ~closed

Submit(t) ==
    /\ ~closed
    /\ submitted' = Append(submitted, t)
    /\ UNCHANGED <<started, busy, failed, closed>>

Start ==
    /\ ~busy /\ ~failed /\ ~closed
    /\ Len(started) < Len(submitted)
    /\ started' = Append(started, submitted[Len(started) + 1])
    /\ busy' = TRUE
    /\ UNCHANGED <<submitted, failed, closed>>

Return == busy /\ busy' = FALSE /\ UNCHANGED <<submitted, started, failed, closed>>

Fail ==
    /\ busy
    /\ busy' = FALSE /\ failed' = TRUE
    /\ UNCHANGED <<submitted, started, closed>>

\* tasks that were not started are discarded
Close ==
    /\ ~busy /\ ~closed
    /\ closed' = TRUE
    /\ UNCHANGED <<submitted, started, busy, failed>>

Next == (\E t \in Task : Submit(t)) \/ Start \/ Return \/ Fail \/ Close

Spec == Init /\ [][Next]_vars

=============================================================================
