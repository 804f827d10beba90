--------------------------- MODULE TaskPoolRunner ---------------------------
(***************************************************************************)
(* TaskPoolRunner::runTasks: the main thread posts its tasks to a thread   *)
(* pool and polls a counter of completed tasks, or runs them itself.  The  *)
(* pool threads read ExceptionHandler's flag before each task.             *)
(*                                                                         *)
(* boost::asio's thread_pool is external: it runs posted handlers in order *)
(* on its threads, runs no further one after stop(), joins when destroyed, *)
(* and refuses more than 2^31 - 1 threads.                                 *)
(***************************************************************************)
EXTENDS Integers, FiniteSets

CONSTANTS
    NumTasks,               \* tasks are numbered in the order of addTask
    HardwareConcurrency,    \* what the platform reports, 0 if it does not know
    NoTask

ASSUME PoolAssumption ==
    /\ NumTasks \in Nat /\ HardwareConcurrency \in Nat
    /\ NoTask \notin 1 .. NumTasks

Task == 1 .. NumTasks

Available == IF HardwareConcurrency = 0 THEN 4 ELSE HardwareConcurrency

\* Two threads are set aside, in unsigned arithmetic: one core wraps around to 2^32 - 1, more
\* than the pool accepts, and two cores leave no thread at all.
Refused == Available < 2

Thread == 1 .. (Available - 2)

VARIABLES
    multithread, \* m_multithread
    posted,      \* how many tasks the pool was given
    taken,       \* how many of them threads have taken
    completed,   \* m_completedTasks
    exception,   \* the task whose exception ExceptionHandler holds
    poolStopped, \* the pool hands out no further handler
    thread,      \* where each pool thread is
    task,        \* ... and the task it has
    main,        \* where the main thread is
    done,        \* history: tasks that have returned
    late         \* history: how many tasks began after an exception was set

pool == <<posted, taken, poolStopped>>
vars == <<multithread, pool, completed, exception, thread, task, main, done, late>>

ThreadStates == {"idle", "check", "buffer", "run", "count", "flush"}
MainStates == {"construct", "post", "poll", "stop", "single", "returned", "destroyed", "thrown"}

Init ==
    /\ multithread \in BOOLEAN
    /\ posted = 0 /\ taken = 0 /\ completed = 0
    /\ exception = NoTask
    /\ poolStopped = FALSE
    /\ thread = [t \in Thread |-> "idle"] /\ task = [t \in Thread |-> NoTask]
    /\ main = "construct"
    /\ done = {} /\ late = 0

\* ExceptionHandler::setException keeps the first exception.
SetException(t) == exception' = IF exception = NoTask THEN t ELSE exception

-----------------------------------------------------------------------------
(* A pool thread *)

GoTo(t, state) == thread' = [thread EXCEPT ![t] = state]

Take(t) ==
    /\ thread[t] = "idle" /\ ~poolStopped /\ taken < posted
    /\ taken' = taken + 1
    /\ task' = [task EXCEPT ![t] = taken + 1]
    /\ GoTo(t, "check")
    /\ UNCHANGED <<multithread, posted, completed, exception, poolStopped, main, done, late>>

\* A mutant: the flag is not read.
CheckExceptionNever(t) ==
    /\ thread[t] = "check" /\ GoTo(t, "buffer")
    /\ UNCHANGED <<multithread, pool, completed, exception, task, main, done, late>>

\* a task skipped because of an exception is not counted as completed
CheckException(t) ==
    /\ thread[t] = "check"
    /\ \/ exception = NoTask /\ GoTo(t, "buffer") /\ UNCHANGED task
       \/ exception # NoTask /\ GoTo(t, "idle") /\ task' = [task EXCEPT ![t] = NoTask]
    /\ UNCHANGED <<multithread, pool, completed, exception, main, done, late>>

\* the log buffer is set up, then the task begins
Begin(t) ==
    /\ thread[t] = "buffer" /\ GoTo(t, "run")
    /\ late' = IF exception = NoTask THEN late ELSE late + 1
    /\ UNCHANGED <<multithread, pool, completed, exception, task, main, done>>

TaskReturns(t) ==
    /\ thread[t] = "run" /\ GoTo(t, "count")
    /\ done' = done \cup {task[t]}
    /\ UNCHANGED <<multithread, pool, completed, exception, task, main, late>>

\* Two mutants: the counter is forgotten, or advanced by every handler.
CountNever(t) ==
    /\ thread[t] = "count" /\ GoTo(t, "flush")
    /\ UNCHANGED <<multithread, pool, completed, exception, task, main, done, late>>

CountFailedToo(t) ==
    /\ \/ thread[t] = "count" /\ UNCHANGED exception
       \/ thread[t] = "run" /\ SetException(task[t])
    /\ GoTo(t, "flush")
    /\ completed' = completed + 1
    /\ UNCHANGED <<multithread, pool, task, main, done, late>>

Count(t) ==
    /\ thread[t] = "count" /\ GoTo(t, "flush")
    /\ completed' = completed + 1
    /\ UNCHANGED <<multithread, pool, exception, task, main, done, late>>

TaskThrows(t) ==
    /\ thread[t] = "run" /\ GoTo(t, "flush")
    /\ SetException(task[t])
    /\ UNCHANGED <<multithread, pool, completed, task, main, done, late>>

Flush(t) ==
    /\ thread[t] = "flush" /\ GoTo(t, "idle")
    /\ task' = [task EXCEPT ![t] = NoTask]
    /\ UNCHANGED <<multithread, pool, completed, exception, main, done, late>>

ThreadStep(t) ==
    \/ Take(t) \/ CheckException(t) \/ Begin(t)
    \/ TaskReturns(t) \/ Count(t) \/ TaskThrows(t) \/ Flush(t)

-----------------------------------------------------------------------------
(* The main thread *)

Construct ==
    /\ main = "construct"
    /\ main' = IF Refused THEN "thrown"
               ELSE IF multithread THEN "post" ELSE "single"
    /\ UNCHANGED <<multithread, pool, completed, exception, thread, task, done, late>>

Post ==
    /\ main = "post" /\ posted < NumTasks
    /\ posted' = posted + 1
    /\ UNCHANGED <<multithread, taken, poolStopped, completed, exception, thread, task, main,
                   done, late>>

EndPost ==
    /\ main = "post" /\ posted = NumTasks
    /\ main' = "poll"
    /\ UNCHANGED <<multithread, pool, completed, exception, thread, task, done, late>>

\* one turn of the polling loop: the counter is read, then the exception flag
Poll ==
    /\ main = "poll"
    /\ main' = IF completed >= NumTasks THEN "returned" ELSE "stop"
    /\ UNCHANGED <<multithread, pool, completed, exception, thread, task, done, late>>

\* the loop goes on whether or not the pool was stopped
StopOnException ==
    /\ main = "stop" /\ main' = "poll"
    /\ poolStopped' = (poolStopped \/ exception # NoTask)
    /\ UNCHANGED <<multithread, posted, taken, completed, exception, thread, task, done, late>>

\* without multithreading: the tasks in order, up to the first that throws
RunSingle ==
    /\ main = "single" /\ completed < NumTasks
    /\ \/ /\ done' = done \cup {completed + 1} /\ completed' = completed + 1
          /\ UNCHANGED <<main, exception>>
       \/ /\ SetException(completed + 1) /\ main' = "returned"
          /\ UNCHANGED <<done, completed>>
    /\ UNCHANGED <<multithread, pool, thread, task, late>>

EndSingle ==
    /\ main = "single" /\ completed = NumTasks
    /\ main' = "returned"
    /\ UNCHANGED <<multithread, pool, completed, exception, thread, task, done, late>>

\* the destructor of the pool stops it and joins its threads
StopPool ==
    /\ main = "returned" /\ ~poolStopped
    /\ poolStopped' = TRUE
    /\ UNCHANGED <<multithread, posted, taken, completed, exception, thread, task, main,
                   done, late>>

Destroy ==
    /\ main = "returned" /\ poolStopped
    /\ \A t \in Thread : thread[t] = "idle"
    /\ main' = "destroyed"
    /\ UNCHANGED <<multithread, pool, completed, exception, thread, task, done, late>>

Main ==
    \/ Construct \/ Post \/ EndPost \/ Poll \/ StopOnException
    \/ RunSingle \/ EndSingle \/ StopPool \/ Destroy

Next == Main \/ \E t \in Thread : ThreadStep(t)

\* every thread is scheduled and tasks end
Spec == Init /\ [][Next]_vars /\ WF_vars(Main) /\ \A t \in Thread : WF_vars(ThreadStep(t))

-----------------------------------------------------------------------------

\* Types of the pool, the counters and the threads.
TypeOK ==
    /\ multithread \in BOOLEAN /\ poolStopped \in BOOLEAN
    /\ posted \in 0 .. NumTasks /\ taken \in 0 .. posted
    /\ completed \in Nat
    /\ exception \in Task \cup {NoTask}
    /\ thread \in [Thread -> ThreadStates] /\ task \in [Thread -> Task \cup {NoTask}]
    /\ main \in MainStates
    /\ done \in SUBSET Task /\ late \in Nat

\* When runTasks returns, every task has run to its end: the counter misses none, and a task
\* that threw or was skipped is never taken for a completed one.  The single-threaded branch
\* returns after the first exception, and then says so through ExceptionHandler.
ReturnMeansDone ==
    main \in {"returned", "destroyed"} => done = Task \/ (~multithread /\ exception # NoTask)

\* After an exception no thread begins more than the one task whose check it had passed, and
\* the thread that threw begins none: less than one task per thread runs on.
FewBeginLate == exception # NoTask /\ multithread => late < Cardinality(Thread)

\* Without an exception runTasks returns and the pool can be destroyed.
RunEnds == (main = "post") ~> (main = "destroyed" \/ exception # NoTask)

=============================================================================
