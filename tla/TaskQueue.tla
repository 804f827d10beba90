------------------------------ MODULE TaskQueue ------------------------------
(***************************************************************************)
(* TaskQueue: callables run in order on one worker thread.  The client     *)
(* thread, the only one that calls the queue, and the worker share a       *)
(* queue under a mutex, a condition variable, and atomics that are read    *)
(* and written outside of the mutex; ExceptionHandler's flag is global.    *)
(*                                                                         *)
(* One action is one access of the shared state: a critical section that   *)
(* does not block is one step, and so is every read or write of an atomic  *)
(* outside of one.  The worker holds the mutex from the evaluation of the  *)
(* wait predicate until it is blocked: "toBlock" is the state in between.  *)
(***************************************************************************)
EXTENDS Naturals, Sequences, Functions

CONSTANTS
    Task,       \* the callables, each submitted at most once
    NoTask

ASSUME QueueAssumption == NoTask \notin Task

VARIABLES
    queue,           \* m_taskQueue
    queuedTasks,     \* m_queuedTasks
    running,         \* m_running
    isBusy,          \* m_isBusy
    exceptionThrown, \* ExceptionHandler::hasException()
    worker,          \* where the worker thread is
    task,            \* the callable it has popped
    client,          \* where the client thread is
    arg,             \* the callable it is submitting
    submitted,       \* history: the callables pushed, in order
    started,         \* history: the callables begun, in order
    flushed          \* history: waitForCompletion has returned since the last push

shared == <<queue, queuedTasks, running, isBusy, exceptionThrown>>
threads == <<worker, task, client, arg>>
history == <<submitted, started, flushed>>
vars == <<shared, threads, history>>

WorkerStates == {"top", "check", "lock", "toBlock", "waiting", "popped", "run", "done", "exited"}
ClientStates == {"idle", "push", "notify", "readBusy", "readCount", "notifyStop", "join", "stopped"}

Init ==
    /\ queue = << >> /\ queuedTasks = 0
    /\ running = TRUE /\ isBusy = FALSE /\ exceptionThrown = FALSE
    /\ worker = "top" /\ task = NoTask
    /\ client = "idle" /\ arg = NoTask
    /\ submitted = << >> /\ started = << >> /\ flushed = TRUE

-----------------------------------------------------------------------------
(* The worker thread: workerLoop *)

LoopTop ==
    /\ worker = "top"
    /\ worker' = IF running THEN "check" ELSE "exited"
    /\ UNCHANGED <<shared, task, client, arg, history>>

\* A mutant: the loop goes on after an exception.
CheckExceptionNever ==
    /\ worker = "check" /\ worker' = "lock"
    /\ UNCHANGED <<shared, task, client, arg, history>>

CheckException ==
    /\ worker = "check"
    /\ \/ /\ exceptionThrown
          /\ running' = FALSE /\ worker' = "exited"
       \/ /\ ~exceptionThrown
          /\ worker' = "lock" /\ UNCHANGED running
    /\ UNCHANGED <<queue, queuedTasks, isBusy, exceptionThrown, task, client, arg, history>>

\* wait(lock, predicate): nothing to do yet
PredicateFails ==
    /\ worker = "lock" /\ queue = << >> /\ running
    /\ worker' = "toBlock"
    /\ UNCHANGED <<shared, task, client, arg, history>>

\* the mutex is released as the thread is blocked
Block ==
    /\ worker = "toBlock" /\ worker' = "waiting"
    /\ UNCHANGED <<shared, task, client, arg, history>>

SpuriousWakeup ==
    /\ worker = "waiting" /\ worker' = "lock"
    /\ UNCHANGED <<shared, task, client, arg, history>>

ExitEmpty ==
    /\ worker = "lock" /\ queue = << >> /\ ~running
    /\ worker' = "exited"
    /\ UNCHANGED <<shared, task, client, arg, history>>

\* A mutant: the count of queued tasks is left as it was.
PopUncounted ==
    /\ worker = "lock" /\ queue # << >>
    /\ task' = Head(queue) /\ queue' = Tail(queue)
    /\ worker' = "popped"
    /\ UNCHANGED <<queuedTasks, running, isBusy, exceptionThrown, client, arg, history>>

\* also once running is FALSE: the queue is looked at first
Pop ==
    /\ worker = "lock" /\ queue # << >>
    /\ task' = Head(queue) /\ queue' = Tail(queue)
    /\ queuedTasks' = queuedTasks - 1
    /\ worker' = "popped"
    /\ UNCHANGED <<running, isBusy, exceptionThrown, client, arg, history>>

\* the task is neither queued nor busy until this step
Begin ==
    /\ worker = "popped" /\ worker' = "run"
    /\ isBusy' = TRUE
    /\ started' = Append(started, task)
    /\ UNCHANGED <<queue, queuedTasks, running, exceptionThrown, task, client, arg,
                   submitted, flushed>>

TaskReturns ==
    /\ worker = "run" /\ worker' = "done"
    /\ UNCHANGED <<shared, task, client, arg, history>>

TaskThrows ==
    /\ worker = "run" /\ worker' = "done"
    /\ exceptionThrown' = TRUE
    /\ UNCHANGED <<queue, queuedTasks, running, isBusy, task, client, arg, history>>

EndBusy ==
    /\ worker = "done" /\ worker' = "top"
    /\ isBusy' = FALSE
    /\ task' = NoTask
    /\ UNCHANGED <<queue, queuedTasks, running, exceptionThrown, client, arg, history>>

WorkerLoop ==
    \/ LoopTop \/ CheckException
    \/ PredicateFails \/ Block \/ ExitEmpty \/ Pop
    \/ Begin \/ TaskReturns \/ TaskThrows \/ EndBusy

-----------------------------------------------------------------------------
(* The client thread.  A call is entered in state "idle" and left to it.     *)

Notify == worker' = IF worker = "waiting" THEN "lock" ELSE worker

\* queueTask
QueueTask(t) ==
    /\ client = "idle" /\ ~exceptionThrown
    /\ t \notin Range(submitted)
    /\ client' = "push" /\ arg' = t
    /\ UNCHANGED <<shared, worker, task, history>>

\* A mutant: the mutex is not taken.
PushUnlocked ==
    /\ client = "push" /\ client' = "notify"
    /\ queue' = Append(queue, arg) /\ queuedTasks' = queuedTasks + 1
    /\ submitted' = Append(submitted, arg) /\ flushed' = FALSE
    /\ UNCHANGED <<running, isBusy, exceptionThrown, worker, task, arg, started>>

Push ==
    /\ client = "push" /\ client' = "notify"
    /\ worker # "toBlock"
    /\ queue' = Append(queue, arg) /\ queuedTasks' = queuedTasks + 1
    /\ submitted' = Append(submitted, arg) /\ flushed' = FALSE
    /\ UNCHANGED <<running, isBusy, exceptionThrown, worker, task, arg, started>>

NotifyPush ==
    /\ client = "notify" /\ client' = "idle"
    /\ arg' = NoTask
    /\ Notify
    /\ UNCHANGED <<shared, task, history>>

\* waitForCompletion: isWorking() reads isBusy, then the count, and sleeps if either is set
WaitForCompletion ==
    /\ client = "idle" /\ client' = "readBusy"
    /\ UNCHANGED <<shared, worker, task, arg, history>>

ReadBusy ==
    /\ client = "readBusy" /\ ~isBusy
    /\ client' = "readCount"
    /\ UNCHANGED <<shared, worker, task, arg, history>>

\* A mutant: isWorking only looks at isBusy.
ReadCountIgnored ==
    /\ client = "readCount"
    /\ client' = "idle" /\ flushed' = TRUE
    /\ UNCHANGED <<shared, worker, task, arg, submitted, started>>

ReadCount ==
    /\ client = "readCount"
    /\ \/ queuedTasks = 0 /\ client' = "idle" /\ flushed' = TRUE
       \/ queuedTasks # 0 /\ client' = "readBusy" /\ UNCHANGED flushed
    /\ UNCHANGED <<shared, worker, task, arg, submitted, started>>

\* shutdown: the flag is set and the worker notified without the mutex
Shutdown ==
    /\ client = "idle" /\ client' = "notifyStop"
    /\ running' = FALSE
    /\ UNCHANGED <<queue, queuedTasks, isBusy, exceptionThrown, worker, task, arg, history>>

NotifyStop ==
    /\ client = "notifyStop" /\ client' = "join"
    /\ Notify
    /\ UNCHANGED <<shared, task, arg, history>>

Join ==
    /\ client = "join" /\ worker = "exited"
    /\ client' = "stopped"
    /\ UNCHANGED <<shared, worker, task, arg, history>>

Enter == (\E t \in Task : QueueTask(t)) \/ WaitForCompletion \/ Shutdown
GoOn == Push \/ NotifyPush \/ ReadBusy \/ ReadCount \/ NotifyStop \/ Join

Next == WorkerLoop \/ SpuriousWakeup \/ Enter \/ GoOn

\* Both threads are scheduled and tasks end.  The mutex is free again and again while
\* the client waits for it, so it gets it.  Nobody promises a spurious wakeup.
Fairness == WF_vars(WorkerLoop) /\ WF_vars(GoOn) /\ SF_vars(Push)

Spec == Init /\ [][Next]_vars /\ Fairness

-----------------------------------------------------------------------------

\* Types of the shared state and of the two threads.
TypeOK ==
    /\ queue \in Seq(Task) /\ queuedTasks \in Nat
    /\ running \in BOOLEAN /\ isBusy \in BOOLEAN /\ exceptionThrown \in BOOLEAN
    /\ worker \in WorkerStates /\ task \in Task \cup {NoTask}
    /\ client \in ClientStates /\ arg \in Task \cup {NoTask}
    /\ submitted \in Seq(Task) /\ started \in Seq(Task) /\ flushed \in BOOLEAN

Serial == INSTANCE SerialExecutor
          WITH busy <- worker = "run", failed <- exceptionThrown, closed <- client = "stopped"

\* The queue is a serial executor: tasks run one at a time in the order of submission, none
\* after one threw, none once shutdown has returned, whatever the two threads interleave.
RunsSerially == Serial!Spec

\* waitForCompletion may return while the last task is popped but not yet marked busy; the
\* join in shutdown makes up for it: what was waited for and shut down without an exception
\* has run to its end.
WaitThenShutdownRunsAll ==
    client = "stopped" /\ flushed /\ ~exceptionThrown => started = submitted

\* No notification of queueTask is lost: a task that was pushed is started unless a task
\* throws or the queue is shut down.
EveryTaskStarts ==
    \A t \in Task : (t \in Range(submitted))
        ~> (t \in Range(started) \/ exceptionThrown \/ ~running)

\* waitForCompletion returns unless a task throws: then what is left in the queue keeps the
\* caller for ever.
WaitReturns ==
    (client \in {"readBusy", "readCount"}) ~> (client = "idle" \/ exceptionThrown)

\* shutdown "signals the worker thread to stop and waits for it to exit" (TaskQueue.hpp): it
\* returns.
ShutdownReturns == (client = "notifyStop") ~> (client = "stopped")

=============================================================================
