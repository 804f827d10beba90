------------------------- MODULE TaskPoolRunnerProofs -------------------------
(* Proofs about TaskPoolRunner for any number of tasks and of threads.          *)
EXTENDS TaskPoolRunner, FiniteSetTheorems, TLAPS

Counting == {t \in Thread : thread[t] = "count"}
AtBuffer == {t \in Thread : thread[t] = "buffer"}

\* Threads have tasks of their own, and the counter lags behind the tasks that have returned
\* by the threads that are about to advance it.
CountInv ==
    /\ \A t \in Thread : thread[t] # "idle" => task[t] \in 1 .. taken
    /\ \A t, u \in Thread :
           t # u /\ thread[t] # "idle" /\ thread[u] # "idle" => task[t] # task[u]
    /\ \A t \in Thread : thread[t] \in {"check", "buffer", "run"} => task[t] \notin done
    /\ multithread => done \subseteq 1 .. taken /\ Cardinality(done) = completed + Cardinality(Counting)
    /\ ~multithread => posted = 0 /\ done = 1 .. completed /\ completed <= NumTasks

MainInv ==
    /\ main \in {"post", "poll", "stop"} => multithread
    /\ main = "single" => ~multithread
    /\ main \in {"returned", "destroyed"} =>
           completed >= NumTasks \/ (~multithread /\ exception # NoTask)

\* A thread that begins after an exception was past its check when it was set.
LateInv ==
    /\ exception = NoTask => late = 0
    /\ exception # NoTask /\ multithread => late + Cardinality(AtBuffer) < Cardinality(Thread)

PoolInv == TypeOK /\ CountInv /\ MainInv /\ LateInv

LEMMA FiniteSets ==
    /\ IsFiniteSet(Thread) /\ IsFiniteSet(Task)
    /\ Cardinality(Thread) \in Nat /\ Cardinality(Task) = NumTasks
<1>1. Available \in Int /\ 2 \in Int /\ NumTasks \in Nat
  BY PoolAssumption DEF Available
<1>2. Available - 2 \in Int
  BY <1>1
<1>3. IsFiniteSet(Thread)
  BY <1>2, FS_Interval DEF Thread
<1>4. IsFiniteSet(Task) /\ Cardinality(Task) = NumTasks
  BY <1>1, FS_Interval DEF Task
<1>. QED BY <1>3, <1>4, FS_CardinalityType

LEMMA ThreadSets ==
    ASSUME TypeOK
    PROVE  /\ IsFiniteSet(Counting) /\ Cardinality(Counting) \in Nat
           /\ IsFiniteSet(AtBuffer) /\ Cardinality(AtBuffer) \in Nat
           /\ IsFiniteSet(done) /\ Cardinality(done) \in Nat
<1>1. Counting \in SUBSET Thread /\ AtBuffer \in SUBSET Thread /\ done \in SUBSET Task
  BY DEF Counting, AtBuffer, TypeOK
<1>2. IsFiniteSet(Counting) /\ IsFiniteSet(AtBuffer) /\ IsFiniteSet(done)
  BY <1>1, FiniteSets, FS_Subset
<1>. QED BY <1>2, FS_CardinalityType

\* A thread that moves enters or leaves the two sets, and no other does.
LEMMA Moves ==
    ASSUME TypeOK, NEW t \in Thread, NEW state \in ThreadStates, GoTo(t, state)
    PROVE  /\ thread'[t] = state /\ \A u \in Thread \ {t} : thread'[u] = thread[u]
           /\ thread' \in [Thread -> ThreadStates]
           /\ Counting' = IF state = "count" THEN Counting \cup {t} ELSE Counting \ {t}
           /\ AtBuffer' = IF state = "buffer" THEN AtBuffer \cup {t} ELSE AtBuffer \ {t}
BY DEF TypeOK, GoTo, Counting, AtBuffer

LEMMA PoolInit ==
    ASSUME Init
    PROVE  PoolInv
<1>1. Counting = {} /\ done = {} /\ 1 .. 0 = {} /\ Cardinality({}) = 0
  BY FS_EmptySet DEF Init, Counting
<1>2. TypeOK
  <2>1. 0 \in 0 .. NumTasks /\ 0 \in 0 .. 0 /\ 0 \in Nat
    BY PoolAssumption
  <2>. QED BY <2>1 DEF Init, TypeOK, ThreadStates, MainStates
<1>3. CountInv
  BY <1>1, PoolAssumption DEF Init, CountInv
<1>. QED BY <1>2, <1>3 DEF Init, PoolInv, MainInv, LateInv

\* Pool threads only have tasks when the pool was given some.
LEMMA ThreadsAreOfThePool ==
    ASSUME PoolInv, NEW t \in Thread, ThreadStep(t)
    PROVE  multithread /\ taken \in Nat /\ posted \in 0 .. NumTasks /\ NumTasks \in Nat
<1>1. taken \in Nat /\ posted \in 0 .. NumTasks /\ taken <= posted /\ NumTasks \in Nat
      /\ multithread \in BOOLEAN
  BY PoolAssumption DEF PoolInv, TypeOK
<1>2. taken < posted \/ thread[t] # "idle"
  BY DEF ThreadStep, Take, CheckException, Begin, TaskReturns, Count, TaskThrows, Flush
<1>3. posted # 0
  BY <1>1, <1>2 DEF PoolInv, CountInv
<1>. QED BY <1>1, <1>3 DEF PoolInv, CountInv

\* What the main thread is told does not get worse.
LEMMA MainKept ==
    ASSUME PoolInv, UNCHANGED <<multithread, main>>, completed' \in Nat, completed' >= completed,
           exception = NoTask \/ exception' = exception
    PROVE  MainInv'
BY PoolAssumption DEF PoolInv, TypeOK, MainInv

LEMMA TakeKeeps ==
    ASSUME PoolInv, NEW t \in Thread, Take(t)
    PROVE  PoolInv'
<1>1. /\ thread[t] = "idle" /\ taken < posted /\ taken' = taken + 1
      /\ task' = [task EXCEPT ![t] = taken + 1] /\ GoTo(t, "check")
      /\ UNCHANGED <<multithread, posted, completed, exception, poolStopped, main, done, late>>
  BY DEF Take
<1>2. multithread /\ taken \in Nat /\ posted \in 0 .. NumTasks /\ NumTasks \in Nat
  BY ThreadsAreOfThePool DEF ThreadStep
<1>3. TypeOK
  BY DEF PoolInv
<1>4. /\ thread'[t] = "check" /\ \A u \in Thread \ {t} : thread'[u] = thread[u]
      /\ thread' \in [Thread -> ThreadStates]
      /\ Counting' = Counting \ {t} /\ AtBuffer' = AtBuffer \ {t}
  <2>1. "check" \in ThreadStates
    BY DEF ThreadStates
  <2>. QED BY <1>1, <1>3, <2>1, Moves
<1>5. Counting' = Counting /\ AtBuffer' = AtBuffer
  BY <1>1, <1>4 DEF Counting, AtBuffer
<1>6. task'[t] = taken' /\ (\A u \in Thread \ {t} : task'[u] = task[u])
      /\ taken' \in 1 .. posted /\ taken' \in Task
  BY <1>1, <1>2, <1>3 DEF TypeOK, Task
<1>7. task' \in [Thread -> Task \cup {NoTask}]
  BY <1>1, <1>3, <1>6 DEF TypeOK
<1>8. TypeOK'
  BY <1>1, <1>2, <1>3, <1>4, <1>6, <1>7 DEF TypeOK
<1>9. CountInv'
  <2>1. \A u \in Thread : thread'[u] # "idle" => task'[u] \in 1 .. taken'
    BY <1>1, <1>2, <1>4, <1>6 DEF PoolInv, CountInv
  <2>2. \A u \in Thread : u # t /\ thread'[u] # "idle" => task'[u] # task'[t]
    BY <1>1, <1>2, <1>4, <1>6 DEF PoolInv, CountInv
  <2>3. \A u, v \in Thread :
            u # v /\ thread'[u] # "idle" /\ thread'[v] # "idle" => task'[u] # task'[v]
    BY <1>4, <1>6, <2>2 DEF PoolInv, CountInv
  <2>4. task'[t] \notin done /\ done \subseteq 1 .. taken'
    BY <1>1, <1>2, <1>6 DEF PoolInv, CountInv
  <2>5. \A u \in Thread : thread'[u] \in {"check", "buffer", "run"} => task'[u] \notin done'
    BY <1>1, <1>4, <1>6, <2>4 DEF PoolInv, CountInv
  <2>. QED BY <1>1, <1>2, <1>5, <2>1, <2>3, <2>4, <2>5 DEF PoolInv, CountInv
<1>10. MainInv' /\ LateInv'
  BY <1>1, <1>5, <1>3, MainKept DEF PoolInv, LateInv, TypeOK
<1>. QED BY <1>8, <1>9, <1>10 DEF PoolInv

\* Every other step of a thread leaves what was posted and taken, and its task or NoTask.
LEMMA TasksKept ==
    ASSUME PoolInv, NEW t \in Thread, NEW state \in ThreadStates, GoTo(t, state),
           UNCHANGED <<multithread, pool>>, thread[t] # "idle",
           \/ state # "idle" /\ task' = task
           \/ state = "idle" /\ task' = [task EXCEPT ![t] = NoTask]
    PROVE  /\ task' \in [Thread -> Task \cup {NoTask}]
           /\ \A u \in Thread : thread'[u] # "idle" => task'[u] = task[u] /\ thread[u] # "idle"
           /\ \A u \in Thread : thread'[u] # "idle" => task'[u] \in 1 .. taken'
           /\ \A u, v \in Thread :
                  u # v /\ thread'[u] # "idle" /\ thread'[v] # "idle" => task'[u] # task'[v]
<1>1. thread'[t] = state /\ \A u \in Thread \ {t} : thread'[u] = thread[u]
  BY Moves DEF PoolInv
<1>2. task' \in [Thread -> Task \cup {NoTask}] /\ \A u \in Thread \ {t} : task'[u] = task[u]
  BY DEF PoolInv, TypeOK
<1>3. \A u \in Thread : thread'[u] # "idle" => task'[u] = task[u] /\ thread[u] # "idle"
  BY <1>1, <1>2
<1>. QED BY <1>2, <1>3 DEF PoolInv, CountInv, pool

LEMMA CheckKeeps ==
    ASSUME PoolInv, NEW t \in Thread, CheckException(t)
    PROVE  PoolInv'
<1>. DEFINE state == IF exception = NoTask THEN "buffer" ELSE "idle"
<1>1. /\ thread[t] = "check" /\ GoTo(t, state) /\ state \in ThreadStates
      /\ \/ state # "idle" /\ task' = task
         \/ state = "idle" /\ task' = [task EXCEPT ![t] = NoTask]
      /\ UNCHANGED <<multithread, pool, completed, exception, main, done, late>>
  BY DEF CheckException, ThreadStates
<1>. HIDE DEF state
<1>2. TypeOK /\ multithread
  BY ThreadsAreOfThePool DEF PoolInv, ThreadStep
<1>3. /\ task' \in [Thread -> Task \cup {NoTask}]
      /\ \A u \in Thread : thread'[u] # "idle" => task'[u] = task[u] /\ thread[u] # "idle"
      /\ \A u \in Thread : thread'[u] # "idle" => task'[u] \in 1 .. taken'
      /\ \A u, v \in Thread :
             u # v /\ thread'[u] # "idle" /\ thread'[v] # "idle" => task'[u] # task'[v]
  BY <1>1, TasksKept
<1>4. /\ thread'[t] = state /\ \A u \in Thread \ {t} : thread'[u] = thread[u]
      /\ thread' \in [Thread -> ThreadStates] /\ Counting' = Counting \ {t}
  BY <1>1, <1>2, Moves DEF state
<1>5. Counting' = Counting /\ (exception # NoTask => AtBuffer' = AtBuffer)
  BY <1>1, <1>4 DEF Counting, AtBuffer, state
<1>6. TypeOK'
  BY <1>1, <1>2, <1>3, <1>4 DEF TypeOK, pool
<1>7. CountInv'
  <2>1. \A u \in Thread : thread'[u] \in {"check", "buffer", "run"} => task'[u] \notin done'
    BY <1>1, <1>3, <1>4 DEF PoolInv, CountInv
  <2>. QED BY <1>1, <1>2, <1>3, <1>5, <2>1 DEF PoolInv, CountInv, pool
<1>8. MainInv' /\ LateInv'
  BY <1>1, <1>2, <1>5, MainKept DEF PoolInv, LateInv, TypeOK
<1>. QED BY <1>6, <1>7, <1>8 DEF PoolInv

LEMMA BeginKeeps ==
    ASSUME PoolInv, NEW t \in Thread, Begin(t)
    PROVE  PoolInv'
<1>1. /\ thread[t] = "buffer" /\ GoTo(t, "run") /\ "run" \in ThreadStates
      /\ late' = IF exception = NoTask THEN late ELSE late + 1
      /\ UNCHANGED <<multithread, pool, completed, exception, task, main, done>>
  BY DEF Begin, ThreadStates
<1>2. TypeOK /\ multithread
  BY ThreadsAreOfThePool DEF PoolInv, ThreadStep
<1>3. /\ task' \in [Thread -> Task \cup {NoTask}]
      /\ \A u \in Thread : thread'[u] # "idle" => task'[u] = task[u] /\ thread[u] # "idle"
      /\ \A u \in Thread : thread'[u] # "idle" => task'[u] \in 1 .. taken'
      /\ \A u, v \in Thread :
             u # v /\ thread'[u] # "idle" /\ thread'[v] # "idle" => task'[u] # task'[v]
  BY <1>1, TasksKept
<1>4. /\ thread'[t] = "run" /\ \A u \in Thread \ {t} : thread'[u] = thread[u]
      /\ thread' \in [Thread -> ThreadStates]
      /\ Counting' = Counting \ {t} /\ AtBuffer' = AtBuffer \ {t}
  BY <1>1, <1>2, Moves
<1>5. Counting' = Counting /\ t \in AtBuffer
  BY <1>1, <1>4 DEF Counting, AtBuffer
<1>6. TypeOK'
  BY <1>1, <1>2, <1>3, <1>4 DEF TypeOK, pool
<1>7. CountInv'
  <2>1. \A u \in Thread : thread'[u] \in {"check", "buffer", "run"} => task'[u] \notin done'
    BY <1>1, <1>3, <1>4 DEF PoolInv, CountInv
  <2>. QED BY <1>1, <1>2, <1>3, <1>5, <2>1 DEF PoolInv, CountInv, pool
<1>8. MainInv'
  BY <1>1, <1>2, MainKept DEF TypeOK
<1>9. LateInv'
  <2>1. Cardinality(AtBuffer') = Cardinality(AtBuffer) - 1
    BY <1>2, <1>4, <1>5, ThreadSets, FS_RemoveElement
  <2>2. Cardinality(AtBuffer) \in Nat /\ Cardinality(Thread) \in Nat /\ late \in Nat
    BY <1>2, ThreadSets, FiniteSets DEF TypeOK
  <2>. QED BY <1>1, <2>1, <2>2 DEF PoolInv, LateInv
<1>. QED BY <1>6, <1>7, <1>8, <1>9 DEF PoolInv

LEMMA ReturnKeeps ==
    ASSUME PoolInv, NEW t \in Thread, TaskReturns(t)
    PROVE  PoolInv'
<1>1. /\ thread[t] = "run" /\ GoTo(t, "count") /\ "count" \in ThreadStates
      /\ done' = done \cup {task[t]}
      /\ UNCHANGED <<multithread, pool, completed, exception, task, main, late>>
  BY DEF TaskReturns, ThreadStates
<1>2. TypeOK /\ multithread
  BY ThreadsAreOfThePool DEF PoolInv, ThreadStep
<1>3. /\ task' \in [Thread -> Task \cup {NoTask}]
      /\ \A u \in Thread : thread'[u] # "idle" => task'[u] = task[u] /\ thread[u] # "idle"
      /\ \A u \in Thread : thread'[u] # "idle" => task'[u] \in 1 .. taken'
      /\ \A u, v \in Thread :
             u # v /\ thread'[u] # "idle" /\ thread'[v] # "idle" => task'[u] # task'[v]
  BY <1>1, TasksKept
<1>4. /\ thread'[t] = "count" /\ \A u \in Thread \ {t} : thread'[u] = thread[u]
      /\ thread' \in [Thread -> ThreadStates]
      /\ Counting' = Counting \cup {t} /\ AtBuffer' = AtBuffer \ {t}
  BY <1>1, <1>2, Moves
<1>5. AtBuffer' = AtBuffer /\ t \notin Counting
  BY <1>1, <1>4 DEF Counting, AtBuffer
<1>6. task[t] \in 1 .. taken /\ task[t] \notin done /\ task[t] \in Task
  <2>1. taken \in Nat /\ taken <= posted /\ posted \in Nat /\ posted <= NumTasks /\ NumTasks \in Nat
    BY <1>2, PoolAssumption DEF TypeOK
  <2>2. task[t] \in 1 .. taken /\ task[t] \notin done
    BY <1>1 DEF PoolInv, CountInv
  <2>. QED BY <2>1, <2>2 DEF Task
<1>7. TypeOK'
  BY <1>1, <1>2, <1>3, <1>4, <1>6 DEF TypeOK, pool
<1>8. CountInv'
  <2>1. \A u \in Thread : thread'[u] \in {"check", "buffer", "run"} => task'[u] \notin done'
    BY <1>1, <1>4 DEF PoolInv, CountInv
  <2>2. Cardinality(done') = Cardinality(done) + 1
    BY <1>1, <1>2, <1>6, ThreadSets, FS_AddElement
  <2>3. Cardinality(Counting') = Cardinality(Counting) + 1
    BY <1>2, <1>4, <1>5, ThreadSets, FS_AddElement
  <2>4. Cardinality(done) \in Nat /\ Cardinality(Counting) \in Nat /\ completed \in Nat
    BY <1>2, ThreadSets DEF TypeOK
  <2>5. Cardinality(done') = completed + Cardinality(Counting')
    BY <1>2, <2>2, <2>3, <2>4 DEF PoolInv, CountInv
  <2>. QED BY <1>1, <1>2, <1>3, <1>6, <2>1, <2>5 DEF PoolInv, CountInv, pool
<1>9. MainInv' /\ LateInv'
  BY <1>1, <1>2, <1>5, MainKept DEF PoolInv, LateInv, TypeOK
<1>. QED BY <1>7, <1>8, <1>9 DEF PoolInv

LEMMA CountKeeps ==
    ASSUME PoolInv, NEW t \in Thread, Count(t)
    PROVE  PoolInv'
<1>1. /\ thread[t] = "count" /\ GoTo(t, "flush") /\ "flush" \in ThreadStates
      /\ completed' = completed + 1
      /\ UNCHANGED <<multithread, pool, exception, task, main, done, late>>
  BY DEF Count, ThreadStates
<1>2. TypeOK /\ multithread
  BY ThreadsAreOfThePool DEF PoolInv, ThreadStep
<1>3. /\ task' \in [Thread -> Task \cup {NoTask}]
      /\ \A u \in Thread : thread'[u] # "idle" => task'[u] = task[u] /\ thread[u] # "idle"
      /\ \A u \in Thread : thread'[u] # "idle" => task'[u] \in 1 .. taken'
      /\ \A u, v \in Thread :
             u # v /\ thread'[u] # "idle" /\ thread'[v] # "idle" => task'[u] # task'[v]
  BY <1>1, TasksKept
<1>4. /\ thread'[t] = "flush" /\ \A u \in Thread \ {t} : thread'[u] = thread[u]
      /\ thread' \in [Thread -> ThreadStates]
      /\ Counting' = Counting \ {t} /\ AtBuffer' = AtBuffer \ {t}
  BY <1>1, <1>2, Moves
<1>5. AtBuffer' = AtBuffer /\ t \in Counting
  BY <1>1, <1>4 DEF Counting, AtBuffer
<1>6. completed \in Nat /\ completed' \in Nat
  BY <1>1, <1>2 DEF TypeOK
<1>7. TypeOK'
  BY <1>1, <1>2, <1>3, <1>4, <1>6 DEF TypeOK, pool
<1>8. CountInv'
  <2>1. \A u \in Thread : thread'[u] \in {"check", "buffer", "run"} => task'[u] \notin done'
    BY <1>1, <1>4 DEF PoolInv, CountInv
  <2>2. Cardinality(Counting') = Cardinality(Counting) - 1 /\ Cardinality(Counting) \in Nat
    BY <1>2, <1>4, <1>5, ThreadSets, FS_RemoveElement
  <2>3. Cardinality(done) = completed' + Cardinality(Counting')
    BY <1>1, <1>2, <1>6, <2>2 DEF PoolInv, CountInv
  <2>. QED BY <1>1, <1>2, <1>3, <2>1, <2>3 DEF PoolInv, CountInv, pool
<1>9. MainInv' /\ LateInv'
  BY <1>1, <1>2, <1>5, <1>6, MainKept DEF PoolInv, LateInv
<1>. QED BY <1>7, <1>8, <1>9 DEF PoolInv

LEMMA ThrowKeeps ==
    ASSUME PoolInv, NEW t \in Thread, TaskThrows(t)
    PROVE  PoolInv'
<1>1. /\ thread[t] = "run" /\ GoTo(t, "flush") /\ "flush" \in ThreadStates
      /\ exception' = IF exception = NoTask THEN task[t] ELSE exception
      /\ UNCHANGED <<multithread, pool, completed, task, main, done, late>>
  BY DEF TaskThrows, SetException, ThreadStates
<1>2. TypeOK /\ multithread
  BY ThreadsAreOfThePool DEF PoolInv, ThreadStep
<1>3. /\ task' \in [Thread -> Task \cup {NoTask}]
      /\ \A u \in Thread : thread'[u] # "idle" => task'[u] = task[u] /\ thread[u] # "idle"
      /\ \A u \in Thread : thread'[u] # "idle" => task'[u] \in 1 .. taken'
      /\ \A u, v \in Thread :
             u # v /\ thread'[u] # "idle" /\ thread'[v] # "idle" => task'[u] # task'[v]
  BY <1>1, TasksKept
<1>4. /\ thread'[t] = "flush" /\ \A u \in Thread \ {t} : thread'[u] = thread[u]
      /\ thread' \in [Thread -> ThreadStates]
      /\ Counting' = Counting \ {t} /\ AtBuffer' = AtBuffer \ {t}
  BY <1>1, <1>2, Moves
<1>5. AtBuffer' = AtBuffer /\ Counting' = Counting /\ t \notin AtBuffer
  BY <1>1, <1>4 DEF Counting, AtBuffer
<1>6. task[t] \in Task /\ NoTask \notin Task /\ exception' # NoTask
  <2>1. taken \in Nat /\ taken <= posted /\ posted \in Nat /\ posted <= NumTasks /\ NumTasks \in Nat
    BY <1>2, PoolAssumption DEF TypeOK
  <2>2. task[t] \in 1 .. taken
    BY <1>1 DEF PoolInv, CountInv
  <2>. QED BY <1>1, <2>1, <2>2, PoolAssumption DEF Task
<1>7. TypeOK'
  BY <1>1, <1>2, <1>3, <1>4, <1>6 DEF TypeOK, pool
<1>8. CountInv'
  <2>1. \A u \in Thread : thread'[u] \in {"check", "buffer", "run"} => task'[u] \notin done'
    BY <1>1, <1>4 DEF PoolInv, CountInv
  <2>. QED BY <1>1, <1>2, <1>3, <1>5, <2>1 DEF PoolInv, CountInv, pool
<1>9. MainInv'
  BY <1>1, <1>2, MainKept DEF TypeOK
<1>10. LateInv'
  <2>1. CASE exception = NoTask
    <3>1. AtBuffer \in SUBSET (Thread \ {t})
      BY <1>5 DEF AtBuffer
    <3>2. IsFiniteSet(Thread \ {t}) /\ Cardinality(Thread \ {t}) = Cardinality(Thread) - 1
      BY FiniteSets, FS_RemoveElement
    <3>3. Cardinality(AtBuffer) <= Cardinality(Thread \ {t})
      BY <3>1, <3>2, FS_Subset
    <3>4. late' = 0 /\ Cardinality(AtBuffer) \in Nat /\ Cardinality(Thread) \in Nat
      BY <1>1, <1>2, <2>1, ThreadSets, FiniteSets DEF PoolInv, LateInv
    <3>5. late' + Cardinality(AtBuffer') < Cardinality(Thread)
      BY <1>5, <3>2, <3>3, <3>4
    <3>. QED BY <1>6, <3>5 DEF LateInv
  <2>2. CASE exception # NoTask
    BY <1>1, <1>5, <2>2 DEF PoolInv, LateInv
  <2>. QED BY <2>1, <2>2
<1>. QED BY <1>7, <1>8, <1>9, <1>10 DEF PoolInv

LEMMA FlushKeeps ==
    ASSUME PoolInv, NEW t \in Thread, Flush(t)
    PROVE  PoolInv'
<1>1. /\ thread[t] = "flush" /\ GoTo(t, "idle") /\ "idle" \in ThreadStates
      /\ task' = [task EXCEPT ![t] = NoTask]
      /\ UNCHANGED <<multithread, pool, completed, exception, main, done, late>>
  BY DEF Flush, ThreadStates
<1>2. TypeOK /\ multithread
  BY ThreadsAreOfThePool DEF PoolInv, ThreadStep
<1>3. /\ task' \in [Thread -> Task \cup {NoTask}]
      /\ \A u \in Thread : thread'[u] # "idle" => task'[u] = task[u] /\ thread[u] # "idle"
      /\ \A u \in Thread : thread'[u] # "idle" => task'[u] \in 1 .. taken'
      /\ \A u, v \in Thread :
             u # v /\ thread'[u] # "idle" /\ thread'[v] # "idle" => task'[u] # task'[v]
  BY <1>1, TasksKept
<1>4. /\ thread'[t] = "idle" /\ \A u \in Thread \ {t} : thread'[u] = thread[u]
      /\ thread' \in [Thread -> ThreadStates]
      /\ Counting' = Counting \ {t} /\ AtBuffer' = AtBuffer \ {t}
  BY <1>1, <1>2, Moves
<1>5. AtBuffer' = AtBuffer /\ Counting' = Counting
  BY <1>1, <1>4 DEF Counting, AtBuffer
<1>6. TypeOK'
  BY <1>1, <1>2, <1>3, <1>4 DEF TypeOK, pool
<1>7. CountInv'
  <2>1. \A u \in Thread : thread'[u] \in {"check", "buffer", "run"} => task'[u] \notin done'
    BY <1>1, <1>3, <1>4 DEF PoolInv, CountInv
  <2>. QED BY <1>1, <1>2, <1>3, <1>5, <2>1 DEF PoolInv, CountInv, pool
<1>8. MainInv' /\ LateInv'
  BY <1>1, <1>2, <1>5, MainKept DEF PoolInv, LateInv, TypeOK
<1>. QED BY <1>6, <1>7, <1>8 DEF PoolInv

\* The main thread only posts, stops the pool and moves on.
LEMMA MainKeeps ==
    ASSUME PoolInv, Main, ~RunSingle
    PROVE  PoolInv'
<1>1. UNCHANGED <<multithread, taken, completed, exception, thread, task, done, late>>
  BY DEF Main, Construct, Post, EndPost, Poll, StopOnException, EndSingle, StopPool, Destroy, pool
<1>2. /\ posted' \in posted .. NumTasks /\ posted \in Nat /\ NumTasks \in Nat
      /\ ~multithread => posted' = posted
      /\ poolStopped' \in BOOLEAN /\ main' \in MainStates
  <2>1. posted \in Nat /\ posted <= NumTasks /\ NumTasks \in Nat
    BY PoolAssumption DEF PoolInv, TypeOK
  <2>2. posted' = posted \/ (main = "post" /\ posted < NumTasks /\ posted' = posted + 1)
    BY DEF Main, Construct, Post, EndPost, Poll, StopOnException, EndSingle, StopPool, Destroy, pool
  <2>3. poolStopped' \in BOOLEAN
    BY DEF Main, Construct, Post, EndPost, Poll, StopOnException, EndSingle, StopPool, Destroy, pool,
           PoolInv, TypeOK
  <2>4. main' \in MainStates
    BY DEF Main, Construct, Post, EndPost, Poll, StopOnException, EndSingle, StopPool, Destroy,
           PoolInv, TypeOK, MainStates
  <2>5. posted' \in posted .. NumTasks
    BY <2>1, <2>2
  <2>6. ~multithread => posted' = posted
    BY <2>2 DEF PoolInv, MainInv
  <2>. QED BY <2>1, <2>3, <2>4, <2>5, <2>6
<1>3. TypeOK'
  BY <1>1, <1>2 DEF PoolInv, TypeOK
<1>4. Counting' = Counting /\ AtBuffer' = AtBuffer
  BY <1>1 DEF Counting, AtBuffer
<1>5. CountInv' /\ LateInv'
  BY <1>1, <1>2, <1>4 DEF PoolInv, CountInv, LateInv
<1>6. MainInv'
  BY <1>1, PoolAssumption DEF Main, Construct, Post, EndPost, Poll, StopOnException, EndSingle,
     StopPool, Destroy, PoolInv, TypeOK, MainInv
<1>. QED BY <1>3, <1>5, <1>6 DEF PoolInv

LEMMA RunSingleKeeps ==
    ASSUME PoolInv, RunSingle
    PROVE  PoolInv'
<1>1. /\ ~multithread /\ completed \in Nat /\ completed < NumTasks /\ NumTasks \in Nat
      /\ done = 1 .. completed /\ main = "single"
      /\ UNCHANGED <<multithread, posted, taken, poolStopped, thread, task, late>>
  BY PoolAssumption DEF RunSingle, PoolInv, TypeOK, MainInv, CountInv, pool
<1>2. completed + 1 \in Task /\ NoTask \notin Task
      /\ 1 .. (completed + 1) = (1 .. completed) \cup {completed + 1}
  BY <1>1, PoolAssumption DEF Task
<1>3. posted = 0 /\ taken = 0 /\ \A t \in Thread : thread[t] = "idle"
  BY <1>1 DEF PoolInv, CountInv, TypeOK
<1>4. \/ /\ done' = done \cup {completed + 1} /\ completed' = completed + 1
         /\ UNCHANGED <<main, exception>>
      \/ /\ exception' \in Task /\ main' = "returned"
         /\ UNCHANGED <<done, completed>>
  BY <1>1, <1>2 DEF RunSingle, SetException, PoolInv, TypeOK
<1>5. TypeOK'
  BY <1>1, <1>2, <1>4 DEF PoolInv, TypeOK, MainStates
<1>6. CountInv'
  <2>1. \A t \in Thread : thread'[t] = "idle"
    BY <1>1, <1>3
  <2>2. done' = 1 .. completed' /\ completed' <= NumTasks
    <3>1. CASE done' = done \cup {completed + 1} /\ completed' = completed + 1
      <4>1. completed' <= NumTasks
        BY <1>1, <3>1
      <4>2. done' = 1 .. (completed + 1)
        BY <1>1, <1>2, <3>1
      <4>. QED BY <3>1, <4>1, <4>2
    <3>2. CASE UNCHANGED <<done, completed>>
      BY <1>1, <3>2
    <3>. QED BY <1>4, <3>1, <3>2
  <2>. QED BY <1>1, <1>3, <2>1, <2>2 DEF CountInv
<1>7. MainInv'
  BY <1>1, <1>2, <1>4 DEF MainInv
<1>8. LateInv'
  BY <1>1, <1>2, <1>4 DEF PoolInv, LateInv
<1>. QED BY <1>5, <1>6, <1>7, <1>8 DEF PoolInv

LEMMA PoolNext ==
    ASSUME PoolInv, [Next]_vars
    PROVE  PoolInv'
<1>1. CASE Main
  BY <1>1, MainKeeps, RunSingleKeeps
<1>2. ASSUME NEW t \in Thread, ThreadStep(t)
      PROVE  PoolInv'
  BY <1>2, TakeKeeps, CheckKeeps, BeginKeeps, ReturnKeeps, CountKeeps, ThrowKeeps, FlushKeeps
     DEF ThreadStep
<1>3. CASE UNCHANGED vars
  BY <1>3 DEF vars, pool, PoolInv, TypeOK, CountInv, MainInv, LateInv, Counting, AtBuffer
<1>. QED BY <1>1, <1>2, <1>3 DEF Next

\* The counter of runTasks lags behind the tasks that have returned by the threads about to
\* advance it, and threads have tasks of their own.
THEOREM PoolInvariant == Spec => []PoolInv
<1>. QED BY PoolInit, PoolNext, PTL DEF Spec

\* The loop of runTasks that waits on m_completedTasks: it returns when every task has run to
\* its end, with any number of threads.
THEOREM RunTasksReturnsWhenDone == Spec => []ReturnMeansDone
<1>1. PoolInv => ReturnMeansDone
  <2>. SUFFICES ASSUME PoolInv, main \in {"returned", "destroyed"}, multithread \/ exception = NoTask
                PROVE  done = Task
    BY DEF PoolInv, TypeOK, ReturnMeansDone
  <2>1. completed >= NumTasks /\ completed \in Nat /\ NumTasks \in Nat /\ done \in SUBSET Task
    BY PoolAssumption DEF PoolInv, MainInv, TypeOK
  <2>2. CASE multithread
    <3>1. Cardinality(done) = completed + Cardinality(Counting) /\ Cardinality(Counting) \in Nat
      BY <2>2, ThreadSets DEF PoolInv, CountInv
    <3>2. Cardinality(done) <= Cardinality(Task) /\ (Cardinality(Task) = Cardinality(done) => Task = done)
      BY <2>1, FiniteSets, FS_Subset
    <3>3. Cardinality(Task) = NumTasks
      BY FiniteSets
    <3>. QED BY <2>1, <3>1, <3>2, <3>3
  <2>3. CASE ~multithread
    BY <2>1, <2>3 DEF PoolInv, CountInv, Task
  <2>. QED BY <2>2, <2>3
<1>. QED BY <1>1, PoolInvariant, PTL

\* The check of ExceptionHandler before each task: fewer tasks than there are threads begin
\* after an exception.
THEOREM FewTasksBeginLate == Spec => []FewBeginLate
<1>1. PoolInv => FewBeginLate
  <2>1. PoolInv => Cardinality(AtBuffer) \in Nat /\ Cardinality(Thread) \in Nat /\ late \in Nat
    BY ThreadSets, FiniteSets DEF PoolInv, TypeOK
  <2>. QED BY <2>1 DEF PoolInv, LateInv, FewBeginLate
<1>. QED BY <1>1, PoolInvariant, PTL

=============================================================================
