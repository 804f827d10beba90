------------------------ MODULE TextureMappingProofs ------------------------
(* Proofs about TaskQueue, which implements SerialExecutor, and about TextureMapping, which *)
(* puts a TaskQueue to use; for any textures and any meshes.                                *)
EXTENDS TextureMapping, SequenceTheorems, FiniteSetTheorems, WellFoundedInduction, TLAPS

\* the task the worker has taken from the queue and not begun
Taken == IF worker = "popped" THEN 1 ELSE 0

\* What was submitted is what was started, then the task that was popped, then the queue.
OrderInv ==
    /\ queuedTasks = Len(queue)
    /\ Len(submitted) = Len(started) + Taken + Len(queue)
    /\ \A i \in 1 .. Len(started) : submitted[i] = started[i]
    /\ worker = "popped" => task = submitted[Len(started) + 1]
    /\ \A i \in 1 .. Len(queue) : submitted[Len(started) + Taken + i] = queue[i]

\* Who may be where.
ControlInv ==
    /\ client = "push" => arg \in Task
    /\ client = "stopped" => worker = "exited"
    /\ exceptionThrown => worker \in {"done", "top", "check", "exited"}
    /\ worker = "popped" => task \in Task
    /\ flushed => queue = << >>

QueueInv == TypeOK /\ OrderInv /\ ControlInv

LEMMA QueueInit ==
    ASSUME Init
    PROVE  QueueInv
<1>1. << >> \in Seq(Task) /\ Len(<< >>) = 0 /\ 0 \in Nat
  OBVIOUS
<1>2. TypeOK
  BY <1>1 DEF Init, TypeOK, WorkerStates, ClientStates
<1>3. OrderInv
  BY <1>1 DEF Init, OrderInv, Taken
<1>. QED BY <1>2, <1>3 DEF Init, QueueInv, ControlInv

\* A step of the worker that leaves the queue and the tasks alone.
LEMMA WorkerMoves ==
    ASSUME QueueInv, UNCHANGED <<queue, queuedTasks, client, arg, submitted, started, flushed>>,
           worker \notin {"popped", "exited"}, worker' \in WorkerStates \ {"popped"},
           running' \in BOOLEAN, isBusy' \in BOOLEAN, exceptionThrown' \in BOOLEAN,
           task' \in {task, NoTask},
           exceptionThrown' => worker' \in {"done", "top", "check", "exited"}
    PROVE  QueueInv'
<1>1. TypeOK'
  BY DEF QueueInv, TypeOK
<1>2. Taken = 0 /\ Taken' = 0
  BY DEF Taken
<1>3. OrderInv'
  BY <1>2 DEF QueueInv, OrderInv
<1>4. ControlInv'
  BY DEF QueueInv, ControlInv
<1>. QED BY <1>1, <1>3, <1>4 DEF QueueInv

LEMMA PopKeeps ==
    ASSUME QueueInv, Pop
    PROVE  QueueInv'
<1>1. /\ worker = "lock" /\ queue # << >> /\ task' = Head(queue) /\ queue' = Tail(queue)
      /\ queuedTasks' = queuedTasks - 1 /\ worker' = "popped"
      /\ UNCHANGED <<running, isBusy, exceptionThrown, client, arg, submitted, started, flushed>>
  BY DEF Pop, history
<1>2. queue \in Seq(Task) /\ submitted \in Seq(Task) /\ started \in Seq(Task)
  BY DEF QueueInv, TypeOK
<1>3. /\ Head(queue) \in Task /\ Head(queue) = queue[1] /\ Tail(queue) \in Seq(Task)
      /\ Len(queue) \in Nat \ {0} /\ Len(Tail(queue)) = Len(queue) - 1
      /\ \A i \in 1 .. Len(Tail(queue)) : Tail(queue)[i] = queue[i + 1]
  BY <1>1, <1>2
<1>4. Taken = 0 /\ Taken' = 1 /\ Len(started) \in Nat
  BY <1>1, <1>2 DEF Taken
<1>5. TypeOK'
  BY <1>1, <1>3 DEF QueueInv, TypeOK, OrderInv, WorkerStates
<1>6. OrderInv'
  <2>1. queuedTasks' = Len(queue') /\ Len(submitted') = Len(started') + Taken' + Len(queue')
    <3>1. queuedTasks = Len(queue) /\ Len(submitted) = Len(started) + Taken + Len(queue)
      BY DEF QueueInv, OrderInv
    <3>. QED BY <1>1, <1>3, <1>4, <3>1
  <2>2. \A i \in 1 .. Len(queue) : submitted[Len(started) + i] = queue[i]
    BY <1>3, <1>4 DEF QueueInv, OrderInv
  <2>3. task' = submitted'[Len(started') + 1]
    BY <1>1, <1>3, <2>2
  <2>4. ASSUME NEW i \in 1 .. Len(queue')
        PROVE  submitted'[Len(started') + Taken' + i] = queue'[i]
    <3>1. i + 1 \in 1 .. Len(queue) /\ queue'[i] = queue[i + 1]
      BY <1>1, <1>3, <2>4
    <3>2. Len(started) + (i + 1) = Len(started') + Taken' + i
      BY <1>1, <1>4, <3>1
    <3>3. submitted[Len(started) + (i + 1)] = queue[i + 1]
      BY <2>2, <3>1
    <3>. QED BY <1>1, <3>1, <3>2, <3>3
  <2>5. \A i \in 1 .. Len(started') : submitted'[i] = started'[i]
    BY <1>1 DEF QueueInv, OrderInv
  <2>. QED BY <2>1, <2>3, <2>4, <2>5 DEF OrderInv
<1>7. ControlInv'
  BY <1>1, <1>3 DEF QueueInv, ControlInv
<1>. QED BY <1>5, <1>6, <1>7 DEF QueueInv

LEMMA BeginKeeps ==
    ASSUME QueueInv, Begin
    PROVE  QueueInv'
<1>1. /\ worker = "popped" /\ worker' = "run" /\ isBusy' = TRUE
      /\ started' = Append(started, task)
      /\ UNCHANGED <<queue, queuedTasks, running, exceptionThrown, task, client, arg, submitted,
                     flushed>>
  BY DEF Begin
<1>2. queue \in Seq(Task) /\ submitted \in Seq(Task) /\ started \in Seq(Task) /\ task \in Task
  BY <1>1 DEF QueueInv, TypeOK, ControlInv
<1>3. /\ started' \in Seq(Task) /\ Len(started') = Len(started) + 1 /\ Len(started) \in Nat
      /\ started'[Len(started) + 1] = task
      /\ \A i \in 1 .. Len(started) : started'[i] = started[i]
  BY <1>1, <1>2
<1>4. Taken = 1 /\ Taken' = 0 /\ Len(queue) \in Nat
  BY <1>1, <1>2 DEF Taken
<1>5. TypeOK'
  BY <1>1, <1>3 DEF QueueInv, TypeOK, WorkerStates
<1>6. OrderInv'
  <2>1. Len(submitted') = Len(started') + Taken' + Len(queue')
    BY <1>1, <1>3, <1>4 DEF QueueInv, OrderInv
  <2>2. \A i \in 1 .. Len(started') : submitted'[i] = started'[i]
    BY <1>1, <1>3 DEF QueueInv, OrderInv
  <2>3. \A i \in 1 .. Len(queue') : submitted'[Len(started') + Taken' + i] = queue'[i]
    BY <1>1, <1>3, <1>4 DEF QueueInv, OrderInv
  <2>. QED BY <1>1, <2>1, <2>2, <2>3 DEF QueueInv, OrderInv
<1>7. ControlInv'
  BY <1>1 DEF QueueInv, ControlInv
<1>. QED BY <1>5, <1>6, <1>7 DEF QueueInv

LEMMA PushKeeps ==
    ASSUME QueueInv, Push
    PROVE  QueueInv'
<1>1. /\ client = "push" /\ client' = "notify"
      /\ queue' = Append(queue, arg) /\ queuedTasks' = queuedTasks + 1
      /\ submitted' = Append(submitted, arg) /\ flushed' = FALSE
      /\ UNCHANGED <<running, isBusy, exceptionThrown, worker, task, arg, started>>
  BY DEF Push
<1>2. queue \in Seq(Task) /\ submitted \in Seq(Task) /\ started \in Seq(Task) /\ arg \in Task
  BY <1>1 DEF QueueInv, TypeOK, ControlInv
<1>3. /\ queue' \in Seq(Task) /\ Len(queue') = Len(queue) + 1 /\ Len(queue) \in Nat
      /\ queue'[Len(queue) + 1] = arg /\ \A i \in 1 .. Len(queue) : queue'[i] = queue[i]
  BY <1>1, <1>2
<1>4. /\ submitted' \in Seq(Task) /\ Len(submitted') = Len(submitted) + 1 /\ Len(submitted) \in Nat
      /\ submitted'[Len(submitted) + 1] = arg
      /\ \A i \in 1 .. Len(submitted) : submitted'[i] = submitted[i]
  BY <1>1, <1>2
<1>5. Taken' = Taken /\ Taken \in {0, 1} /\ Len(started) \in Nat
  BY <1>1, <1>2 DEF Taken
<1>6. /\ queuedTasks = Len(queue) /\ Len(submitted) = Len(started) + Taken + Len(queue)
      /\ \A i \in 1 .. Len(started) : submitted[i] = started[i]
      /\ worker = "popped" => task = submitted[Len(started) + 1] /\ Taken = 1
      /\ \A i \in 1 .. Len(queue) : submitted[Len(started) + Taken + i] = queue[i]
  BY DEF QueueInv, OrderInv, Taken
<1>7. TypeOK'
  <2>1. queuedTasks' \in Nat
    BY <1>1, <1>3, <1>6
  <2>. QED BY <1>1, <1>3, <1>4, <2>1 DEF QueueInv, TypeOK, ClientStates
<1>8. OrderInv'
  <2>1. queuedTasks' = Len(queue') /\ Len(submitted') = Len(started') + Taken' + Len(queue')
    BY <1>1, <1>3, <1>4, <1>5, <1>6
  <2>2. \A i \in 1 .. Len(started') : submitted'[i] = started'[i]
    BY <1>1, <1>3, <1>4, <1>5, <1>6
  <2>3. worker' = "popped" => task' = submitted'[Len(started') + 1]
    BY <1>1, <1>3, <1>4, <1>5, <1>6
  <2>4. ASSUME NEW i \in 1 .. Len(queue')
        PROVE  submitted'[Len(started') + Taken' + i] = queue'[i]
    <3>1. CASE i = Len(queue) + 1
      BY <1>1, <1>3, <1>4, <1>5, <1>6, <3>1
    <3>2. CASE i \in 1 .. Len(queue)
      <4>1. Len(started) + Taken + i \in 1 .. Len(submitted)
        BY <1>3, <1>5, <1>6, <3>2
      <4>2. submitted'[Len(started) + Taken + i] = queue[i]
        BY <1>4, <1>6, <3>2, <4>1
      <4>. QED BY <1>1, <1>3, <1>5, <3>2, <4>2
    <3>. QED BY <1>3, <2>4, <3>1, <3>2
  <2>. QED BY <2>1, <2>2, <2>3, <2>4 DEF OrderInv
<1>9. ControlInv'
  BY <1>1 DEF QueueInv, ControlInv
<1>. QED BY <1>7, <1>8, <1>9 DEF QueueInv

\* The client asks, waits, or tells the worker to stop.
LEMMA ClientMoves ==
    ASSUME QueueInv, UNCHANGED <<queue, queuedTasks, exceptionThrown, isBusy, task, submitted, started>>,
           client' \in ClientStates, running' \in BOOLEAN, arg' \in Task \cup {NoTask},
           flushed' \in BOOLEAN, flushed' => flushed \/ queuedTasks = 0,
           client' = "push" => arg' \in Task,
           client' = "stopped" => worker = "exited",
           worker' = worker \/ (worker = "waiting" /\ worker' = "lock")
    PROVE  QueueInv'
<1>1. TypeOK'
  BY DEF QueueInv, TypeOK, WorkerStates
<1>2. Taken' = Taken
  BY DEF Taken
<1>3. OrderInv'
  BY <1>2 DEF QueueInv, OrderInv
<1>4. queuedTasks = 0 => queue = << >>
  <2>1. queue \in Seq(Task) /\ queuedTasks = Len(queue)
    BY DEF QueueInv, TypeOK, OrderInv
  <2>. QED BY <2>1, EmptySeq
<1>5. ControlInv'
  BY <1>4 DEF QueueInv, ControlInv
<1>. QED BY <1>1, <1>3, <1>5 DEF QueueInv

LEMMA QueueNext ==
    ASSUME QueueInv, [Next]_vars
    PROVE  QueueInv'
<1>1. CASE LoopTop \/ CheckException \/ PredicateFails \/ Block \/ SpuriousWakeup \/ ExitEmpty
           \/ TaskReturns \/ TaskThrows \/ EndBusy
  <2>1. UNCHANGED <<queue, queuedTasks, client, arg, submitted, started, flushed>>
    BY <1>1 DEF LoopTop, CheckException, PredicateFails, Block, SpuriousWakeup, ExitEmpty,
       TaskReturns, TaskThrows, EndBusy, shared, history
  <2>2. worker \notin {"popped", "exited"} /\ worker' \in WorkerStates \ {"popped"}
    BY <1>1 DEF LoopTop, CheckException, PredicateFails, Block, SpuriousWakeup, ExitEmpty,
       TaskReturns, TaskThrows, EndBusy, WorkerStates
  <2>3. running' \in BOOLEAN /\ isBusy' \in BOOLEAN /\ exceptionThrown' \in BOOLEAN
        /\ task' \in {task, NoTask}
    BY <1>1 DEF LoopTop, CheckException, PredicateFails, Block, SpuriousWakeup, ExitEmpty,
       TaskReturns, TaskThrows, EndBusy, shared, QueueInv, TypeOK
  <2>4. exceptionThrown' => worker' \in {"done", "top", "check", "exited"}
    BY <1>1 DEF LoopTop, CheckException, PredicateFails, Block, SpuriousWakeup, ExitEmpty,
       TaskReturns, TaskThrows, EndBusy, shared, QueueInv, ControlInv
  <2>. QED BY <2>1, <2>2, <2>3, <2>4, WorkerMoves
<1>2. CASE Pop \/ Begin \/ Push
  BY <1>2, PopKeeps, BeginKeeps, PushKeeps
<1>3. CASE Enter \/ NotifyPush \/ ReadBusy \/ ReadCount \/ NotifyStop \/ Join
  <2>1. UNCHANGED <<queue, queuedTasks, exceptionThrown, isBusy, task, submitted, started>>
        /\ (worker' = worker \/ (worker = "waiting" /\ worker' = "lock"))
    BY <1>3 DEF Enter, QueueTask, WaitForCompletion, Shutdown, NotifyPush, ReadBusy, ReadCount,
       NotifyStop, Join, Notify, shared, history
  <2>2. client' \in ClientStates /\ running' \in BOOLEAN /\ arg' \in Task \cup {NoTask}
    BY <1>3 DEF Enter, QueueTask, WaitForCompletion, Shutdown, NotifyPush, ReadBusy, ReadCount,
       NotifyStop, Join, shared, QueueInv, TypeOK, ClientStates
  <2>3. flushed' \in BOOLEAN /\ (flushed' => flushed \/ queuedTasks = 0)
    <3>1. CASE ReadCount
      <4>1. flushed \in BOOLEAN
        BY DEF QueueInv, TypeOK
      <4>2. (queuedTasks = 0 /\ flushed' = TRUE) \/ flushed' = flushed
        BY <3>1 DEF ReadCount
      <4>3. CASE queuedTasks = 0 /\ flushed' = TRUE
        BY <4>3
      <4>4. CASE flushed' = flushed
        BY <4>1, <4>4
      <4>. QED BY <4>2, <4>3, <4>4
    <3>2. CASE Enter \/ NotifyPush \/ ReadBusy \/ NotifyStop \/ Join
      <4>1. flushed' = flushed
        BY <3>2 DEF Enter, QueueTask, WaitForCompletion, Shutdown, NotifyPush, ReadBusy, NotifyStop,
           Join, history
      <4>. QED BY <4>1 DEF QueueInv, TypeOK
    <3>. QED BY <1>3, <3>1, <3>2
  <2>4. (client' = "push" => arg' \in Task) /\ (client' = "stopped" => worker = "exited")
    BY <1>3 DEF Enter, QueueTask, WaitForCompletion, Shutdown, NotifyPush, ReadBusy, ReadCount,
       NotifyStop, Join
  <2>. QED BY <2>1, <2>2, <2>3, <2>4, ClientMoves
<1>4. CASE UNCHANGED vars
  BY <1>4 DEF vars, shared, threads, history, QueueInv, TypeOK, OrderInv, ControlInv, Taken
<1>. QED BY <1>1, <1>2, <1>3, <1>4 DEF Next, WorkerLoop, GoOn

\* The queue of TaskQueue: what was submitted is what was started, the task that is popped, and
\* what is queued.
THEOREM QueueInvariant == Spec => []QueueInv
<1>. QED BY QueueInit, QueueNext, PTL DEF Spec

\* waitForCompletion, then shutdown: the window between pop and isBusy does no harm.
THEOREM WaitedForTasksHaveRun == Spec => []WaitThenShutdownRunsAll
<1>1. QueueInv => WaitThenShutdownRunsAll
  <2>. SUFFICES ASSUME QueueInv, client = "stopped", flushed
                PROVE  started = submitted
    BY DEF WaitThenShutdownRunsAll
  <2>1. worker = "exited" /\ queue = << >> /\ Taken = 0
    BY DEF QueueInv, ControlInv, Taken
  <2>2. started \in Seq(Task) /\ submitted \in Seq(Task)
    BY DEF QueueInv, TypeOK
  <2>3. Len(submitted) = Len(started) /\ \A i \in 1 .. Len(started) : submitted[i] = started[i]
    BY <2>1, <2>2 DEF QueueInv, OrderInv
  <2>. QED BY <2>2, <2>3
<1>. QED BY <1>1, QueueInvariant, PTL

LEMMA SerialStep ==
    ASSUME QueueInv, [Next]_vars
    PROVE  [Serial!Next]_Serial!vars
<1>1. CASE Begin
  <2>1. /\ worker = "popped" /\ worker' = "run" /\ started' = Append(started, task)
        /\ UNCHANGED <<submitted, exceptionThrown, client>>
    BY <1>1 DEF Begin
  <2>2. ~exceptionThrown /\ client # "stopped" /\ task = submitted[Len(started) + 1]
    BY <2>1 DEF QueueInv, OrderInv, ControlInv
  <2>3. Len(started) < Len(submitted)
    <3>1. Len(queue) \in Nat /\ Len(started) \in Nat /\ Taken = 1
      BY <2>1 DEF QueueInv, TypeOK, Taken
    <3>. QED BY <3>1 DEF QueueInv, OrderInv
  <2>4. Serial!Start
    BY <2>1, <2>2, <2>3 DEF Serial!Start
  <2>. QED BY <2>4 DEF Serial!Next
<1>2. CASE TaskReturns
  <2>1. Serial!Return
    BY <1>2 DEF TaskReturns, Serial!Return, shared, history
  <2>. QED BY <2>1 DEF Serial!Next
<1>3. CASE TaskThrows
  <2>1. Serial!Fail
    BY <1>3 DEF TaskThrows, Serial!Fail, history
  <2>. QED BY <2>1 DEF Serial!Next
<1>4. CASE Push
  <2>1. arg \in Task /\ Serial!Submit(arg)
    BY <1>4 DEF Push, Serial!Submit, QueueInv, ControlInv
  <2>. QED BY <2>1 DEF Serial!Next
<1>5. CASE Join
  <2>1. Serial!Close
    BY <1>5 DEF Join, Serial!Close, shared, history
  <2>. QED BY <2>1 DEF Serial!Next
<1>6. CASE LoopTop \/ CheckException \/ PredicateFails \/ Block \/ SpuriousWakeup \/ ExitEmpty
           \/ Pop \/ EndBusy
  <2>1. UNCHANGED <<submitted, started, exceptionThrown, client>> /\ worker # "run" /\ worker' # "run"
    BY <1>6 DEF LoopTop, CheckException, PredicateFails, Block, SpuriousWakeup, ExitEmpty, Pop,
       EndBusy, shared, history
  <2>. QED BY <2>1 DEF Serial!vars
<1>7. CASE Enter \/ NotifyPush \/ ReadBusy \/ ReadCount \/ NotifyStop
  <2>1. UNCHANGED <<submitted, started, exceptionThrown>> /\ client # "stopped" /\ client' # "stopped"
        /\ (worker = "run" <=> worker' = "run")
    BY <1>7 DEF Enter, QueueTask, WaitForCompletion, Shutdown, NotifyPush, ReadBusy, ReadCount,
       NotifyStop, Notify, shared, history
  <2>. QED BY <2>1 DEF Serial!vars
<1>8. CASE UNCHANGED vars
  BY <1>8 DEF vars, shared, threads, history, Serial!vars
<1>. QED BY <1>1, <1>2, <1>3, <1>4, <1>5, <1>6, <1>7, <1>8 DEF Next, WorkerLoop, GoOn

\* TaskQueue.hpp: the tasks are executed sequentially by one thread.  Every step of the two
\* threads is a step of a serial executor or none.
THEOREM ImplementsSerialExecutor == Spec => RunsSerially
<1>1. Init => Serial!Init
  BY DEF Init, Serial!Init
<1>2. QueueInv /\ [Next]_vars => [Serial!Next]_Serial!vars
  BY SerialStep
<1>. QED BY <1>1, <1>2, QueueInvariant, PTL DEF Spec, RunsSerially, Serial!Spec

-----------------------------------------------------------------------------
(* The votes of the mesh tasks *)

\* what has been counted so far of the uses of a texture
Counted(t) == {u \in Position : /\ u[2] <= mesh[u[1]]
                                /\ UseAt(u).texture = t /\ UsedAs(UseAt(u)) # {}}
CountedIn(t, slot) == {u \in Counted(t) : UseAt(u).slot = slot}
CountedAs(t, type) == {u \in Counted(t) : type \in UsedAs(UseAt(u))}

\* The counters are what has been counted.
ScanInv ==
    /\ uses \in [Mesh -> Seq(Use)] /\ mesh \in [Mesh -> Int]
    /\ \A m \in Mesh : mesh[m] \in -1 .. Len(uses[m])
    /\ slots \in [Task -> [Slot -> Nat]] /\ types \in [Task -> [TextureType -> Nat]]
    /\ \A t \in Task :
           /\ IsFiniteSet(Counted(t))
           /\ \A s \in Slot : slots[t][s] = Cardinality(CountedIn(t, s))
           /\ \A y \in TextureType : types[t][y] = Cardinality(CountedAs(t, y))

\* A use speaks for one type at most, and never for that of a complex material.
LEMMA OneType ==
    ASSUME NEW use \in Use, NEW y \in UsedAs(use)
    PROVE  /\ UsedAs(use) = {y}
           /\ y \in SuffixType
<1>. DEFINE r == Rules(use.slot)
            applies(i) == r[i][1] \in {"", use.shader} /\ r[i][2] \subseteq use.flags
            first == {i \in DOMAIN r : applies(i) /\ \A j \in 1 .. i - 1 : ~applies(j)}
<1>1. UsedAs(use) = {r[i][3] : i \in first}
  BY DEF UsedAs
<1>2. DOMAIN r \subseteq 1 .. 4 /\ \A i \in DOMAIN r : r[i][3] \in SuffixType
  <2>1. use.slot \in Slot
    BY DEF Use
  <2>2. CASE use.slot = "DIFFUSE"
    <3>. DEFINE a == <<"", {}, "DIFFUSE">>
    <3>1. r = <<a>>
      BY <2>2 DEF Rules
    <3>2. a[3] \in SuffixType
      BY DEF SuffixType, TextureType
    <3>. HIDE DEF r, a
    <3>. QED BY <3>1, <3>2
  <2>3. CASE use.slot = "NORMAL"
    <3>. DEFINE a == <<"SKINTINT", {"FACEGEN_RGB_TINT"}, "MODELSPACENORMAL">>
               b == <<"", {}, "NORMAL">>
    <3>1. r = <<a, b>>
      BY <2>3 DEF Rules
    <3>2. a[3] \in SuffixType /\ b[3] \in SuffixType
      BY DEF SuffixType, TextureType
    <3>. HIDE DEF r, a, b
    <3>. QED BY <3>1, <3>2
  <2>4. CASE use.slot = "GLOW"
    BY <2>4 DEF Rules, SuffixType, TextureType
  <2>5. CASE use.slot = "PARALLAX"
    BY <2>5 DEF Rules, SuffixType, TextureType
  <2>6. CASE use.slot = "CUBEMAP"
    BY <2>6 DEF Rules, SuffixType, TextureType
  <2>7. CASE use.slot = "ENVMASK"
    BY <2>7 DEF Rules, SuffixType, TextureType
  <2>8. CASE use.slot = "MULTILAYER"
    BY <2>8 DEF Rules, SuffixType, TextureType
  <2>9. CASE use.slot = "BACKLIGHT"
    <3>. DEFINE a == <<"MULTILAYERPARALLAX", {"UNUSED01"}, "SUBSURFACEPBR">>
               b == <<"HAIRTINT", {"BACK_LIGHTING"}, "HAIR_FLOWMAP">>
               c == <<"SKINTINT", {"FACEGEN_RGB_TINT"}, "SPECULAR">>
               d == <<"", {"BACK_LIGHTING"}, "BACKLIGHT">>
    <3>1. r = <<a, b, c, d>>
      BY <2>9 DEF Rules
    <3>2. a[3] \in SuffixType /\ b[3] \in SuffixType /\ c[3] \in SuffixType /\ d[3] \in SuffixType
      BY DEF SuffixType, TextureType
    <3>. HIDE DEF r, a, b, c, d
    <3>. QED BY <3>1, <3>2
  <2>10. CASE use.slot = "UNUSED"
    <3>. DEFINE a == <<"", {}, "UNKNOWN">>
    <3>1. r = <<a>>
      BY <2>10 DEF Rules
    <3>2. a[3] \in SuffixType
      BY DEF SuffixType, TextureType
    <3>. HIDE DEF r, a
    <3>. QED BY <3>1, <3>2
  <2>. QED BY <2>1, <2>2, <2>3, <2>4, <2>5, <2>6, <2>7, <2>8, <2>9, <2>10 DEF Slot
<1>. HIDE DEF r, applies
<1>3. \A i, j \in first : i = j
  <2>1. ASSUME NEW i \in first, NEW j \in first, j < i PROVE FALSE
    <3>1. i \in 1 .. 4 /\ j \in 1 .. 4 /\ applies(j) /\ \A k \in 1 .. i - 1 : ~applies(k)
      BY <1>2
    <3>. QED BY <2>1, <3>1
  <2>2. \A i \in first : i \in 1 .. 4
    BY <1>2
  <2>. HIDE DEF first
  <2>. QED BY <2>1, <2>2
<1>. HIDE DEF first
<1>4. first \subseteq DOMAIN r
  BY DEF first
<1>. QED BY <1>1, <1>2, <1>3, <1>4

LEMMA PositionOf ==
    ASSUME uses \in [Mesh -> Seq(Use)], NEW u \in Position
    PROVE  /\ u[1] \in Mesh /\ u[2] \in 1 .. Len(uses[u[1]]) /\ u = <<u[1], u[2]>>
           /\ UseAt(u) \in Use
<1>1. PICK m \in Mesh : u \in {m} \X DOMAIN uses[m]
  BY DEF Position
<1>2. uses[m] \in Seq(Use)
  OBVIOUS
<1>. QED BY <1>1, <1>2 DEF UseAt

LEMMA ScanInit ==
    ASSUME MapInit
    PROVE  ScanInv
<1>1. uses \in [Mesh -> Seq(Use)]
  BY MappingAssumption DEF MapInit
<1>2. /\ mesh = [m \in Mesh |-> 0] /\ slots = [t \in Task |-> [s \in Slot |-> 0]]
      /\ types = [t \in Task |-> [y \in TextureType |-> 0]]
  BY DEF MapInit
<1>3. \A m \in Mesh : Len(uses[m]) \in Nat
  BY <1>1
<1>4. \A t \in Task : Counted(t) = {}
  BY <1>1, <1>2, PositionOf DEF Counted
<1>5. \A t \in Task : /\ \A s \in Slot : CountedIn(t, s) = {}
                      /\ \A y \in TextureType : CountedAs(t, y) = {}
  BY <1>4 DEF CountedIn, CountedAs
<1>6. IsFiniteSet({}) /\ Cardinality({}) = 0
  BY FS_EmptySet
<1>7. /\ mesh \in [Mesh -> Int] /\ \A m \in Mesh : mesh[m] \in -1 .. Len(uses[m])
      /\ slots \in [Task -> [Slot -> Nat]] /\ types \in [Task -> [TextureType -> Nat]]
  BY <1>2, <1>3
<1>8. \A t \in Task : /\ \A s \in Slot : slots[t][s] = 0
                      /\ \A y \in TextureType : types[t][y] = 0
  BY <1>2
<1>. QED BY <1>1, <1>4, <1>5, <1>6, <1>7, <1>8 DEF ScanInv

\* A use is counted once in its slot, and once as the type it speaks for.
LEMMA CountUseKeeps ==
    ASSUME ScanInv, NEW m \in Mesh, CountUse(m)
    PROVE  ScanInv'
<1>. DEFINE n == mesh[m] + 1
            u == <<m, n>>
            use == UseAt(u)
<1>1. /\ Loaded(m) /\ mesh[m] < Len(uses[m]) /\ uses' = uses
      /\ mesh' = [mesh EXCEPT ![m] = @ + 1]
      /\ \/ UsedAs(use) = {} /\ UNCHANGED <<slots, types>>
         \/ \E type \in UsedAs(use) : UpdateUnconfirmed(use, type)
  BY DEF CountUse, UseAt
<1>2. /\ uses \in [Mesh -> Seq(Use)] /\ mesh \in [Mesh -> Int] /\ mesh[m] \in Nat
      /\ Len(uses[m]) \in Nat
  BY <1>1 DEF ScanInv, Loaded
<1>3. u \in Position /\ use \in Use /\ use.texture \in Task /\ use.slot \in Slot
  <2>1. n \in DOMAIN uses[m]
    BY <1>1, <1>2
  <2>2. u \in Position
    BY <2>1 DEF Position
  <2>. HIDE DEF u
  <2>3. use \in Use
    BY <1>2, <2>2, PositionOf
  <2>. QED BY <2>2, <2>3 DEF Use
<1>4. mesh' \in [Mesh -> Int] /\ \A k \in Mesh : mesh'[k] \in -1 .. Len(uses[k])
  BY <1>1, <1>2 DEF ScanInv
<1>5. \A v \in Position : v[2] <= mesh'[v[1]] <=> v[2] <= mesh[v[1]] \/ v = u
  <2>. SUFFICES ASSUME NEW v \in Position
                PROVE  v[2] <= mesh'[v[1]] <=> v[2] <= mesh[v[1]] \/ v = u
    OBVIOUS
  <2>1. v[1] \in Mesh /\ v[2] \in Nat /\ v = <<v[1], v[2]>>
    BY <1>2, PositionOf
  <2>. QED BY <1>1, <1>2, <2>1
<1>6. \A t : u \notin Counted(t)
  BY <1>2 DEF Counted
<1>7. Position' = Position /\ \A v : UseAt(v)' = UseAt(v)
  BY <1>1 DEF Position, UseAt
<1>. HIDE DEF u
<1>8. \A t : Counted(t)' = IF t = use.texture /\ UsedAs(use) # {} THEN Counted(t) \cup {u}
                           ELSE Counted(t)
  <2>1. \A t : Counted(t)' = {v \in Position : /\ v[2] <= mesh'[v[1]]
                                               /\ UseAt(v).texture = t /\ UsedAs(UseAt(v)) # {}}
    BY <1>1, <1>7 DEF Counted, Position, UseAt
  <2>. QED BY <1>3, <1>5, <2>1 DEF Counted
<1>9. /\ \A t, s : CountedIn(t, s)' = {v \in Counted(t)' : UseAt(v).slot = s}
      /\ \A t, y : CountedAs(t, y)' = {v \in Counted(t)' : y \in UsedAs(UseAt(v))}
  BY <1>1 DEF CountedIn, CountedAs, UseAt
<1>10. \A t \in Task : /\ IsFiniteSet(Counted(t))
                       /\ \A s : IsFiniteSet(CountedIn(t, s))
                       /\ \A y : IsFiniteSet(CountedAs(t, y))
  BY FS_Subset DEF ScanInv, CountedIn, CountedAs
<1>11. ASSUME UsedAs(use) = {}, UNCHANGED <<slots, types>>
       PROVE  ScanInv'
  <2>1. \A t : Counted(t)' = Counted(t)
    BY <1>8, <1>11
  <2>2. /\ \A t, s : CountedIn(t, s)' = CountedIn(t, s)
        /\ \A t, y : CountedAs(t, y)' = CountedAs(t, y)
    <3>1. ASSUME NEW t, NEW s PROVE CountedIn(t, s)' = CountedIn(t, s)
      BY <1>1, <2>1 DEF CountedIn, UseAt
    <3>2. ASSUME NEW t, NEW y PROVE CountedAs(t, y)' = CountedAs(t, y)
      BY <1>1, <2>1 DEF CountedAs, UseAt
    <3>. QED BY <3>1, <3>2
  <2>. QED BY <1>1, <1>2, <1>4, <1>11, <2>1, <2>2 DEF ScanInv
<1>12. ASSUME NEW type \in UsedAs(use), UpdateUnconfirmed(use, type)
       PROVE  ScanInv'
  <2>1. UsedAs(use) = {type} /\ type \in TextureType
    BY <1>3, OneType DEF SuffixType
  <2>2. /\ slots' = [slots EXCEPT ![use.texture][use.slot] = @ + 1]
        /\ types' = [types EXCEPT ![use.texture][type] = @ + 1]
    BY <1>12 DEF UpdateUnconfirmed
  <2>. DEFINE tex == use.texture
              slot == use.slot
  <2>. HIDE DEF use
  <2>3. /\ slots' \in [Task -> [Slot -> Nat]] /\ types' \in [Task -> [TextureType -> Nat]]
        /\ \A t \in Task : \A s \in Slot :
               slots'[t][s] = IF t = tex /\ s = slot THEN slots[t][s] + 1 ELSE slots[t][s]
        /\ \A t \in Task : \A y \in TextureType :
               types'[t][y] = IF t = tex /\ y = type THEN types[t][y] + 1 ELSE types[t][y]
    BY <1>3, <2>1, <2>2 DEF ScanInv
  <2>4. /\ \A t, s : CountedIn(t, s)' = IF t = tex /\ s = slot THEN CountedIn(t, s) \cup {u}
                                        ELSE CountedIn(t, s)
        /\ \A t, y : CountedAs(t, y)' = IF t = tex /\ y = type THEN CountedAs(t, y) \cup {u}
                                        ELSE CountedAs(t, y)
    BY <1>8, <1>9, <2>1 DEF CountedIn, CountedAs, use
  <2>5. /\ \A t, s : u \notin CountedIn(t, s)
        /\ \A t, y : u \notin CountedAs(t, y)
    BY <1>6 DEF CountedIn, CountedAs
  <2>6. ASSUME NEW t \in Task
        PROVE  /\ IsFiniteSet(Counted(t)')
               /\ \A s \in Slot : slots'[t][s] = Cardinality(CountedIn(t, s)')
               /\ \A y \in TextureType : types'[t][y] = Cardinality(CountedAs(t, y)')
    <3>1. IsFiniteSet(Counted(t)')
      BY <1>8, <1>10, FS_AddElement
    <3>2. ASSUME NEW s \in Slot PROVE slots'[t][s] = Cardinality(CountedIn(t, s)')
      <4>1. Cardinality(CountedIn(t, s) \cup {u}) = Cardinality(CountedIn(t, s)) + 1
        BY <1>10, <2>5, FS_AddElement
      <4>2. slots[t][s] = Cardinality(CountedIn(t, s))
        BY DEF ScanInv
      <4>3. CountedIn(t, s)' = IF t = tex /\ s = slot THEN CountedIn(t, s) \cup {u}
                                                     ELSE CountedIn(t, s)
        BY <2>4
      <4>4. slots'[t][s] = IF t = tex /\ s = slot THEN slots[t][s] + 1 ELSE slots[t][s]
        BY <2>3
      <4>. QED BY <4>1, <4>2, <4>3, <4>4
    <3>3. ASSUME NEW y \in TextureType PROVE types'[t][y] = Cardinality(CountedAs(t, y)')
      <4>1. Cardinality(CountedAs(t, y) \cup {u}) = Cardinality(CountedAs(t, y)) + 1
        BY <1>10, <2>5, FS_AddElement
      <4>2. types[t][y] = Cardinality(CountedAs(t, y))
        BY DEF ScanInv
      <4>3. CountedAs(t, y)' = IF t = tex /\ y = type THEN CountedAs(t, y) \cup {u}
                                                     ELSE CountedAs(t, y)
        BY <2>4
      <4>4. types'[t][y] = IF t = tex /\ y = type THEN types[t][y] + 1 ELSE types[t][y]
        BY <2>3
      <4>. QED BY <4>1, <4>2, <4>3, <4>4
    <3>. QED BY <3>1, <3>2, <3>3
  <2>. QED BY <1>1, <1>2, <1>4, <2>3, <2>6 DEF ScanInv
<1>. QED BY <1>1, <1>11, <1>12

LEMMA LoadFailsKeeps ==
    ASSUME ScanInv, NEW m \in Mesh, LoadFails(m)
    PROVE  ScanInv'
<1>1. mesh[m] = 0 /\ mesh' = [mesh EXCEPT ![m] = -1] /\ UNCHANGED <<uses, slots, types>>
  BY DEF LoadFails
<1>2. /\ uses \in [Mesh -> Seq(Use)] /\ mesh' \in [Mesh -> Int]
      /\ \A k \in Mesh : mesh'[k] \in -1 .. Len(uses[k])
  BY <1>1 DEF ScanInv
<1>3. \A v \in Position : v[2] <= mesh'[v[1]] <=> v[2] <= mesh[v[1]]
  <2>. SUFFICES ASSUME NEW v \in Position PROVE v[2] <= mesh'[v[1]] <=> v[2] <= mesh[v[1]]
    OBVIOUS
  <2>1. v[1] \in Mesh /\ v[2] \in 1 .. Len(uses[v[1]])
    BY <1>2, PositionOf
  <2>. QED BY <1>1, <1>2, <2>1 DEF ScanInv
<1>4. \A t : Counted(t)' = Counted(t)
  BY <1>1, <1>3 DEF Counted, Position, UseAt
<1>5. /\ \A t, s : CountedIn(t, s)' = CountedIn(t, s)
      /\ \A t, y : CountedAs(t, y)' = CountedAs(t, y)
  BY <1>1, <1>4 DEF CountedIn, CountedAs, UseAt
<1>. QED BY <1>1, <1>2, <1>4, <1>5 DEF ScanInv

-----------------------------------------------------------------------------
(* The confirmation of a texture, and the classifications that are under way *)

\* the textures to be classified by a callable that has not done it yet
InFlight(t) ==
    \/ client = "push" /\ t = arg
    \/ t \in Range(queue)
    \/ worker \in {"popped", "run"} /\ t = task

\* what an entry of the maps was voted to be
VotedAs(type) == IF type = "COMPLEXMATERIAL" THEN "ENVIRONMENTMASK" ELSE type

\* Counting is over before the first texture is confirmed, all are confirmed before
\* mapFiles returns, and the queue is shut down before waitForCMClassification does.
PhaseInv ==
    /\ unconfirmed \subseteq Task /\ textureTypes \in [Task -> TextureType]
    /\ main = "scan" => unconfirmed = Task
    /\ main # "scan" => \A m \in Mesh : Loaded(m) => mesh[m] = Len(uses[m])
    /\ main \notin {"scan", "confirm"} => unconfirmed = {}
    /\ main = "done" => client = "stopped"

\* A texture is under way once at most, and then it is in no map.
FlightInv ==
    /\ IsInjective(queue)
    /\ client = "push" =>
           arg \notin Range(queue) /\ ~(worker \in {"popped", "run"} /\ arg = task)
    /\ worker \in {"popped", "run"} => task \in Task /\ task \notin Range(queue)
    /\ \A t \in Task : InFlight(t) =>
           /\ t \notin unconfirmed /\ \A e \in textureMaps : e.texture # t
           /\ multithreading /\ "ENVIRONMENTMASK" \in WinningTypes(t)

\* An entry says what won the vote.
EntryInv ==
    \A e \in textureMaps :
        /\ e.texture \in Task /\ e.texture \notin unconfirmed
        /\ e.slot \in WinningSlots(e.texture) /\ VotedAs(e.type) \in WinningTypes(e.texture)
        /\ textureTypes[e.texture] = e.type
        /\ \A f \in textureMaps : f.texture = e.texture => f = e

\* What is confirmed is in the maps, given up, under way or unknown.
ConfirmedInv ==
    \A t \in Task : t \notin unconfirmed =>
        \/ Winning(slots[t]) = {} /\ Suffix[t].slot = "UNKNOWN"
        \/ \E e \in textureMaps : e.texture = t
        \/ t \in failed
        \/ InFlight(t)

MapInv == QueueInv /\ ScanInv /\ PhaseInv /\ FlightInv /\ EntryInv /\ ConfirmedInv

LEMMA Appended ==
    ASSUME NEW S, NEW q \in Seq(S), NEW x \in S
    PROVE  /\ Range(Append(q, x)) = Range(q) \cup {x}
           /\ IsInjective(q) /\ x \notin Range(q) => IsInjective(Append(q, x))
<1>. DEFINE a == Append(q, x)
            n == Len(q)
<1>1. /\ n \in Nat /\ DOMAIN q = 1 .. n /\ DOMAIN a = 1 .. n + 1
      /\ a[n + 1] = x /\ \A i \in 1 .. n : a[i] = q[i]
  OBVIOUS
<1>. HIDE DEF a, n
<1>2. \A i \in 1 .. n + 1 : i = n + 1 \/ i \in 1 .. n
  BY <1>1
<1>3. n + 1 \in 1 .. n + 1 /\ \A i \in 1 .. n : i \in 1 .. n + 1
  BY <1>1
<1>4. Range(a) = Range(q) \cup {x}
  <2>1. Range(a) \subseteq Range(q) \cup {x}
    BY <1>1, <1>2 DEF Range
  <2>2. Range(q) \cup {x} \subseteq Range(a)
    BY <1>1, <1>3 DEF Range
  <2>. QED BY <2>1, <2>2
<1>5. ASSUME IsInjective(q), x \notin Range(q) PROVE IsInjective(a)
  <2>1. \A i, j \in 1 .. n : q[i] = q[j] => i = j
    BY <1>1, <1>5 DEF IsInjective
  <2>2. \A i \in 1 .. n : q[i] # x
    BY <1>1, <1>5 DEF Range
  <2>. QED BY <1>1, <1>2, <2>1, <2>2 DEF IsInjective
<1>. QED BY <1>4, <1>5 DEF a

LEMMA Popped ==
    ASSUME NEW S, NEW q \in Seq(S), q # << >>
    PROVE  /\ Range(q) = Range(Tail(q)) \cup {Head(q)}
           /\ IsInjective(q) => IsInjective(Tail(q)) /\ Head(q) \notin Range(Tail(q))
<1>. DEFINE t == Tail(q)
            n == Len(q)
<1>1. /\ n \in Nat \ {0} /\ DOMAIN q = 1 .. n /\ DOMAIN t = 1 .. n - 1
      /\ Head(q) = q[1] /\ \A i \in 1 .. n - 1 : t[i] = q[i + 1]
  OBVIOUS
<1>. HIDE DEF t, n
<1>2. \A i \in 1 .. n : i = 1 \/ (i - 1 \in 1 .. n - 1 /\ (i - 1) + 1 = i)
  BY <1>1
<1>3. 1 \in 1 .. n /\ \A i \in 1 .. n - 1 : i + 1 \in 1 .. n /\ i + 1 # 1
  BY <1>1
<1>4. Range(q) = Range(t) \cup {Head(q)}
  <2>1. ASSUME NEW x \in Range(q) PROVE x \in Range(t) \cup {Head(q)}
    <3>1. PICK i \in 1 .. n : x = q[i]
      BY <1>1 DEF Range
    <3>2. CASE i = 1
      BY <1>1, <3>1, <3>2
    <3>3. CASE i - 1 \in 1 .. n - 1 /\ (i - 1) + 1 = i
      <4>1. t[i - 1] = x
        BY <1>1, <3>1, <3>3
      <4>. QED BY <1>1, <3>3, <4>1 DEF Range
    <3>. QED BY <1>2, <3>2, <3>3
  <2>2. Range(t) \cup {Head(q)} \subseteq Range(q)
    BY <1>1, <1>3 DEF Range
  <2>. QED BY <2>1, <2>2
<1>5. ASSUME IsInjective(q) PROVE IsInjective(t) /\ Head(q) \notin Range(t)
  <2>1. \A i, j \in 1 .. n : q[i] = q[j] => i = j
    BY <1>1, <1>5 DEF IsInjective
  <2>2. ASSUME NEW i \in 1 .. n - 1, NEW j \in 1 .. n - 1, t[i] = t[j] PROVE i = j
    <3>1. i + 1 = j + 1
      BY <1>1, <1>3, <2>1, <2>2
    <3>. QED BY <3>1
  <2>3. \A i \in 1 .. n - 1 : t[i] # Head(q)
    BY <1>1, <1>3, <2>1
  <2>. QED BY <1>1, <2>2, <2>3 DEF IsInjective, Range
<1>. QED BY <1>4, <1>5 DEF t

LEMMA ScanKept ==
    ASSUME ScanInv, UNCHANGED <<uses, mesh, slots, types>>
    PROVE  ScanInv'
<1>1. \A t : Counted(t)' = Counted(t)
  BY DEF Counted, Position, UseAt
<1>2. /\ \A t, s : CountedIn(t, s)' = CountedIn(t, s)
      /\ \A t, y : CountedAs(t, y)' = CountedAs(t, y)
  BY <1>1 DEF CountedIn, CountedAs, UseAt
<1>. QED BY <1>1, <1>2 DEF ScanInv

\* A step that leaves the votes, the maps and what is under way alone.
LEMMA OthersKeep ==
    ASSUME MapInv, QueueInv', PhaseInv',
           UNCHANGED <<uses, counted, unconfirmed, mapped, multithreading, queue>>,
           client' = "push" <=> client = "push", client = "push" => arg' = arg,
           worker' \in {"popped", "run"} <=> worker \in {"popped", "run"},
           worker \in {"popped", "run"} => task' = task
    PROVE  MapInv'
<1>1. ScanInv'
  BY ScanKept DEF MapInv, counted
<1>2. \A t : InFlight(t)' <=> InFlight(t)
  BY DEF InFlight
<1>3. \A t : /\ WinningSlots(t)' = WinningSlots(t) /\ WinningTypes(t)' = WinningTypes(t)
             /\ Winning(slots[t])' = Winning(slots[t])
  BY DEF counted, WinningSlots, WinningTypes, Winning
<1>4. FlightInv'
  BY <1>2, <1>3 DEF MapInv, FlightInv, mapped
<1>5. EntryInv'
  BY <1>3 DEF MapInv, EntryInv, mapped
<1>6. ConfirmedInv'
  BY <1>2, <1>3 DEF MapInv, ConfirmedInv, mapped
<1>. QED BY <1>1, <1>4, <1>5, <1>6 DEF MapInv

\* As long as meshes are scanned nothing is confirmed, mapped or under way.
LEMMA MeshKeeps ==
    ASSUME MapInv, NEW m \in Mesh, MeshStep(m)
    PROVE  MapInv'
<1>1. /\ main = "scan" /\ UNCHANGED <<vars, multithreading, unconfirmed, mapped, main>>
  BY DEF MeshStep, CountUse, LoadFails
<1>2. QueueInv'
  BY <1>1, QueueNext DEF MapInv
<1>3. ScanInv'
  BY CountUseKeeps, LoadFailsKeeps DEF MapInv, MeshStep
<1>4. PhaseInv'
  BY <1>1 DEF MapInv, PhaseInv, mapped, vars, threads
<1>5. unconfirmed = Task /\ textureMaps = {} /\ \A t \in Task : ~InFlight(t)
  BY <1>1 DEF MapInv, PhaseInv, EntryInv, FlightInv
<1>6. \A t : InFlight(t)' <=> InFlight(t)
  BY <1>1 DEF InFlight, vars, shared, threads
<1>7. FlightInv'
  BY <1>1, <1>5, <1>6 DEF MapInv, FlightInv, vars, shared, threads
<1>8. EntryInv' /\ ConfirmedInv'
  BY <1>1, <1>5 DEF EntryInv, ConfirmedInv, mapped
<1>. QED BY <1>2, <1>3, <1>4, <1>7, <1>8 DEF MapInv

\* The main thread goes from phase to phase.
LEMMA PhaseStep ==
    ASSUME MapInv,
           EndScan \/ EndMapFiles \/ WaitForCMClassification \/ Processing \/ NotProcessing
               \/ Completed \/ ShutDownQueue \/ ShutDown
    PROVE  MapInv'
<1>1. UNCHANGED <<multithreading, uses, counted, unconfirmed, mapped, queue, worker, task, arg>>
  BY DEF EndScan, EndMapFiles, WaitForCMClassification, Processing, NotProcessing, Completed,
     ShutDownQueue, ShutDown, WaitForCompletion, Shutdown, vars, shared, threads
<1>2. [Next]_vars
  BY DEF EndScan, EndMapFiles, WaitForCMClassification, Processing, NotProcessing, Completed,
     ShutDownQueue, ShutDown, Next, Enter
<1>3. (client' # "push" /\ client # "push") \/ client' = client
  BY DEF EndScan, EndMapFiles, WaitForCMClassification, Processing, NotProcessing, Completed,
     ShutDownQueue, ShutDown, WaitForCompletion, Shutdown, vars, threads
<1>4. QueueInv'
  BY <1>2, QueueNext DEF MapInv
<1>5. /\ main # "done"
      /\ main' = "done" => client = "stopped" /\ client' = client
      /\ main' # "scan"
      /\ main = "scan" => main' = "confirm" /\ \A m \in Mesh : Loaded(m) => mesh[m] = Len(uses[m])
      /\ main' \notin {"scan", "confirm"} => unconfirmed = {} \/ main \notin {"scan", "confirm"}
  BY DEF EndScan, EndMapFiles, WaitForCMClassification, Processing, NotProcessing, Completed,
     ShutDownQueue, ShutDown, vars, threads
<1>6. PhaseInv'
  BY <1>1, <1>5 DEF MapInv, PhaseInv, counted, mapped, Loaded
<1>. QED BY <1>1, <1>3, <1>4, <1>6, OthersKeep

LEMMA TypesVoted ==
    ASSUME NEW t \in Task, ScanInv
    PROVE  /\ WinningTypes(t) \subseteq SuffixType
           /\ WinningSlots(t) \subseteq Slot \cup {"UNKNOWN"}
<1>1. Suffix[t].type \in SuffixType /\ Suffix[t].slot \in Slot \cup {"UNKNOWN"}
  BY MappingAssumption
<1>2. Winning(slots[t]) \subseteq Slot
  BY DEF Winning, ScanInv
<1>3. ASSUME NEW y \in Winning(types[t]) PROVE y \in SuffixType
  <2>1. y \in TextureType /\ types[t][y] > 0
    BY <1>3 DEF Winning, ScanInv
  <2>2. CountedAs(t, y) # {}
    <3>1. types[t][y] = Cardinality(CountedAs(t, y)) /\ Cardinality({}) = 0
      BY <2>1, FS_EmptySet DEF ScanInv
    <3>. QED BY <2>1, <3>1
  <2>3. PICK u \in Position : y \in UsedAs(UseAt(u))
    BY <2>2 DEF CountedAs, Counted
  <2>4. UseAt(u) \in Use
    BY PositionOf DEF ScanInv
  <2>. QED BY <2>3, <2>4, OneType
<1>. QED BY <1>1, <1>2, <1>3 DEF WinningTypes, WinningSlots

\* A texture that is in no map yet is put in one, with what it was voted to be.
LEMMA Added ==
    ASSUME EntryInv, PhaseInv, NEW t \in Task, t \notin unconfirmed',
           unconfirmed' \subseteq unconfirmed, UNCHANGED <<slots, types>>,
           \A e \in textureMaps : e.texture # t,
           NEW slot \in WinningSlots(t), NEW type, VotedAs(type) \in WinningTypes(t),
           AddToTextureMaps(t, slot, type)
    PROVE  /\ EntryInv'
           /\ \E e \in textureMaps' : e.texture = t
           /\ \A e \in textureMaps' : e.texture = t \/ e \in textureMaps
           /\ textureMaps \subseteq textureMaps'
<1>. DEFINE new == [slot |-> slot, texture |-> t, type |-> type]
<1>1. /\ textureMaps' = textureMaps \cup {new}
      /\ textureTypes' = [textureTypes EXCEPT ![t] = type]
  BY DEF AddToTextureMaps
<1>2. new.slot = slot /\ new.texture = t /\ new.type = type
  OBVIOUS
<1>. HIDE DEF new
<1>3. \A k : /\ WinningSlots(k)' = WinningSlots(k) /\ WinningTypes(k)' = WinningTypes(k)
  BY DEF WinningSlots, WinningTypes, Winning
<1>4. \A k \in Task : textureTypes'[k] = IF k = t THEN type ELSE textureTypes[k]
  BY <1>1 DEF PhaseInv
<1>5. EntryInv'
  <2>. SUFFICES ASSUME NEW e \in textureMaps'
                PROVE  /\ e.texture \in Task /\ e.texture \notin unconfirmed'
                       /\ e.slot \in WinningSlots(e.texture)
                       /\ VotedAs(e.type) \in WinningTypes(e.texture)
                       /\ textureTypes'[e.texture] = e.type
                       /\ \A f \in textureMaps' : f.texture = e.texture => f = e
    BY <1>3 DEF EntryInv
  <2>1. CASE e = new
    BY <1>1, <1>2, <1>4, <2>1
  <2>2. CASE e \in textureMaps
    BY <1>1, <1>2, <1>4, <2>2 DEF EntryInv
  <2>. QED BY <1>1, <2>1, <2>2
<1>. QED BY <1>1, <1>2, <1>5

\* checkIfCMAddToMap, for a texture that won as environment mask and is in no map yet.
LEMMA Classified ==
    ASSUME EntryInv, PhaseInv, NEW t \in Task, t \notin unconfirmed',
           unconfirmed' \subseteq unconfirmed, UNCHANGED <<slots, types>>,
           \A e \in textureMaps : e.texture # t,
           NEW slot \in WinningSlots(t), "ENVIRONMENTMASK" \in WinningTypes(t),
           Classify(t, slot)
    PROVE  /\ EntryInv' /\ textureTypes' \in [Task -> TextureType]
           /\ t \in failed' \/ \E e \in textureMaps' : e.texture = t
           /\ \A e \in textureMaps' : e.texture = t \/ e \in textureMaps
           /\ textureMaps \subseteq textureMaps' /\ failed \subseteq failed'
<1>1. CASE failed' = failed \cup {t} /\ UNCHANGED <<textureMaps, textureTypes>>
  <2>1. \A k : /\ WinningSlots(k)' = WinningSlots(k) /\ WinningTypes(k)' = WinningTypes(k)
    BY DEF WinningSlots, WinningTypes, Winning
  <2>2. EntryInv'
    BY <1>1, <2>1 DEF EntryInv
  <2>. QED BY <1>1, <2>2 DEF PhaseInv
<1>2. ASSUME NEW type \in {"ENVIRONMENTMASK", "COMPLEXMATERIAL"},
             AddToTextureMaps(t, slot, type), UNCHANGED failed
      PROVE  /\ EntryInv' /\ textureTypes' \in [Task -> TextureType]
             /\ t \in failed' \/ \E e \in textureMaps' : e.texture = t
             /\ \A e \in textureMaps' : e.texture = t \/ e \in textureMaps
             /\ textureMaps \subseteq textureMaps' /\ failed \subseteq failed'
  <2>1. VotedAs(type) \in WinningTypes(t) /\ type \in TextureType
    BY DEF VotedAs, TextureType
  <2>2. textureTypes' \in [Task -> TextureType]
    BY <1>2, <2>1 DEF AddToTextureMaps, PhaseInv
  <2>. QED BY <1>2, <2>1, <2>2, Added
<1>. QED BY <1>1, <1>2 DEF Classify

\* A texture is confirmed: mapped or unknown, classified at once, or queued.
LEMMA ConfirmKeeps ==
    ASSUME MapInv, NEW t \in Task, Confirm(t)
    PROVE  MapInv'
<1>1. PICK slot \in WinningSlots(t), type \in WinningTypes(t) :
          \/ ConfirmPlain(t, slot, type)
          \/ type = "ENVIRONMENTMASK" /\ ConfirmMaskHere(t, slot)
          \/ type = "ENVIRONMENTMASK" /\ ConfirmMaskQueued(t)
  BY DEF Confirm
<1>2. /\ main = "confirm" /\ client = "idle" /\ t \in unconfirmed /\ main' = main
      /\ unconfirmed' = unconfirmed \ {t}
      /\ UNCHANGED <<multithreading, uses, counted, queue, worker, task>>
  BY <1>1 DEF ConfirmPlain, ConfirmMaskHere, ConfirmMaskQueued, QueueTask, vars, shared, threads
<1>3. [Next]_vars
  BY <1>1 DEF ConfirmPlain, ConfirmMaskHere, ConfirmMaskQueued, Next, Enter
<1>4. QueueInv' /\ ScanInv'
  BY <1>2, <1>3, QueueNext, ScanKept DEF MapInv, counted
<1>5. \A e \in textureMaps : e.texture # t
  BY <1>2 DEF MapInv, EntryInv
<1>6. ~InFlight(t)
  BY <1>2 DEF MapInv, FlightInv
<1>7. \A k : /\ WinningSlots(k)' = WinningSlots(k) /\ WinningTypes(k)' = WinningTypes(k)
             /\ Winning(slots[k])' = Winning(slots[k])
  BY <1>2 DEF counted, WinningSlots, WinningTypes, Winning
<1>8. ASSUME textureTypes' \in [Task -> TextureType]
      PROVE  PhaseInv'
  BY <1>2, <1>8 DEF MapInv, PhaseInv, counted, Loaded
\* nothing is queued: the texture itself is in a map, given up or unknown
<1>9. ASSUME UNCHANGED vars, EntryInv', textureTypes' \in [Task -> TextureType],
             \/ Winning(slots[t]) = {} /\ Suffix[t].slot = "UNKNOWN"
             \/ t \in failed' \/ \E e \in textureMaps' : e.texture = t,
             \A e \in textureMaps' : e.texture = t \/ e \in textureMaps,
             textureMaps \subseteq textureMaps', failed \subseteq failed'
      PROVE  MapInv'
  <2>1. \A k : InFlight(k)' <=> InFlight(k)
    BY <1>9 DEF InFlight, vars, shared, threads
  <2>2. FlightInv'
    BY <1>2, <1>6, <1>7, <1>9, <2>1 DEF MapInv, FlightInv, vars, shared, threads
  <2>3. ConfirmedInv'
    <3>. SUFFICES ASSUME NEW k \in Task, k \notin unconfirmed'
                  PROVE  \/ Winning(slots[k]) = {} /\ Suffix[k].slot = "UNKNOWN"
                         \/ \E e \in textureMaps' : e.texture = k
                         \/ k \in failed'
                         \/ InFlight(k)
      BY <1>7, <2>1 DEF ConfirmedInv
    <3>1. CASE k = t
      BY <1>9, <3>1
    <3>2. CASE k # t
      BY <1>2, <1>9, <3>2 DEF MapInv, ConfirmedInv
    <3>. QED BY <3>1, <3>2
  <2>. QED BY <1>4, <1>8, <1>9, <2>2, <2>3 DEF MapInv
<1>10. UNCHANGED <<slots, types>> /\ t \notin unconfirmed' /\ unconfirmed' \subseteq unconfirmed
  BY <1>2 DEF counted
<1>11. CASE ConfirmPlain(t, slot, type)
  <2>1. type # "ENVIRONMENTMASK" /\ UNCHANGED <<vars, failed>>
    BY <1>11 DEF ConfirmPlain
  <2>2. CASE slot # "UNKNOWN" /\ AddToTextureMaps(t, slot, type)
    <3>1. type \in SuffixType /\ type \in TextureType /\ VotedAs(type) = type
      BY TypesVoted DEF MapInv, SuffixType, VotedAs
    <3>2. textureTypes' \in [Task -> TextureType]
      BY <2>2, <3>1 DEF AddToTextureMaps, MapInv, PhaseInv
    <3>3. /\ EntryInv' /\ \E e \in textureMaps' : e.texture = t
          /\ \A e \in textureMaps' : e.texture = t \/ e \in textureMaps
          /\ textureMaps \subseteq textureMaps'
      BY <1>5, <1>10, <2>2, <3>1, Added DEF MapInv
    <3>. QED BY <1>9, <2>1, <3>2, <3>3
  <2>3. CASE slot = "UNKNOWN" /\ UNCHANGED <<textureMaps, textureTypes>>
    <3>1. Winning(slots[t]) = {} /\ Suffix[t].slot = "UNKNOWN"
      <4>1. \A s \in Winning(slots[t]) : s \in Slot
        BY DEF Winning, MapInv, ScanInv
      <4>. QED BY <2>3, <4>1 DEF WinningSlots, Slot
    <3>2. EntryInv' /\ textureTypes' \in [Task -> TextureType]
      BY <1>2, <1>7, <2>3 DEF MapInv, EntryInv, PhaseInv
    <3>. QED BY <1>9, <2>1, <2>3, <3>1, <3>2
  <2>. QED BY <1>11, <2>2, <2>3 DEF ConfirmPlain
<1>12. CASE type = "ENVIRONMENTMASK" /\ ConfirmMaskHere(t, slot)
  <2>1. Classify(t, slot) /\ UNCHANGED vars
    BY <1>12 DEF ConfirmMaskHere
  <2>2. /\ EntryInv' /\ textureTypes' \in [Task -> TextureType]
        /\ t \in failed' \/ \E e \in textureMaps' : e.texture = t
        /\ \A e \in textureMaps' : e.texture = t \/ e \in textureMaps
        /\ textureMaps \subseteq textureMaps' /\ failed \subseteq failed'
    BY <1>5, <1>10, <1>12, <2>1, Classified DEF MapInv
  <2>. QED BY <1>9, <2>1, <2>2
<1>13. CASE type = "ENVIRONMENTMASK" /\ ConfirmMaskQueued(t)
  <2>1. client' = "push" /\ arg' = t /\ multithreading /\ UNCHANGED mapped
    BY <1>13 DEF ConfirmMaskQueued, QueueTask
  <2>2. \A k : InFlight(k)' <=> InFlight(k) \/ k = t
    BY <1>2, <2>1 DEF InFlight
  <2>3. FlightInv'
    BY <1>2, <1>5, <1>6, <1>7, <1>13, <2>1, <2>2 DEF MapInv, FlightInv, InFlight, mapped
  <2>4. EntryInv' /\ textureTypes' \in [Task -> TextureType]
    BY <1>2, <1>7, <2>1 DEF MapInv, EntryInv, PhaseInv, mapped
  <2>5. ConfirmedInv'
    BY <1>2, <1>7, <2>1, <2>2 DEF MapInv, ConfirmedInv, mapped
  <2>. QED BY <1>4, <1>8, <2>3, <2>4, <2>5 DEF MapInv
<1>. QED BY <1>1, <1>11, <1>12, <1>13

\* Push moves a texture into the queue, Pop out of it: it stays under way.
LEMMA PushedInFlight ==
    ASSUME MapInv, Push, UNCHANGED mapping
    PROVE  MapInv'
<1>1. /\ client = "push" /\ client' = "notify" /\ queue' = Append(queue, arg)
      /\ UNCHANGED <<worker, task, arg>>
  BY DEF Push
<1>2. /\ QueueInv'
  BY QueueNext DEF MapInv, Next, GoOn
<1>3. queue \in Seq(Task) /\ arg \in Task
  BY <1>1 DEF MapInv, QueueInv, TypeOK, ControlInv
<1>4. arg \notin Range(queue) /\ IsInjective(queue)
  BY <1>1 DEF MapInv, FlightInv
<1>5. Range(queue') = Range(queue) \cup {arg} /\ IsInjective(queue')
  BY <1>1, <1>3, <1>4, Appended
<1>6. \A t : InFlight(t)' <=> InFlight(t)
  BY <1>1, <1>5 DEF InFlight
<1>7. ScanInv' /\ PhaseInv'
  BY <1>1, ScanKept DEF MapInv, mapping, counted, mapped, PhaseInv, Loaded
<1>8. \A t : /\ WinningSlots(t)' = WinningSlots(t) /\ WinningTypes(t)' = WinningTypes(t)
             /\ Winning(slots[t])' = Winning(slots[t])
  BY DEF mapping, counted, WinningSlots, WinningTypes, Winning
<1>9. FlightInv'
  <2>1. /\ worker' \in {"popped", "run"} => task' \in Task /\ task' \notin Range(queue')
        /\ client' # "push"
    BY <1>1, <1>5 DEF MapInv, FlightInv
  <2>. QED BY <1>5, <1>6, <1>8, <2>1 DEF MapInv, FlightInv, mapping, mapped
<1>10. EntryInv' /\ ConfirmedInv'
  BY <1>6, <1>8 DEF MapInv, EntryInv, ConfirmedInv, mapping, mapped
<1>. QED BY <1>2, <1>7, <1>9, <1>10 DEF MapInv

LEMMA PoppedInFlight ==
    ASSUME MapInv, Pop, UNCHANGED mapping
    PROVE  MapInv'
<1>1. /\ worker = "lock" /\ worker' = "popped" /\ queue # << >>
      /\ task' = Head(queue) /\ queue' = Tail(queue)
      /\ UNCHANGED <<client, arg>>
  BY DEF Pop
<1>2. /\ QueueInv'
  BY QueueNext DEF MapInv, Next, WorkerLoop
<1>3. queue \in Seq(Task) /\ IsInjective(queue) /\ Head(queue) \in Task
  BY <1>1 DEF MapInv, QueueInv, TypeOK, FlightInv
<1>4. /\ Range(queue) = Range(queue') \cup {task'}
      /\ IsInjective(queue') /\ task' \notin Range(queue')
  BY <1>1, <1>3, Popped
<1>5. \A t : InFlight(t)' <=> InFlight(t)
  BY <1>1, <1>4 DEF InFlight
<1>6. ScanInv' /\ PhaseInv'
  BY <1>1, ScanKept DEF MapInv, mapping, counted, mapped, PhaseInv, Loaded
<1>7. \A t : /\ WinningSlots(t)' = WinningSlots(t) /\ WinningTypes(t)' = WinningTypes(t)
             /\ Winning(slots[t])' = Winning(slots[t])
  BY DEF mapping, counted, WinningSlots, WinningTypes, Winning
<1>8. FlightInv'
  <2>1. client' = "push" => arg' \notin Range(queue') /\ arg' # task'
    BY <1>1, <1>4 DEF MapInv, FlightInv
  <2>. QED BY <1>1, <1>3, <1>4, <1>5, <1>7, <2>1 DEF MapInv, FlightInv, mapping, mapped
<1>9. EntryInv' /\ ConfirmedInv'
  BY <1>5, <1>7 DEF MapInv, EntryInv, ConfirmedInv, mapping, mapped
<1>. QED BY <1>2, <1>6, <1>8, <1>9 DEF MapInv

LEMMA ClassifyQueuedKeeps ==
    ASSUME MapInv, ClassifyQueued
    PROVE  MapInv'
<1>1. /\ worker = "run" /\ worker' = "done" /\ TaskReturns
      /\ UNCHANGED <<shared, task, client, arg, multithreading, uses, counted, unconfirmed, main>>
  BY DEF ClassifyQueued, TaskReturns
<1>2. PICK slot \in WinningSlots(task) : Classify(task, slot)
  BY DEF ClassifyQueued
<1>3. QueueInv' /\ ScanInv'
  BY <1>1, QueueNext, ScanKept DEF MapInv, Next, WorkerLoop, counted
<1>4. /\ task \in Task /\ InFlight(task) /\ task \notin unconfirmed
      /\ \A e \in textureMaps : e.texture # task
      /\ "ENVIRONMENTMASK" \in WinningTypes(task) /\ task \notin Range(queue)
      /\ client = "push" => arg # task
  BY <1>1 DEF MapInv, FlightInv, InFlight
<1>5. /\ EntryInv' /\ textureTypes' \in [Task -> TextureType]
      /\ task \in failed' \/ \E e \in textureMaps' : e.texture = task
      /\ \A e \in textureMaps' : e.texture = task \/ e \in textureMaps
      /\ textureMaps \subseteq textureMaps' /\ failed \subseteq failed'
  <2>1. UNCHANGED <<slots, types>> /\ task \notin unconfirmed' /\ unconfirmed' \subseteq unconfirmed
    BY <1>1, <1>4 DEF counted
  <2>. QED BY <1>2, <1>4, <2>1, Classified DEF MapInv
<1>6. \A t : InFlight(t)' <=> InFlight(t) /\ t # task
  BY <1>1, <1>4 DEF InFlight, shared
<1>7. \A t : /\ WinningSlots(t)' = WinningSlots(t) /\ WinningTypes(t)' = WinningTypes(t)
             /\ Winning(slots[t])' = Winning(slots[t])
  BY <1>1 DEF counted, WinningSlots, WinningTypes, Winning
<1>8. PhaseInv'
  BY <1>1, <1>5 DEF MapInv, PhaseInv, counted, Loaded
<1>9. FlightInv'
  BY <1>1, <1>5, <1>6, <1>7 DEF MapInv, FlightInv, shared
<1>10. ConfirmedInv'
  <2>. SUFFICES ASSUME NEW k \in Task, k \notin unconfirmed
                PROVE  \/ Winning(slots[k]) = {} /\ Suffix[k].slot = "UNKNOWN"
                       \/ \E e \in textureMaps' : e.texture = k
                       \/ k \in failed'
                       \/ InFlight(k) /\ k # task
    BY <1>1, <1>6, <1>7 DEF ConfirmedInv
  <2>1. CASE k = task
    BY <1>5, <2>1
  <2>2. CASE k # task
    BY <1>5, <2>2 DEF MapInv, ConfirmedInv
  <2>. QED BY <2>1, <2>2
<1>. QED BY <1>3, <1>5, <1>8, <1>9, <1>10 DEF MapInv

\* The other steps of the two threads of the queue.
LEMMA QueueMoves ==
    ASSUME MapInv, UNCHANGED mapping,
           \/ NotifyPush \/ ReadBusy \/ ReadCount \/ NotifyStop \/ Join
           \/ LoopTop \/ CheckException \/ PredicateFails \/ Block \/ ExitEmpty \/ Begin \/ EndBusy
           \/ SpuriousWakeup
    PROVE  MapInv'
<1>1. QueueInv'
  BY QueueNext DEF MapInv, Next, WorkerLoop, GoOn
<1>2. /\ UNCHANGED queue /\ (client' = "push" <=> client = "push")
      /\ client = "push" => arg' = arg
  BY DEF NotifyPush, ReadBusy, ReadCount, NotifyStop, Join, LoopTop, CheckException,
     PredicateFails, Block, ExitEmpty, Begin, EndBusy, SpuriousWakeup, shared
<1>3. /\ worker' \in {"popped", "run"} <=> worker \in {"popped", "run"}
      /\ worker \in {"popped", "run"} => task' = task
  BY DEF NotifyPush, ReadBusy, ReadCount, NotifyStop, Join, LoopTop, CheckException,
     PredicateFails, Block, ExitEmpty, Begin, EndBusy, SpuriousWakeup, Notify
<1>4. client = "stopped" => client' = "stopped"
  BY DEF NotifyPush, ReadBusy, ReadCount, NotifyStop, Join, LoopTop, CheckException,
     PredicateFails, Block, ExitEmpty, Begin, EndBusy, SpuriousWakeup
<1>5. PhaseInv'
  BY <1>4 DEF MapInv, PhaseInv, mapping, counted, mapped, Loaded
<1>. QED BY <1>1, <1>2, <1>3, <1>5, OthersKeep DEF mapping

LEMMA MapInitial ==
    ASSUME MapInit
    PROVE  MapInv
<1>1. QueueInv /\ ScanInv
  BY QueueInit, ScanInit DEF MapInit
<1>2. PhaseInv
  BY DEF MapInit, PhaseInv, TextureType
<1>3. queue = << >> /\ client = "idle" /\ worker = "top" /\ textureMaps = {} /\ unconfirmed = Task
  BY DEF MapInit, Init
<1>4. IsInjective(queue) /\ Range(queue) = {}
  BY <1>3 DEF IsInjective, Range
<1>. QED BY <1>1, <1>2, <1>3, <1>4 DEF MapInv, FlightInv, EntryInv, ConfirmedInv, InFlight

LEMMA MapStep ==
    ASSUME MapInv, [MapNext]_allVars
    PROVE  MapInv'
<1>1. ASSUME NEW m \in Mesh, MeshStep(m) PROVE MapInv'
  BY <1>1, MeshKeeps
<1>2. ASSUME NEW t \in Task, Confirm(t) PROVE MapInv'
  BY <1>2, ConfirmKeeps
<1>3. CASE EndScan \/ EndMapFiles \/ WaitForCMClassification \/ Processing \/ NotProcessing
               \/ Completed \/ ShutDownQueue \/ ShutDown
  BY <1>3, PhaseStep
<1>4. CASE GoOn /\ UNCHANGED mapping
  BY <1>4, PushedInFlight, QueueMoves DEF GoOn
<1>5. CASE WorkerStep
  BY <1>5, ClassifyQueuedKeeps, PoppedInFlight, QueueMoves DEF WorkerStep
<1>6. CASE SpuriousWakeup /\ UNCHANGED mapping
  BY <1>6, QueueMoves
<1>7. CASE UNCHANGED allVars
  <2>1. UNCHANGED vars /\ UNCHANGED mapping
    BY <1>7 DEF allVars
  <2>2. UNCHANGED <<queue, worker, task, client, arg>>
    BY <2>1 DEF vars, shared, threads
  <2>3. QueueInv'
    BY <2>1, QueueNext DEF MapInv
  <2>4. PhaseInv'
    BY <2>1, <2>2 DEF MapInv, PhaseInv, mapping, counted, mapped, Loaded
  <2>. QED BY <2>1, <2>2, <2>3, <2>4, OthersKeep DEF mapping
<1>. QED BY <1>1, <1>2, <1>3, <1>4, <1>5, <1>6, <1>7 DEF MapNext, MainStep

\* The counters are the votes, what is under way is so once, and what has an entry has the one
\* that won: however the mesh tasks, the main thread and the worker interleave.
THEOREM MapInvariant == MapSpec => []MapInv
<1>1. MapInit => MapInv
  BY MapInitial
<1>2. MapInv /\ [MapNext]_allVars => MapInv'
  BY MapStep
<1>. QED BY <1>1, <1>2, PTL DEF MapSpec

LEMMA CountedAll ==
    ASSUME ScanInv, \A m \in Mesh : Loaded(m) => mesh[m] = Len(uses[m]), NEW t
    PROVE  Counted(t) = UsesOf(t)
<1>1. ASSUME NEW u \in Position PROVE u[2] <= mesh[u[1]] <=> Loaded(u[1])
  <2>1. u[1] \in Mesh /\ u[2] \in 1 .. Len(uses[u[1]]) /\ mesh[u[1]] \in Int
    BY PositionOf DEF ScanInv
  <2>. QED BY <2>1 DEF Loaded
<1>. QED BY <1>1 DEF Counted, UsesOf

\* If a texture is used at all, then some slot has most of the uses.
LEMMA SomeSlotWins ==
    ASSUME ScanInv, NEW t \in Task, Counted(t) # {}
    PROVE  Winning(slots[t]) # {}
<1>. DEFINE bounds == {n \in Nat : \A s \in Slot : slots[t][s] <= n}
<1>1. \A s \in Slot : slots[t][s] \in Nat /\ DOMAIN slots[t] = Slot
  BY DEF ScanInv
<1>2. Cardinality(Counted(t)) \in bounds
  <2>1. IsFiniteSet(Counted(t))
    BY DEF ScanInv
  <2>2. Cardinality(Counted(t)) \in Nat
    BY <2>1, FS_CardinalityType
  <2>3. ASSUME NEW s \in Slot PROVE slots[t][s] <= Cardinality(Counted(t))
    <3>1. CountedIn(t, s) \subseteq Counted(t) /\ slots[t][s] = Cardinality(CountedIn(t, s))
      BY DEF CountedIn, ScanInv
    <3>. QED BY <2>1, <3>1, FS_Subset
  <2>. QED BY <2>2, <2>3
<1>3. PICK n \in bounds : \A k \in bounds : n <= k
  <2>. DEFINE less == OpToRel(<, Nat)
  <2>1. IsWellFoundedOn(less, Nat)
    BY NatLessThanWellFounded
  <2>2. bounds \subseteq Nat /\ bounds # {}
    BY <1>2
  <2>3. PICK n \in bounds : \A k \in bounds : ~(<<k, n>> \in less)
    BY <2>1, <2>2, WFMin
  <2>4. \A k \in bounds : ~(k < n)
    BY <2>2, <2>3 DEF OpToRel
  <2>. QED BY <2>2, <2>4
<1>4. PICK u \in Counted(t) : UseAt(u).slot \in Slot
  BY PositionOf DEF Counted, ScanInv, Use
<1>5. slots[t][UseAt(u).slot] > 0
  <2>. DEFINE s == UseAt(u).slot
  <2>1. u \in CountedIn(t, s) /\ IsFiniteSet(CountedIn(t, s))
    BY FS_Subset DEF CountedIn, ScanInv
  <2>2. Cardinality(CountedIn(t, s)) # 0 /\ Cardinality(CountedIn(t, s)) \in Nat
    BY <2>1, FS_EmptySet, FS_CardinalityType
  <2>3. slots[t][s] = Cardinality(CountedIn(t, s))
    BY <1>4 DEF ScanInv
  <2>. QED BY <2>2, <2>3
<1>6. n > 0
  BY <1>1, <1>4, <1>5
<1>7. PICK s \in Slot : slots[t][s] = n
  <2>. SUFFICES ASSUME \A s \in Slot : slots[t][s] # n PROVE FALSE
    OBVIOUS
  <2>1. \A s \in Slot : slots[t][s] <= n - 1
    BY <1>1
  <2>2. n - 1 \in bounds
    BY <1>6, <2>1
  <2>. QED BY <1>3, <2>2
<1>8. s \in Winning(slots[t])
  BY <1>1, <1>6, <1>7 DEF Winning
<1>. QED BY <1>8

\* A texture that nothing shows has no votes.
LEMMA NoneWins ==
    ASSUME ScanInv, NEW t \in Task, Counted(t) = {}
    PROVE  Winning(slots[t]) = {}
<1>1. \A s \in Slot : CountedIn(t, s) = {}
  BY DEF CountedIn
<1>2. \A s \in Slot : slots[t][s] = 0
  BY <1>1, FS_EmptySet DEF ScanInv
<1>3. DOMAIN slots[t] = Slot
  BY DEF ScanInv
<1>. QED BY <1>2, <1>3 DEF Winning

\* The maps say of every texture what most shapes of the load order's meshes say, in whatever
\* order they were counted (updateUnconfirmedTexturesMap, mapFiles, checkIfCMAddToMap).
THEOREM MapsFollowTheVotes == MapSpec => []MapsAsVoted
<1>1. ASSUME MapInv PROVE MapsAsVoted
  <2>. SUFFICES ASSUME main = "done", NEW e \in textureMaps
                PROVE  /\ textureTypes[e.texture] = e.type
                       /\ \A f \in textureMaps : f.texture = e.texture => f = e
                       /\ IF UsesOf(e.texture) = {}
                          THEN /\ e.slot = Suffix[e.texture].slot
                               /\ VotedAs(e.type) = Suffix[e.texture].type
                          ELSE /\ \A s \in Slot : InSlot(e.texture, s) <= InSlot(e.texture, e.slot)
                               /\ \A y \in TextureType :
                                      AsType(e.texture, y) <= AsType(e.texture, VotedAs(e.type))
    BY DEF MapsAsVoted, VotedAs
  <2>. DEFINE t == e.texture
  <2>1. /\ t \in Task /\ textureTypes[t] = e.type
        /\ \A f \in textureMaps : f.texture = t => f = e
        /\ e.slot \in WinningSlots(t) /\ VotedAs(e.type) \in WinningTypes(t)
    BY <1>1 DEF MapInv, EntryInv
  <2>2. Counted(t) = UsesOf(t)
    BY <1>1, CountedAll DEF MapInv, PhaseInv
  <2>3. CASE UsesOf(t) = {}
    BY <1>1, <2>1, <2>2, <2>3, NoneWins DEF MapInv, WinningSlots, WinningTypes
  <2>4. CASE UsesOf(t) # {}
    <3>1. e.slot \in Winning(slots[t]) /\ VotedAs(e.type) \in Winning(types[t])
      BY <1>1, <2>1, <2>2, <2>4, SomeSlotWins DEF MapInv, WinningSlots, WinningTypes
    <3>2. DOMAIN slots[t] = Slot /\ DOMAIN types[t] = TextureType
      BY <1>1, <2>1 DEF MapInv, ScanInv
    <3>3. /\ \A s \in Slot : slots[t][s] = InSlot(t, s)
          /\ \A y \in TextureType : types[t][y] = AsType(t, y)
      BY <1>1, <2>1, <2>2 DEF MapInv, ScanInv, CountedIn, CountedAs, InSlot, AsType
    <3>. QED BY <2>1, <2>4, <3>1, <3>2, <3>3 DEF Winning
  <2>. QED BY <2>1, <2>3, <2>4
<1>. QED BY <1>1, MapInvariant, PTL

\* When waitForCMClassification has returned no texture is lost, but for what the GPU failed on
\* and what was discarded with the queue.
THEOREM NoTextureIsForgotten == MapSpec => []NoTextureForgotten
<1>1. ASSUME MapInv PROVE NoTextureForgotten
  <2>. SUFFICES ASSUME main = "done", NEW t \in Task
                PROVE  \/ UsesOf(t) = {} /\ Suffix[t].slot = "UNKNOWN"
                       \/ \E e \in textureMaps : e.texture = t
                       \/ t \in failed
                       \/ multithreading /\ t \in Range(queue)
    BY DEF NoTextureForgotten
  <2>1. unconfirmed = {} /\ client = "stopped" /\ worker = "exited"
    BY <1>1 DEF MapInv, PhaseInv, QueueInv, ControlInv
  <2>2. InFlight(t) => multithreading /\ t \in Range(queue)
    BY <1>1, <2>1 DEF MapInv, FlightInv, InFlight
  <2>3. Winning(slots[t]) = {} => UsesOf(t) = {}
    <3>1. Counted(t) = UsesOf(t)
      BY <1>1, <2>1, CountedAll DEF MapInv, PhaseInv
    <3>. QED BY <1>1, <3>1, SomeSlotWins DEF MapInv
  <2>. QED BY <1>1, <2>1, <2>2, <2>3 DEF MapInv, ConfirmedInv
<1>. QED BY <1>1, MapInvariant, PTL

LEMMA StepOfQueue ==
    ASSUME [MapNext]_allVars
    PROVE  [Next]_vars
<1>1. ASSUME NEW m \in Mesh, MeshStep(m)
      PROVE  [Next]_vars
  BY <1>1 DEF MeshStep, CountUse, LoadFails
<1>2. ASSUME NEW t \in Task, Confirm(t)
      PROVE  [Next]_vars
  <2>1. CASE UNCHANGED vars
    BY <2>1
  <2>2. CASE QueueTask(t)
    BY <2>2 DEF Next, Enter
  <2>. QED BY <1>2, <2>1, <2>2 DEF Confirm, ConfirmPlain, ConfirmMaskHere, ConfirmMaskQueued
<1>3. CASE EndScan \/ EndMapFiles \/ WaitForCMClassification \/ NotProcessing \/ Completed \/ ShutDown
  BY <1>3 DEF EndScan, EndMapFiles, WaitForCMClassification, NotProcessing, Completed, ShutDown
<1>4. CASE Processing \/ ShutDownQueue
  BY <1>4 DEF Processing, ShutDownQueue, Next, Enter
<1>5. CASE (GoOn \/ SpuriousWakeup) /\ UNCHANGED mapping
  BY <1>5 DEF Next
<1>6. CASE WorkerStep
  BY <1>6 DEF WorkerStep, ClassifyQueued, Next, WorkerLoop
<1>7. CASE UNCHANGED allVars
  BY <1>7 DEF allVars
<1>. QED BY <1>1, <1>2, <1>3, <1>4, <1>5, <1>6, <1>7 DEF MapNext, MainStep

\* PGDirectory's use of the queue, with the classifications put off to it and the shutdown that
\* follows: every step of mapFiles, its mesh tasks and the worker is a step of the queue or none,
\* so that the classifications run one at a time in the order they were put off.
THEOREM MappingRunsSerially == MapSpec => RunsSerially
<1>1. MapInit => Serial!Init
  BY DEF MapInit, Init, Serial!Init
<1>2. MapInv /\ [MapNext]_allVars => [Serial!Next]_Serial!vars
  BY StepOfQueue, SerialStep DEF MapInv
<1>. QED BY <1>1, <1>2, MapInvariant, PTL DEF MapSpec, RunsSerially, Serial!Spec

=============================================================================
