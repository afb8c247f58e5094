---------------------------- MODULE TaskerProofs ----------------------------
(***************************************************************************)
(* What the background tasker keeps, for any tasks, workers, failed writes *)
(* and stops: types, then holders of tasks, then the inductive invariant,  *)
(* which says what the lock, the dictionary, the table and the tasks under *)
(* way have to do with each other.                                         *)
(***************************************************************************)
EXTENDS Tasker, SequenceTheorems, TLAPS

-----------------------------------------------------------------------------
(* Types.  A step of a worker is well typed because the worker has a task  *)
(* and a write of the dictionary is for the task of its worker.            *)

\* A worker has a task except at the queue and when it is gone.
Assigned == \A w \in Workers : worker[w].task = None <=> worker[w].pc \in {"gone", "get"}

\* A worker that holds the lock holds it for its own task.
LockMatches ==
  lock # None /\ lock.op = "worker" =>
    /\ lock.by \in Workers /\ worker[lock.by].task = lock.task
    /\ worker[lock.by].pc \in Writers \cup {"run"}

\* Types, and what they need.
Base == TaskerTypeOK /\ Assigned /\ LockMatches

\* The records that the actions build.
LEMMA RecordTypes ==
  /\ Absent \notin Rows
  /\ \A s \in Statuses, c \in BOOLEAN : [status |-> s, cancel |-> c] \in Rows
  /\ \A r \in Rows, s \in Statuses : [r EXCEPT !.status = s] \in Rows
  /\ \A r \in Rows : [r EXCEPT !.cancel = TRUE] \in Rows
  /\ Gone \in [pc : Steps, task : Tasks \cup {None}]
  /\ AtQueue \in [pc : Steps, task : Tasks \cup {None}]
  /\ \A o \in {"enqueue", "cancel", "worker"}, t \in Tasks, b \in Workers \cup {None} :
       [op |-> o, task |-> t, by |-> b] \in Locked
  /\ \A o \in {"start", "shutdown"} : [op |-> o] \in Locked
<1>1. Absent \notin Rows
  BY DEF Absent, Rows, Statuses, Terminal
<1>2. QED
  BY <1>1 DEF Rows, Gone, AtQueue, Steps, Locked

\* The lock is held for a task, except at the start and the end of the process.
LEMMA LockTask ==
  ASSUME TaskerTypeOK, lock # None
  PROVE  /\ lock \in Locked
         /\ lock.op \in {"enqueue", "cancel", "worker"} =>
              lock.task \in Tasks /\ lock.by \in Workers \cup {None}
  BY DEF TaskerTypeOK, Locked

\* Calls of the API.
LEMMA CallTypes ==
  ASSUME Base, ApiStep \/ CallFails
  PROVE  Base'
<1> USE RecordTypes DEF Base, TaskerTypeOK, Assigned, LockMatches, boundVars, histVars
<1>1. ASSUME NEW t \in Tasks, EnqueueTask(t)
      PROVE  Base'
  BY <1>1 DEF EnqueueTask, Statuses, Free
<1>2. ASSUME NEW t \in Tasks, CancelTask(t)
      PROVE  Base'
  BY <1>2 DEF CancelTask, Free
<1>3. ASSUME NEW t \in Tasks, DeleteTask(t)
      PROVE  Base'
  BY <1>3 DEF DeleteTask, Free
<1>4. ASSUME NEW t \in Tasks, DeleteRow(t)
      PROVE  Base'
  <2>1. db' \in {db, [db EXCEPT ![t] = Absent]} /\ disturbed' \subseteq disturbed \cup {t}
    BY <1>4 DEF DeleteRow
  <2>2. dbFailures' \in 0..MaxDbFailures
    BY <1>4, TaskerAssumption DEF DeleteRow, Fault
  <2>3. QED
    BY <1>4, <2>1, <2>2 DEF DeleteRow
<1>5. ASSUME lock # None, lock.op \in {"enqueue", "cancel"},
             StoreTask \/ StoreCancel \/ CallFails
      PROVE  Base'
  <2>1. lock.task \in Tasks
    BY <1>5, LockTask DEF Base
  <2>2. CASE StoreTask
    BY <2>1, <2>2 DEF StoreTask, Persist
  <2>3. CASE StoreCancel
    BY <2>1, <2>3 DEF StoreCancel, Persist
  <2>4. CASE CallFails
    <3>1. dbFailures' \in 0..MaxDbFailures
      BY <2>4, TaskerAssumption DEF CallFails, Fault
    <3>2. QED
      BY <2>1, <2>4, <3>1 DEF CallFails
  <2>5. QED
    BY <1>5, <2>2, <2>3, <2>4
<1>6. QED
  BY <1>1, <1>2, <1>3, <1>4, <1>5 DEF ApiStep, StoreTask, StoreCancel, CallFails

\* The states of all worker loops.
WorkerStates == [Workers -> [pc : Steps, task : Tasks \cup {None}]]

\* What the steps of a worker loop do to its state.
LEMMA WorkerMoves ==
  ASSUME TaskerTypeOK, Assigned, NEW w \in Workers
  PROVE  /\ NextTask(w) => worker' \in WorkerStates /\ Assigned'
         /\ \A s \in Steps \ {"gone", "get"} : MoveTo(w, s) /\ worker[w].task # None =>
              worker' \in WorkerStates /\ Assigned'
         /\ Onwards(w) /\ worker[w].task # None => worker' \in WorkerStates /\ Assigned'
<1> USE RecordTypes DEF TaskerTypeOK, WorkerStates, Assigned
<1>1. NextTask(w) => worker' \in WorkerStates /\ Assigned'
  BY DEF NextTask, AtQueue
<1>2. ASSUME NEW s \in Steps \ {"gone", "get"}, MoveTo(w, s), worker[w].task # None
      PROVE  worker' \in WorkerStates /\ Assigned'
  <2>1. worker' \in WorkerStates
    BY <1>2 DEF MoveTo
  <2>2. ASSUME NEW v \in Workers
        PROVE  worker'[v] = IF v = w THEN [pc |-> s, task |-> worker[w].task] ELSE worker[v]
    BY <1>2 DEF MoveTo
  <2>3. QED
    BY <1>2, <2>1, <2>2
<1>3. QED
  BY <1>1, <1>2 DEF Onwards, Steps

\* Worker loops.
LEMMA WorkerTypes ==
  ASSUME TaskerTypeOK, Assigned, LockMatches, NEW w \in Workers, WorkerStep(w) \/ StoreFails(w)
  PROVE  TaskerTypeOK' /\ Assigned'
<1> USE RecordTypes DEF TaskerTypeOK, boundVars, histVars
<1> DEFINE t == worker[w].task
<1>1. /\ t \in Tasks \cup {None} /\ worker[w].pc \in Steps
      /\ t # None <=> worker[w].pc \notin {"gone", "get"}
  BY DEF Assigned
<1>2. CASE GetTask(w)
  <2>1. Head(queue) \in Tasks /\ Tail(queue) \in Seq(Tasks)
    BY <1>2, HeadTailProperties DEF GetTask
  <2>2. [pc |-> "fetch", task |-> Head(queue)] \in [pc : Steps, task : Tasks \cup {None}]
    BY <2>1 DEF Steps
  <2>3. QED
    BY <1>2, <2>1, <2>2, TaskerAssumption DEF GetTask, Assigned
<1>3. CASE Fetch(w)
  BY <1>1, <1>3, WorkerMoves DEF Fetch, Steps, WorkerStates
<1>4. CASE Return(w) \/ Raise(w)
  BY <1>1, <1>4, WorkerMoves DEF Return, Raise, Steps, WorkerStates
<1>5. CASE Update(w)
  <2>1. t \in Tasks
    BY <1>1, <1>5 DEF Update, Writers
  <2>2. StatusAt(worker[w].pc) \in Statuses
    BY <1>5 DEF Update, Writers, StatusAt, Statuses, Terminal
  <2>3. CASE mem[t] = Absent
    <3>1. worker' \in WorkerStates /\ Assigned' /\ UNCHANGED <<lock, mem>>
      BY <1>5, <2>1, <2>3, TaskerAssumption, WorkerMoves DEF Update
    <3>2. runs' \in [Tasks -> Nat]
      BY <1>5, <2>1, <2>3 DEF Update, StartRun
    <3>3. QED
      BY <1>5, <3>1, <3>2 DEF Update, WorkerStates
  <2>4. CASE mem[t] # Absent
    <3>1. /\ mem' = [mem EXCEPT ![t].status = StatusAt(worker[w].pc)]
          /\ lock' = [op |-> "worker", task |-> t, by |-> w] /\ UNCHANGED <<worker, runs>>
      BY <1>5, <2>4 DEF Update
    <3>2. mem' \in [Tasks -> Rows \cup {Absent}] /\ lock' \in Locked
      BY <2>1, <2>2, <2>4, <3>1
    <3>3. QED
      BY <1>5, <3>1, <3>2 DEF Update, Assigned
  <2>5. QED
    BY <2>3, <2>4
<1>6. CASE Report(w)
  <2>1. t \in Tasks
    BY <1>1, <1>6 DEF Report
  <2>2. QED
    BY <1>6, <2>1 DEF Report, Assigned
<1>7. ASSUME Writing(w), Store(w) \/ StoreFails(w)
      PROVE  TaskerTypeOK' /\ Assigned'
  <2>1. t \in Tasks /\ lock.task = t /\ lock' = None /\ UNCHANGED <<mem, queue>>
    BY <1>1, <1>7, TaskerAssumption DEF Writing, Store, StoreFails, Writers, LockMatches
  <2>2. worker' \in WorkerStates /\ Assigned'
    <3>1. CASE Store(w)
      BY <2>1, <3>1, TaskerAssumption, WorkerMoves DEF Store
    <3>2. CASE StoreFails(w)
      BY <2>1, <3>2, TaskerAssumption, WorkerMoves DEF StoreFails, Steps
    <3>3. QED
      BY <1>7, <3>1, <3>2
  <2>3. CASE Store(w)
    <3>1. db' \in [Tasks -> Rows \cup {Absent}]
      BY <2>1, <2>3 DEF Store, Persist
    <3>2. runs' \in [Tasks -> Nat]
      BY <2>1, <2>3 DEF Store, StartRun
    <3>3. QED
      BY <2>1, <2>2, <2>3, <3>1, <3>2 DEF Store, WorkerStates
  <2>4. CASE StoreFails(w)
    <3>1. dbFailures' \in 0..MaxDbFailures /\ disturbed' \subseteq Tasks
      BY <2>1, <2>4, TaskerAssumption DEF StoreFails, Fault
    <3>2. QED
      BY <2>1, <2>2, <2>4, <3>1 DEF StoreFails, WorkerStates
  <2>5. QED
    BY <1>7, <2>3, <2>4
<1>8. QED
  BY <1>2, <1>3, <1>4, <1>5, <1>6, <1>7 DEF WorkerStep, Store, StoreFails

\* A worker keeps the lock on its own task.
LEMMA WorkerLock ==
  ASSUME Base, NEW w \in Workers, WorkerStep(w) \/ StoreFails(w)
  PROVE  LockMatches'
<1> USE DEF LockMatches
<1>1. worker \in [Workers -> [pc : Steps, task : Tasks \cup {None}]]
  BY DEF Base, TaskerTypeOK
<1>2. CASE GetTask(w) \/ Fetch(w) \/ Return(w) \/ Raise(w)
  <2>1. /\ lock' = lock /\ ~Writing(w)
        /\ \A v \in Workers \ {w} : worker'[v] = worker[v]
    <3>1. ~Writing(w)
      BY <1>2 DEF Base, GetTask, Fetch, Return, Raise, Writing, Free, Writers
    <3>2. lock' = lock
      BY <1>2 DEF GetTask, Fetch, Return, Raise
    <3>3. \A v \in Workers \ {w} : worker'[v] = worker[v]
      BY <1>1, <1>2 DEF GetTask, Fetch, Return, Raise, MoveTo, NextTask
    <3>4. QED
      BY <3>1, <3>2, <3>3
  <2>2. QED
    BY <2>1 DEF Writing, Base
<1>3. CASE Update(w)
  BY <1>3 DEF Update, Free, Base
<1>4. CASE Report(w)
  BY <1>4 DEF Report, Base
<1>5. CASE Store(w) \/ StoreFails(w)
  BY <1>5 DEF Store, StoreFails
<1>6. QED
  BY <1>2, <1>3, <1>4, <1>5 DEF WorkerStep

\* The start and the end of the process.
LEMMA ProcessTypes ==
  ASSUME Base, Boot \/ Shutdown \/ FinishShutdown \/ Kill
  PROVE  Base'
<1> USE RecordTypes DEF Base, TaskerTypeOK, Assigned, LockMatches, boundVars, histVars
<1>1. CASE Start
  <2>1. recovered' \subseteq Tasks /\ \A t \in recovered' : db[t] \in Rows
    BY <1>1 DEF Start, Absent
  <2>2. mem' \in [Tasks -> Rows \cup {Absent}]
    BY <1>1, <2>1 DEF Start, Statuses, Terminal
  <2>3. QED
    BY <1>1, <2>1, <2>2 DEF Start
<1>2. ASSUME NEW t \in Tasks, StoreRecovered(t)
      PROVE  Base'
  BY <1>2 DEF StoreRecovered, Persist, Booting
<1>3. CASE StartWorkers
  BY <1>3 DEF StartWorkers, AtQueue
<1>4. CASE Shutdown
  <2>1. \A w \in Workers : Interrupted(worker[w]) \in [pc : Steps, task : Tasks \cup {None}]
    BY DEF Interrupted, Steps
  <2>2. \A w \in Workers : worker'[w].task = None <=> worker'[w].pc \in {"gone", "get"}
    BY <1>4 DEF Shutdown, Interrupted, Gone
  <2>3. stops' \in 0..MaxStops
    BY <1>4, TaskerAssumption DEF Shutdown, Stop
  <2>4. QED
    BY <1>4, <2>1, <2>2, <2>3 DEF Shutdown
<1>5. CASE FinishShutdown \/ Kill
  <2>1. Wiped /\ disturbed' = disturbed \cup deleting /\ UNCHANGED <<db, dbFailures, used, runs, stopped>>
    BY <1>5 DEF FinishShutdown, Kill
  <2>2. stops' \in 0..MaxStops
    BY <1>5, TaskerAssumption DEF FinishShutdown, Kill, Stop
  <2>3. <<>> \in Seq(Tasks)
    OBVIOUS
  <2>4. QED
    BY <2>1, <2>2, <2>3 DEF Wiped, Gone
<1>6. QED
  BY <1>1, <1>2, <1>3, <1>4, <1>5 DEF Boot

\* Base is inductive.
LEMMA BaseStep == ASSUME Base, [Next]_vars PROVE Base'
<1>1. CASE UNCHANGED vars
  BY <1>1 DEF vars, boundVars, histVars, Base, TaskerTypeOK, Assigned, LockMatches
<1>2. CASE Next
  <2>1. ASSUME NEW w \in Workers, WorkerStep(w) \/ StoreFails(w)
        PROVE  Base'
    BY <2>1, WorkerTypes, WorkerLock DEF Base
  <2>2. QED
    BY <1>2, <2>1, CallTypes, ProcessTypes DEF Next
<1>3. QED
  BY <1>1, <1>2

\* Base holds at first.
LEMMA BaseInit == Init => Base
  BY RecordTypes, TaskerAssumption
     DEF Init, Base, TaskerTypeOK, Assigned, LockMatches, Gone, Rows

\* The state of the process, the dictionary, the table and the queue is well typed.
THEOREM TaskerTypeCorrect == Spec => []TaskerTypeOK
<1>1. Base => TaskerTypeOK
  BY DEF Base
<1>2. QED
  BY <1>1, BaseInit, BaseStep, PTL DEF Spec

-----------------------------------------------------------------------------
(* Who holds a task.                                                       *)

\* enqueue has the task in its hands.
Offered(t) == lock # None /\ lock.op = "enqueue" /\ lock.task = t

\* No task is in the queue twice.
Distinct == \A i, j \in 1..Len(queue) : queue[i] = queue[j] => i = j

\* A task is in one place only: the lock of enqueue, the queue or one worker.
Single ==
  /\ Distinct
  /\ \A w \in Workers : ~InQueue(worker[w].task)
  /\ \A w, v \in Workers : worker[w].task = worker[v].task /\ worker[w].task # None => w = v
  /\ \A t \in Tasks : Offered(t) => ~InQueue(t) /\ \A w \in Workers : worker[w].task # t

\* It is in none of them.
Unheld(t) == ~InQueue(t) /\ ~Offered(t) /\ \A w \in Workers : worker[w].task # t

\* An id that enqueue has not seen is nowhere.
Unused ==
  /\ deleting \subseteq used
  /\ \A t \in Tasks \ used : Unheld(t) /\ runs[t] = 0 /\ mem[t] = Absent /\ db[t] = Absent

\* A task at the end of the queue.
LEMMA Enqueued ==
  ASSUME queue \in Seq(Tasks), NEW t \in Tasks, queue' = Append(queue, t)
  PROVE  /\ \A u : InQueue(u)' <=> InQueue(u) \/ u = t
         /\ Distinct /\ ~InQueue(t) => Distinct'
<1>1. /\ Len(queue') = Len(queue) + 1 /\ Len(queue) \in Nat
      /\ \A i \in 1..Len(queue) : queue'[i] = queue[i]
      /\ queue'[Len(queue) + 1] = t
  OBVIOUS
<1>2. QED
  BY <1>1 DEF InQueue, Distinct

\* The task at its head leaves it.
LEMMA Dequeued ==
  ASSUME queue \in Seq(Tasks), queue # <<>>, queue' = Tail(queue), Distinct
  PROVE  /\ Distinct' /\ InQueue(Head(queue)) /\ Head(queue) \in Tasks
         /\ \A u : InQueue(u)' <=> InQueue(u) /\ u # Head(queue)
<1>1. /\ Len(queue') = Len(queue) - 1 /\ Len(queue) \in Nat \ {0}
      /\ \A i \in 1..(Len(queue) - 1) : queue'[i] = queue[i + 1]
      /\ Head(queue) = queue[1] /\ Head(queue) \in Tasks
  BY HeadTailProperties, EmptySeq
<1>2. InQueue(Head(queue))
  BY <1>1 DEF InQueue
<1>3. Distinct'
  BY <1>1 DEF Distinct
<1>4. ASSUME NEW u, InQueue(u)'
      PROVE  InQueue(u) /\ u # Head(queue)
  <2>1. PICK i \in 1..Len(queue') : queue'[i] = u
    BY <1>4 DEF InQueue
  <2>2. i + 1 \in 1..Len(queue) /\ queue[i + 1] = u /\ i + 1 # 1 /\ 1 \in 1..Len(queue)
    BY <1>1, <2>1
  <2>3. QED
    BY <1>1, <2>2 DEF InQueue, Distinct
<1>5. ASSUME NEW u, InQueue(u), u # Head(queue)
      PROVE  InQueue(u)'
  <2>1. PICK i \in 1..Len(queue) : queue[i] = u
    BY <1>5 DEF InQueue
  <2>2. i - 1 \in 1..Len(queue') /\ queue'[i - 1] = queue[i]
    BY <1>1, <1>5, <2>1
  <2>3. QED
    BY <2>1, <2>2 DEF InQueue
<1>6. QED
  BY <1>1, <1>2, <1>3, <1>4, <1>5

\* The steps of a worker that has its task.
Moves == {<<"fetch", "drop">>, <<"fetch", "begin">>, <<"begin", "run">>, <<"run", "run">>,
          <<"run", "succeed">>, <<"run", "cancel">>, <<"run", "fail">>, <<"run", "caught">>, <<"succeed", "caught">>,
          <<"cancel", "caught">>, <<"succeed", "fail">>, <<"cancel", "fail">>}

\* A worker stays, moves on with its task or lets it go.
Proceeds(v) ==
  \/ worker'[v] = worker[v]
  \/ worker'[v] \in {Gone, AtQueue}
  \/ worker'[v].task = worker[v].task /\ <<worker[v].pc, worker'[v].pc>> \in Moves

\* No task comes to a worker, the queue or the lock.
Shrinks ==
  /\ queue' = queue \/ queue' = <<>>
  /\ \A v \in Workers : Proceeds(v)
  /\ \A t \in Tasks : Offered(t)' => Offered(t)

\* The two states of a worker without a task.
LEMMA RestStates ==
  /\ Gone.task = None /\ AtQueue.task = None
  /\ Gone.pc = "gone" /\ AtQueue.pc = "get"
  BY DEF Gone, AtQueue

\* A step of a worker, other than taking a task, brings no task anywhere.
LEMMA WorkerProceeds ==
  ASSUME Base, NEW w \in Workers, WorkerStep(w) \/ StoreFails(w), ~GetTask(w)
  PROVE  /\ queue' = queue /\ \A v \in Workers \ {w} : worker'[v] = worker[v]
         /\ Proceeds(w) /\ \A t \in Tasks : Offered(t)' => Offered(t)
<1>1. worker \in [Workers -> [pc : Steps, task : Tasks \cup {None}]]
  BY DEF Base, TaskerTypeOK
<1>2. /\ \A s \in Steps : MoveTo(w, s) =>
              /\ \A v \in Workers \ {w} : worker'[v] = worker[v]
              /\ worker'[w].task = worker[w].task /\ worker'[w].pc = s
      /\ NextTask(w) => \A v \in Workers : worker'[v] = IF v = w THEN AtQueue ELSE worker[v]
  BY <1>1 DEF MoveTo, NextTask
<1>3. CASE Fetch(w)
  BY <1>2, <1>3 DEF Fetch, Free, Proceeds, Moves, Offered, Steps
<1>4. CASE Return(w) \/ Raise(w)
  BY <1>2, <1>4 DEF Return, Raise, Proceeds, Moves, Offered, Steps
<1>5. CASE Update(w)
  <2>1. worker' = worker \/ Onwards(w)
    BY <1>5 DEF Update
  <2>2. worker[w].pc \in Writers /\ queue' = queue
    BY <1>5 DEF Update
  <2>3. \A t \in Tasks : Offered(t)' => Offered(t)
    BY <1>5 DEF Update, Offered, Free
  <2>4. QED
    BY <1>2, <2>1, <2>2, <2>3 DEF Onwards, Proceeds, Moves, Writers, Steps
<1>6. CASE Report(w)
  BY <1>6 DEF Report, Free, Proceeds, Offered
<1>7. CASE Store(w) \/ StoreFails(w)
  <2>1. worker[w].pc \in Writers \cup {"run"} /\ queue' = queue /\ lock' = None
    BY <1>7 DEF Base, LockMatches, Store, StoreFails, Writing
  <2>2. \/ Onwards(w)
        \/ MoveTo(w, "fail") /\ worker[w].pc \in {"run", "succeed", "cancel"}
        \/ NextTask(w)
    BY <1>7 DEF Store, StoreFails
  <2>3. Proceeds(w) /\ \A v \in Workers \ {w} : worker'[v] = worker[v]
    BY <1>2, <2>1, <2>2 DEF Onwards, Proceeds, Moves, Writers, Steps
  <2>4. QED
    BY <2>1, <2>3 DEF Offered
<1>8. QED
  BY <1>3, <1>4, <1>5, <1>6, <1>7 DEF WorkerStep

\* Nor do the other calls, the start and the end of the process.
LEMMA ProcessProceeds ==
  ASSUME Base, \/ Boot \/ Shutdown \/ FinishShutdown \/ Kill
               \/ StoreCancel \/ CallFails \/ UNCHANGED vars
               \/ \E t \in Tasks : CancelTask(t) \/ DeleteTask(t) \/ DeleteRow(t)
  PROVE  Shrinks
<1>1. worker \in [Workers -> [pc : Steps, task : Tasks \cup {None}]]
  BY DEF Base, TaskerTypeOK
<1> USE DEF Shrinks, Proceeds, Offered
<1>2. CASE Start \/ \E t \in Tasks : StoreRecovered(t)
  BY <1>2 DEF Start, StoreRecovered
<1>3. CASE StartWorkers
  BY <1>3 DEF StartWorkers
<1>4. CASE Shutdown
  <2>1. \A v \in Workers : Proceeds(v)
    BY <1>1, <1>4 DEF Shutdown, Interrupted, Moves
  <2>2. QED
    BY <1>4, <2>1 DEF Shutdown
<1>5. CASE FinishShutdown \/ Kill
  BY <1>5 DEF FinishShutdown, Kill, Wiped
<1>6. CASE StoreCancel \/ CallFails \/ \E t \in Tasks : CancelTask(t) \/ DeleteTask(t) \/ DeleteRow(t)
  BY <1>6 DEF StoreCancel, CallFails, CancelTask, DeleteTask, DeleteRow
<1>7. CASE UNCHANGED vars
  BY <1>7 DEF vars
<1>8. QED
  BY <1>2, <1>3, <1>4, <1>5, <1>6, <1>7 DEF Boot

\* A task that nobody holds is not held after a step that shrinks.
LEMMA UnheldStays ==
  ASSUME Base, Shrinks, NEW t \in Tasks
  PROVE  /\ InQueue(t)' => InQueue(t)
         /\ \A v \in Workers : worker'[v].task \in {worker[v].task, None}
         /\ Unheld(t) => Unheld(t)'
<1>1. InQueue(t)' => InQueue(t)
  BY DEF InQueue, Shrinks
<1>2. \A v \in Workers : worker'[v].task \in {worker[v].task, None}
  BY RestStates DEF Shrinks, Proceeds
<1>3. QED
  BY <1>1, <1>2, TaskerAssumption DEF Unheld, Shrinks

\* A step that shrinks keeps the tasks apart.
LEMMA SingleShrinks ==
  ASSUME Base, Single, Shrinks
  PROVE  Single'
<1>1. \A v \in Workers : worker'[v].task \in {worker[v].task, None}
  BY RestStates DEF Shrinks, Proceeds
<1>2. Distinct'
  BY DEF Single, Distinct, Shrinks
<1>3. \A u : InQueue(u)' => InQueue(u)
  BY DEF InQueue, Shrinks
<1>4. ~InQueue(None)
  BY TaskerAssumption DEF InQueue, Base, TaskerTypeOK
<1>5. QED
  BY <1>1, <1>2, <1>3, <1>4, TaskerAssumption DEF Single, Shrinks

\* The three steps by which a task comes to the lock, the queue, a worker.
Arrives == (\E t \in Tasks : EnqueueTask(t)) \/ StoreTask \/ \E w \in Workers : GetTask(w)

\* Every step shrinks or is one of the three.
LEMMA AllProceed ==
  ASSUME Base, [Next]_vars
  PROVE  Arrives \/ Shrinks
<1>1. ASSUME NEW w \in Workers, WorkerStep(w) \/ StoreFails(w), ~GetTask(w)
      PROVE  Shrinks
  BY <1>1, WorkerProceeds DEF Shrinks, Proceeds
<1>2. QED
  BY <1>1, ProcessProceeds DEF Next, ApiStep, Arrives

\* EnqueueTask offers an unused task.
LEMMA Offers ==
  ASSUME Base, Unused, NEW t \in Tasks, EnqueueTask(t)
  PROVE  /\ Unheld(t) /\ UNCHANGED <<queue, worker, runs, db, deleting>> /\ used' = used \cup {t}
         /\ \A u \in Tasks : ~Offered(u)
         /\ \A u \in Tasks : Offered(u)' => u = t
         /\ mem' = [mem EXCEPT ![t] = [status |-> "pending", cancel |-> FALSE]]
  BY DEF EnqueueTask, Unused, Offered, Free

\* StoreTask puts the offered task into the queue.
LEMMA Queues ==
  ASSUME Base, Single, StoreTask
  PROVE  /\ lock.task \in Tasks /\ Offered(lock.task) /\ lock' = None
         /\ UNCHANGED <<worker, runs, mem, deleting, used>> /\ Distinct'
         /\ \A u : InQueue(u)' <=> InQueue(u) \/ u = lock.task
<1>1. lock.task \in Tasks /\ Offered(lock.task)
  BY LockTask DEF Base, StoreTask, Offered
<1>2. queue' = Append(queue, lock.task) /\ queue \in Seq(Tasks)
  BY DEF StoreTask, Base, TaskerTypeOK
<1>3. QED
  BY <1>1, <1>2, Enqueued DEF StoreTask, Single, histVars

\* GetTask takes the first task of the queue.
LEMMA Gets ==
  ASSUME Base, Single, NEW w \in Workers, GetTask(w)
  PROVE  /\ worker[w].task = None /\ Distinct' /\ process = "up"
         /\ UNCHANGED <<lock, runs, mem, db, deleting, used>>
         /\ worker'[w].task = Head(queue) /\ worker'[w].pc = "fetch"
         /\ \A v \in Workers \ {w} : worker'[v] = worker[v]
         /\ InQueue(Head(queue)) /\ Head(queue) \in Tasks
         /\ \A u : InQueue(u)' <=> InQueue(u) /\ u # Head(queue)
<1>1. /\ queue \in Seq(Tasks) /\ queue # <<>> /\ queue' = Tail(queue)
      /\ worker \in [Workers -> [pc : Steps, task : Tasks \cup {None}]]
  BY DEF Base, TaskerTypeOK, GetTask
<1>2. worker[w].task = None
  BY DEF Base, Assigned, GetTask
<1>3. worker' = [worker EXCEPT ![w] = [pc |-> "fetch", task |-> Head(queue)]]
  BY DEF GetTask
<1>4. QED
  BY <1>1, <1>2, <1>3, Dequeued DEF Single, GetTask, histVars

\* Single is inductive.
LEMMA SingleStep ==
  ASSUME Base, Single, Unused, [Next]_vars
  PROVE  Single'
<1>1. CASE Shrinks
  BY <1>1, SingleShrinks
<1>2. ASSUME NEW t \in Tasks, EnqueueTask(t)
      PROVE  Single'
  BY <1>2, Offers DEF Single, Unheld, Distinct, InQueue
<1>3. CASE StoreTask
  BY <1>3, Queues, TaskerAssumption DEF Single, Offered
<1>4. ASSUME NEW w \in Workers, GetTask(w)
      PROVE  Single'
  <2>1. \A t \in Tasks : Offered(t)' <=> Offered(t)
    BY <1>4, Gets DEF Offered
  <2>2. \A v \in Workers : worker'[v].task = IF v = w THEN Head(queue) ELSE worker[v].task
    BY <1>4, Gets
  <2>3. QED
    BY <1>4, <2>1, <2>2, Gets DEF Single
<1>5. QED
  BY <1>1, <1>2, <1>3, <1>4, AllProceed DEF Arrives

\* What happens to a task that no enqueue has been called for.
LEMMA UnusedRows ==
  ASSUME Base, Single, Unused, [Next]_vars, NEW t \in Tasks \ used'
  PROVE  t \notin used /\ runs'[t] = 0 /\ mem'[t] = Absent /\ db'[t] = Absent
<1>1. /\ mem \in [Tasks -> Rows \cup {Absent}] /\ db \in [Tasks -> Rows \cup {Absent}]
      /\ runs \in [Tasks -> Nat]
  BY DEF Base, TaskerTypeOK
<1>2. t \notin used
  BY DEF Next, ApiStep, Boot, WorkerStep, vars, histVars, EnqueueTask, CancelTask, DeleteTask,
         StoreTask, StoreCancel, DeleteRow, Start, StoreRecovered, StartWorkers, GetTask, Fetch,
         Update, Report, Store, StoreFails, Return, Raise, CallFails, Shutdown, FinishShutdown, Kill
<1>3. /\ Unheld(t) /\ runs[t] = 0 /\ mem[t] = Absent /\ db[t] = Absent
  BY <1>2 DEF Unused
<1>4. \A u \in Tasks : Persist(u) => db'[t] = Absent
  BY <1>1, <1>3 DEF Persist
<1>5. ASSUME NEW u \in Tasks,
             \/ EnqueueTask(u) \/ CancelTask(u) \/ DeleteTask(u)
             \/ DeleteRow(u) \/ StoreRecovered(u)
      PROVE  runs'[t] = 0 /\ mem'[t] = Absent /\ db'[t] = Absent
  <2>1. CASE EnqueueTask(u)
    BY <1>1, <1>2, <1>3, <2>1 DEF EnqueueTask
  <2>2. CASE CancelTask(u) \/ DeleteTask(u)
    BY <1>1, <1>3, <2>2 DEF CancelTask, DeleteTask, histVars
  <2>3. CASE DeleteRow(u)
    BY <1>1, <1>3, <2>3 DEF DeleteRow
  <2>4. CASE StoreRecovered(u)
    BY <1>3, <1>4, <2>4 DEF StoreRecovered, histVars
  <2>5. QED
    BY <1>5, <2>1, <2>2, <2>3, <2>4
<1>6. CASE StoreTask \/ StoreCancel \/ CallFails
  <2>1. lock.task \in Tasks
    BY <1>6, LockTask DEF Base, StoreTask, StoreCancel, CallFails
  <2>2. QED
    BY <1>3, <1>4, <1>6, <2>1 DEF StoreTask, StoreCancel, CallFails, histVars
<1>7. CASE Start
  BY <1>3, <1>7 DEF Start, Absent, histVars
<1>8. CASE FinishShutdown \/ Kill
  BY <1>3, <1>8 DEF FinishShutdown, Kill, Wiped
<1>9. CASE StartWorkers \/ Shutdown \/ UNCHANGED vars
  BY <1>3, <1>9 DEF StartWorkers, Shutdown, vars, histVars
<1>10. ASSUME NEW w \in Workers, WorkerStep(w) \/ StoreFails(w)
       PROVE  runs'[t] = 0 /\ mem'[t] = Absent /\ db'[t] = Absent
  <2>1. worker[w].task # t
    BY <1>3 DEF Unheld
  <2>2. CASE Update(w)
    BY <1>1, <1>3, <2>1, <2>2 DEF Update, StartRun
  <2>3. CASE Store(w)
    <3>1. lock.task = worker[w].task /\ lock.task \in Tasks
      BY <2>3, LockTask DEF Base, LockMatches, Store, Writing
    <3>2. runs' = runs \/ StartRun(lock.task)
      BY <2>3 DEF Store
    <3>3. QED
      BY <1>1, <1>3, <1>4, <2>1, <2>3, <3>1, <3>2 DEF Store, StartRun
  <2>4. CASE GetTask(w) \/ Fetch(w) \/ Report(w) \/ Return(w) \/ Raise(w) \/ StoreFails(w)
    BY <1>3, <2>4 DEF GetTask, Fetch, Report, Return, Raise, StoreFails, histVars
  <2>5. QED
    BY <1>10, <2>2, <2>3, <2>4 DEF WorkerStep
<1>11. QED
  BY <1>2, <1>5, <1>6, <1>7, <1>8, <1>9, <1>10 DEF Next, ApiStep, Boot

\* Unused is inductive.
LEMMA UnusedStep ==
  ASSUME Base, Single, Unused, [Next]_vars
  PROVE  Unused'
<1>1. deleting' \subseteq used'
  <2>1. ASSUME NEW t \in Tasks, DeleteTask(t)
        PROVE  deleting' \subseteq used'
    BY <2>1 DEF DeleteTask, histVars, Unused
  <2>2. (deleting' \subseteq deleting /\ used \subseteq used') \/ \E t \in Tasks : DeleteTask(t)
    BY DEF Next, ApiStep, Boot, WorkerStep, vars, histVars, EnqueueTask, CancelTask, Wiped,
           StoreTask, StoreCancel, DeleteRow, Start, StoreRecovered, StartWorkers, GetTask, Fetch,
           Update, Report, Store, StoreFails, Return, Raise, CallFails, Shutdown, FinishShutdown, Kill
  <2>3. QED
    BY <2>1, <2>2 DEF Unused
<1>2. ASSUME NEW t \in Tasks \ used'
      PROVE  Unheld(t)'
  <2>1. Unheld(t)
    BY <1>2, UnusedRows DEF Unused
  <2>2. CASE Shrinks
    BY <1>2, <2>1, <2>2, UnheldStays
  <2>3. ASSUME NEW u \in Tasks, EnqueueTask(u)
        PROVE  Unheld(t)'
    BY <1>2, <2>1, <2>3, Offers DEF Unheld, InQueue
  <2>4. CASE StoreTask
    BY <1>2, <2>1, <2>4, Queues DEF Unheld, Offered
  <2>5. ASSUME NEW w \in Workers, GetTask(w)
        PROVE  Unheld(t)'
    <3>1. Offered(t)' <=> Offered(t)
      BY <2>5, Gets DEF Offered
    <3>2. t # Head(queue)
      BY <2>1, <2>5, Gets DEF Unheld
    <3>3. \A v \in Workers : worker'[v].task # t
      BY <2>1, <2>5, <3>2, Gets DEF Unheld
    <3>4. QED
      BY <2>1, <2>5, <3>1, <3>3, Gets DEF Unheld
  <2>6. QED
    BY <2>2, <2>3, <2>4, <2>5, AllProceed DEF Arrives
<1>3. QED
  BY <1>1, <1>2, UnusedRows DEF Unused

-----------------------------------------------------------------------------
(* Start and end of the process.                                           *)

\* A task shown as pending or running.
Open(t) == mem[t].status \in {"pending", "running"}

\* Nothing is queued, deleted or worked on.
Idle == queue = <<>> /\ deleting = {} /\ \A w \in Workers : worker[w] = Gone

\* What a process that is down, or starts, is not doing.
Phase ==
  /\ process = "down" => lock = None /\ Idle
  /\ Booting => process = "up" /\ Idle /\ \A t \in Tasks : ~Open(t)
  /\ recovered # {} => Booting

\* A process that is down or starts does nothing else.
LEMMA NothingElse ==
  ASSUME Base, Phase, [Next]_vars
  PROVE  /\ process = "down" => Start \/ UNCHANGED vars
         /\ Booting => (\E t \in Tasks : StoreRecovered(t)) \/ StartWorkers \/ Kill \/ UNCHANGED vars
<1>1. lock = None => lock # [op |-> "start"]
  BY RecordTypes, TaskerAssumption
<1>2. CASE process = "down"
  <2>1. lock = None /\ Idle /\ ~Booting
    BY <1>1, <1>2 DEF Phase, Booting
  <2>2. ASSUME NEW w \in Workers
        PROVE  ~WorkerStep(w) /\ ~StoreFails(w)
    BY <1>2, <2>1 DEF WorkerStep, GetTask, Fetch, Update, Report, Store, Return, Raise, StoreFails,
                      Free, Writing
  <2>3. \A t \in Tasks : ~EnqueueTask(t) /\ ~CancelTask(t) /\ ~DeleteTask(t) /\ ~DeleteRow(t)
    BY <1>2, <2>1 DEF EnqueueTask, CancelTask, DeleteTask, DeleteRow, Free, Idle
  <2>4. ~StoreTask /\ ~StoreCancel /\ ~CallFails /\ ~Shutdown /\ ~FinishShutdown /\ ~Kill
    BY <1>2, <2>1 DEF StoreTask, StoreCancel, CallFails, Shutdown, FinishShutdown, Kill, Free
  <2>5. ~StartWorkers /\ \A t \in Tasks : ~StoreRecovered(t)
    BY <2>1 DEF StartWorkers, StoreRecovered
  <2>6. QED
    BY <2>1, <2>2, <2>3, <2>4, <2>5 DEF Next, ApiStep, Boot
<1>3. CASE Booting
  <2>1. lock # None /\ lock.op = "start" /\ Idle /\ process = "up"
    BY <1>1, <1>3 DEF Phase, Booting
  <2>2. ASSUME NEW w \in Workers
        PROVE  ~WorkerStep(w) /\ ~StoreFails(w)
    BY <2>1, RestStates DEF WorkerStep, GetTask, Fetch, Update, Report, Store, Return, Raise, StoreFails,
                      Free, Writing, Idle
  <2>3. \A t \in Tasks : ~EnqueueTask(t) /\ ~CancelTask(t) /\ ~DeleteTask(t) /\ ~DeleteRow(t)
    BY <2>1 DEF EnqueueTask, CancelTask, DeleteTask, DeleteRow, Free, Idle
  <2>4. ~StoreTask /\ ~StoreCancel /\ ~CallFails /\ ~Shutdown /\ ~FinishShutdown /\ ~Start
    BY <2>1 DEF StoreTask, StoreCancel, CallFails, Shutdown, FinishShutdown, Start, Free
  <2>5. QED
    BY <2>1, <2>2, <2>3, <2>4 DEF Next, ApiStep, Boot
<1>4. QED
  BY <1>2, <1>3

\* Phase is inductive.
LEMMA PhaseStep ==
  ASSUME Base, Phase, [Next]_vars
  PROVE  Phase'
<1>1. lock = None => ~Booting
  BY RecordTypes, TaskerAssumption DEF Booting
<1>2. lock' = None => ~Booting'
  BY RecordTypes, TaskerAssumption DEF Booting
<1>3. CASE UNCHANGED vars
  BY <1>3 DEF vars, Phase, Idle, Open, Booting
<1>4. CASE Start
  <2>1. process = "down" /\ Idle /\ UNCHANGED <<queue, worker, deleting>> /\ process' = "up"
    BY <1>4 DEF Start, Phase
  <2>2. \A t \in Tasks : ~Open(t)'
    BY <1>4 DEF Start, Open
  <2>3. QED
    BY <1>4, <2>1, <2>2 DEF Phase, Idle, Booting, Start
<1>5. CASE Kill \/ FinishShutdown
  BY <1>2, <1>5 DEF Kill, FinishShutdown, Wiped, Phase, Idle
<1>6. ASSUME NEW t \in Tasks, StoreRecovered(t)
      PROVE  Phase'
  BY <1>6 DEF StoreRecovered, Phase, Idle, Open, Booting
<1>7. CASE StartWorkers
  BY <1>2, <1>7 DEF StartWorkers, Phase
<1>8. ASSUME process # "down", ~Booting, Next, ~Kill, ~FinishShutdown
      PROVE  process' # "down" /\ ~Booting' /\ recovered' = recovered
  <2>1. ~StartWorkers /\ ~Start /\ \A t \in Tasks : ~StoreRecovered(t)
    BY <1>8 DEF StartWorkers, Start, StoreRecovered
  <2>2. CASE ApiStep \/ CallFails
    <3>1. process' = process /\ recovered' = recovered
      BY <2>2 DEF ApiStep, CallFails, EnqueueTask, CancelTask, DeleteTask, StoreTask, StoreCancel, DeleteRow
    <3>2. lock' \in {lock, None} \/ (lock'.op \in {"enqueue", "cancel"})
      BY <2>2 DEF ApiStep, CallFails, EnqueueTask, CancelTask, DeleteTask, StoreTask, StoreCancel, DeleteRow
    <3>3. QED
      BY <1>2, <1>8, <3>1, <3>2 DEF Booting
  <2>3. ASSUME NEW w \in Workers, WorkerStep(w) \/ StoreFails(w)
        PROVE  process' = process /\ recovered' = recovered /\ ~Booting'
    <3>1. process' = process /\ recovered' = recovered
      BY <2>3 DEF WorkerStep, GetTask, Fetch, Update, Report, Store, Return, Raise, StoreFails
    <3>2. lock' \in {lock, None} \/ lock'.op = "worker"
      BY <2>3 DEF WorkerStep, GetTask, Fetch, Update, Report, Store, Return, Raise, StoreFails
    <3>3. QED
      BY <1>2, <1>8, <3>1, <3>2 DEF Booting
  <2>4. CASE Shutdown
    BY <2>4 DEF Shutdown, Booting
  <2>5. QED
    BY <1>8, <2>1, <2>2, <2>3, <2>4 DEF Next, Boot
<1>9. QED
  BY <1>1, <1>3, <1>4, <1>5, <1>6, <1>7, <1>8, NothingElse DEF Phase

-----------------------------------------------------------------------------
(* Runs.                                                                   *)

\* A task that may still be begun has not been started.
Started ==
  /\ \A t \in Tasks : InQueue(t) \/ Offered(t) => runs[t] = 0
  /\ \A w \in Workers : worker[w].pc \in {"fetch", "begin", "drop"} => runs[worker[w].task] = 0
  /\ RunsOnce

\* A coroutine is started by a worker that is about to say so.
LEMMA RunStarts ==
  ASSUME Base, [Next]_vars
  PROVE  \/ runs' = runs
         \/ \E w \in Workers :
              /\ Update(w) \/ Store(w)
              /\ worker[w].pc = "begin" /\ worker[w].task \in Tasks
              /\ runs' = [runs EXCEPT ![worker[w].task] = @ + 1]
              /\ worker'[w].pc = "run" /\ worker'[w].task = worker[w].task
<1>1. worker \in [Workers -> [pc : Steps, task : Tasks \cup {None}]]
  BY DEF Base, TaskerTypeOK
<1>2. ASSUME NEW w \in Workers, Update(w) \/ Store(w), runs' # runs
      PROVE  /\ worker[w].pc = "begin" /\ worker[w].task \in Tasks
             /\ runs' = [runs EXCEPT ![worker[w].task] = @ + 1]
             /\ worker'[w].pc = "run" /\ worker'[w].task = worker[w].task
  <2>1. worker[w].pc = "begin" /\ Onwards(w)
    BY <1>2 DEF Update, Store
  <2>2. worker[w].task \in Tasks
    BY <1>1, <2>1 DEF Base, Assigned
  <2>3. Store(w) => lock.task = worker[w].task
    BY DEF Store, Writing, Base, LockMatches
  <2>4. runs' = [runs EXCEPT ![worker[w].task] = @ + 1]
    BY <1>2, <2>1, <2>3 DEF Update, Store, StartRun
  <2>5. QED
    BY <1>1, <2>1, <2>2, <2>4 DEF Onwards, MoveTo
<1>3. ASSUME runs' # runs
      PROVE  \E w \in Workers : Update(w) \/ Store(w)
  <2>1. ~ApiStep /\ ~Boot /\ ~CallFails
    BY <1>3 DEF ApiStep, Boot, CallFails, EnqueueTask, CancelTask, DeleteTask, StoreTask, StoreCancel,
                DeleteRow, Start, StoreRecovered, StartWorkers, histVars
  <2>2. ~Shutdown /\ ~FinishShutdown /\ ~Kill /\ ~UNCHANGED vars
    BY <1>3 DEF Shutdown, FinishShutdown, Kill, vars, histVars
  <2>3. \A w \in Workers : ~GetTask(w) /\ ~Fetch(w) /\ ~Report(w) /\ ~Return(w) /\ ~Raise(w) /\ ~StoreFails(w)
    BY <1>3 DEF GetTask, Fetch, Report, Return, Raise, StoreFails, histVars
  <2>4. QED
    BY <2>1, <2>2, <2>3 DEF Next, WorkerStep
<1>4. QED
  BY <1>2, <1>3

\* Started is inductive: a start takes the task out of those that may be begun.
LEMMA StartedStep ==
  ASSUME Base, Single, Unused, Started, [Next]_vars
  PROVE  Started'
<1>1. runs \in [Tasks -> Nat] /\ worker \in [Workers -> [pc : Steps, task : Tasks \cup {None}]]
  BY DEF Base, TaskerTypeOK
<1>2. CASE Shrinks /\ runs' = runs
  <2>1. \A v \in Workers : worker'[v].pc \in {"fetch", "begin", "drop"} =>
          worker[v].pc \in {"fetch", "begin", "drop"} /\ worker'[v].task = worker[v].task
    BY <1>2, RestStates DEF Shrinks, Proceeds, Moves
  <2>2. \A t \in Tasks : InQueue(t)' => InQueue(t)
    BY <1>2 DEF Shrinks, InQueue
  <2>3. QED
    BY <1>2, <2>1, <2>2 DEF Shrinks, Started, RunsOnce
<1>3. ASSUME NEW w \in Workers, worker[w].pc = "begin", Shrinks,
             runs' = [runs EXCEPT ![worker[w].task] = @ + 1], worker[w].task \in Tasks,
             worker'[w].pc = "run" /\ worker'[w].task = worker[w].task
      PROVE  Started'
  <2> DEFINE t == worker[w].task
  <2>1. runs[t] = 0 /\ ~InQueue(t) /\ ~Offered(t) /\ \A v \in Workers \ {w} : worker[v].task # t
    BY <1>3, TaskerAssumption DEF Started, Single
  <2>2. runs'[t] = 1 /\ \A u \in Tasks \ {t} : runs'[u] = runs[u]
    BY <1>1, <1>3, <2>1
  <2>3. \A v \in Workers : worker'[v].pc \in {"fetch", "begin", "drop"} =>
          worker[v].pc \in {"fetch", "begin", "drop"} /\ worker'[v].task = worker[v].task /\ v # w
    BY <1>3, RestStates DEF Shrinks, Proceeds, Moves
  <2>4. \A u \in Tasks : InQueue(u)' \/ Offered(u)' => InQueue(u) \/ Offered(u)
    BY <1>3 DEF Shrinks, InQueue
  <2>5. \A u \in Tasks : InQueue(u)' \/ Offered(u)' => runs'[u] = 0
    BY <2>1, <2>2, <2>4 DEF Started
  <2>6. ASSUME NEW v \in Workers, worker'[v].pc \in {"fetch", "begin", "drop"}
        PROVE  runs'[worker'[v].task] = 0
    <3>1. runs[worker[v].task] = 0 /\ worker[v].task # t /\ worker'[v].task = worker[v].task
      BY <2>1, <2>3, <2>6 DEF Started
    <3>2. worker[v].task \in Tasks
      BY <1>1, <2>3, <2>6 DEF Base, Assigned
    <3>3. QED
      BY <2>2, <3>1, <3>2
  <2>7. RunsOnce'
    BY <2>2 DEF RunsOnce, Started
  <2>8. QED
    BY <2>5, <2>6, <2>7 DEF Started
<1>4. ASSUME NEW t \in Tasks, EnqueueTask(t)
      PROVE  Started'
  BY <1>4, Offers, UnusedRows DEF Started, RunsOnce, InQueue, EnqueueTask, Unused
<1>5. CASE StoreTask
  BY <1>5, Queues, TaskerAssumption DEF Started, RunsOnce, Offered
<1>6. ASSUME NEW w \in Workers, GetTask(w)
      PROVE  Started'
  <2>1. \A t \in Tasks : Offered(t)' <=> Offered(t)
    BY <1>6, Gets DEF Offered
  <2>2. \A v \in Workers : worker'[v].pc \in {"fetch", "begin", "drop"} =>
          IF v = w THEN worker'[v].task = Head(queue)
          ELSE worker[v].pc \in {"fetch", "begin", "drop"} /\ worker'[v].task = worker[v].task
    BY <1>6, Gets
  <2>3. QED
    BY <1>6, <2>1, <2>2, Gets DEF Started, RunsOnce
<1>7. CASE Shrinks
  BY <1>2, <1>3, <1>7, RunStarts
<1>8. QED
  BY <1>4, <1>5, <1>6, <1>7, AllProceed DEF Arrives

-----------------------------------------------------------------------------
(* The dictionary and the table.                                           *)

\* The ways in which the entry of a task changes.
MemMoves(t) ==
  \/ mem'[t] = mem[t]
  \/ EnqueueTask(t) /\ mem'[t] = [status |-> "pending", cancel |-> FALSE]
  \/ CancelTask(t) /\ mem[t] # Absent /\ mem'[t] = [mem[t] EXCEPT !.cancel = TRUE]
  \/ DeleteTask(t) /\ mem'[t] = Absent
  \/ \E w \in Workers : /\ Update(w) /\ worker[w].task = t /\ mem[t] # Absent
                        /\ mem'[t] = [mem[t] EXCEPT !.status = StatusAt(worker[w].pc)]
                        /\ UNCHANGED worker /\ lock' = [op |-> "worker", task |-> t, by |-> w]
  \/ Start
  \/ Kill \/ FinishShutdown

\* There are no other ways.
LEMMA MemStep ==
  ASSUME Base, [Next]_vars, NEW t \in Tasks
  PROVE  MemMoves(t)
<1> USE DEF MemMoves
<1>1. mem \in [Tasks -> Rows \cup {Absent}]
  BY DEF Base, TaskerTypeOK
<1>2. ASSUME NEW u \in Tasks, EnqueueTask(u) \/ CancelTask(u) \/ DeleteTask(u)
      PROVE  MemMoves(t)
  <2>1. CASE EnqueueTask(u)
    BY <1>1, <2>1 DEF EnqueueTask
  <2>2. CASE CancelTask(u)
    BY <1>1, <2>2 DEF CancelTask
  <2>3. CASE DeleteTask(u)
    BY <1>1, <2>3 DEF DeleteTask
  <2>4. QED
    BY <1>2, <2>1, <2>2, <2>3
<1>3. ASSUME NEW w \in Workers, WorkerStep(w) \/ StoreFails(w)
      PROVE  MemMoves(t)
  <2>1. CASE Update(w)
    BY <1>1, <2>1 DEF Update
  <2>2. CASE GetTask(w) \/ Fetch(w) \/ Report(w) \/ Return(w) \/ Raise(w) \/ Store(w) \/ StoreFails(w)
    BY <2>2 DEF GetTask, Fetch, Report, Return, Raise, Store, StoreFails
  <2>3. QED
    BY <1>3, <2>1, <2>2 DEF WorkerStep
<1>4. CASE StoreTask \/ StoreCancel \/ CallFails \/ StartWorkers \/ Shutdown \/ UNCHANGED vars
  BY <1>4 DEF StoreTask, StoreCancel, CallFails, StartWorkers, Shutdown, vars
<1>5. ASSUME NEW u \in Tasks, DeleteRow(u) \/ StoreRecovered(u)
      PROVE  MemMoves(t)
  BY <1>5 DEF DeleteRow, StoreRecovered
<1>6. QED
  BY <1>2, <1>3, <1>4, <1>5 DEF Next, ApiStep, Boot

\* The ways in which its row changes.
DbMoves(t) ==
  \/ db'[t] = db[t]
  \/ /\ lock # None /\ t = lock.task /\ db'[t] = mem[t]
     /\ StoreTask \/ StoreCancel \/ \E w \in Workers : Store(w) /\ worker[w].task = t
  \/ StoreRecovered(t) /\ db'[t] = mem[t]
  \/ DeleteRow(t) /\ db'[t] = Absent

\* There are no other ways.
LEMMA DbStep ==
  ASSUME Base, [Next]_vars, NEW t \in Tasks
  PROVE  DbMoves(t)
<1> USE DEF DbMoves
<1>1. db \in [Tasks -> Rows \cup {Absent}]
  BY DEF Base, TaskerTypeOK
<1>2. \A u \in Tasks : Persist(u) => db'[t] = IF u = t THEN mem[t] ELSE db[t]
  BY <1>1 DEF Persist
<1>3. CASE StoreTask \/ StoreCancel
  BY <1>2, <1>3, LockTask DEF StoreTask, StoreCancel, Base
<1>4. ASSUME NEW w \in Workers, Store(w)
      PROVE  DbMoves(t)
  <2>1. lock # None /\ lock.task = worker[w].task /\ Persist(lock.task) /\ lock.task \in Tasks
    BY <1>4, LockTask DEF Store, Writing, Base, LockMatches
  <2>2. QED
    BY <1>2, <1>4, <2>1
<1>5. ASSUME NEW u \in Tasks, DeleteRow(u) \/ StoreRecovered(u)
      PROVE  DbMoves(t)
  BY <1>1, <1>2, <1>5 DEF DeleteRow, StoreRecovered
<1>6. ASSUME NEW u \in Tasks, EnqueueTask(u) \/ CancelTask(u) \/ DeleteTask(u)
      PROVE  db' = db
  BY <1>6 DEF EnqueueTask, CancelTask, DeleteTask
<1>7. ASSUME NEW w \in Workers, WorkerStep(w) \/ StoreFails(w), ~Store(w)
      PROVE  db' = db
  BY <1>7 DEF WorkerStep, GetTask, Fetch, Update, Report, Return, Raise, StoreFails
<1>8. CASE CallFails \/ Start \/ StartWorkers \/ Shutdown \/ FinishShutdown \/ Kill \/ UNCHANGED vars
  BY <1>8 DEF CallFails, Start, StartWorkers, Shutdown, FinishShutdown, Kill, vars
<1>9. QED
  BY <1>3, <1>4, <1>5, <1>6, <1>7, <1>8 DEF Next, ApiStep, Boot

\* The ways in which the lock changes hands.
LockMoves ==
  \/ lock' = None
  \/ lock # None /\ lock' = lock /\ mem' = mem /\ (lock.op = "worker" => worker'[lock.by] = worker[lock.by])
  \/ \E t \in Tasks : EnqueueTask(t) /\ lock' = [op |-> "enqueue", task |-> t, by |-> None]
  \/ \E t \in Tasks : CancelTask(t) /\ lock' = [op |-> "cancel", task |-> t, by |-> None]
  \/ \E w \in Workers : /\ Update(w) \/ Report(w)
                        /\ mem[worker[w].task] # Absent /\ worker[w].task \in Tasks /\ UNCHANGED worker
                        /\ lock' = [op |-> "worker", task |-> worker[w].task, by |-> w]
  \/ lock'.op \in {"start", "shutdown"}

\* There are no other ways.
LEMMA LockStep ==
  ASSUME Base, [Next]_vars
  PROVE  LockMoves
<1> USE DEF LockMoves
<1>1. worker \in [Workers -> [pc : Steps, task : Tasks \cup {None}]]
  BY DEF Base, TaskerTypeOK
<1>2. ASSUME NEW w \in Workers, WorkerStep(w) \/ StoreFails(w)
      PROVE  LockMoves
  <2>1. CASE Store(w) \/ StoreFails(w)
    BY <2>1 DEF Store, StoreFails
  <2>2. CASE Fetch(w)
    BY <2>2 DEF Fetch, Free
  <2>3. CASE Update(w) \/ Report(w)
    <3>1. worker[w].task \in Tasks
      BY <1>1, <2>3 DEF Base, Assigned, Update, Report, Writers
    <3>2. QED
      BY <2>3, <3>1 DEF Update, Report, Free
  <2>4. CASE GetTask(w) \/ Return(w) \/ Raise(w)
    <3>1. lock' = lock /\ mem' = mem
      BY <2>4 DEF GetTask, Return, Raise
    <3>2. \A v \in Workers \ {w} : worker'[v] = worker[v]
      BY <1>1, <2>4 DEF GetTask, Return, Raise, MoveTo
    <3>3. lock # None /\ lock.op = "worker" => lock.by \in Workers \ {w}
      BY <2>4 DEF Base, LockMatches, GetTask, Return, Raise, Writing, Writers
    <3>4. QED
      BY <3>1, <3>2, <3>3
  <2>5. QED
    BY <1>2, <2>1, <2>2, <2>3, <2>4 DEF WorkerStep
<1>3. CASE ApiStep \/ CallFails
  <2>1. ASSUME NEW t \in Tasks, EnqueueTask(t) \/ CancelTask(t) \/ DeleteTask(t) \/ DeleteRow(t)
        PROVE  LockMoves
    BY <2>1 DEF EnqueueTask, CancelTask, DeleteTask, DeleteRow, Free
  <2>2. CASE StoreTask \/ StoreCancel \/ CallFails
    BY <2>2 DEF StoreTask, StoreCancel, CallFails
  <2>3. QED
    BY <1>3, <2>1, <2>2 DEF ApiStep
<1>4. CASE Boot
  BY <1>4 DEF Boot, Start, StoreRecovered, StartWorkers
<1>5. CASE Shutdown \/ FinishShutdown \/ Kill \/ UNCHANGED vars
  BY <1>5 DEF Shutdown, FinishShutdown, Kill, Wiped, vars
<1>6. QED
  BY <1>2, <1>3, <1>4, <1>5 DEF Next

\* What the holder of the lock has put into the dictionary, and what a running
\* coroutine finds there.
Dictionary ==
  /\ lock # None /\ lock.op = "enqueue" => mem[lock.task].status = "pending"
  /\ lock # None /\ lock.op = "cancel" => Open(lock.task) /\ mem[lock.task].cancel
  /\ lock # None /\ lock.op = "worker" =>
       /\ mem[lock.task] # Absent
       /\ worker[lock.by].pc \in Writers => mem[lock.task].status = StatusAt(worker[lock.by].pc)
  /\ \A w \in Workers : worker[w].pc = "run" /\ mem[worker[w].task] # Absent =>
       mem[worker[w].task].status = "running"

\* A worker that has a task is moved on by itself, by the shutdown, or out of its loop.
LEMMA OwnStep ==
  ASSUME Base, Single, [Next]_vars, NEW w \in Workers, worker[w].task # None,
         worker'[w] # worker[w], worker'[w] \notin {Gone, AtQueue}
  PROVE  \/ Shutdown /\ worker'[w].pc = "caught"
         \/ (WorkerStep(w) \/ StoreFails(w)) /\ ~GetTask(w)
<1>1. worker \in [Workers -> [pc : Steps, task : Tasks \cup {None}]]
  BY DEF Base, TaskerTypeOK
<1>2. ASSUME NEW v \in Workers, WorkerStep(v) \/ StoreFails(v)
      PROVE  v = w /\ ~GetTask(w)
  <2>1. ~GetTask(v)
    BY <1>2, Gets
  <2>2. QED
    BY <1>2, <2>1, WorkerProceeds
<1>3. ~ApiStep /\ ~CallFails /\ ~UNCHANGED vars
  BY DEF ApiStep, CallFails, EnqueueTask, CancelTask, DeleteTask, StoreTask, StoreCancel, DeleteRow, vars
<1>4. ~Boot
  BY DEF Boot, Start, StoreRecovered, StartWorkers
<1>5. ~FinishShutdown /\ ~Kill
  BY DEF FinishShutdown, Kill, Wiped
<1>6. Shutdown => worker'[w].pc = "caught"
  BY <1>1 DEF Shutdown, Interrupted
<1>7. QED
  BY <1>2, <1>3, <1>4, <1>5, <1>6 DEF Next

\* A coroutine runs after its begin has been stored, or for a deleted task.
LEMMA RunFrom ==
  ASSUME Base, Single, Unused, [Next]_vars, NEW w \in Workers, worker'[w].pc = "run"
  PROVE  /\ worker'[w].task = worker[w].task /\ worker[w].task \in Tasks
         /\ \/ worker[w].pc = "run"
            \/ worker[w].pc = "begin" /\ Update(w) /\ mem[worker[w].task] = Absent /\ mem' = mem
            \/ worker[w].pc = "begin" /\ Store(w) /\ Writing(w) /\ mem' = mem
<1>1. worker \in [Workers -> [pc : Steps, task : Tasks \cup {None}]]
  BY DEF Base, TaskerTypeOK
<1>2. Proceeds(w)
  <2>1. CASE Shrinks
    BY <2>1 DEF Shrinks
  <2>2. CASE StoreTask \/ \E t \in Tasks : EnqueueTask(t)
    BY <2>2 DEF StoreTask, EnqueueTask, Proceeds
  <2>3. ASSUME NEW v \in Workers, GetTask(v)
        PROVE  Proceeds(w)
    BY <2>3, Gets DEF Proceeds
  <2>4. QED
    BY <2>1, <2>2, <2>3, AllProceed DEF Arrives
<1>3. worker'[w].task = worker[w].task /\ worker[w].pc \in {"begin", "run"}
  BY <1>2, RestStates DEF Proceeds, Moves
<1>4. worker[w].task \in Tasks
  BY <1>1, <1>3 DEF Base, Assigned
<1>5. ASSUME worker[w].pc = "begin"
      PROVE  \/ Update(w) /\ mem[worker[w].task] = Absent /\ mem' = mem
             \/ Store(w) /\ Writing(w) /\ mem' = mem
  <2>1. worker'[w] # worker[w] /\ worker'[w] \notin {Gone, AtQueue} /\ worker[w].task # None
    BY <1>4, <1>5, RestStates, TaskerAssumption
  <2>2. (WorkerStep(w) \/ StoreFails(w)) /\ ~GetTask(w)
    BY <2>1, OwnStep
  <2>3. ~StoreFails(w)
    BY <1>1, <1>5, RestStates DEF StoreFails, NextTask
  <2>4. ~Fetch(w) /\ ~Report(w) /\ ~Return(w) /\ ~Raise(w)
    BY <1>5 DEF Fetch, Report, Return, Raise
  <2>5. QED
    BY <2>1, <2>2, <2>3, <2>4 DEF WorkerStep, Update, Store
<1>6. QED
  BY <1>3, <1>4, <1>5

\* Dictionary is inductive.
LEMMA DictionaryStep ==
  ASSUME Base, Single, Unused, Phase, Dictionary, [Next]_vars
  PROVE  Dictionary'
<1>1. mem \in [Tasks -> Rows \cup {Absent}] /\ worker \in [Workers -> [pc : Steps, task : Tasks \cup {None}]]
  BY DEF Base, TaskerTypeOK
<1>2. /\ lock' # None /\ lock'.op = "enqueue" => mem'[lock'.task].status = "pending"
      /\ lock' # None /\ lock'.op = "cancel" => mem'[lock'.task].status \in {"pending", "running"} /\ mem'[lock'.task].cancel
      /\ lock' # None /\ lock'.op = "worker" =>
           /\ mem'[lock'.task] # Absent
           /\ worker'[lock'.by].pc \in Writers => mem'[lock'.task].status = StatusAt(worker'[lock'.by].pc)
  <2>1. CASE lock' = None \/ lock'.op \in {"start", "shutdown"}
    BY <2>1
  <2>2. CASE lock # None /\ lock' = lock /\ mem' = mem /\ (lock.op = "worker" => worker'[lock.by] = worker[lock.by])
    BY <2>2 DEF Dictionary, Open
  <2>3. ASSUME NEW t \in Tasks, EnqueueTask(t), lock' = [op |-> "enqueue", task |-> t, by |-> None]
        PROVE  lock'.op = "enqueue" /\ mem'[lock'.task].status = "pending"
    BY <1>1, <2>3 DEF EnqueueTask
  <2>4. ASSUME NEW t \in Tasks, CancelTask(t), lock' = [op |-> "cancel", task |-> t, by |-> None]
        PROVE  lock'.op = "cancel" /\ mem'[lock'.task].status \in {"pending", "running"} /\ mem'[lock'.task].cancel
    <3>1. mem[t] \in Rows /\ mem[t].status \in {"pending", "running"}
      BY <1>1, <2>4 DEF CancelTask, Rows, Statuses
    <3>2. mem'[t] = [mem[t] EXCEPT !.cancel = TRUE]
      BY <1>1, <2>4 DEF CancelTask
    <3>3. mem'[t].status = mem[t].status /\ mem'[t].cancel
      BY <3>1, <3>2 DEF Rows
    <3>4. QED
      BY <2>4, <3>1, <3>3 DEF Open
  <2>5. ASSUME NEW w \in Workers, Update(w) \/ Report(w), mem[worker[w].task] # Absent,
               worker[w].task \in Tasks, UNCHANGED worker,
               lock' = [op |-> "worker", task |-> worker[w].task, by |-> w]
        PROVE  /\ lock'.op = "worker" /\ mem'[lock'.task] # Absent
               /\ worker'[lock'.by].pc \in Writers => mem'[lock'.task].status = StatusAt(worker'[lock'.by].pc)
    <3>1. CASE Report(w)
      BY <2>5, <3>1 DEF Report, Writers
    <3>2. CASE Update(w)
      <4>1. mem[worker[w].task] \in Rows
        BY <1>1, <2>5
      <4>2. mem'[worker[w].task] = [mem[worker[w].task] EXCEPT !.status = StatusAt(worker[w].pc)]
        BY <1>1, <2>5, <3>2 DEF Update
      <4>3. StatusAt(worker[w].pc) \in Statuses
        BY <3>2 DEF Update, Writers, StatusAt, Statuses, Terminal
      <4>4. mem'[worker[w].task].status = StatusAt(worker[w].pc) /\ mem'[worker[w].task] \in Rows
        BY <4>1, <4>2, <4>3 DEF Rows
      <4>5. QED
        BY <2>5, <4>4, RecordTypes
    <3>3. QED
      BY <2>5, <3>1, <3>2
  <2>6. QED
    BY <2>1, <2>2, <2>3, <2>4, <2>5, LockStep DEF LockMoves
<1>3. ASSUME NEW w \in Workers, worker'[w].pc = "run", mem'[worker'[w].task] # Absent
      PROVE  mem'[worker'[w].task].status = "running"
  <2> DEFINE t == worker[w].task
  <2>1. worker'[w].task = t /\ t \in Tasks
    BY <1>3, RunFrom
  <2>2. CASE worker[w].pc = "begin" /\ Store(w) /\ Writing(w) /\ mem' = mem
    BY <2>1, <2>2 DEF Dictionary, Writing, Base, LockMatches, Writers, StatusAt
  <2>3. CASE worker[w].pc = "begin" /\ mem[t] = Absent /\ mem' = mem
    BY <1>3, <2>1, <2>3
  <2>4. CASE worker[w].pc = "run"
    <3>1. mem[t] # Absent => mem[t].status = "running"
      BY <2>4 DEF Dictionary
    <3>2. CASE mem'[t] = mem[t]
      BY <1>3, <2>1, <3>1, <3>2
    <3>3. CASE EnqueueTask(t)
      BY <2>1, <3>3, Offers DEF Unheld
    <3>4. CASE CancelTask(t) /\ mem[t] # Absent /\ mem'[t] = [mem[t] EXCEPT !.cancel = TRUE]
      BY <1>1, <2>1, <3>1, <3>4 DEF Rows
    <3>5. CASE DeleteTask(t) /\ mem'[t] = Absent
      BY <1>3, <2>1, <3>5
    <3>6. ASSUME NEW v \in Workers, Update(v), worker[v].task = t
          PROVE  FALSE
      BY <2>1, <2>4, <3>6, TaskerAssumption DEF Update, Writers, Single
    <3>7. CASE Start
      BY <2>4, <3>7, RestStates DEF Start, Phase, Idle
    <3>8. CASE Kill \/ FinishShutdown
      BY <1>3, <3>8, RestStates DEF Kill, FinishShutdown, Wiped
    <3>9. QED
      BY <2>1, <3>2, <3>3, <3>4, <3>5, <3>6, <3>7, <3>8, MemStep DEF MemMoves
  <2>5. QED
    BY <1>3, <2>2, <2>3, <2>4, RunFrom
<1>4. QED
  BY <1>2, <1>3 DEF Dictionary, Open

-----------------------------------------------------------------------------
(* Cancellation.                                                           *)

\* The worker that takes the task will drop it.
Dropped(t) == mem[t] = Absent \/ mem[t].cancel

\* A task cancelled in the queue has not run and will be dropped.
Stopped ==
  /\ CancelledInQueue
  /\ \A t \in stopped : t \in used /\ ~Offered(t) /\ (InQueue(t) => Dropped(t))
  /\ \A w \in Workers : worker[w].task \in stopped =>
       /\ worker[w].pc \in {"fetch", "drop"}
       /\ worker[w].pc = "fetch" => Dropped(worker[w].task)

\* A cancellation is acknowledged when its row is written.
LEMMA Acknowledged ==
  ASSUME Base, [Next]_vars
  PROVE  \/ stopped' = stopped
         \/ StoreCancel /\ lock # None /\ lock.op = "cancel" /\ lock.task \in Tasks
            /\ InQueue(lock.task) /\ stopped' = stopped \cup {lock.task}
<1>1. CASE StoreCancel
  BY <1>1, LockTask DEF StoreCancel, Base
<1>2. CASE ~StoreCancel
  BY <1>2 DEF Next, ApiStep, Boot, WorkerStep, vars, histVars, EnqueueTask, CancelTask, DeleteTask,
         StoreTask, DeleteRow, Start, StoreRecovered, StartWorkers, GetTask, Fetch,
         Update, Report, Store, StoreFails, Return, Raise, CallFails, Shutdown, FinishShutdown, Kill
<1>3. QED
  BY <1>1, <1>2

\* A task stays dropped as long as the process lives.
LEMMA DroppedStays ==
  ASSUME Base, [Next]_vars, NEW t \in Tasks, t \in used, Dropped(t)
  PROVE  Dropped(t)' \/ Start \/ Kill \/ FinishShutdown
<1>1. mem \in [Tasks -> Rows \cup {Absent}]
  BY DEF Base, TaskerTypeOK
<1>2. ~EnqueueTask(t)
  BY DEF EnqueueTask
<1>3. CASE mem'[t] \in {mem[t], Absent}
  BY <1>3 DEF Dropped
<1>4. CASE mem[t] # Absent /\ mem'[t] = [mem[t] EXCEPT !.cancel = TRUE]
  BY <1>1, <1>4 DEF Dropped, Rows
<1>5. ASSUME NEW w \in Workers, mem[t] # Absent,
             mem'[t] = [mem[t] EXCEPT !.status = StatusAt(worker[w].pc)]
      PROVE  Dropped(t)'
  <2>1. mem[t] \in Rows /\ mem[t].cancel
    BY <1>1, <1>5 DEF Dropped
  <2>2. mem'[t].cancel = mem[t].cancel
    BY <1>5, <2>1 DEF Rows
  <2>3. QED
    BY <2>1, <2>2 DEF Dropped
<1>6. QED
  <2>1. MemMoves(t)
    BY MemStep
  <2>2. ASSUME \E w \in Workers : mem[t] # Absent /\ mem'[t] = [mem[t] EXCEPT !.status = StatusAt(worker[w].pc)]
        PROVE  Dropped(t)'
    BY <1>5, <2>2
  <2>3. QED
    BY <1>2, <1>3, <1>4, <2>1, <2>2 DEF MemMoves

\* A worker begins a task only when it has not been cancelled.
LEMMA BeginFrom ==
  ASSUME Base, Single, [Next]_vars, NEW w \in Workers, worker[w].pc \in {"fetch", "drop"},
         worker'[w].task = worker[w].task, worker[w].task \in Tasks, worker'[w] # worker[w]
  PROVE  worker'[w].pc = "drop" \/ (worker'[w].pc = "begin" /\ ~Dropped(worker[w].task))
<1>1. worker \in [Workers -> [pc : Steps, task : Tasks \cup {None}]]
  BY DEF Base, TaskerTypeOK
<1>2. worker'[w] \notin {Gone, AtQueue} /\ worker[w].task # None
  BY RestStates, TaskerAssumption
<1>3. ~Shutdown
  BY <1>2 DEF Shutdown, Interrupted
<1>4. (WorkerStep(w) \/ StoreFails(w)) /\ ~GetTask(w)
  BY <1>2, <1>3, OwnStep
<1>5. CASE Fetch(w)
  <2>1. mem[worker[w].task] # Absent
    BY <1>1, <1>2, <1>5 DEF Fetch, NextTask
  <2>2. MoveTo(w, IF mem[worker[w].task].cancel THEN "drop" ELSE "begin")
    BY <1>5, <2>1 DEF Fetch
  <2>3. worker'[w].pc = IF mem[worker[w].task].cancel THEN "drop" ELSE "begin"
    BY <1>1, <2>2 DEF MoveTo
  <2>4. CASE mem[worker[w].task].cancel
    BY <2>3, <2>4
  <2>5. CASE ~mem[worker[w].task].cancel
    BY <2>1, <2>3, <2>5 DEF Dropped
  <2>6. QED
    BY <2>4, <2>5
<1>6. ~Update(w) /\ ~Store(w) /\ ~StoreFails(w)
  <2>1. ~NextTask(w)
    BY <1>1, <1>2 DEF NextTask
  <2>2. ~Update(w)
    BY <2>1 DEF Update, Onwards, Writers
  <2>3. ~Store(w) /\ ~StoreFails(w)
    BY <2>1 DEF Store, StoreFails, Onwards
  <2>4. QED
    BY <2>2, <2>3
<1>7. ~Report(w) /\ ~Return(w) /\ ~Raise(w)
  BY DEF Report, Return, Raise
<1>8. QED
  BY <1>4, <1>5, <1>6, <1>7 DEF WorkerStep

\* Stopped is inductive.
LEMMA StoppedStep ==
  ASSUME Base, Single, Unused, Started, Phase, Dictionary, Stopped, [Next]_vars
  PROVE  Stopped'
<1>1. worker \in [Workers -> [pc : Steps, task : Tasks \cup {None}]] /\ stopped \subseteq Tasks
  BY DEF Base, TaskerTypeOK
<1>2. ASSUME NEW t \in stopped
      PROVE  /\ runs'[t] = 0 /\ t \in used' /\ ~Offered(t)'
             /\ InQueue(t)' => Dropped(t)'
  <2>1. t \in Tasks /\ t \in used /\ runs[t] = 0 /\ ~Offered(t)
    BY <1>1, <1>2 DEF Stopped, CancelledInQueue
  <2>2. runs'[t] = 0
    <3>1. \A w \in Workers : worker[w].pc = "begin" => worker[w].task # t
      BY <1>2 DEF Stopped
    <3>2. runs \in [Tasks -> Nat]
      BY DEF Base, TaskerTypeOK
    <3>3. QED
      BY <2>1, <3>1, <3>2, RunStarts
  <2>3. t \in used'
    BY <2>1, UnusedRows
  <2>4. ~Offered(t)' /\ (InQueue(t)' => InQueue(t))
    <3>1. CASE Shrinks
      BY <2>1, <3>1 DEF Shrinks, InQueue
    <3>2. ASSUME NEW u \in Tasks, EnqueueTask(u)
          PROVE  ~Offered(t)' /\ (InQueue(t)' => InQueue(t))
      BY <2>1, <3>2, Offers DEF InQueue, EnqueueTask
    <3>3. CASE StoreTask
      BY <2>1, <3>3, Queues DEF Offered
    <3>4. ASSUME NEW w \in Workers, GetTask(w)
          PROVE  ~Offered(t)' /\ (InQueue(t)' => InQueue(t))
      BY <2>1, <3>4, Gets DEF Offered
    <3>5. QED
      BY <3>1, <3>2, <3>3, <3>4, AllProceed DEF Arrives
  <2>5. ASSUME InQueue(t)'
        PROVE  Dropped(t)'
    <3>1. InQueue(t) /\ queue # <<>> /\ queue' # <<>>
      BY <2>4, <2>5, EmptySeq DEF InQueue
    <3>2. ~Start /\ ~Kill /\ ~FinishShutdown
      BY <3>1 DEF Start, Phase, Idle, Kill, FinishShutdown, Wiped
    <3>3. QED
      BY <2>1, <3>1, <3>2, DroppedStays DEF Stopped
  <2>6. QED
    BY <2>2, <2>3, <2>4, <2>5
<1>3. ASSUME NEW w \in Workers, NEW t \in stopped, worker'[w].task = t
      PROVE  worker'[w].pc \in {"fetch", "drop"} /\ (worker'[w].pc = "fetch" => Dropped(t)')
  <2>1. t \in Tasks /\ t \in used /\ t # None
    BY <1>1, <1>3, TaskerAssumption DEF Stopped
  <2>2. CASE GetTask(w)
    <3>1. t = Head(queue) /\ worker'[w].pc = "fetch" /\ mem' = mem /\ InQueue(t)
      BY <1>3, <2>2, Gets
    <3>2. QED
      BY <1>3, <3>1 DEF Stopped, Dropped
  <2>3. CASE ~GetTask(w)
    <3>1. Proceeds(w)
      <4>1. CASE Shrinks
        BY <4>1 DEF Shrinks
      <4>2. CASE StoreTask \/ \E u \in Tasks : EnqueueTask(u)
        BY <4>2 DEF StoreTask, EnqueueTask, Proceeds
      <4>3. ASSUME NEW v \in Workers, GetTask(v)
            PROVE  Proceeds(w)
        BY <2>3, <4>3, Gets DEF Proceeds
      <4>4. QED
        BY <4>1, <4>2, <4>3, AllProceed DEF Arrives
    <3>2. worker[w].task = t /\ worker[w].pc \in {"fetch", "drop"}
      BY <1>3, <2>1, <3>1, RestStates DEF Proceeds, Stopped
    <3>3. worker[w].pc = "fetch" => Dropped(t)
      BY <1>3, <3>2 DEF Stopped
    <3>4. CASE worker'[w] = worker[w]
      <4>1. worker[w] # Gone /\ worker'[w] # Gone
        BY <1>3, <2>1, <3>2, RestStates
      <4>2. ~Start /\ ~Kill /\ ~FinishShutdown
        BY <4>1 DEF Start, Phase, Idle, Kill, FinishShutdown, Wiped
      <4>3. QED
        BY <2>1, <3>2, <3>3, <3>4, <4>2, DroppedStays
    <3>5. CASE worker'[w] # worker[w]
      <4>1. worker[w].pc = "drop" => worker'[w].pc # "begin"
        BY <2>1, <3>1, <3>2, <3>5, RestStates DEF Proceeds, Moves
      <4>2. worker'[w].pc = "drop" \/ (worker'[w].pc = "begin" /\ ~Dropped(t))
        BY <1>3, <2>1, <3>2, <3>5, BeginFrom
      <4>3. QED
        BY <3>2, <3>3, <4>1, <4>2
    <3>6. QED
      BY <3>4, <3>5
  <2>4. QED
    BY <2>2, <2>3
<1>4. CASE stopped' = stopped
  BY <1>2, <1>3, <1>4 DEF Stopped, CancelledInQueue, Dropped
<1>5. ASSUME NEW t \in Tasks, StoreCancel, lock # None, lock.op = "cancel", lock.task = t,
             InQueue(t), stopped' = stopped \cup {t}
      PROVE  Stopped'
  <2>1. UNCHANGED <<mem, queue, worker, used, runs>> /\ lock' = None
    BY <1>5 DEF StoreCancel
  <2>2. runs[t] = 0 /\ t \in used /\ mem[t].cancel /\ \A w \in Workers : worker[w].task # t
    BY <1>5 DEF Started, Unused, Unheld, Dictionary, Single
  <2>3. ~Offered(t)' /\ Dropped(t)'
    BY <2>1, <2>2 DEF Offered, Dropped
  <2>4. runs'[t] = 0 /\ t \in used'
    BY <2>1, <2>2
  <2>5. \A w \in Workers : worker'[w].task # t
    BY <2>1, <2>2
  <2>6. \A u \in stopped' : u = t \/ u \in stopped
    BY <1>5
  <2>7. QED
    BY <1>2, <1>3, <2>3, <2>4, <2>5, <2>6 DEF Stopped, CancelledInQueue, Dropped
<1>6. QED
  BY <1>4, <1>5, Acknowledged

-----------------------------------------------------------------------------
(* Dictionary and table together.                                          *)

\* Somebody is going to write the row of the task.
Live(t) == Held(t) \/ Offered(t) \/ Open(t) \/ t \in recovered

\* Only the rows of finished tasks that nobody will write are final.
Table ==
  /\ \A t \in Tasks : Live(t) => db[t].status \notin Terminal
  /\ \A t \in deleting : mem[t] = Absent

\* A task comes to the queue or a worker from the lock only.
LEMMA HeldFrom ==
  ASSUME Base, Single, Unused, [Next]_vars, NEW t \in Tasks
  PROVE  /\ Held(t)' => Held(t) \/ Offered(t)
         /\ Offered(t)' => Offered(t) \/ EnqueueTask(t)
<1>1. t # None
  BY TaskerAssumption
<1>2. CASE Shrinks
  BY <1>1, <1>2, UnheldStays DEF Held, Shrinks
<1>3. ASSUME NEW u \in Tasks, EnqueueTask(u)
      PROVE  (Held(t)' => Held(t)) /\ (Offered(t)' => u = t)
  BY <1>3, Offers DEF Held, InQueue
<1>4. CASE StoreTask
  BY <1>4, Queues DEF Held, Offered
<1>5. ASSUME NEW w \in Workers, GetTask(w)
      PROVE  (Held(t)' => Held(t)) /\ (Offered(t)' => Offered(t))
  <2>1. Offered(t)' => Offered(t)
    BY <1>5, Gets DEF Offered
  <2>2. \A v \in Workers : worker'[v].task = IF v = w THEN Head(queue) ELSE worker[v].task
    BY <1>5, Gets
  <2>3. QED
    BY <1>5, <2>1, <2>2, Gets DEF Held
<1>6. QED
  BY <1>2, <1>3, <1>4, <1>5, AllProceed DEF Arrives

\* Only delete adds to the rows to be deleted.
LEMMA DeletingFrom ==
  ASSUME Base, [Next]_vars, NEW t \in deleting'
  PROVE  t \in deleting \/ DeleteTask(t)
<1>1. ASSUME NEW u \in Tasks, DeleteTask(u)
      PROVE  t \in deleting \/ DeleteTask(t)
  BY <1>1 DEF DeleteTask
<1>2. deleting' \subseteq deleting \/ \E u \in Tasks : DeleteTask(u)
  BY DEF Next, ApiStep, Boot, WorkerStep, vars, EnqueueTask, CancelTask, Wiped,
         StoreTask, StoreCancel, DeleteRow, Start, StoreRecovered, StartWorkers, GetTask, Fetch,
         Update, Report, Store, StoreFails, Return, Raise, CallFails, Shutdown, FinishShutdown, Kill
<1>3. QED
  BY <1>1, <1>2

\* Only the start adds to the rows to be recovered.
LEMMA RecoveredFrom ==
  ASSUME Base, [Next]_vars, NEW t \in recovered'
  PROVE  t \in recovered \/ (Start /\ db[t].status \in {"pending", "running"})
<1>1. recovered' \subseteq recovered \/ Start
  BY DEF Next, ApiStep, Boot, WorkerStep, vars, EnqueueTask, CancelTask, DeleteTask, Wiped,
         StoreTask, StoreCancel, DeleteRow, StoreRecovered, StartWorkers, GetTask, Fetch,
         Update, Report, Store, StoreFails, Return, Raise, CallFails, Shutdown, FinishShutdown, Kill
<1>2. QED
  BY <1>1 DEF Start

\* The status of an entry is opened by enqueue and by the worker of the task.
LEMMA OpenFrom ==
  ASSUME Base, [Next]_vars, NEW t \in Tasks, Open(t)'
  PROVE  /\ Open(t) \/ EnqueueTask(t) \/ \E w \in Workers : Update(w) /\ worker[w].task = t /\ UNCHANGED worker
         /\ ~Start /\ ~Kill /\ ~FinishShutdown
<1>1. mem \in [Tasks -> Rows \cup {Absent}]
  BY DEF Base, TaskerTypeOK
<1>2. ~Start
  <2>1. Start => ~Open(t)'
    BY DEF Start, Open
  <2>2. QED
    BY <2>1
<1>3. ~Kill /\ ~FinishShutdown
  BY DEF Kill, FinishShutdown, Wiped, Absent, Open
<1>4. CASE mem'[t] = mem[t]
  BY <1>2, <1>3, <1>4 DEF Open
<1>5. mem'[t] # Absent
  BY DEF Absent, Open
<1>6. CASE mem[t] # Absent /\ mem'[t] = [mem[t] EXCEPT !.cancel = TRUE]
  BY <1>1, <1>2, <1>3, <1>6 DEF Open, Rows
<1>7. QED
  <2>1. MemMoves(t)
    BY MemStep
  <2>2. QED
    BY <1>2, <1>3, <1>4, <1>5, <1>6, <2>1 DEF MemMoves

\* A row somebody will still write was not final before.
LEMMA LiveFrom ==
  ASSUME Base, Single, Unused, Table, [Next]_vars, NEW t \in Tasks, Live(t)'
  PROVE  db[t].status \notin Terminal
<1>1. EnqueueTask(t) => db[t] = Absent
  BY Offers DEF EnqueueTask, Unused
<1>2. \A w \in Workers : worker[w].task = t => Live(t)
  BY DEF Live, Held
<1>3. Live(t) \/ EnqueueTask(t) \/ db[t].status \in {"pending", "running"}
  BY <1>2, HeldFrom, OpenFrom, RecoveredFrom DEF Live
<1>4. QED
  BY <1>1, <1>3 DEF Table, Terminal, Absent

\* A worker that ends with its task leaves it to nobody.
LEMMA StoreEnds ==
  ASSUME Base, Single, Phase, Dictionary, NEW w \in Workers, Store(w), NEW t \in Tasks, worker[w].task = t
  PROVE  mem[t].status = "running" \/ ~Live(t)'
<1>1. worker \in [Workers -> [pc : Steps, task : Tasks \cup {None}]]
  BY DEF Base, TaskerTypeOK
<1>2. lock # None /\ lock.op = "worker" /\ lock.by = w /\ lock.task = t
  BY DEF Store, Writing, Base, LockMatches
<1>3. mem[t] # Absent /\ worker[w].pc \in Writers \cup {"run"} /\ ~Booting
  BY <1>2 DEF Dictionary, Base, LockMatches, Booting
<1>4. CASE worker[w].pc \in {"begin", "run"}
  BY <1>2, <1>3, <1>4 DEF Dictionary, Writers, StatusAt
<1>5. CASE worker[w].pc \notin {"begin", "run"}
  <2>1. NextTask(w) /\ UNCHANGED <<mem, queue, recovered>> /\ lock' = None
    BY <1>5 DEF Store, Onwards
  <2>2. mem[t].status = StatusAt(worker[w].pc)
    BY <1>2, <1>3, <1>5 DEF Dictionary
  <2>3. ~Open(t)'
    BY <1>3, <1>5, <2>1, <2>2 DEF Open, StatusAt, Writers
  <2>4. ~Held(t)'
    <3>1. ~InQueue(t)'
      BY <2>1 DEF Single, InQueue
    <3>2. worker'[w].task = None /\ \A v \in Workers \ {w} : worker'[v] = worker[v]
      BY <1>1, <2>1, RestStates DEF NextTask
    <3>3. QED
      BY <3>1, <3>2, TaskerAssumption DEF Single, Held
  <2>5. t \notin recovered'
    BY <1>3, <2>1 DEF Phase
  <2>6. QED
    BY <2>1, <2>3, <2>4, <2>5 DEF Live, Offered
<1>6. QED
  BY <1>4, <1>5

\* Table is inductive.
LEMMA TableStep ==
  ASSUME Base, Single, Unused, Phase, Dictionary, Table, [Next]_vars
  PROVE  Table'
<1>1. ASSUME NEW t \in Tasks, Live(t)'
      PROVE  db'[t].status \notin Terminal
  <2>1. CASE db'[t] = db[t]
    BY <1>1, <2>1, LiveFrom
  <2>2. CASE StoreTask /\ lock # None /\ t = lock.task /\ db'[t] = mem[t]
    BY <2>2 DEF StoreTask, Dictionary, Terminal
  <2>3. CASE StoreCancel /\ lock # None /\ t = lock.task /\ db'[t] = mem[t]
    BY <2>3 DEF StoreCancel, Dictionary, Open, Terminal
  <2>4. ASSUME NEW w \in Workers, Store(w), worker[w].task = t, db'[t] = mem[t]
        PROVE  db'[t].status \notin Terminal
    BY <1>1, <2>4, StoreEnds DEF Terminal
  <2>5. CASE StoreRecovered(t)
    <3>1. Idle /\ ~Open(t) /\ UNCHANGED <<lock, mem, queue, worker>> /\ t \notin recovered' /\ lock = [op |-> "start"]
      BY <2>5 DEF StoreRecovered, Phase, Booting
    <3>2. ~Held(t)' /\ ~Offered(t)' /\ ~Open(t)'
      BY <3>1, RestStates, TaskerAssumption DEF Held, InQueue, Offered, Open, Idle
    <3>3. QED
      BY <1>1, <3>1, <3>2 DEF Live
  <2>6. CASE db'[t] = Absent
    BY <2>6 DEF Absent, Terminal
  <2>7. QED
    BY <2>1, <2>2, <2>3, <2>4, <2>5, <2>6, DbStep DEF DbMoves
<1>2. ASSUME NEW t \in deleting'
      PROVE  mem'[t] = Absent
  <2>1. CASE DeleteTask(t)
    BY <1>2, <2>1, BaseStep DEF DeleteTask, Base, TaskerTypeOK
  <2>2. CASE t \in deleting
    <3>1. t \in Tasks /\ t \in used /\ mem[t] = Absent
      BY <2>2 DEF Table, Unused, Base, TaskerTypeOK
    <3>2. ~EnqueueTask(t) /\ ~Start
      BY <2>2, <3>1 DEF EnqueueTask, Start, Phase, Idle
    <3>3. ~Kill /\ ~FinishShutdown
      BY <1>2 DEF Kill, FinishShutdown, Wiped
    <3>4. QED
      BY <3>1, <3>2, <3>3, MemStep DEF MemMoves
  <2>3. QED
    BY <1>2, <2>1, <2>2, DeletingFrom
<1>3. QED
  BY <1>1, <1>2 DEF Table

\* Its row is being written.
Written(t) == lock # None /\ lock.op \in {"enqueue", "cancel", "worker"} /\ lock.task = t

\* Table and dictionary agree but for what is being written, deleted or recovered.
Copy ==
  process = "up" =>
    \A t \in Tasks \ (disturbed \cup deleting) : db[t] = mem[t] \/ Written(t) \/ t \in recovered

\* An open task is in the queue, with a worker or in the hands of enqueue.
Owned ==
  process = "up" => \A t \in Tasks \ disturbed : Open(t) => Held(t) \/ Offered(t)

\* The lock is released when the row is written or the write has failed.
LEMMA Release ==
  ASSUME Base, Phase, [Next]_vars, NEW t \in Tasks, Written(t), process' = "up"
  PROVE  \/ lock' = lock
         \/ t \in disturbed'
         \/ db'[t] = mem[t] /\ (lock.op = "enqueue" => InQueue(t)')
<1>1. db \in [Tasks -> Rows \cup {Absent}] /\ queue \in Seq(Tasks)
  BY DEF Base, TaskerTypeOK
<1>2. ~Free /\ ~Booting
  BY DEF Written, Free, Booting
<1>3. Persist(lock.task) => db'[t] = mem[t]
  BY <1>1 DEF Persist, Written
<1>4. CASE StoreTask
  <2>1. InQueue(t)'
    BY <1>1, <1>4, Enqueued DEF StoreTask, Written
  <2>2. QED
    BY <1>3, <1>4, <2>1 DEF StoreTask
<1>5. CASE StoreCancel
  BY <1>3, <1>5 DEF StoreCancel
<1>6. CASE CallFails
  BY <1>6 DEF CallFails, Written
<1>7. ASSUME NEW w \in Workers, Store(w)
      PROVE  db'[t] = mem[t] /\ lock.op # "enqueue"
  BY <1>3, <1>7 DEF Store, Writing
<1>8. ASSUME NEW w \in Workers, StoreFails(w)
      PROVE  t \in disturbed'
  BY <1>8 DEF StoreFails, Written
<1>9. ASSUME NEW w \in Workers, WorkerStep(w), ~Store(w)
      PROVE  lock' = lock
  BY <1>2, <1>9 DEF WorkerStep, GetTask, Fetch, Update, Report, Return, Raise
<1>10. ASSUME NEW u \in Tasks, EnqueueTask(u) \/ CancelTask(u) \/ DeleteTask(u) \/ DeleteRow(u)
       PROVE  lock' = lock
  BY <1>2, <1>10 DEF EnqueueTask, CancelTask, DeleteTask, DeleteRow
<1>11. ~Start /\ ~StartWorkers /\ ~Shutdown /\ \A u \in Tasks : ~StoreRecovered(u)
  BY <1>2 DEF Start, StartWorkers, Shutdown, StoreRecovered, Phase, Written
<1>12. ~FinishShutdown /\ ~Kill
  BY DEF FinishShutdown, Kill, Wiped
<1>13. UNCHANGED vars => lock' = lock
  BY DEF vars
<1>14. QED
  BY <1>4, <1>5, <1>6, <1>7, <1>8, <1>9, <1>10, <1>11, <1>12, <1>13 DEF Next, ApiStep, Boot

\* A failed write is not forgotten.
LEMMA DisturbedStays == ASSUME Base, [Next]_vars PROVE disturbed \subseteq disturbed'
  BY DEF Next, ApiStep, Boot, WorkerStep, vars, histVars, EnqueueTask, CancelTask, DeleteTask,
         StoreTask, StoreCancel, DeleteRow, Start, StoreRecovered, StartWorkers, GetTask, Fetch,
         Update, Report, Store, StoreFails, Return, Raise, CallFails, Shutdown, FinishShutdown, Kill

\* A task leaves deleting when its row is gone or the DELETE has failed.
LEMMA DeletingEnds ==
  ASSUME Base, [Next]_vars, NEW t \in deleting, t \notin deleting', process' = "up"
  PROVE  t \in disturbed' \/ (db'[t] = Absent /\ mem' = mem)
<1>1. db \in [Tasks -> Rows \cup {Absent}] /\ deleting \subseteq Tasks
  BY DEF Base, TaskerTypeOK
<1>2. ASSUME NEW u \in Tasks, DeleteRow(u)
      PROVE  t \in disturbed' \/ (db'[t] = Absent /\ mem' = mem)
  <2>1. u = t
    BY <1>2 DEF DeleteRow
  <2>2. QED
    BY <1>1, <1>2, <2>1 DEF DeleteRow
<1>3. \/ deleting \subseteq deleting' \/ process' = "down"
      \/ \E u \in Tasks : DeleteRow(u)
  BY DEF Next, ApiStep, Boot, WorkerStep, vars, EnqueueTask, CancelTask, DeleteTask, Wiped,
         StoreTask, StoreCancel, Start, StoreRecovered, StartWorkers, GetTask, Fetch,
         Update, Report, Store, StoreFails, Return, Raise, CallFails, Shutdown, FinishShutdown, Kill
<1>4. QED
  BY <1>2, <1>3

\* Only the start brings the process up.
LEMMA ProcessUp ==
  ASSUME Base, [Next]_vars, process' = "up"
  PROVE  process = "up" \/ Start
  BY DEF Next, ApiStep, Boot, WorkerStep, vars, EnqueueTask, CancelTask, DeleteTask, Wiped,
         StoreTask, StoreCancel, DeleteRow, StoreRecovered, StartWorkers, GetTask, Fetch, Free,
         Update, Report, Store, StoreFails, Return, Raise, CallFails, Shutdown, FinishShutdown, Kill

\* Copy is inductive.
LEMMA CopyStep ==
  ASSUME Base, Unused, Phase, Table, Copy, [Next]_vars
  PROVE  Copy'
<1>1. SUFFICES ASSUME process' = "up", NEW t \in Tasks, t \notin disturbed', t \notin deleting'
               PROVE  db'[t] = mem'[t] \/ Written(t)' \/ t \in recovered'
  BY DEF Copy
<1>2. t \notin disturbed
  BY <1>1, DisturbedStays
<1>3. ~Kill /\ ~FinishShutdown
  BY <1>1 DEF Kill, FinishShutdown, Wiped
<1>4. CASE Start
  BY <1>4 DEF Start
<1>5. CASE t \in deleting
  BY <1>1, <1>5, DeletingEnds DEF Table
<1>6. CASE t \notin deleting /\ ~Start
  <2>1. process = "up" /\ (db[t] = mem[t] \/ Written(t) \/ t \in recovered)
    BY <1>1, <1>2, <1>6, ProcessUp DEF Copy
  <2>2. CASE mem'[t] = mem[t]
    <3>1. CASE db'[t] = mem[t]
      BY <2>2, <3>1
    <3>2. CASE DeleteRow(t)
      BY <1>6, <3>2 DEF DeleteRow
    <3>3. CASE db'[t] = db[t] /\ db[t] # mem[t]
      <4>1. CASE Written(t)
        BY <1>1, <3>3, <4>1, Release DEF Written
      <4>2. CASE t \in recovered
        <5>1. Booting /\ ~StartWorkers
          BY <4>2 DEF Phase, StartWorkers
        <5>2. ASSUME NEW u \in Tasks, StoreRecovered(u)
              PROVE  t \in recovered'
          BY <3>3, <4>2, <5>2 DEF StoreRecovered, Persist, Base, TaskerTypeOK
        <5>3. UNCHANGED vars => t \in recovered'
          BY <4>2 DEF vars
        <5>4. QED
          BY <1>3, <5>1, <5>2, <5>3, NothingElse
      <4>3. QED
        BY <2>1, <3>3, <4>1, <4>2
    <3>4. QED
      BY <2>1, <2>2, <3>1, <3>2, <3>3, DbStep DEF DbMoves
  <2>3. CASE EnqueueTask(t) \/ CancelTask(t)
    <3>1. lock' # None /\ lock'.op \in {"enqueue", "cancel"} /\ lock'.task = t
      BY <2>3, RecordTypes, TaskerAssumption DEF EnqueueTask, CancelTask
    <3>2. QED
      BY <3>1 DEF Written
  <2>4. CASE DeleteTask(t)
    BY <1>1, <2>4 DEF DeleteTask
  <2>5. ASSUME NEW w \in Workers, lock' = [op |-> "worker", task |-> t, by |-> w]
        PROVE  Written(t)'
    <3>1. lock' # None
      BY <2>5, RecordTypes, TaskerAssumption
    <3>2. QED
      BY <2>5, <3>1 DEF Written
  <2>6. QED
    BY <1>3, <1>6, <2>2, <2>3, <2>4, <2>5, MemStep DEF MemMoves
<1>7. QED
  BY <1>4, <1>5, <1>6

\* A worker lets an open task go only when its write has failed.
LEMMA LetsGo ==
  ASSUME Base, Single, Phase, Dictionary, [Next]_vars, NEW w \in Workers, NEW t \in Tasks,
         worker[w].task = t, worker'[w].task # t, Open(t), mem' = mem, process' = "up"
  PROVE  t \in disturbed'
<1>1. worker \in [Workers -> [pc : Steps, task : Tasks \cup {None}]] /\ t # None
  BY TaskerAssumption DEF Base, TaskerTypeOK
<1>2. mem[t] # Absent /\ worker[w] # Gone /\ worker'[w] # worker[w]
  BY <1>1, RestStates DEF Open, Absent
<1>3. ~Boot
  BY <1>2, RestStates DEF Boot, Start, StoreRecovered, StartWorkers, Phase, Idle
<1>4. ~Shutdown /\ ~FinishShutdown /\ ~Kill
  BY DEF Shutdown, FinishShutdown, Kill, Wiped
<1>5. ~ApiStep /\ ~CallFails /\ ~UNCHANGED vars
  BY <1>2 DEF ApiStep, CallFails, EnqueueTask, CancelTask, DeleteTask, StoreTask, StoreCancel, DeleteRow, vars
<1>6. ASSUME NEW v \in Workers, WorkerStep(v) \/ StoreFails(v)
      PROVE  v = w /\ ~GetTask(v)
  <2>1. ~GetTask(v)
    BY <1>1, <1>2, <1>6, Gets
  <2>2. QED
    BY <1>2, <1>6, <2>1, WorkerProceeds
<1>7. ~Update(w) /\ ~Fetch(w) /\ ~Report(w) /\ ~Return(w) /\ ~Raise(w)
  <2>1. \A s \in Steps : ~MoveTo(w, s)
    BY <1>1 DEF MoveTo
  <2>2. ~Fetch(w) /\ ~Report(w) /\ ~Return(w) /\ ~Raise(w)
    BY <1>2, <2>1 DEF Fetch, Report, Return, Raise, Steps
  <2>3. ~Update(w)
    BY <1>2 DEF Update
  <2>4. QED
    BY <2>2, <2>3
<1>8. CASE Store(w)
  <2>1. lock # None /\ lock.op = "worker" /\ lock.by = w /\ lock.task = t
    BY <1>8 DEF Store, Writing, Base, LockMatches
  <2>2. worker[w].pc \in Writers \cup {"run"} /\ worker[w].pc \notin {"begin", "run"}
    BY <1>1, <1>8, <2>1 DEF Store, Onwards, MoveTo, Base, LockMatches, Steps
  <2>3. mem[t].status = StatusAt(worker[w].pc)
    BY <2>1, <2>2 DEF Dictionary
  <2>4. QED
    BY <2>2, <2>3 DEF Open, StatusAt, Writers
<1>9. CASE StoreFails(w)
  BY <1>9 DEF StoreFails, Writing, Base, LockMatches
<1>10. QED
  BY <1>3, <1>4, <1>5, <1>6, <1>7, <1>8, <1>9 DEF Next, WorkerStep

\* Owned is inductive.
LEMMA OwnedStep ==
  ASSUME Base, Single, Unused, Phase, Dictionary, Owned, [Next]_vars
  PROVE  Owned'
<1>1. SUFFICES ASSUME process' = "up", NEW t \in Tasks, t \notin disturbed', Open(t)'
               PROVE  Held(t)' \/ Offered(t)'
  BY DEF Owned
<1>2. t \notin disturbed /\ process = "up" /\ ~Start /\ ~Kill /\ ~FinishShutdown
  BY <1>1, DisturbedStays, ProcessUp, OpenFrom
<1>3. CASE EnqueueTask(t)
  <2>1. lock' # None /\ lock'.op = "enqueue" /\ lock'.task = t
    BY <1>3, RecordTypes, TaskerAssumption DEF EnqueueTask
  <2>2. QED
    BY <2>1 DEF Offered
<1>4. CASE \E w \in Workers : Update(w) /\ worker[w].task = t /\ UNCHANGED worker
  BY <1>4 DEF Held
<1>5. CASE Open(t)
  <2>1. Held(t) \/ Offered(t)
    BY <1>2, <1>5 DEF Owned
  <2>2. CASE Offered(t)
    BY <1>1, <2>2, Release DEF Offered, Written, Held
  <2>3. CASE InQueue(t)
    <3>1. CASE queue' = queue
      BY <2>3, <3>1 DEF Held, InQueue
    <3>2. queue' = queue \/ StoreTask \/ \E w \in Workers : GetTask(w)
      BY <1>2 DEF Next, ApiStep, Boot, WorkerStep, vars, EnqueueTask, CancelTask, DeleteTask, StoreCancel,
             DeleteRow, StoreRecovered, StartWorkers, Fetch, Update, Report, Store, StoreFails, Return,
             Raise, CallFails, Shutdown
    <3>3. CASE StoreTask
      BY <2>3, <3>3, Queues DEF Held
    <3>4. ASSUME NEW w \in Workers, GetTask(w)
          PROVE  Held(t)'
      BY <2>3, <3>4, Gets DEF Held
    <3>5. QED
      BY <3>1, <3>2, <3>3, <3>4
  <2>4. ASSUME NEW w \in Workers, worker[w].task = t
        PROVE  Held(t)' \/ Offered(t)'
    <3>1. CASE worker'[w].task = t
      BY <3>1 DEF Held
    <3>2. CASE worker'[w].task # t /\ mem' = mem
      BY <1>1, <1>5, <2>4, <3>2, LetsGo
    <3>3. CASE mem' # mem
      <4>1. \A v \in Workers : ~Store(v) /\ ~StoreFails(v) /\ ~GetTask(v) /\ ~Fetch(v) /\ ~Report(v) /\ ~Return(v) /\ ~Raise(v)
        BY <3>3 DEF Store, StoreFails, GetTask, Fetch, Report, Return, Raise
      <4>2. \A v \in Workers : Update(v) => worker' = worker
        BY <3>3 DEF Update
      <4>3. ~Shutdown /\ ~StartWorkers
        BY <3>3 DEF Shutdown, StartWorkers
      <4>4. worker' = worker
        BY <1>2, <3>3, <4>1, <4>2, <4>3
           DEF Next, ApiStep, Boot, WorkerStep, vars, EnqueueTask, CancelTask, DeleteTask, StoreTask,
               StoreCancel, DeleteRow, StoreRecovered, CallFails
      <4>5. QED
        BY <2>4, <4>4 DEF Held
    <3>4. QED
      BY <3>1, <3>2, <3>3
  <2>5. QED
    BY <2>1, <2>2, <2>3, <2>4 DEF Held
<1>6. QED
  BY <1>1, <1>3, <1>4, <1>5, OpenFrom

-----------------------------------------------------------------------------
(* The inductive invariant and what it gives.                              *)

\* The inductive invariant.
Inv ==
  /\ Base /\ Single /\ Unused /\ Started /\ Stopped
  /\ Phase /\ Dictionary /\ Table /\ Copy /\ Owned

\* It holds at first.
LEMMA InvInit == Init => Inv
<1> SUFFICES ASSUME Init PROVE Inv
  OBVIOUS
<1>1. Base
  BY BaseInit
<1>2. /\ \A t : ~InQueue(t) /\ ~Offered(t)
      /\ \A w \in Workers : worker[w] = Gone /\ worker[w].task = None /\ worker[w].pc = "gone"
      /\ \A t \in Tasks : mem[t] = Absent /\ db[t] = Absent /\ runs[t] = 0
      /\ lock = None /\ ~Booting /\ recovered = {} /\ deleting = {} /\ stopped = {} /\ process = "down"
  BY RestStates, RecordTypes, TaskerAssumption DEF Init, InQueue, Offered, Booting
<1>3. Single /\ Unused /\ Started /\ Stopped
  BY <1>2, TaskerAssumption DEF Init, Single, Distinct, Unused, Unheld, Started, RunsOnce, Stopped, CancelledInQueue
<1>4. Phase /\ Dictionary /\ Copy /\ Owned
  BY <1>2 DEF Init, Phase, Idle, Dictionary, Copy, Owned
<1>5. Table
  BY <1>2 DEF Table, Absent, Terminal
<1>6. QED
  BY <1>1, <1>3, <1>4, <1>5 DEF Inv

\* Every step keeps it.
LEMMA InvStep == ASSUME Inv, [Next]_vars PROVE Inv'
  BY BaseStep, SingleStep, UnusedStep, StartedStep, StoppedStep, PhaseStep, DictionaryStep,
     TableStep, CopyStep, OwnedStep DEF Inv

\* It always holds.
LEMMA Invariance == Spec => []Inv
  BY InvInit, InvStep, PTL DEF Spec

\* The coroutine of a task is started at most once, over every restart of the process.
THEOREM RunsOnceCorrect == Spec => []RunsOnce
<1>1. Inv => RunsOnce
  BY DEF Inv, Started
<1>2. QED
  BY <1>1, Invariance, PTL

\* A task whose cancellation was acknowledged in the queue never runs.
THEOREM CancelledInQueueCorrect == Spec => []CancelledInQueue
<1>1. Inv => CancelledInQueue
  BY DEF Inv, Stopped
<1>2. QED
  BY <1>1, Invariance, PTL

\* While nothing is written, table and dictionary agree on every task no failed write hit.
THEOREM TableInStepCorrect == Spec => []TableInStep
<1>1. Inv => TableInStep
  BY RecordTypes, TaskerAssumption DEF Inv, TableInStep, Free, Copy, Written, Phase, Booting
<1>2. QED
  BY <1>1, Invariance, PTL

\* A task shown as pending or running is in the queue or with a worker.
THEOREM NoOrphanCorrect == Spec => []NoOrphan
<1>1. Inv => NoOrphan
  BY DEF Inv, NoOrphan, Free, Owned, Open, Offered
<1>2. QED
  BY <1>1, Invariance, PTL

\* What the table says of a finished task stands until the task is deleted.
THEOREM FinalInTableCorrect == Spec => FinalInTable
<1>1. ASSUME Inv, [Next]_vars, NEW t \in Tasks, db[t].status \in Terminal
      PROVE  db'[t] = Absent \/ db'[t].status = db[t].status
  <2>1. ~Held(t) /\ ~Offered(t) /\ ~Open(t) /\ t \notin recovered
    BY <1>1 DEF Inv, Table, Live
  <2>2. ~(StoreTask /\ t = lock.task) /\ ~(StoreCancel /\ t = lock.task)
    BY <1>1, <2>1 DEF StoreTask, StoreCancel, Offered, Inv, Dictionary
  <2>3. (\A w \in Workers : worker[w].task # t) /\ ~StoreRecovered(t)
    BY <2>1 DEF Held, StoreRecovered
  <2>4. DbMoves(t)
    BY <1>1, DbStep DEF Inv
  <2>5. QED
    BY <2>2, <2>3, <2>4 DEF DbMoves
<1>2. Inv /\ [Next]_vars =>
        [\A t \in Tasks : db[t].status \in Terminal =>
            db'[t] = Absent \/ db'[t].status = db[t].status]_vars
  BY <1>1
<1>3. QED
  BY <1>2, Invariance, PTL DEF Spec, FinalInTable

=============================================================================
