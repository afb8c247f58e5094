------------------------------- MODULE Tasker -------------------------------
(***************************************************************************)
(* The background tasks of the API process (task_service.Tasker): an       *)
(* asyncio queue, worker loops, one asyncio.Lock, a dictionary of tasks    *)
(* and its copy in PostgreSQL; start, shutdown, enqueue, cancel, delete,   *)
(* and the restarts of the process.                                        *)
(*                                                                         *)
(* The only await under the lock is the write of a row: an operation takes *)
(* the lock and changes the dictionary in one step, then writes the row    *)
(* and releases the lock in another.  Progress, messages and results are   *)
(* left out: they are written with the row.                                *)
(***************************************************************************)
EXTENDS Integers, Sequences, FiniteSets

CONSTANTS
    Tasks,          \* task ids (uuid4)
    Workers,        \* worker loops
    None,
    MaxDbFailures,  \* bound: writes that fail
    MaxStops        \* bound: shutdowns and deaths of the process

\* Operations that hold the lock over an await.
Locked == [op : {"enqueue", "cancel", "worker"}, task : Tasks, by : Workers \cup {None}]
          \cup [op : {"start", "shutdown"}]

ASSUME TaskerAssumption ==
    /\ None \notin Tasks \cup Workers \cup Locked
    /\ MaxDbFailures \in Nat /\ MaxStops \in Nat

VARIABLES
    process,    \* the API process
    lock,       \* None, or the operation that holds Tasker._lock
    mem,        \* Tasker._tasks
    db,         \* the tasks table
    queue,      \* Tasker._queue
    worker,     \* the worker loops
    deleting,   \* tasks whose DELETE is still to run
    recovered,  \* tasks of _load_state whose new status is still to be written
    dbFailures, stops,  \* failures and stops so far
    used,       \* history: ids given to enqueue
    runs,       \* history: how often the coroutine of a task was started
    disturbed,  \* history: tasks a failed write has hit
    stopped     \* history: tasks whose cancellation was acknowledged in the queue

histVars == <<used, runs, disturbed, stopped>>
boundVars == <<dbFailures, stops>>
vars == <<process, lock, mem, db, queue, worker, deleting, recovered, boundVars, histVars>>

-----------------------------------------------------------------------------
Terminal == {"success", "failed", "cancelled"}
Statuses == Terminal \cup {"pending", "running"}
Rows == [status : Statuses, cancel : BOOLEAN]

Absent == [status |-> "absent", cancel |-> FALSE]

\* get: at the queue; fetch: has a task id; begin: about to say running; run: in
\* the coroutine; the others are about to say how it ended.
Steps == {"gone", "get", "fetch", "begin", "run", "succeed", "fail",
          "drop", "cancel", "caught"}

TaskerTypeOK ==
    /\ process \in {"down", "up", "stopping"}
    /\ lock \in Locked \cup {None}
    /\ mem \in [Tasks -> Rows \cup {Absent}]
    /\ db \in [Tasks -> Rows \cup {Absent}]
    /\ queue \in Seq(Tasks)
    /\ worker \in [Workers -> [pc : Steps, task : Tasks \cup {None}]]
    /\ deleting \subseteq Tasks
    /\ recovered \subseteq Tasks
    /\ dbFailures \in 0..MaxDbFailures /\ stops \in 0..MaxStops
    /\ used \subseteq Tasks
    /\ runs \in [Tasks -> Nat]
    /\ disturbed \subseteq Tasks /\ stopped \subseteq Tasks

Gone == [pc |-> "gone", task |-> None]
AtQueue == [pc |-> "get", task |-> None]

Init ==
    /\ process = "down" /\ lock = None /\ queue = <<>>
    /\ mem = [t \in Tasks |-> Absent] /\ db = [t \in Tasks |-> Absent]
    /\ worker = [w \in Workers |-> Gone]
    /\ deleting = {} /\ recovered = {} /\ dbFailures = 0 /\ stops = 0
    /\ used = {} /\ runs = [t \in Tasks |-> 0] /\ disturbed = {} /\ stopped = {}

Free == process = "up" /\ lock = None

Fault == dbFailures < MaxDbFailures /\ dbFailures' = dbFailures + 1

\* _persist_task: the whole row, inserted if it is not there.
Persist(t) == db' = [db EXCEPT ![t] = mem[t]]

MoveTo(w, step) == worker' = [worker EXCEPT ![w].pc = step]
NextTask(w) == worker' = [worker EXCEPT ![w] = AtQueue]

-----------------------------------------------------------------------------
(* Calls of the API.                                                       *)

\* The lock is held over the write and the put.
EnqueueTask(t) ==
    /\ Free /\ t \notin used /\ used' = used \cup {t}
    /\ mem' = [mem EXCEPT ![t] = [status |-> "pending", cancel |-> FALSE]]
    /\ lock' = [op |-> "enqueue", task |-> t, by |-> None]
    /\ UNCHANGED <<process, db, queue, worker, deleting, recovered, boundVars,
                   runs, disturbed, stopped>>

\* Mutants: the task is queued, its row comes with the first update; the row is
\* written, the task is not queued.
QueueTask ==
    /\ lock # None /\ lock.op = "enqueue"
    /\ queue' = Append(queue, lock.task) /\ lock' = None
    /\ UNCHANGED <<process, mem, db, worker, deleting, recovered, boundVars, histVars>>

StoreTaskOnly ==
    /\ lock # None /\ lock.op = "enqueue"
    /\ Persist(lock.task) /\ lock' = None
    /\ UNCHANGED <<process, mem, queue, worker, deleting, recovered, boundVars, histVars>>

StoreTask ==
    /\ lock # None /\ lock.op = "enqueue"
    /\ Persist(lock.task) /\ queue' = Append(queue, lock.task) /\ lock' = None
    /\ UNCHANGED <<process, mem, worker, deleting, recovered, boundVars, histVars>>

\* Mutant: nobody checks that there is such a task.
CancelAnyTask(t) ==
    /\ Free /\ mem[t].status \notin Terminal
    /\ mem' = [mem EXCEPT ![t].cancel = TRUE]
    /\ lock' = [op |-> "cancel", task |-> t, by |-> None]
    /\ UNCHANGED <<process, db, queue, worker, deleting, recovered, boundVars, histVars>>

CancelTask(t) ==
    /\ Free /\ mem[t] # Absent /\ mem[t].status \notin Terminal
    /\ mem' = [mem EXCEPT ![t].cancel = TRUE]
    /\ lock' = [op |-> "cancel", task |-> t, by |-> None]
    /\ UNCHANGED <<process, db, queue, worker, deleting, recovered, boundVars, histVars>>

InQueue(t) == \E i \in 1..Len(queue) : queue[i] = t

StoreCancel ==
    /\ lock # None /\ lock.op = "cancel"
    /\ Persist(lock.task) /\ lock' = None
    /\ stopped' = IF InQueue(lock.task) THEN stopped \cup {lock.task} ELSE stopped
    /\ UNCHANGED <<process, mem, queue, worker, deleting, recovered, boundVars,
                   used, runs, disturbed>>

\* The task leaves the dictionary under the lock, its row goes after the release.
DeleteTask(t) ==
    /\ Free /\ mem[t] # Absent
    /\ mem' = [mem EXCEPT ![t] = Absent] /\ deleting' = deleting \cup {t}
    /\ UNCHANGED <<process, lock, db, queue, worker, recovered, boundVars, histVars>>

DeleteRow(t) ==
    /\ t \in deleting /\ deleting' = deleting \ {t}
    /\ \/ db' = [db EXCEPT ![t] = Absent] /\ UNCHANGED <<dbFailures, disturbed>>
       \/ Fault /\ disturbed' = disturbed \cup {t} /\ UNCHANGED db
    /\ UNCHANGED <<process, lock, mem, queue, worker, recovered, stops, used, runs, stopped>>

\* The write of enqueue or cancel fails: the caller gets the error, the dictionary
\* keeps the change, a new task is not queued.
CallFails ==
    /\ lock # None /\ lock.op \in {"enqueue", "cancel"} /\ Fault
    /\ disturbed' = disturbed \cup {lock.task} /\ lock' = None
    /\ UNCHANGED <<process, mem, db, queue, worker, deleting, recovered, stops,
                   used, runs, stopped>>

-----------------------------------------------------------------------------
(* _worker_loop.                                                           *)

GetTask(w) ==
    /\ process = "up" /\ worker[w].pc = "get" /\ queue # <<>>
    /\ worker' = [worker EXCEPT ![w] = [pc |-> "fetch", task |-> Head(queue)]]
    /\ queue' = Tail(queue)
    /\ UNCHANGED <<process, lock, mem, db, deleting, recovered, boundVars, histVars>>

\* Mutant: the flag of a task is not looked at before it starts.
FetchBlindly(w) ==
    /\ Free /\ worker[w].pc = "fetch"
    /\ IF mem[worker[w].task] = Absent THEN NextTask(w) ELSE MoveTo(w, "begin")
    /\ UNCHANGED <<process, lock, mem, db, queue, deleting, recovered, boundVars, histVars>>

\* _get_task_instance, then the test of cancel_requested.
Fetch(w) ==
    /\ Free /\ worker[w].pc = "fetch"
    /\ LET t == worker[w].task
       IN  IF mem[t] = Absent THEN NextTask(w)
           ELSE MoveTo(w, IF mem[t].cancel THEN "drop" ELSE "begin")
    /\ UNCHANGED <<process, lock, mem, db, queue, deleting, recovered, boundVars, histVars>>

\* The status each step writes: before the coroutine begin and drop, after it
\* succeed, fail and cancel, in the handler of CancelledError caught.
StatusAt(step) == CASE step = "begin" -> "running"
                    [] step = "succeed" -> "success"
                    [] step = "fail" -> "failed"
                    [] step \in {"drop", "cancel", "caught"} -> "cancelled"

Writers == {"begin", "succeed", "fail", "drop", "cancel", "caught"}

\* Where a worker goes when the write is done.
Onwards(w) == IF worker[w].pc \in {"begin", "run"} THEN MoveTo(w, "run") ELSE NextTask(w)

StartRun(t) == runs' = [runs EXCEPT ![t] = @ + 1]

\* _update_task: nothing is written for a task that has been deleted.
Update(w) ==
    /\ Free /\ worker[w].pc \in Writers
    /\ LET t == worker[w].task
       IN  IF mem[t] = Absent
           THEN /\ Onwards(w) /\ UNCHANGED <<lock, mem>>
                /\ IF worker[w].pc = "begin" THEN StartRun(t) ELSE UNCHANGED runs
           ELSE /\ mem' = [mem EXCEPT ![t].status = StatusAt(worker[w].pc)]
                /\ lock' = [op |-> "worker", task |-> t, by |-> w]
                /\ UNCHANGED <<worker, runs>>
    /\ UNCHANGED <<process, db, queue, deleting, recovered, boundVars, used, disturbed, stopped>>

\* set_progress, set_message and set_result of the running coroutine.
Report(w) ==
    /\ Free /\ worker[w].pc = "run" /\ mem[worker[w].task] # Absent
    /\ lock' = [op |-> "worker", task |-> worker[w].task, by |-> w]
    /\ UNCHANGED <<process, mem, db, queue, worker, deleting, recovered, boundVars, histVars>>

Writing(w) == lock # None /\ lock.op = "worker" /\ lock.by = w

Store(w) ==
    /\ Writing(w)
    /\ Persist(lock.task) /\ lock' = None /\ Onwards(w)
    /\ IF worker[w].pc = "begin" THEN StartRun(lock.task) ELSE UNCHANGED runs
    /\ UNCHANGED <<process, mem, queue, deleting, recovered, boundVars, used, disturbed, stopped>>

\* The write fails.  Inside the inner try block the exception fails the task, in
\* its handlers and before it the worker logs it and takes the next task.
StoreFails(w) ==
    /\ Writing(w) /\ Fault
    /\ lock' = None /\ disturbed' = disturbed \cup {lock.task}
    /\ IF worker[w].pc \in {"run", "succeed", "cancel"} THEN MoveTo(w, "fail") ELSE NextTask(w)
    /\ UNCHANGED <<process, mem, db, queue, deleting, recovered, stops, used, runs, stopped>>

\* The coroutine returns; cancel_requested is read without the lock.
Return(w) ==
    /\ process = "up" /\ worker[w].pc = "run" /\ ~Writing(w)
    /\ MoveTo(w, IF mem[worker[w].task].cancel THEN "cancel" ELSE "succeed")
    /\ UNCHANGED <<process, lock, mem, db, queue, deleting, recovered, boundVars, histVars>>

\* It raises, or raise_if_cancelled does.
Raise(w) ==
    /\ process = "up" /\ worker[w].pc = "run" /\ ~Writing(w)
    /\ \/ MoveTo(w, "fail")
       \/ mem[worker[w].task].cancel /\ MoveTo(w, "caught")
    /\ UNCHANGED <<process, lock, mem, db, queue, deleting, recovered, boundVars, histVars>>

WorkerStep(w) == GetTask(w) \/ Fetch(w) \/ Update(w) \/ Report(w) \/ Store(w)
                 \/ Return(w) \/ Raise(w)

-----------------------------------------------------------------------------
(* Start and end of the process.                                           *)

\* Mutants: a settled task is loaded as failed too; what was pending or running is
\* loaded as it is; it is queued again.
RecoverAll ==
    /\ process = "down" /\ process' = "up" /\ lock' = [op |-> "start"]
    /\ recovered' = {t \in Tasks : db[t] # Absent}
    /\ mem' = [t \in Tasks |-> IF t \in recovered' THEN [db[t] EXCEPT !.status = "failed"]
                               ELSE db[t]]
    /\ UNCHANGED <<db, queue, worker, deleting, boundVars, histVars>>

LoadAsIs ==
    /\ process = "down" /\ process' = "up" /\ lock' = [op |-> "start"]
    /\ mem' = db
    /\ UNCHANGED <<db, queue, worker, deleting, recovered, boundVars, histVars>>

LoadIntoQueue ==
    /\ process = "down" /\ process' = "up" /\ lock' = [op |-> "start"]
    /\ mem' = db
    /\ \E t \in Tasks : queue' = IF db[t].status = "running" THEN <<t>> ELSE queue
    /\ UNCHANGED <<db, worker, deleting, recovered, boundVars, histVars>>

\* _load_state: what was pending or running is failed; nothing is queued again.
Start ==
    /\ process = "down" /\ process' = "up" /\ lock' = [op |-> "start"]
    /\ recovered' = {t \in Tasks : db[t].status \in {"pending", "running"}}
    /\ mem' = [t \in Tasks |-> IF t \in recovered' THEN [db[t] EXCEPT !.status = "failed"]
                               ELSE db[t]]
    /\ UNCHANGED <<db, queue, worker, deleting, boundVars, histVars>>

Booting == lock = [op |-> "start"]

StoreRecovered(t) ==
    /\ Booting /\ t \in recovered /\ Persist(t) /\ recovered' = recovered \ {t}
    /\ UNCHANGED <<process, lock, mem, queue, worker, deleting, boundVars, histVars>>

StartWorkers ==
    /\ Booting /\ recovered = {} /\ lock' = None
    /\ worker' = [w \in Workers |-> AtQueue]
    /\ UNCHANGED <<process, mem, db, queue, deleting, recovered, boundVars, histVars>>

Stop == stops < MaxStops /\ stops' = stops + 1

\* The exception that cancel() raises in a worker, wherever it awaits.  In the
\* coroutine, and in what follows it inside the inner try block, it is caught and
\* the worker goes on to _mark_cancelled; elsewhere the loop ends.
Interrupted(state) ==
    IF state.pc \in {"run", "succeed", "cancel"} THEN [state EXCEPT !.pc = "caught"] ELSE Gone

\* shutdown takes the lock, cancels the workers and waits for them.
Shutdown ==
    /\ Free /\ Stop /\ process' = "stopping" /\ lock' = [op |-> "shutdown"]
    /\ worker' = [w \in Workers |-> Interrupted(worker[w])]
    /\ UNCHANGED <<mem, db, queue, deleting, recovered, dbFailures, histVars>>

Wiped == /\ process' = "down" /\ lock' = None /\ queue' = <<>>
         /\ mem' = [t \in Tasks |-> Absent]
         /\ worker' = [w \in Workers |-> Gone]
         /\ deleting' = {} /\ recovered' = {}

FinishShutdown ==
    /\ process = "stopping" /\ \A w \in Workers : worker[w] = Gone
    /\ Wiped /\ disturbed' = disturbed \cup deleting
    /\ UNCHANGED <<db, boundVars, used, runs, stopped>>

\* The process is killed.
Kill ==
    /\ process # "down" /\ Stop /\ Wiped /\ disturbed' = disturbed \cup deleting
    /\ UNCHANGED <<db, dbFailures, used, runs, stopped>>

ApiStep == \/ \E t \in Tasks : EnqueueTask(t) \/ CancelTask(t) \/ DeleteTask(t)
           \/ StoreTask \/ StoreCancel \/ \E t \in Tasks : DeleteRow(t)

Boot == Start \/ (\E t \in Tasks : StoreRecovered(t)) \/ StartWorkers

Next == \/ ApiStep \/ Boot
        \/ \E w \in Workers : WorkerStep(w) \/ StoreFails(w)
        \/ CallFails \/ Shutdown \/ FinishShutdown \/ Kill

Spec == Init /\ [][Next]_vars

\* A started process goes on, a waiter gets the lock (asyncio.Lock is first come,
\* first served), a coroutine ends and does not report for ever.
Fairness ==
    /\ WF_vars(Boot) /\ WF_vars(StoreTask \/ StoreCancel \/ CallFails)
    /\ WF_vars(FinishShutdown)
    /\ WF_vars(\E w \in Workers : Store(w) \/ StoreFails(w))
    /\ \A w \in Workers :
         SF_vars(GetTask(w) \/ Fetch(w) \/ Update(w) \/ Return(w) \/ Raise(w))

FairSpec == Spec /\ Fairness

-----------------------------------------------------------------------------
(* Properties.                                                             *)

\* What the table says of a finished task stands: no retry of a write, late
\* cancellation or restart changes it (deleting the task removes it).
FinalInTable ==
    [][\A t \in Tasks : db[t].status \in Terminal =>
           db'[t] = Absent \/ db'[t].status = db[t].status]_vars

\* The coroutine of a task is started at most once, over all restarts.
RunsOnce == \A t \in Tasks : runs[t] <= 1

\* A cancellation acknowledged while the task is queued keeps it from running.
CancelledInQueue == \A t \in stopped : runs[t] = 0

\* Whenever nothing is being written, table and dictionary agree on every task
\* that no failed write has hit.
TableInStep ==
    Free => \A t \in Tasks \ (disturbed \cup deleting) : db[t] = mem[t]

\* A task shown as pending or running is really going to be worked on.
Held(t) == InQueue(t) \/ \E w \in Workers : worker[w].task = t
NoOrphan ==
    Free => \A t \in Tasks \ disturbed :
        mem[t].status \in {"pending", "running"} => Held(t)

\* Every task is finished, unless a write failed or the process is going down.
TaskEnds ==
    \A t \in Tasks : (mem[t] # Absent) ~>
        (mem[t].status \notin {"pending", "running"} \/ t \in disturbed \/ process # "up")

\* "Tasker shutdown complete": a shutdown that has begun comes to its end.
ShutdownCompletes == (process = "stopping") ~> (process # "stopping")
=============================================================================
