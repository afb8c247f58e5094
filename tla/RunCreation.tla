---------------------------- MODULE RunCreation -----------------------------
(***************************************************************************)
(* POST /chat/runs (create_agent_run_view): requests that carry a request  *)
(* id create a row, append the init event and enqueue the job, in this     *)
(* order and without a transaction around the three.  AgentRun starts      *)
(* where a run is queued.                                                  *)
(*                                                                         *)
(* A run is named after the request that creates it.  The checks of the    *)
(* query, the configuration and the thread come before any of this and     *)
(* refuse the request.                                                     *)
(***************************************************************************)
EXTENDS Integers, FiniteSets

CONSTANTS
    Requests,    \* calls of the endpoint
    RequestIds,  \* values of meta.request_id
    Users,
    NoRun,
    MaxFailures  \* bound: failures of the database, of Redis or of the API process

ASSUME CreationAssumption ==
    /\ NoRun \notin Requests
    /\ MaxFailures \in Nat
    /\ RequestIds # {} /\ Users # {}

VARIABLES
    ask,       \* what each request carries: its user and its request id
    pc,        \* where each request is
    found,     \* the run that its lookup returned
    inflight,  \* runs inserted by a transaction that has not committed
    rows,      \* agent_runs, as committed
    opened,    \* runs whose event stream begins with the init event
    queued,    \* runs whose job has been handed to ARQ
    failures   \* failures so far

vars == <<ask, pc, found, inflight, rows, opened, queued, failures>>

Steps == {"lookup", "insert", "commit", "relookup", "pool", "open", "enqueue",
          "answered", "refused", "failed"}

CreationTypeOK ==
    /\ ask \in [Requests -> [user : Users, id : RequestIds]]
    /\ pc \in [Requests -> Steps]
    /\ found \in [Requests -> Requests \cup {NoRun}]
    /\ inflight \subseteq Requests
    /\ rows \subseteq Requests
    /\ opened \subseteq Requests
    /\ queued \subseteq Requests
    /\ failures \in 0..MaxFailures

Init ==
    /\ ask \in [Requests -> [user : Users, id : RequestIds]]
    /\ pc = [r \in Requests |-> "lookup"]
    /\ found = [r \in Requests |-> NoRun]
    /\ inflight = {} /\ rows = {} /\ opened = {} /\ queued = {}
    /\ failures = 0

Goto(r, step) == pc' = [pc EXCEPT ![r] = step]

\* get_run_by_request_id.
WithIdOf(r, runs) == {run \in runs : ask[run].id = ask[r].id}

\* Mutants: the owner of the run is not looked at; the answer names the request id.
AnswerWithId(r, run) ==
    IF ask[run].user = ask[r].user
    THEN Goto(r, "answered") /\ found' = [found EXCEPT ![r] = ask[run].id]
    ELSE Goto(r, "refused") /\ UNCHANGED found

AnswerAny(r, run) == Goto(r, "answered") /\ found' = [found EXCEPT ![r] = run]

\* A run of the caller is the answer; a run of somebody else is a conflict.
Answer(r, run) ==
    IF ask[run].user = ask[r].user
    THEN Goto(r, "answered") /\ found' = [found EXCEPT ![r] = run]
    ELSE Goto(r, "refused") /\ UNCHANGED found

Lookup(r) ==
    /\ pc[r] = "lookup"
    /\ \/ \E run \in WithIdOf(r, rows) : Answer(r, run)
       \/ WithIdOf(r, rows) = {} /\ Goto(r, "insert") /\ UNCHANGED found
    /\ UNCHANGED <<ask, inflight, rows, opened, queued, failures>>

\* Mutant: request_id is not unique.
InsertAnyway(r) ==
    /\ pc[r] = "insert"
    /\ inflight' = inflight \cup {r} /\ Goto(r, "commit")
    /\ UNCHANGED <<ask, found, rows, opened, queued, failures>>

\* create_run flushes the INSERT, which waits for another transaction that has
\* inserted the request id, and fails if that one has committed.
Insert(r) ==
    /\ pc[r] = "insert" /\ WithIdOf(r, inflight) = {}
    /\ IF WithIdOf(r, rows) = {}
       THEN inflight' = inflight \cup {r} /\ Goto(r, "commit")
       ELSE Goto(r, "relookup") /\ UNCHANGED inflight
    /\ UNCHANGED <<ask, found, rows, opened, queued, failures>>

Commit(r) ==
    /\ pc[r] = "commit" /\ Goto(r, "pool")
    /\ inflight' = inflight \ {r} /\ rows' = rows \cup {r}
    /\ UNCHANGED <<ask, found, opened, queued, failures>>

\* IntegrityError: the row of the other request is there by now.
Relookup(r) ==
    /\ pc[r] = "relookup"
    /\ \E run \in WithIdOf(r, rows) : Answer(r, run)
    /\ UNCHANGED <<ask, inflight, rows, opened, queued, failures>>

\* Mutant: the job is enqueued first.
GetPoolAndEnqueue(r) ==
    /\ pc[r] = "pool" /\ Goto(r, "open") /\ queued' = queued \cup {r}
    /\ UNCHANGED <<ask, found, inflight, rows, opened, failures>>

\* get_arq_pool.
GetPool(r) ==
    /\ pc[r] = "pool" /\ Goto(r, "open")
    /\ UNCHANGED <<ask, found, inflight, rows, opened, queued, failures>>

OpenStream(r) ==
    /\ pc[r] = "open" /\ Goto(r, "enqueue") /\ opened' = opened \cup {r}
    /\ UNCHANGED <<ask, found, inflight, rows, queued, failures>>

\* Mutant: the job is not handed over.
EnqueueNothing(r) ==
    /\ pc[r] = "enqueue" /\ Goto(r, "answered") /\ found' = [found EXCEPT ![r] = r]
    /\ UNCHANGED <<ask, inflight, rows, opened, queued, failures>>

\* enqueue_job with _job_id run:<id>.
Enqueue(r) ==
    /\ pc[r] = "enqueue" /\ Goto(r, "answered") /\ found' = [found EXCEPT ![r] = r]
    /\ queued' = queued \cup {r}
    /\ UNCHANGED <<ask, inflight, rows, opened, failures>>

\* An error at any step, or the end of the API process: an open transaction is
\* rolled back, what is committed stays.
Fail(r) ==
    /\ pc[r] \notin {"answered", "refused", "failed"}
    /\ failures < MaxFailures /\ failures' = failures + 1
    /\ Goto(r, "failed") /\ inflight' = inflight \ {r}
    /\ UNCHANGED <<ask, found, rows, opened, queued>>

Proceed(r) == \/ Lookup(r) \/ Insert(r) \/ Commit(r) \/ Relookup(r)
              \/ GetPool(r) \/ OpenStream(r) \/ Enqueue(r)

Next == \E r \in Requests : Proceed(r) \/ Fail(r)

Spec == Init /\ [][Next]_vars
FairSpec == Spec /\ \A r \in Requests : WF_vars(Proceed(r))

-----------------------------------------------------------------------------
(* Properties.                                                             *)

\* However requests with one id race, they make one run ("Idempotency request ID").
OneRunPerRequestId ==
    \A a, b \in rows : ask[a].id = ask[b].id => a = b

\* A caller is only ever given a run of its own, for the id it sent.
AnsweredWithOwnRun ==
    \A r \in Requests : pc[r] = "answered" =>
        /\ found[r] \in rows
        /\ ask[found[r]] = ask[r]

\* A worker that takes a job finds the row, and the init event is the first of
\* the stream: the initial state of RunLifecycle.
QueuedRunIsReady == queued \subseteq rows \cap opened

\* An answered run gets its job, unless the request that created it failed between
\* the commit and the queue.
AnsweredRunIsQueued ==
    \A r \in Requests : (pc[r] = "answered") ~>
        found[r] \in queued \cup {run \in Requests : pc[run] = "failed"}

\* The run of a request id, and what a request has been told.
RunOf(id) == IF \E r \in rows : ask[r].id = id THEN CHOOSE r \in rows : ask[r].id = id ELSE NoRun
ReplyTo(r) ==
    [state |-> IF pc[r] \in {"answered", "refused", "failed"} THEN pc[r] ELSE "waiting",
     run   |-> IF pc[r] = "answered" THEN found[r] ELSE NoRun]

Register == INSTANCE GetOrCreate
                WITH run <- [id \in RequestIds |-> RunOf(id)],
                     reply <- [r \in Requests |-> ReplyTo(r)]

\* The endpoint is a register that is written once for each request id, although it
\* looks, inserts and looks again in transactions of their own.
ImplementsRegister == Register!RegisterSpec
=============================================================================
