# Verification of Tugas_Akhir (Yunesa)

The repository is an agentic RAG platform: a FastAPI backend (`src/backend/server`,
`src/backend/package/yunesa`), an ARQ worker, a Vue client (`src/web`), a sandbox provisioner
(`src/docker/sandbox_provisioner`) and the academic data pipelines (`src/backend/package/knowledge`,
`src/orchestration`).  This directory holds TLA+ models of its concurrent core and of the pipelines, the
TLC configurations that check them, and proofs.  Paths below are relative to `src/backend/package/yunesa` unless they start
with `src/`.

## 1. Inventory

| Component | State | Operations | Talks to | Hard behaviour | What makes it correct |
|---|---|---|---|---|---|
| Run creation (`services/agent_run_service.py`) | `agent_runs` rows, ARQ queue, Redis stream | `create_agent_run_view` | PostgreSQL, Redis, ARQ | duplicate requests, failure between commit and queue | one run per request id, own runs only, a queued run is complete |
| Run worker (`services/run_worker.py`, `services/run_queue_service.py`, `repositories/agent_run_repository.py`) | row, cancel key, event stream, attempt in memory | `process_agent_run`, `cancel_agent_run_view` | chat service, Redis, PostgreSQL, ARQ | cancellation racing an ending, retries, crashes, failures inside handlers | an outcome is decided once and announced first; cancellation is not lost; every run ends |
| Event stream and page (`stream_agent_run_events`, `src/web/src/composables/useAgentRunStream.js`) | cursor, connection, thread state, `localStorage` snapshot | poll, list, close; start, receive, reconnect, resume, finalize | row and stream of the run | lost connections, timers, stale snapshots | no event skipped or handled twice, no early stop, no endless wait |
| Tasker (`services/task_service.py`) | dictionary, queue, lock, `tasks` table | `start`, `shutdown`, `enqueue`, `cancel_task`, `delete_task`, worker loops | PostgreSQL, task coroutines | cancellation, failed writes, restart, shutdown | table in step with memory, each task runs once and ends |
| Chat service (`services/chat_service.py`) | conversation rows, LangGraph checkpoint | `stream_agent_chat` | LangGraph, content guard, Langfuse | partial answers, interrupts | order of the chunks it yields |
| Knowledge bases (`knowledge/`, `src/backend/server/routers/knowledge_router.py`) | database rows, Milvus collections | reads, deletion of a record; every document operation of the API answers 410 (`_reject_document_runtime`) | PostgreSQL | none reachable: the document runtime is disabled | not modelled |
| Sandboxes (`agents/backends/sandbox`, `src/docker/sandbox_provisioner/app.py`) | per process: connections and touch times; in the provisioner: containers, activity table, backend lock | `get`, `shutdown`; create, discover, touch, delete; the idle reaper | Docker or Kubernetes | reaping that races use, two processes with caches of their own, restarts, starts longer than the client waits | a running command keeps its sandbox, an idle sandbox goes away, a process finds the living sandbox again |
| Papers ETL (`src/backend/package/knowledge/etl/services/unesa_papers.py`, DAG `src/orchestration/dags/unesa_papers_dag.py`) | artifacts on a shared volume, the `papers` table, retries in Airflow | extract from Scopus and Scholar, transform, enrich, load | Scopus, SerpAPI, providers of abstracts and keywords, PostgreSQL | files written in place, checkpoints, reuse of fresh artifacts, failed requests that look like empty answers, a list that shrinks under its index, a quota | nothing found or paid for is lost, a skipped author is covered, each row is tried once per run, findable papers reach the table |
| Knowledge graph construction (`.../etl/services/kg_service.py`, `kg_storage_service.py`, `src/notebooks/build-graph/src/yunesa_academic_kg.py`) | artifacts, the build summary, Neo4j, Milvus | load, extract, build, write Neo4j, write Milvus | PostgreSQL, Neo4j, Milvus | writes in batches without a transaction, retries that insert again, several graphs in the same stores, reports in a file that all tasks rewrite | a report of success is true, a rebuild leaves exactly the graph that was built |
| Lecturers ETL, evaluation, skills, MCP, OIDC, conversations, GraphRAG, chunking, parsers, graph adapters, notebooks | database rows and files | request-scoped or single-pass | PostgreSQL, Neo4j, Milvus, external sites | little of their own | see `PROJECT.json` for why they are left out |

## 2. The modules

```
RunCreation ── queued run ──▶ AgentRun ── implements ──▶ RunLifecycle ◀── follows ── RunStream
implements GetOrCreate
RunCreationProofs             AgentRunProofs                              RunStreamProofs
                                    └────────────────── ServedRun ──────────────┘
Tasker                        Sandbox                   (…Proofs, ServedRun: theorems)
TaskerProofs                  SandboxProofs
PaperEtl ── the papers table ──▶ KgConstruction
PaperEtlProofs                   KgConstructionProofs
```

The core of the system is the agent run.  Three processes that share no memory work on one
run: the API process creates it, cancels it and serves its event stream, the ARQ worker
executes it, and a page of the browser follows it.  They meet in one PostgreSQL row, one Redis
stream and one Redis key.  `RunLifecycle` is what the run promises to a follower.  `AgentRun` is the worker
and the cancel requests, shown to keep that promise; `RunStream` starts from the promise and so
does not repeat the worker; `RunCreation` ends where `AgentRun` begins (`QueuedRunIsReady` is the
initial state of `AgentRun`).  `ServedRun` puts `AgentRun` and `RunStream` on one row and one stream.  `Tasker` is the other scheduler of the API process.  `Sandbox` is where the tools of an agent run
execute their commands; it shares no state with the others.  The two pipelines run beside all this, in
containers that Airflow starts: `PaperEtl` fills the table from which `KgConstruction` builds the graph that the tools
of an agent query.  They meet only in that table, which the second reads once per run and treats as given.

### RunLifecycle (abstract)

`status`, `log` (the kinds of the events) and `plain` (the chunks can be parsed and the owner
exists), and `asked`, the cancel requests that have read the run while it was open.  A run appends events, moves among the
open statuses, and is resolved, while it is plain only after the log holds an event that announces that outcome.  The promise has
the gap that the code has: `Cancel` overwrites whatever the status is by then, so that a resolved run may be reopened, by such a request and
by nothing else.

### AgentRun: `services/run_worker.py`, `services/run_queue_service.py`, `repositories/agent_run_repository.py`

| Model | Code |
|---|---|
| `status`, `rowLock` | the `agent_runs` row and the transaction that holds it `FOR UPDATE` |
| `cancel`, `cancelKey` | the requests in `cancel_agent_run_view`, each with what it has read of the status (`writes`); `run:cancel:<id>` |
| `job`, `tries` | the ARQ job `run:<id>`; `ctx["job_try"]` |
| `w` | the locals of `process_agent_run`: where it is, what the answer may still yield, `terminal_set`, the buffer of `ChunkedEventWriter`, `RunContext.cancel_event` |
| `events` | `run:events:<id>` |
| `ReadRun` / `LockRow` / `Publish` / `CommitCancel` / `RollBack` | the plain SELECT of `get_run_for_user`; the SELECT FOR UPDATE of `request_cancel`, which leaves the attributes of the loaded row as they are; `publish_cancel_signal`; the commit of `get_db` after the handler, and its rollback |
| `LoadRun`, `RejectRun`, `MarkRunning` | the start of an attempt |
| `Buffer`, `TakeChunk`, `AppendEvent`, `JudgeInterruption`, `SettleRun`, `CheckCancelled` | one turn of the loop over the chunks |
| `WatchSignal`, `LeaveStream` | the watcher task and `_consume_stream_with_cancel` |
| `Drain`, `Complete`, `Announce` | the end of the answer |
| `Abort`, `Report`, `Conclude`, `ClearSignal` | the handlers and the `finally` block |
| `FinishJob` | what ARQ makes of the coroutine that has ended: a cancelled job may be run again, any other is over |
| `BrokenOff`, `BreakOff`, `BreakBuffer` | how far a flush and an append get before they fail or are cancelled: nothing written, the buffer only, or XADD done and EXPIRE not |
| `CancelInTry`, `CancelInHandler`, `CancelOutside` | where ARQ's `CancelledError` arrives: the `except CancelledError` of the worker takes the first for a cancellation by the user; the second leaves through `finally`, which clears the key; the third leaves at once |
| `DatabaseFails`, `RedisFails`, `Crash`, `KeyExpires`, `DeleteUser` | the other failures; each leaves the attempt where the handlers of the code put it |

`Yields` is the order in which `stream_agent_chat` yields kinds of chunks.  A *garbled* run is one
whose query holds U+2028, U+2029 or U+0085: the worker splits what it gets with `splitlines()`, so
every chunk that repeats the query in its metadata is torn and dropped, and the run is completed by the
fall-through at the end.

ARQ runs a job again after a crash or a cancellation, not because it raised: an attempt that raises `RetryableRunError` is the last
one (`RetryDue` in `RunSettles`).  Two history variables let properties name what the code gives up: `reopened`, a cancel request
has overwritten a final status; `lapsed`, the cancel key expired, or an attempt cleared it that was cancelled in
a handler or died before its job was over.  The length and age limits of the Redis stream (`MAXLEN`, TTL) are not modelled: an event stays
in the stream.

### RunCreation: `create_agent_run_view`

`GetOrCreate` is what the endpoint promises: a register that is written once for each request id, with the run of the
first request that gets there, from which every request is answered; only the request that wrote it queues the job.
Its `Create` is the commit of the row, its `Confirm` and `Refuse` the moment a request finds the row or queues the job.
`RunOf` and `ReplyTo` map the tables to it.

One process per request: look the request id up, insert (a unique index that waits for an open
transaction with the same id), commit, pool, init event, enqueue.  A failure may end any of the steps
and rolls back only what is not committed.

### RunStream: `stream_agent_run_events`, `useAgentRunStream.js`

The server's generator (`PollRow`, `SendPage`, `FindNothing`, `CloseOldConnection`, `ReportOutage`,
`ShutDown`), the connection (`pipe`), and one thread of the page: `Connect`, `Receive`, `EndOfStream`,
`CutConnection`, `FireTimer` (reconnect), `FinishPresentation`, `Leave`, `Return`, `Reload`, and
`BeginResume` / `BeginResumeLate` / `AskRun` / `AskActiveRun`, the awaits of `resumeActiveRunForThread`.  `BeginResumeLate` is the branch for a
snapshot older than an hour: it is cleared, and if the run is still open the stream restarts at 0.  `budget` counts what is left of each
kind of trouble and of all together.  Trimming of the Redis stream is not modelled here either.

### Tasker: `services/task_service.py`

The dictionary, the table, the queue, the lock and the worker loops.  An operation takes the lock and changes
the dictionary in one step and writes the row and releases the lock in the next, because the only await under the
lock is that write.  `Start` with `StoreRecovered` is `_load_state`; `Shutdown`, `FinishShutdown` and `Kill`
end the process.

### Sandbox: `agents/backends/sandbox`, `src/docker/sandbox_provisioner/app.py`

One thread, the processes that run agents (the API and the ARQ workers; each has a provider of
its own), the provisioner with the Docker backend, and the container.

| Model | Code |
|---|---|
| `conn`, `touched` | `_connections`, `_last_touch_at` of a process |
| `call` | the request that `get` makes under the lock of the thread, and how far it is |
| `busy` | the command that `execute` sends once it has a connection, and the time it may still take |
| `box`, `ready`, `maker` | the container by its address, its health check, the backend lock during a start |
| `activity`, `reaper` | `_last_activity_at`, the loop of `SandboxIdleReaper._run` |
| `Begin`, `TouchAnswered`, `TouchMissing`, `Discovered`, `DiscoverMissing`, `Raise`, `GiveUp` | `get` and what it does with each answer |
| `FindBox`, `TakeOver`, `StartBox`, `BoxReady`, `BoxFails`, `Mark` | the endpoints: find or start the sandbox first, mark it as active in a second step |
| `Collect`, `Reap`, `ReapFails`, `ReaperForgets` | the reaper, which takes its lock for the first and the last only |
| `LoseRequest`, `RestartProvisioner`, `Shutdown`, `CloseBox`, `CloseFails`, `CloseEntry` | failures and ends of processes |
| `Tick` | one unit of time: ages grow up to the limit they are compared with |

Time matters here, so ages are part of the state and `Tick` advances them all; it waits for commands and
requests that have used their time up (`Exec` is the timeout of the client of a command,
`Latency` that of a request).  Abstractions: one thread id; a create request that still waits for the backend lock
when its client gives up is dropped; the removal of a container is one step.  `ready` says that the container has answered its health
check since it was started; a living sandbox may still miss one (it is too busy to answer within 5 s), which is one of the failures
that `MaxFaults` counts: `FindBox` then answers 404, and a create replaces the container with the commands in it.  The history variables `dead`, `lapsed` and `lost` let properties name their
exceptions.

### PaperEtl: `src/backend/package/knowledge/etl`, `src/orchestration/dags/unesa_papers_dag.py`

The five tasks of the papers DAG.  A task is a container that reads artifacts, writes artifacts in place and exits; the
next attempt, task or run knows only what it finds on the volume.

| Model | Code |
|---|---|
| `raw`, `master` | the Scopus export and the file of everything processed (`run_scopus_scraping`, `run_scopus_processing`) |
| `scholar`, `temp` | the Scholar artifact and the checkpoint of an extraction that has not ended (`run_scholar_scraping`) |
| `merged`, `enriched`, `table` | the output of the transformation, the enrichment checkpoint, the `papers` table |
| `fresh` | which extractions have an artifact in the freshness window of 72 hours (`_fresh_checkpoint`) |
| `at`, `tries`, `Fail` | what Airflow knows of each task: its step, its failed attempts, retry or failure |
| `Artifact`, `Saved` | `write_dataframe_artifact`: absent, whole or torn; the writer goes on or dies during or after the write |
| `Skip`, `ExtractScopus`, `StartScholar`, `ScrapeAuthor`, `SaveScholar`, `DropTemp` | the two extractions, with the artifact they reuse, the authors they skip, the checkpoint and the merge with earlier rows |
| `Articles`, `CutShort`, `Leading`, `Merges` | `get_papers` with its limit and its flag `complete`, set on a missing next link, on an empty page and inside the last one; the stable sort and `drop_duplicates` on the title |
| `ProcessScopus`, `DropRaw`, `Merge`, `Deduplicated` | the transformation: the master is written first, the export deleted second; then Scopus and Scholar are put together by `deduplicate_papers` |
| `listed`, `OnProfile`, `Exported`, `Publish` | what the services list by now (outside the program) |
| `StartEnrich`, `EnrichBatch`, `FinishEnrich`, `StartIndex`, `Pending` | the restored checkpoint, the loop over a pending list that shrinks, the quota of a run |
| `Load` | the upsert, which commits every thousand rows and so may stop after any |
| `Schedule`, `Trigger`, `Crash` | the weekly run, a run by hand in any mode, the death of a container between two writes |

Rows are known by their exact title, papers by `Paper`, which says which titles the fuzzy comparison of the transformation takes for one
paper: `Deduplicated` keeps one row of it, that of Scopus if there is one, while `Restore` and the upsert go by the title.  That every title is taken for
one paper makes the comparison transitive, which it need not be in the code.  A row says for which author it was found and whether the profile of that author was read to the end,
as far as `get_papers` knows: `CutShort` are the answers that pass for the whole profile and are not.  Titles come out while the pipeline is in
use (`Publish`, `listed`).  The history variable `omitted` has the titles of a profile that its author was marked complete without.
Many failures of the services are no exceptions in the code but empty answers; each is a disjunct of its own that
spends one of `MaxFaults`.  A task that reads a torn file fails without a fault of its own, since the fault
was the torn write.

### KgConstruction: `kg_service.py`, `kg_storage_service.py`, `yunesa_academic_kg.py`, `src/orchestration/dags/unesa_kg_construction_dag.py`

| Model | Code |
|---|---|
| `art`, `summary` | the JSON artifacts and the build summary, whose storage section holds a report of each write task |
| `owner`, `links` | Neo4j: the `graph_name` of each node, the relations with theirs |
| `dims`, `vectors` | Milvus: the dimension of each collection, how often it has each row of each graph |
| `run` | what the run was triggered with: graph name, dimension of the embedding model, quality gates, enabled and cleared stores |
| `task`, `step`, `tries`, `job` | the Airflow task, its step and attempts, and the memory of a write task |
| `Load`, `Extract`, `BuildGraph`, `BuildSummary` | the first three tasks |
| `Refuse`, `StartWrite`, `Raise`, `Succeed` | `_load_quality_checked_graph`, and the reports `running`, `skipped`, `failed`, `success` |
| `ClearGraph`, `WriteNode`, `WriteEdge` | `write_graph_to_neo4j`: `DETACH DELETE` of the name, `MERGE` of nodes by id, `MATCH` of both ends and `MERGE` of the relation |
| `Prepare`, `KeepOldRows`, `DropCollection`, `RefuseDimension`, `Insert`, `NextCollection` | `_ensure_milvus_collection`, whose drop and create are two steps, `_delete_milvus_graph_records`, the inserts under generated keys |

What the graph of given tables is stays outside: the first task reads any of `Graphs`.  Ids are the same in every graph
that has the entity, as in the code, which derives them from the entity.  Rows are written one at a time in any order, which
includes the batches of the code.  A batch that Neo4j rejects is assumed to raise in `session.run`: the results are not consumed, so that an error the driver defers to the end of
the last batch would be lost, and `ReportHonest` with it.  `taken` is a history
variable: the nodes that went from one graph name to another, for which `RebuildAgrees` promises less.  Write tasks of
an old run that are cleared by hand after a newer build are left out; they would write the newer graph under the old name.


### ServedRun: the worker and the page together

`RunGoesOn` is a step of `AgentRun`, `PageGoesOn` one of the server or the page of `RunStream`.  They share `status` and `events`, which only
the worker writes; `log` of `RunStream` is `events`, `plain` is a query that is not garbled and an owner who is there.

## 3. The runs

| Run | Shows | Bounds, and why they are enough |
|---|---|---|
| `AgentRun_faults` | Whatever two failures do, no attempt settles the row twice, the outcome is announced first, an acknowledged cancellation is lost only where `lapsed` says so, and the whole implements `RunLifecycle` | one cancel request, two attempts, one intermediate chunk, two failures: enough for a crash or an ARQ cancellation after any step followed by a failure of any handler in the second attempt |
| `AgentRun_steady` | Without failures, status, stream and cancel requests tell one story unless a request reopens the run, and every run ends or waits for a retry that does not come | two cancel requests that race each other and the worker; the key may expire |
| `RunStream` | No event is skipped or handled twice, the page does not stop early and does not wait for a settled run | runs of up to three events with pages of two, so that a full page, a partial and an empty one occur; one cancel request, which may reopen the run; up to one trip, one cut, one outage, one overtaken timer and one return after an hour, two of these in one behaviour (`MaxTroubles`): a trouble and one that strikes while the page recovers from it |
| `RunStream_outage` | *violation*: after one outage the page stops following a run that goes on | one outage and nothing else |
| `RunCreation` | One run per request id, a job only for a complete run, and the endpoint implements `GetOrCreate`: a caller gets its own run or a conflict, as if looking and inserting were one step | three requests of two users over two ids (two that race and one that does not), one failure |
| `Tasker` | Memory, table and queue agree; a coroutine runs at most once; every task ends | two tasks on two workers, one failed write, one shutdown or kill and the restart after it |
| `Tasker_shutdown` | *violation*: shutdown waits for a worker that waits for the lock of shutdown | one task, one worker |
| `Sandbox` | The reaper does not pick a sandbox in use that the last touch has found, and knows every sandbox that is held; a sandbox nobody asks for goes away; who keeps asking is not sent to a missing sandbox for ever | two processes, one of which shuts its provider down; one failure of any kind, a missed health check among them; ages of one unit each with `Idle = KeepAlive + Latency + Exec`, the tightest timeout that is enough; three addresses, since besides the container only the other process can hold one |
| `Sandbox_reaped` | *violation*: a sandbox in which a command has started after a touch was answered is removed | one process, no failure |
| `PaperEtl` | Authors that are skipped are covered but for omitted titles, each pending row goes to the providers once per run, the master and the paid-for rows survive every failure, and each findable paper that stays demanded reaches the table in the end | four titles: one without the required fields, two that are one paper (one in Scopus, one in Scholar), one that comes out later; two authors that share titles, one whose profile grows over the limit of two; batches of one, a checkpoint every two authors and a quota of two, so that a batch starts in a list that has shrunk and a run leaves rows for the next; one retry, two failures (a torn file, an answer cut short, and the failure of what reads it), one run by hand between weekly ones |
| `KgConstruction` | A report of success is true of its store, and a clearing run leaves exactly its graph | a graph that loses its relation and one that loses a node as well; two names and two dimensions; four configurations: a rebuild, an incremental run, a second name with another model, another model without clearing; three runs, one retry, two failures, so that a run can follow a half-written one and its own half-written attempt |
| `KgConstruction_namespaces` | *violation*: a run with a new graph name drops the vectors of the other graph | two configurations that differ in name and dimension, no failure |

`RunKinds` and `RunStatuses` of `RunStream` keep the events and statuses that the page tells apart
(an ending and something else; open and terminal).  Every property of a passing run has a mutant in
`PROJECT.json`: an operator with a plausible bug (the operator before its original in the
module, marked *Mutant*) under which the property fails in the same run.

`CHECK_DEADLOCK FALSE` is set where the system may stop: a run is settled and nobody cancels it, all
requests are answered, the bound on stops is reached.

### Fairness

* `AgentRun`: the worker takes its steps (ARQ hands out a queued job; coroutines go on) and a
  cancel request that holds the row lock ends.  No fairness for arrivals, failures or expiry.
* `RunStream`: the generator and the page go on; the *run* is under no fairness, so nothing here needs it to end, and neither is the user:
  nobody has to come back to the thread (`Return`), and `PageSettles` is about a page that is looked at.
* `RunCreation`: a request goes on unless it fails.
* `Tasker`: weak fairness of writes and of a boot; strong fairness of each worker, since `asyncio.Lock`
  is first come, first served and `asyncio.Queue` too.  That a coroutine returns, raises or notices its
  cancellation is assumed: the Tasker has no timeout.
* `Sandbox`: handlers, clients, the end of commands, the reaper, a provider that closes, a start and the clock go on.
  Nobody is made to ask for the sandbox.  `Recovers` assumes of the reaper that it rests in the end: one that deletes
  between every discovery and the command after it keeps a process failing.
* `PaperEtl`: Airflow starts what is ready and containers go on (`WF(Work)`), and the weekly run is scheduled
  (`WF(Schedule)`).  Failures and runs by hand are under no fairness; failures are bounded by `MaxFaults`, so that
  `EventuallyLoaded` says: once failures stop, the next runs repair what they left.  Its two exceptions are in the formula: a torn
  master or enrichment checkpoint, which no code repairs, and a quota that is used up by rows that can never be completed.
* `KgConstruction`: no liveness.  Runs are triggered by hand, and a run that has failed promises nothing.

## 4. What is proved

`AgentRunProofs` proves with TLAPS, for every set of cancel requests and every number of tries, chunks
and failures, from `RunAssumption` alone unless stated:

* `TypeCorrect`: `[]TypeOK`, one lemma for each group of actions.
* `ReopenedByEarlierReadCorrect`: a terminal status changes only by the commit of a cancel request that read an open row.  Every write of an attempt goes through
  `Settle` (`StatusStep`), and of the steps of a request only the commit writes.  This needs no row lock, and the lock does not prevent it.
* `AttemptCorrect`: `[]AttemptInv`, the inductive invariant of the attempt.  `AnnouncedFirst` is
  not inductive: whether `SettleRun` or `Conclude` may set a status depends on what this attempt has already
  appended.  `AttemptInv` says, for each step that settles the run, which event is in the stream (`settle`,
  `conclude`: one that announces the verdict; `judge`: an interruption), and why `Complete`, which settles before it
  announces, is only reached by a garbled run: an answer that is at its end has given an ending to the
  worker, which has settled the run, unless the chunk was dropped.
* `Implements`: every step is one of `RunLifecycle` or a stutter, from `TypeOK` and `AttemptInv`: the steps of a cancel request are `Ask`, `Cancel` and `Withdraw`, those of an
  attempt `Write`, `Begin` and `Resolve`.  A flush that breaks off maps to `Write` or a stutter.
* `AnnouncedCorrect`: the announcement precedes the status, from `AttemptCorrect` and the refinement's step lemma.
* `CancelRemembered`: a committed and published cancellation keeps its key until the run is settled or its job over, unless `lapsed`.  The
  exception is needed: `clear_cancel_signal` in the `finally` block of an attempt that ARQ cancelled in a handler removes a
  key that the next attempt would need.
* `CancelledOnRequestCorrect` and `FirstEndingDecidesCorrect`, for states with `faults = 0`.  `AgentRun_steady`, which checks
  both, has `MaxFaults` = 0; the theorems say it of every run that has not met a failure yet.  The condition is needed: ARQ
  cancels an attempt without any request, a transaction that is rolled back after the signal leaves the key behind,
  and an append that fails after an ending makes the handler report another.  `FirstEndingDecides` also needs `~reopened`.  For the first, `LockInv` says that the row lock has the
  request that took it, and `RequestInv` follows the request: whoever has seen the key (`Signalled`) has a request that is still
  in its transaction or has committed, and the handler that would write `cancelled` waits for the row.  For the second, `EndingInv`
  follows the first ending from the chunk to the row: while the run is `Undecided` no ending is in the stream, and from the append on each
  step that may set the status holds a `Decision`, a verdict that agrees with the event (`AppendDecides`, `FlushDecides`).

`RunCreationProofs`, for any number of requests, users, request ids and failures:

* `CreationCorrect`: `[]CreationInv`.  `OneRunPerRequestId` alone is not inductive, since a row counts for the unique
  index before it is committed; the invariant states uniqueness over committed and open rows together, and
  what each step of a request has behind it (an open row at the commit, a committed row at the pool, the init event at the queue).
* `OneRun`, `OwnRun`, `QueuedReady` follow from it.  `OwnRun` (a caller is only given a run of its own, for the id it
  sent) is a part of what the next theorem says.
* `Implements`: the endpoint implements `GetOrCreate`.  The commit of a row is where the run comes into being: the
  request holds the only open row of its id (`CreationInv`) and has no row yet (`Unmade`), so no committed row has
  the id (`CommitCreates`).  A request that finds a row then finds the one run of its id and, as it has made none, somebody else's
  request made it, so nothing is queued a second time (`AnswerReads`); the request that made it queues it (`Enqueue`).
  All other steps change neither the table nor an answer.  `RegisterMap` states the actions of the instance over the
  two mapped functions once.

`SandboxProofs`, for any processes, intervals, timeouts, addresses and failures (intervals of at least 1: an interval
of 0 turns touching or the reaper off):

* `AddressCorrect`: the addresses that processes remember or are given belong to a container that has answered its health check since it was
  started, or to none: never to one that is still starting, so that what `Begin` uses without asking is a sandbox that was ready.  It may miss later health checks; a touch that is then
  answered with 404 is followed by a command in the living sandbox (see the findings).
* `HeldKnown`: from `KnownInv`, which adds to `HeldIsKnown` the answers that are about to become a connection.
* `NotPicked`: from `MarginInv`, the argument for the timeout.  The activity is at most as old as the request that
  marked it when its answer arrives, then as the touch plus the longest answer, and a command starts while the
  touch is younger than the keep-alive interval; what the command has left and the activity add up to less than the
  three together, and `Tick` keeps the sum.  The theorem needs `Idle >= KeepAlive + Latency + Exec` and no more;
  the adjustment in the code (`Exec + 30`) leaves out `Latency`.  A touch that fails, or that misses the living sandbox, lets a command start
  on an older activity: `lapsed` takes these out, until the next touch that is answered.


`RunStreamProofs`, for any run that keeps the promise of `RunLifecycle`, any page size, and any number of trips, broken connections,
outages and overtaken timers, from one invariant `Inv`:

* `StreamTypeCorrect`: `[](StreamTypeOK /\ Within)`; no frame, snapshot or resume names an event that was not written.
* `NoGapCorrect`: from `Chain`.  `NoGap` compares two values of the cursor of the page; the next frame is the right one because the
  frames in the pipe are consecutive from there, and stay so because the server goes on where they end.
* `NothingAfterCloseCorrect`: `NothingAfterClose` is about the frames in the pipe; when the frame is written what matters is that
  the server has seen the terminal status (`Truthful`) before it listed the events and found none, so its cursor is at the end of the log.  It speaks of the first time the row was settled (`settledAt`), so that a reopened run does not touch it.
* `NoReplayCorrect`: from `Undisturbed`, that snapshot, cursor and the position of a resume are the same number, which `outages`,
  `overtakes` and `expiries` destroy, as does a reopened run that its thread finds again from the start; that is why the property excludes them.
* `StopsAtTheEndCorrect`: from `Stopped`, which remembers for a page with an open connection why it does not follow.
* `OutcomeSeenCorrect`: the promise of `RunLifecycle` reaches the page.  With `AnnouncedInTime`, when a final close frame is next, the
  event that announces the outcome has been taken.
* `ShowsFirstEndingCorrect`: the page never reads past the first event that ends the answer.  `ShowsFirstEnding` alone forgets where the page
  may go on from; `Ahead` says it of the snapshot, of the position a resume has asked with, and that no resume asks while an
  ending is presented.  Outages are allowed; overtaking is not: a run that is resumed while its ending is
  presented is read on, since `finalizeRunPresentation` returns at once.
* `ClosedAfterRetryCorrect`: the only outcome of a readable run that reaches a following page by the close frame is a failure that was announced as
  `retry`, since every other announcement stops the page.

`ServedRun` is the composition: every step is one of `AgentRun` with the page at rest, or one of server and page with
the run at rest, and `settledAt` is kept as `RunStream` keeps it.  There is no run of it: its properties are consequences of the two
parts, and this is what is proved, under `PageBounds`, which `StreamAssumption` of `RunStream` asks for:

* `ServedImplementsStream`: `ServedSpec => Stream!Spec`.  `OneRun` says that the two instances of `RunLifecycle` are the same formulas;
  `RunGoesOnAsPromised` uses `StepImplements` of `AgentRunProofs`, so the worker enters only with its promise.
* `ServedToTheEnd`: what `RunStreamProofs` says holds of the events of this worker, whatever fails.
* `ShownIsTrueCorrect`: the event at which the page stopped says what the row says.  `FirstEndingDecides` (worker: the first
  ending decides the row) and `ShowsFirstEnding` (page: it stops at the first ending) meet here.  With a failure of the worker or an
  overtaken timer of the page it is false, and so it is when a request reopens the run after the page has stopped (`~reopened`).
* `ToldCancelledCorrect`: a close frame that says `cancelled` means a committed request: `Truthful` of the server with
  `CancelledOnRequest` of the worker.

`TaskerProofs`, for any tasks, workers, failed writes and stops:

* `TaskerTypeCorrect`: `[]TaskerTypeOK`.  A worker writes the entry of its task, so the types need that a worker past the
  queue has a task, and that the lock of a worker is for that task.
* `RunsOnceCorrect`, `CancelledInQueueCorrect`, `TableInStepCorrect`, `NoOrphanCorrect` and `FinalInTableCorrect` from one invariant, `Inv`.
  None is inductive: `Single` says a task is in one place only (the hands of `enqueue`, the queue or one
  worker), which is why it is begun once and why a row that is stored as final is stored for the last time.  `Stopped` follows a cancelled
  task from the queue through the worker that drops it; `Dictionary` ties what the holder of the lock is about to write to what is
  in the dictionary; `Table`, `Copy` and `Owned` say who still has to write a row.  The
  exceptions for failed writes (`disturbed`) are what `CallFails` and `StoreFails` need.

`PaperEtlProofs`, for any authors, profiles, limits, batch sizes, quotas, retries and failures:

* `EtlTypeCorrect`: `[]EtlTypeOK`; control (steps, attempts) and data (artifacts, memory) apart.
* `CompleteAuthorsCovered`: `CoveredAuthor` says the same of the artifact, the checkpoint and the memory of the extraction, and is inductive with the types
  once `omitted` is there.  A merge keeps some row of every title, and a row it keeps is one of the two sides; an answer that is cut short adds what it leaves out to
  `omitted` in the step that marks its author, and `Publish` adds the new title for every author that is marked.
* `ScopusPapersKept`, from `ExportInv`: the step between the write of the master and the deletion of the export carries `raw.rows \subseteq master.rows`,
  which `ScopusKept` alone does not.
* `RowsTriedOnce`, from `EnrichInv`: `OncePerRun` is about windows of the rows that were pending at the start, the code indexes
  those that are pending now.  The lemma `WindowContinues` is the arithmetic: after completed rows have left, rank
  `attempted - completed` of the rest is rank `attempted` of the whole.
* `PaidWorkSurvives`: from the same `EnrichInv`, which says the memory of the enrichment holds every complete row of the checkpoint
  whose title is still among the transformed ones; a row whose paper has got another title is the exception (`Retitled`).

`KgConstructionProofs`, for any graphs, names, dimensions, configurations, retries and failures:

* `KgTypeCorrect`: `[]KgTypeOK`.
* `ReportsTrue` and `RebuildsExact` from one invariant, `KgInv`: neither is inductive, because a report is written once the
  stores are filled.  `Stage` ties the graph artifact to the summary while a write task runs; `Ends` says relations
  of a name connect nodes of that name, except between taken nodes; `GraphSoFar` and `VectorsSoFar`, parts of `StoreInv`, say what
  the stores hold when the rows in `job.todo` are still missing.  When `todo` is empty they are the report.

Only model-checked are the liveness properties, `RunSettles`, `PageSettles`, `AnsweredRunIsQueued`, `TaskEnds`, `IdleGoesAway`,
`Recovers` and `EventuallyLoaded`: fairness and ENABLED are out of the prover's reach.

## 5. Findings

* `RunSettles` (`AgentRun_steady`): A retryable error before the last try raises RetryableRunError (run_worker.py:345-347), whose docstring says "Error type that should trigger ARQ retry." (run_worker.py:33). It is a plain Exception, and ARQ runs a job again only for its own Retry exceptions and for cancelled jobs, so the job ends after the first attempt: the run stays "running" in agent_runs, its stream has no ending, and max_tries = 2 (run_worker.py:384) is never used for it. RetryDue, the exception in RunSettles, is this run; without it AgentRun_steady finds the violation.
* `FirstEndingDecides` (`AgentRun_steady`): request_cancel returns early when "run.status in TERMINAL_RUN_STATUSES" (agent_run_repository.py:72), after it has locked the row. But cancel_agent_run_view has loaded the row with a plain SELECT before (agent_run_service.py:166), and the SELECT ... FOR UPDATE in the same session (100-102) has no populate_existing, so SQLAlchemy keeps the attributes it has: the status looked at is the one before the lock. When the worker settles the run in between, the request overwrites the final status with cancel_requested, with no failure anywhere. If the attempt is still in its loop it is then aborted and the row ends as cancelled after a "finished" event; if the job is over, the run stays cancel_requested, which is no terminal status, and is the active run of its thread for good ("Run already terminal, skip", run_worker.py:198, does not apply to it). The history variable reopened in FirstEndingDecides is this case; without it AgentRun_steady finds the violation, and RunLifecycle names the gap in its promise (Ask, Cancel).
* `CancelNotLost` (`AgentRun_faults`): retry_jobs = True (run_worker.py:385) lets ARQ run a job again that a shutdown of the worker has cancelled. When the CancelledError arrives in a handler (305-312, 315-363), it leaves the coroutine through the finally block, which deletes the cancel key (366-367) although the run is not settled; the next attempt finds the run in cancel_requested, sets it to running (mark_running, agent_run_repository.py:55-66) and generates the answer again. The cancellation that the API has acknowledged with 200 is gone. A worker that dies between the deletion of the key and the end of its job does the same. The history variable lapsed in CancelNotLost is this case and the TTL of the key; without it AgentRun_faults finds the violation.
* `KeepsFollowing` (`RunStream_outage`): After a database or Redis error the server sends an error frame that says "run event stream is temporarily unavailable, please reconnect" (agent_run_service.py:203, 218) and a close frame without status. The page treats every event named "error" that is not marked retryable as the end of the run (useAgentRunStream.js:297-312): it clears activeRunId and the snapshot, and ignores the close frame that would have made it reconnect. The run goes on and nobody follows it.
* `AnsweredRunIsQueued` (`RunCreation`): "Create async run task and enqueue it (login required)." (chat_router.py:392), with request_id as "Idempotency request ID" (models_business.py:761). The row is committed before the pool, the init event and the job (agent_run_service.py:124-151). If one of these fails, the caller retries with the same request_id, finds the row at line 99, is answered with it and nothing enqueues the job: the run stays pending, and is what GET of the active run of the thread returns. The exception in AnsweredRunIsQueued, a run whose creator failed, is this case.
* `ShutdownCompletes` (`Tasker_shutdown`): shutdown awaits the workers while it holds _lock (task_service.py:118-123). A worker that is cancelled inside its coroutine catches the CancelledError and calls _mark_cancelled (229-230), which waits for the same lock (273), and the worker has swallowed its cancellation: the log line "Tasker shutdown complete" (126) is never reached, and the rest of the lifespan shutdown does not run.
* `NoRunningCommandReaped` (`Sandbox_reaped`): The provisioner adjusts its timeout "to avoid reaping running commands" (app.py:712). The reaper collects the expired ids under its lock (742-746), releases it, and deletes them one after the other without looking at the activity again (751-753). A touch or discover in between marks the sandbox as active and is answered with 200, the provider returns the connection, and the command that is then started is killed with the container. The interval is long when several sandboxes are expired: each delete may stop a container for 10 s (453). Besides, the adjusted value, exec timeout + 30 (717), is the keep-alive interval plus one command and leaves no room for the time a touch takes.
* `NotPickedInUse` (`Sandbox`): "adjusting idle timeout to %s seconds to avoid reaping running commands" (app.py:712) does not cover a sandbox that is too busy to answer its health check within 5 s: discover returns None for it (app.py:431-432), the touch is answered with 404 (app.py:857-858), and the provider removes the connection and returns it (provider.py:109-110, 116-117). The command then runs in the living sandbox although nothing has marked it as active since the touch before, and the reaper picks it. The history variable lapsed in NotPickedInUse is this case and that of a touch that fails (115); without it the run finds the violation. A create for the same thread goes further: it deletes a container that does not answer its health check, with the commands in it (app.py:344-353).
* `CoveredAuthor` (`PaperEtl`): The extraction says of its rows "Keep duplicates at extract time. Transform-level dedup merges author IDs into one paper node, so dropping here would lose lecturer relationships." (unesa_papers.py:793-794). The incremental merge that saves them drops duplicates of the title with keep="first" (876-877): when two lecturers list one paper and the second is scraped in a later run, the row with the id of the second is dropped, and as the author is marked complete by other rows it is never scraped again. CoveredAuthor holds because it asks for the papers of an author only; that the pairs of paper and author survive a merge is false (Merges keeps one row per title).
* `CoveredAuthor` (`PaperEtl`): "No next page – all articles fetched" (scholar_client.py:418): a page that names no next one, and a later page without articles (397-408, reason "no_more_articles"), end the loop with complete=True whatever was read before, and so does a last page of which only a part fits under the limit (410-413 breaks, 417-428 marks complete). The author is saved as scrape_complete and skipped by every later incremental run (unesa_papers.py:576-617, 641-643), as is an author whose profile grows after the mark: the missing papers are only found by a run with --mode full. The history variable omitted in CoveredAuthor and EventuallyLoaded is this case; without it the run finds the violation.
* `PaidWorkKept` (`PaperEtl`): "On rerun, completed enriched rows are restored from the enriched Parquet checkpoint by stable paper title key and only pending rows are sent back" (etl/README.md:68-70; "Build a stable enrichment checkpoint key from title, then DOI.", unesa_papers.py:140). The key is the exact normalised title (139-148, 233-237), but the title of a paper is not stable: the transformation takes titles that share 80 % of their trigrams for one paper and keeps the first, which is that of Scopus (deduplicator.py:145-187, unesa_papers.py:931). When Scopus comes to list a paper that was completed under its Scholar title, the complete row is not restored, is not in the next checkpoint, and the paper is paid for again. Retitled in PaidWorkKept is this case; without it the run finds the violation.
* `NamespacesSeparate` (`KgConstruction_namespaces`): When the embedding model or its dimension changes, src/notebooks/README.md:26-28 asks to rebuild the collection or to create a new namespace GRAPH_NAME instead. Names do not separate graphs: the collections of all names are the same, and a clearing run with another dimension drops the collection with the vectors of every graph (yunesa_academic_kg.py:3757-3760), as it does when describe_collection fails once (3808-3810, 3746-3748); a run that does not clear raises (3762). In Neo4j, ids are unique across names (4127), so that MERGE by id and SET take the nodes of the other graph over (4142-4143), and DETACH DELETE of one name deletes relations of another (4122). The two stores of the other graph change without a word in its report.

`Tasker_shutdown` reaches further than the Tasker: the lifespan of the API calls
`shutdown_sandbox_provider` after `tasker.shutdown` (`src/backend/server/utils/lifespan.py` 117-119), so
that the sandboxes are not removed either.

## 6. Plan

Order of work; what is done is listed first.

1. `RunLifecycle`, `AgentRun`, `RunStream`, `GetOrCreate`, `RunCreation`, `Tasker`, `Sandbox`, `PaperEtl`, `KgConstruction` with their runs, and
   `AgentRunProofs`, `RunStreamProofs`, `RunCreationProofs`, `TaskerProofs`, `SandboxProofs`, `PaperEtlProofs`, `KgConstructionProofs`, and `ServedRun`, which composes `AgentRun` and `RunStream`.
2. A module for the chat service: saving of partial messages, the answer that resumes an interrupt, and the checkpoint,
   with a mutual exclusion argument for one thread (two runs of one thread are not excluded by the endpoint).
3. An abstract lease (a resource that is held for a bounded time after each renewal) that `Sandbox` implements apart from
   the race of the reaper.
4. An abstract task (absent, pending, running, ended, and back to absent) that `Tasker` implements, with the theorem that the row of a task
   only moves forward whatever writes fail.


## 7. Not modelled

* Request-scoped code whose only protocol is a database transaction: conversations, departments, users, API keys,
  OIDC, MCP servers, evaluation results.
* Data transformations: chunkers, parsers, GraphRAG ranking, the query planner.  They have no state between calls.
* LangGraph, the language models, Langfuse, the content guard: the chat service is present as the
  order of the chunks it may yield.
* The lecturers pipeline has the tasks, the artifacts and the retries of the papers pipeline, without a quota and
  without a checkpoint; what it adds is the matching of names.  The sample mode of both writes artifacts of its own and
  is a single pass.  The clients of the services scrape pages and parse what they get.
* The notebooks, among them the scrapers, which are most of the lines of the repository: cells that a person runs in an order of
  his own.  They keep no state that another actor could see.  Together with the Vue components apart from the run
  stream they are why these modules can stand for a small part of the lines only.
* Time: timers and TTLs may run out at any step where the code admits it; how long they take is left out
  except where a bound depends on it.

