------------------------------ MODULE AgentRun ------------------------------
(***************************************************************************)
(* One agent run, from the moment its row is committed to the moment its   *)
(* ARQ job is over: the row in PostgreSQL, the job, the attempts of the    *)
(* worker (process_agent_run), the requests that cancel the run, the       *)
(* cancel key and the event stream in Redis.                               *)
(*                                                                         *)
(* A step is what happens between two awaits that others can observe: one  *)
(* database transaction, one Redis command, one chunk of the answer.       *)
(* Payloads are abstracted to the kind of the event.                       *)
(***************************************************************************)
EXTENDS Integers, Sequences

CONSTANTS
    Cancellers,   \* requests POST /runs/{id}/cancel that may arrive
    NoOne,        \* the row lock has no holder
    MaxTries,     \* WorkerSettings.max_tries
    MaxBody,      \* bound: intermediate chunks of one answer
    MaxFaults     \* bound: failures of a database, Redis or worker process

ASSUME RunAssumption ==
    /\ NoOne \notin Cancellers
    /\ MaxTries \in Nat \ {0}
    /\ MaxBody \in Nat
    /\ MaxFaults \in Nat

VARIABLES
    status,     \* agent_runs.status, as committed
    rowLock,    \* the cancel transaction that holds the row FOR UPDATE
    cancel,     \* each cancel request: its progress, and whether it has read an
                \* open row and is to write it
    cancelKey,  \* run:cancel:<id> exists in Redis
    job,        \* the ARQ job run:<id>
    tries,      \* attempts ARQ has started (ctx["job_try"] of the current one)
    w,          \* the attempt in progress
    events,     \* run:events:<id>, by kind
    userGone,   \* the owner's account row has been deleted
    garbled,    \* the query holds U+2028, U+2029 or U+0085
    faults,     \* failures so far
    lapsed,     \* history: the cancel key may be gone although the run goes on
    reopened    \* history: a cancel request has overwritten a final status

runVars == <<status, tries, w, job, events>>
cancelVars == <<rowLock, cancel, cancelKey>>
history == <<lapsed, reopened>>
envVars == <<userGone, garbled, faults, history>>
vars == <<runVars, cancelVars, envVars>>

-----------------------------------------------------------------------------
Terminal == {"completed", "failed", "cancelled", "interrupted"}
Statuses == Terminal \cup {"pending", "running", "cancel_requested"}

\* Chunks that end a run when the worker reads them from the stream.
Endings == {"finished", "error", "interrupted", "ask"}
Kinds == Endings \cup {"init", "loading", "info"}
EventKinds == Kinds \cup {"retry"}

\* Steps inside the try block of process_agent_run.
InTry == {"next", "append", "judge", "settle", "check",
          "drain", "complete", "announce"}
Steps == InTry \cup {"idle", "load", "reject", "mark",
                     "abort", "report", "conclude", "close", "done"}

Attempts == [pc        : Steps,
             gen       : {"init", "body", "wrap", "end"},
             left      : 0..MaxBody,
             chunk     : Kinds,
             verdict   : Terminal,
             buffered  : BOOLEAN,   \* loading chunks in ChunkedEventWriter
             settled   : BOOLEAN,   \* terminal_set
             cancelled : BOOLEAN,   \* RunContext.cancel_event
             retryable : BOOLEAN,   \* _is_retryable_exception of the error
             evicted   : BOOLEAN]   \* ARQ's CancelledError leaves process_agent_run

At(step) == [pc |-> step, gen |-> "init", left |-> MaxBody, chunk |-> "init",
             verdict |-> "completed", buffered |-> FALSE, settled |-> FALSE,
             cancelled |-> FALSE, retryable |-> FALSE, evicted |-> FALSE]

Stages == {"new", "read", "locked", "sent", "unsent", "acked", "unheard", "failed"}

TypeOK ==
    /\ status \in Statuses
    /\ rowLock \in Cancellers \cup {NoOne}
    /\ cancel \in [Cancellers -> [pc : Stages, writes : BOOLEAN]]
    /\ cancelKey \in BOOLEAN
    /\ job \in {"queued", "running", "gone"}
    /\ tries \in 0..MaxTries
    /\ w \in Attempts
    /\ events \in Seq(EventKinds)
    /\ userGone \in BOOLEAN
    /\ garbled \in BOOLEAN
    /\ faults \in 0..MaxFaults
    /\ lapsed \in BOOLEAN
    /\ reopened \in BOOLEAN

-----------------------------------------------------------------------------
(* Helpers.                                                                *)

\* Mutant: the guard of set_terminal_status is dropped.
SettleAnyway(verdict) == verdict

\* set_terminal_status: a terminal row keeps its status.
Settle(verdict) == IF status \in Terminal THEN status ELSE verdict

RowFree == rowLock = NoOne

Goto(step) == w' = [w EXCEPT !.pc = step]

\* What writer.flush() appends.
Held == IF w.buffered THEN <<"loading">> ELSE <<>>

\* writer.flush() followed by append_run_event(kind).
FlushThen(kinds) == events' = events \o Held \o kinds

\* What stream_agent_chat may yield next: <<chunk, phase after it, chunks left>>.
Yields ==
    CASE w.gen = "init" -> {<<"init", "body", w.left>>}
      [] w.gen = "body" ->
            {<<k, "body", w.left - 1>> : k \in IF w.left > 0 THEN {"loading", "info"} ELSE {}}
            \cup {<<k, "end", w.left>> : k \in {"finished", "error", "interrupted"}}
            \cup {<<"ask", "wrap", w.left>>}
      [] w.gen = "wrap" ->
            {<<k, "wrap", w.left - 1>> : k \in IF w.left > 0 THEN {"info"} ELSE {}}
            \cup {<<k, "end", w.left>> : k \in {"finished", "error", "interrupted"}}
      [] w.gen = "end" -> {}

Fault == faults < MaxFaults /\ faults' = faults + 1

Init ==
    /\ status = "pending" /\ job = "queued" /\ tries = 0
    /\ w = At("idle") /\ events = <<"init">>
    /\ rowLock = NoOne
    /\ cancel = [c \in Cancellers |-> [pc |-> "new", writes |-> FALSE]]
    /\ cancelKey = FALSE
    /\ userGone = FALSE /\ garbled \in BOOLEAN /\ faults = 0
    /\ lapsed = FALSE /\ reopened = FALSE

-----------------------------------------------------------------------------
(* Cancel requests: cancel_agent_run_view inside the session of get_db,    *)
(* which commits when the handler is done.                                 *)

\* get_run_for_user loads the row with a plain SELECT. A terminal run will be left
\* alone; for one in "cancel_requested" the assignment of line 74 is no change.
ReadRun(c) ==
    /\ cancel[c].pc = "new"
    /\ cancel' = [cancel EXCEPT ![c] = [pc |-> "read",
                                       writes |-> status \in {"pending", "running"}]]
    /\ UNCHANGED <<runVars, rowLock, cancelKey, envVars>>

\* request_cancel locks the row. The session has the row already and does not
\* refresh its attributes: the status it goes by is the one it has read.
LockRow(c) ==
    /\ cancel[c].pc = "read" /\ RowFree
    /\ rowLock' = c /\ cancel' = [cancel EXCEPT ![c].pc = "locked"]
    /\ UNCHANGED <<runVars, cancelKey, envVars>>

\* publish_cancel_signal; an error of SET or PUBLISH is logged and ignored.
Publish(c) ==
    /\ cancel[c].pc = "locked"
    /\ \/ cancelKey' = TRUE /\ cancel' = [cancel EXCEPT ![c].pc = "sent"]
          /\ UNCHANGED faults
       \/ Fault /\ cancel' = [cancel EXCEPT ![c].pc = "unsent"]
          /\ UNCHANGED cancelKey
    /\ UNCHANGED <<runVars, rowLock, userGone, garbled, history>>

\* The transaction of c is over, and the row lock with it.
Ends(c, stage) ==
    /\ cancel' = [cancel EXCEPT ![c] = [pc |-> stage, writes |-> FALSE]]
    /\ rowLock' = IF rowLock = c THEN NoOne ELSE rowLock
Answer(c) == IF cancel[c].pc = "sent" THEN "acked" ELSE "unheard"

\* Mutant: request_cancel does not look at the status.
CommitCancelAnyway(c) ==
    /\ cancel[c].pc \in {"sent", "unsent"}
    /\ status' = "cancel_requested" /\ Ends(c, Answer(c))
    /\ UNCHANGED <<tries, w, job, events, cancelKey, envVars>>

\* The session commits, and overwrites whatever is in the row by now.
CommitCancel(c) ==
    /\ cancel[c].pc \in {"sent", "unsent"}
    /\ status' = IF cancel[c].writes THEN "cancel_requested" ELSE status
    /\ reopened' = (reopened \/ (status \in Terminal /\ status' \notin Terminal))
    /\ Ends(c, Answer(c))
    /\ UNCHANGED <<tries, w, job, events, cancelKey, userGone, garbled, faults, lapsed>>

\* No Redis client, a failed commit, or the API process dies: rollback.
RollBack(c) ==
    /\ cancel[c].pc \in {"read", "locked", "sent", "unsent"} /\ Fault
    /\ Ends(c, "failed")
    /\ UNCHANGED <<runVars, cancelKey, userGone, garbled, history>>

CancelStep(c) == ReadRun(c) \/ LockRow(c) \/ Publish(c) \/ CommitCancel(c) \/ RollBack(c)

-----------------------------------------------------------------------------
(* The job.                                                                *)

\* Mutant: max_tries is not enforced.
StartJobForever ==
    /\ job = "queued"
    /\ job' = "running" /\ tries' = tries + 1 /\ w' = At("load")
    /\ UNCHANGED <<status, events, cancelVars, envVars>>

\* ARQ starts an attempt.
StartJob ==
    /\ job = "queued" /\ tries < MaxTries
    /\ job' = "running" /\ tries' = tries + 1 /\ w' = At("load")
    /\ UNCHANGED <<status, events, cancelVars, envVars>>

\* ARQ drops a job whose attempts are used up; it does not call the worker.
ExpireJob ==
    /\ job = "queued" /\ tries = MaxTries /\ job' = "gone"
    /\ UNCHANGED <<status, tries, w, events, cancelVars, envVars>>

\* The coroutine has returned or raised: RetryableRunError is no exception that
\* ARQ runs a job again for.
EndJob == job' = "gone" /\ w' = At("idle")

\* A finished run is skipped; otherwise the owner is loaded.
LoadRun ==
    /\ w.pc = "load"
    /\ IF status \in Terminal THEN EndJob
       ELSE Goto(IF userGone THEN "reject" ELSE "mark") /\ UNCHANGED job
    /\ UNCHANGED <<status, tries, events, cancelVars, envVars>>

\* "user_not_found": settled as failed, and no event is appended.
RejectRun ==
    /\ w.pc = "reject" /\ RowFree
    /\ status' = Settle("failed") /\ EndJob
    /\ UNCHANGED <<tries, events, cancelVars, envVars>>

\* Mutant: an attempt starts by clearing the key.
MarkRunningAfresh ==
    /\ w.pc = "mark" /\ RowFree
    /\ status' = Settle("running") /\ Goto("next") /\ cancelKey' = FALSE
    /\ UNCHANGED <<tries, job, events, rowLock, cancel, envVars>>

\* mark_running, then RunContext.start(): from here the watcher looks for the key.
MarkRunning ==
    /\ w.pc = "mark" /\ RowFree
    /\ status' = Settle("running") /\ Goto("next")
    /\ UNCHANGED <<tries, job, events, cancelVars, envVars>>

-----------------------------------------------------------------------------
(* The loop over the chunks of stream_agent_chat.                          *)

\* A loading chunk goes to the buffer, which may or may not be flushed now.
Buffer ==
    /\ w.pc = "next" /\ ~w.cancelled
    /\ \E y \in Yields : y[1] = "loading"
       /\ \E now \in BOOLEAN :
            /\ w' = [w EXCEPT !.gen = y[2], !.left = y[3], !.buffered = ~now]
            /\ events' = IF now THEN Append(events, "loading") ELSE events
    /\ UNCHANGED <<status, tries, job, cancelVars, envVars>>

\* Any other chunk. It carries the query in its metadata: in a garbled run the
\* line splits in two that do not parse, and the chunk is dropped.
TakeChunk ==
    /\ w.pc = "next" /\ ~w.cancelled
    /\ \E y \in Yields : y[1] # "loading"
       /\ w' = [w EXCEPT !.gen = y[2], !.left = y[3],
                         !.chunk = IF garbled THEN @ ELSE y[1],
                         !.pc = IF garbled THEN "next" ELSE "append"]
    /\ UNCHANGED <<status, tries, job, events, cancelVars, envVars>>

\* What the chunk means for the run, and what the worker does after appending it.
VerdictOn(kind) == CASE kind = "finished" -> "completed"
                     [] kind = "error" -> "failed"
                     [] OTHER -> "interrupted"
\* Mutant: an error chunk does not settle the run.
StepAfterError(kind) == IF kind \notin Endings \ {"error"} THEN "check"
                        ELSE IF kind = "interrupted" THEN "judge" ELSE "settle"

StepAfter(kind) == IF kind \notin Endings THEN "check"
                   ELSE IF kind = "interrupted" THEN "judge" ELSE "settle"

AppendEvent ==
    /\ w.pc = "append"
    /\ FlushThen(<<w.chunk>>)
    /\ w' = [w EXCEPT !.buffered = FALSE, !.verdict = VerdictOn(w.chunk),
                      !.pc = StepAfter(w.chunk)]
    /\ UNCHANGED <<status, tries, job, cancelVars, envVars>>

\* _is_cancel_requested: a plain read, it does not wait for the row lock.
JudgeInterruption ==
    /\ w.pc = "judge"
    /\ w' = [w EXCEPT !.pc = "settle",
                      !.verdict = IF status = "cancel_requested"
                                  THEN "cancelled" ELSE "interrupted"]
    /\ UNCHANGED <<status, tries, job, events, cancelVars, envVars>>

SettleRun ==
    /\ w.pc = "settle" /\ RowFree
    /\ status' = Settle(w.verdict)
    /\ w' = [w EXCEPT !.settled = TRUE, !.pc = "check"]
    /\ UNCHANGED <<tries, job, events, cancelVars, envVars>>

\* is_cancelled() after every chunk that is not a loading chunk.
CheckCancelled ==
    /\ w.pc = "check"
    /\ Goto(IF w.cancelled \/ cancelKey THEN "abort" ELSE "next")
    /\ UNCHANGED <<status, tries, job, events, cancelVars, envVars>>

\* The watcher task sees the key (or the message published with it).
WatchSignal ==
    /\ w.pc \in InTry /\ cancelKey /\ ~w.cancelled
    /\ w' = [w EXCEPT !.cancelled = TRUE]
    /\ UNCHANGED <<status, tries, job, events, cancelVars, envVars>>

\* _consume_stream_with_cancel prefers the cancel event to the next chunk.
LeaveStream ==
    /\ w.pc = "next" /\ w.cancelled /\ Goto("abort")
    /\ UNCHANGED <<status, tries, job, events, cancelVars, envVars>>

\* The stream raises instead of yielding an error chunk.
StreamRaises ==
    /\ w.pc = "next" /\ ~w.cancelled /\ w.gen \in {"body", "wrap"}
    /\ \E r \in BOOLEAN : w' = [w EXCEPT !.pc = "report", !.retryable = r]
    /\ UNCHANGED <<status, tries, job, events, cancelVars, envVars>>

StreamEnds ==
    /\ w.pc = "next" /\ ~w.cancelled /\ w.gen = "end" /\ Goto("drain")
    /\ UNCHANGED <<status, tries, job, events, cancelVars, envVars>>

\* Mutant: a stream that ends without an ending chunk does not settle the run.
DrainOnly ==
    /\ w.pc = "drain" /\ FlushThen(<<>>)
    /\ w' = [w EXCEPT !.buffered = FALSE, !.pc = "close"]
    /\ UNCHANGED <<status, tries, job, cancelVars, envVars>>

Drain ==
    /\ w.pc = "drain" /\ FlushThen(<<>>)
    /\ w' = [w EXCEPT !.buffered = FALSE,
                      !.pc = IF w.settled THEN "close" ELSE "complete"]
    /\ UNCHANGED <<status, tries, job, cancelVars, envVars>>

\* No chunk settled the run: here the status comes first, the event second.
Complete ==
    /\ w.pc = "complete" /\ RowFree
    /\ status' = Settle("completed") /\ Goto("announce")
    /\ UNCHANGED <<tries, job, events, cancelVars, envVars>>

Announce ==
    /\ w.pc = "announce" /\ events' = Append(events, "finished") /\ Goto("close")
    /\ UNCHANGED <<status, tries, job, cancelVars, envVars>>

-----------------------------------------------------------------------------
(* The handlers and the finally block.                                     *)

\* Mutant: nothing is appended for a cancelled run.
AbortUnannounced ==
    /\ w.pc = "abort"
    /\ w' = [w EXCEPT !.pc = "conclude", !.verdict = "cancelled"]
    /\ UNCHANGED <<status, tries, job, events, cancelVars, envVars>>

\* except CancelledError.
Abort ==
    /\ w.pc = "abort" /\ FlushThen(<<"interrupted">>)
    /\ w' = [w EXCEPT !.pc = "conclude", !.verdict = "cancelled", !.buffered = FALSE]
    /\ UNCHANGED <<status, tries, job, cancelVars, envVars>>

\* append_run_event of the handler, by the kind of the error.
ReportKind == IF w.retryable THEN "retry" ELSE "error"

\* except Exception: a retryable error fails the run on the last try only; before
\* it, RetryableRunError is raised.
Report ==
    /\ w.pc = "report" /\ FlushThen(<<ReportKind>>)
    /\ LET last == ~w.retryable \/ tries >= MaxTries
       IN  w' = [w EXCEPT !.pc = IF last THEN "conclude" ELSE "close",
                          !.verdict = IF last THEN "failed" ELSE @, !.buffered = FALSE]
    /\ UNCHANGED <<status, tries, job, cancelVars, envVars>>

\* Mutant: set_terminal_status does not take the row lock.
ConcludeUnlocked ==
    /\ w.pc = "conclude"
    /\ status' = Settle(w.verdict) /\ Goto("close")
    /\ UNCHANGED <<tries, job, events, cancelVars, envVars>>

Conclude ==
    /\ w.pc = "conclude" /\ RowFree
    /\ status' = Settle(w.verdict) /\ Goto("close")
    /\ UNCHANGED <<tries, job, events, cancelVars, envVars>>

\* finally: the watcher stops and the key goes, unless Redis refuses (logged).
ClearSignal ==
    /\ w.pc = "close" /\ Goto("done")
    /\ \/ cancelKey' = FALSE /\ UNCHANGED faults
       \/ Fault /\ UNCHANGED cancelKey
    /\ UNCHANGED <<status, tries, job, events, rowLock, cancel, userGone, garbled, history>>

\* ARQ learns how the coroutine ended. It runs a cancelled job again (retry_jobs)
\* unless it was its job_timeout that cancelled it.
FinishJob ==
    /\ w.pc = "done" /\ w' = At("idle")
    /\ job' \in IF w.evicted THEN {"queued", "gone"} ELSE {"gone"}
    /\ UNCHANGED <<status, tries, events, cancelVars, envVars>>

WorkerStep ==
    \/ StartJob \/ ExpireJob \/ LoadRun \/ RejectRun \/ MarkRunning
    \/ Buffer \/ TakeChunk \/ AppendEvent \/ JudgeInterruption \/ SettleRun
    \/ CheckCancelled \/ WatchSignal \/ LeaveStream \/ StreamRaises
    \/ StreamEnds \/ Drain \/ Complete \/ Announce
    \/ Abort \/ Report \/ Conclude \/ ClearSignal \/ FinishJob

-----------------------------------------------------------------------------
(* Failures.                                                               *)

\* A transaction fails with OperationalError, which is retryable.
DatabaseFails ==
    /\ Fault
    /\ \/ w.pc \in {"load", "reject", "mark"} /\ EndJob
       \/ /\ w.pc \in {"judge", "settle", "drain", "complete"}
          /\ w' = [w EXCEPT !.pc = "report", !.retryable = TRUE]
          /\ UNCHANGED job
       \/ w.pc = "conclude" /\ Goto("close") /\ UNCHANGED job
    /\ UNCHANGED <<status, tries, events, cancelVars, userGone, garbled, history>>

\* What the step at hand appends after the flush.
Appending == CASE w.pc = "append" -> <<w.chunk>>
               [] w.pc = "announce" -> <<"finished">>
               [] w.pc = "abort" -> <<"interrupted">>
               [] w.pc = "report" -> <<ReportKind>>

\* How far a write gets that breaks off: what is in the stream, and whether the
\* writer still holds its buffer. XADD may have succeeded and EXPIRE failed.
BrokenOff == {<<<<>>, w.buffered>>, <<Held, w.buffered>>}
             \cup IF w.pc = "drain" THEN {}
                  ELSE {<<Held, FALSE>>, <<Held \o Appending, FALSE>>}

\* A flush and append, or the flush of a loading chunk, breaks off.
BreakOff(step, evicted) ==
    \E b \in BrokenOff :
        /\ events' = events \o b[1]
        /\ w' = [w EXCEPT !.pc = step, !.buffered = b[2], !.retryable = FALSE,
                          !.evicted = evicted]
BreakBuffer(step) ==
    /\ w.pc = "next" /\ ~w.cancelled
    /\ \E y \in Yields, written \in {<<>>, <<"loading">>} :
        /\ y[1] = "loading" /\ events' = events \o written
        /\ w' = [w EXCEPT !.pc = step, !.gen = y[2], !.left = y[3], !.buffered = TRUE,
                          !.retryable = FALSE]

\* A command fails with an error of the Redis client, which is not retryable.
RedisFails ==
    /\ Fault
    /\ \/ w.pc \in {"append", "drain", "announce"} /\ BreakOff("report", FALSE)
       \/ BreakBuffer("report")
       \/ w.pc \in {"abort", "report"} /\ BreakOff("close", FALSE)
    /\ UNCHANGED <<status, tries, job, cancelVars, userGone, garbled, history>>

\* The worker process dies; ARQ hands the job out again.
Crash ==
    /\ job = "running" /\ Fault
    /\ w' = At("idle") /\ job' = "queued"
    /\ lapsed' = (lapsed \/ w.pc = "done")
    /\ UNCHANGED <<status, tries, events, cancelVars, userGone, garbled, reopened>>

\* job_timeout or a shutdown of the worker cancels the coroutine. Inside the try
\* block the handler takes it for a cancellation by the user.
CancelInTry ==
    /\ \/ w.pc \in {"append", "drain", "announce"} /\ BreakOff("abort", FALSE)
       \/ BreakBuffer("abort")
       \/ w.pc \in {"next", "judge", "settle", "check", "complete"} /\ Goto("abort")
          /\ UNCHANGED events
    /\ UNCHANGED <<job, cancelKey, lapsed>>

\* In a handler it leaves the coroutine, through the finally block.
CancelInHandler ==
    /\ \/ w.pc \in {"abort", "report"} /\ BreakOff("close", TRUE)
       \/ w.pc = "conclude" /\ w' = [w EXCEPT !.pc = "close", !.evicted = TRUE]
          /\ UNCHANGED events
    /\ lapsed' = TRUE /\ UNCHANGED <<job, cancelKey>>

\* Before the try block and in the finally block it leaves at once.
CancelOutside ==
    /\ w' = At("idle") /\ job' \in {"queued", "gone"} /\ UNCHANGED events
    /\ \/ w.pc \in {"load", "reject", "mark"} /\ UNCHANGED <<cancelKey, lapsed>>
       \/ w.pc = "close" /\ cancelKey' \in {cancelKey, FALSE} /\ lapsed' = TRUE

ArqCancels ==
    /\ Fault /\ (CancelInTry \/ CancelInHandler \/ CancelOutside)
    /\ UNCHANGED <<status, tries, rowLock, cancel, userGone, garbled, reopened>>

\* The TTL of the cancel key runs out.
KeyExpires ==
    /\ cancelKey /\ cancelKey' = FALSE /\ lapsed' = TRUE
    /\ UNCHANGED <<runVars, rowLock, cancel, userGone, garbled, faults, reopened>>

DeleteUser ==
    /\ ~userGone /\ userGone' = TRUE
    /\ UNCHANGED <<runVars, cancelVars, garbled, faults, history>>

Failure == DatabaseFails \/ RedisFails \/ Crash \/ ArqCancels
Environment == Failure \/ KeyExpires \/ DeleteUser

Next == (\E c \in Cancellers : CancelStep(c)) \/ WorkerStep \/ Environment

Fairness ==
    /\ WF_vars(WorkerStep)
    /\ \A c \in Cancellers : WF_vars(Publish(c) \/ CommitCancel(c))

Spec == Init /\ [][Next]_vars
FairSpec == Spec /\ Fairness

-----------------------------------------------------------------------------
(* Properties.                                                             *)

\* Requests that have found the run open and are not over.
Asked == {c \in Cancellers : cancel[c].writes}

\* The promise of a run to those who follow it.
Life == INSTANCE RunLifecycle
            WITH log <- events, plain <- ~garbled /\ ~userGone,
                 Askers <- Cancellers, asked <- Asked

\* A settled run changes only by the commit of a cancel request that had read the
\* row before it was settled; no attempt settles it a second time.
ReopenedByEarlierRead ==
    [][(status \in Terminal /\ status' # status) =>
         (status' = "cancel_requested" /\ ~(Asked \subseteq Asked'))]_vars

\* Row, job and event stream together: the run keeps the promise of RunLifecycle.
ImplementsLifecycle == Life!LifeSpec

\* A run with a readable query and an owner is terminal only when the event that
\* announces that outcome is already in its stream: a follower that sees the
\* status has an event to read.
AnnouncedFirst ==
    status \in Terminal /\ ~garbled /\ ~userGone => Life!Announced(status, events)

\* Why AnnouncedFirst holds: what the attempt has already appended at the steps
\* that settle the run, and why it never completes a readable run unannounced.
AttemptInv ==
    /\ w.pc = "reject" => userGone
    /\ w.pc \in {"load", "mark"} => w.gen = "init"
    /\ w.pc = "judge" => Life!Announced("cancelled", events)
    /\ w.pc \in {"settle", "conclude"} => Life!Announced(w.verdict, events)
    /\ w.pc = "drain" => w.gen = "end"
    /\ w.pc = "append" /\ w.gen = "end" => w.chunk \in Endings
    /\ w.pc \in {"check", "next", "drain"} /\ w.gen = "end" => garbled \/ w.settled
    /\ w.pc = "complete" => garbled

\* A cancel request that was committed and published is not forgotten while it
\* matters: over crashes, failures and cancellations of the worker, the key is
\* there until the run is settled or its job is over. Two things may lose it, and
\* lapsed records them: its TTL, and an attempt that ARQ cancels in its handlers
\* or that dies behind them, whose finally block clears the key for the next one.
CancelNotLost ==
    (\E c \in Cancellers : cancel[c].pc = "acked") /\ status \notin Terminal
        /\ job # "gone" /\ w.pc # "done" /\ ~lapsed
      => cancelKey

\* Without failures, a run ends as cancelled only when a cancel request was
\* committed: the row lock makes the worker that saw the signal early wait for
\* that commit.
CancelledOnRequest ==
    faults = 0 /\ status = "cancelled"
        => \E c \in Cancellers : cancel[c].pc \in {"acked", "unheard"}

\* Without failures the first event that ends the answer decides the status, so
\* that a client that stops at it shows what the row says, unless a cancel request
\* that had read the row earlier has reopened the run.
EndOf(kind) == CASE kind = "finished" -> {"completed"}
                 [] kind = "error" -> {"failed"}
                 [] kind = "ask" -> {"interrupted"}
                 [] kind = "interrupted" -> {"cancelled", "interrupted"}
IsFirstEnding(i, l) == l[i] \in Endings /\ \A j \in 1..(i - 1) : l[j] \notin Endings
Agrees(s, l) == \A i \in 1..Len(l) : IsFirstEnding(i, l) => s \in EndOf(l[i])
FirstEndingDecides ==
    faults = 0 /\ ~reopened /\ status \in Terminal => Agrees(status, events)

\* The attempt has announced a retry that ARQ does not make.
RetryDue == job = "gone" /\ events[Len(events)] = "retry" /\ status \notin Terminal

\* Without failures every run is settled, however many cancel requests and dropped
\* chunks it meets, or waits for the retry of a retryable error.
RunSettles == [](faults = 0) => <>(status \in Terminal \/ RetryDue)
=============================================================================
