--------------------------- MODULE AgentRunProofs ---------------------------
(* What holds of AgentRun for every number of cancel requests, attempts,   *)
(* chunks and failures.                                                    *)
EXTENDS AgentRun, SequenceTheorems, TLAPS

\* The names that the steps use belong to the sets they should.
LEMMA Names ==
    /\ \A s \in {"idle", "next", "append", "judge", "settle", "check", "drain",
                 "complete", "announce", "load", "reject", "mark", "abort",
                 "report", "conclude", "close", "done"} : s \in Steps
    /\ Endings \subseteq Kinds /\ Kinds \subseteq EventKinds
    /\ {"finished", "interrupted", "loading", "retry", "error", "init"} \subseteq EventKinds
    /\ {"init", "finished", "error", "ask", "interrupted"} \subseteq Kinds
    /\ Terminal \subseteq Statuses
    /\ {"pending", "running", "cancel_requested"} \subseteq Statuses
    /\ {"completed", "failed", "cancelled", "interrupted"} \subseteq Terminal
  BY DEF Steps, InTry, EventKinds, Kinds, Endings, Statuses, Terminal

\* A fresh attempt is well typed at every step.
LEMMA FreshAttempt == ASSUME NEW s \in Steps PROVE At(s) \in Attempts
  BY RunAssumption, Names DEF At, Attempts

\* What the stream yields is a kind of chunk, a phase and a count.
LEMMA YieldsType ==
  ASSUME TypeOK, NEW y \in Yields
  PROVE  /\ y[1] \in Kinds /\ y[2] \in {"init", "body", "wrap", "end"}
         /\ y[3] \in 0..MaxBody
<1> USE RunAssumption DEF TypeOK, Attempts, Kinds, Endings
<1>1. CASE w.gen = "init"
  BY <1>1 DEF Yields
<1>2. CASE w.gen = "body"
  BY <1>2 DEF Yields
<1>3. CASE w.gen = "wrap"
  BY <1>3 DEF Yields
<1>4. CASE w.gen = "end"
  BY <1>4 DEF Yields
<1>5. QED
  BY <1>1, <1>2, <1>3, <1>4

\* Flushing and appending kinds of events keeps the stream well typed.
LEMMA FlushType ==
  ASSUME TypeOK, NEW k \in Seq(EventKinds), FlushThen(k)
  PROVE  events' \in Seq(EventKinds)
  BY Names DEF TypeOK, FlushThen, Held

\* The steps that write to the stream, besides the flush of a loading chunk.
Writers == {"append", "drain", "announce", "abort", "report"}

\* What the step at hand appends is an event.
LEMMA AppendingType ==
  ASSUME TypeOK, w.pc \in Writers \ {"drain"}
  PROVE  \E k \in EventKinds : Appending = <<k>>
<1>1. CASE w.pc = "append"
  <2>1. Appending = <<w.chunk>> /\ w.chunk \in EventKinds
    BY <1>1, Names DEF Appending, TypeOK, Attempts
  <2>2. QED BY <2>1
<1>2. CASE w.pc = "announce"
  <2>1. Appending = <<"finished">> BY <1>2 DEF Appending
  <2>2. QED BY <2>1, Names
<1>3. CASE w.pc = "abort"
  <2>1. Appending = <<"interrupted">> BY <1>3 DEF Appending
  <2>2. QED BY <2>1, Names
<1>4. CASE w.pc = "report"
  <2>1. Appending = <<ReportKind>> /\ ReportKind \in EventKinds
    BY <1>4, Names DEF Appending, ReportKind
  <2>2. QED BY <2>1
<1>5. QED BY <1>1, <1>2, <1>3, <1>4 DEF Writers

\* A write that breaks off has written nothing, the flush, or all of it.
LEMMA BreakWrites ==
  ASSUME TypeOK, w.pc \in Writers, NEW b \in BrokenOff, events' = events \o b[1]
  PROVE  /\ b[2] \in BOOLEAN
         /\ \/ events' = events \/ FlushThen(<<>>)
            \/ \E k \in EventKinds : FlushThen(<<k>>)
<1>1. /\ events \in Seq(EventKinds) /\ Held \in Seq(EventKinds) /\ w.buffered \in BOOLEAN
      /\ <<>> \in Seq(EventKinds)
  <2>1. <<"loading">> \in Seq(EventKinds) /\ <<>> \in Seq(EventKinds)
    BY Names
  <2>2. QED BY <2>1 DEF TypeOK, Attempts, Held
<1>2. CASE b = <<<<>>, w.buffered>>
  BY <1>1, <1>2, ConcatEmptySeq
<1>3. CASE b = <<Held, w.buffered>> \/ b = <<Held, FALSE>>
  <2>1. b[1] = Held /\ b[2] \in BOOLEAN
    <3>1. CASE b = <<Held, w.buffered>> BY <1>1, <3>1
    <3>2. CASE b = <<Held, FALSE>> BY <3>2
    <3>3. QED BY <1>3, <3>1, <3>2
  <2>2. (events \o Held) \o <<>> = events \o Held /\ events' = events \o Held
    BY <1>1, <2>1, ConcatProperties, ConcatEmptySeq
  <2>3. QED BY <2>1, <2>2 DEF FlushThen
<1>4. CASE w.pc # "drain" /\ b = <<Held \o Appending, FALSE>>
  <2>1. PICK k \in EventKinds : Appending = <<k>> BY <1>4, AppendingType
  <2>2. events' = events \o (Held \o <<k>>) /\ b[2] \in BOOLEAN BY <1>4, <2>1
  <2>3. <<k>> \in Seq(EventKinds) OBVIOUS
  <2>4. events' = (events \o Held) \o <<k>> BY <1>1, <2>2, <2>3, ConcatAssociative
  <2>5. QED BY <2>2, <2>4 DEF FlushThen
<1>5. QED
  BY <1>2, <1>3, <1>4 DEF BrokenOff

\* What such a step does to the attempt and to the stream.
LEMMA BreakOffEffect ==
  ASSUME TypeOK, w.pc \in Writers, NEW step \in Steps, NEW out \in BOOLEAN,
         BreakOff(step, out)
  PROVE  /\ w' \in Attempts /\ w'.pc = step /\ events' \in Seq(EventKinds)
         /\ \/ events' = events \/ FlushThen(<<>>)
            \/ \E k \in EventKinds : FlushThen(<<k>>)
<1>1. PICK b \in BrokenOff :
        /\ events' = events \o b[1]
        /\ w' = [w EXCEPT !.pc = step, !.buffered = b[2], !.retryable = FALSE,
                          !.evicted = out]
  BY DEF BreakOff
<1>2. /\ b[2] \in BOOLEAN
      /\ \/ events' = events \/ FlushThen(<<>>)
         \/ \E k \in EventKinds : FlushThen(<<k>>)
  BY <1>1, BreakWrites
<1>3. events' \in Seq(EventKinds)
  <2>1. events' = events => events' \in Seq(EventKinds) BY DEF TypeOK
  <2>2. <<>> \in Seq(EventKinds) /\ \A k \in EventKinds : <<k>> \in Seq(EventKinds)
    OBVIOUS
  <2>3. QED BY <1>2, <2>1, <2>2, FlushType
<1>4. QED BY <1>1, <1>2, <1>3 DEF TypeOK, Attempts

\* The same for the flush of a loading chunk.
LEMMA BreakBufferEffect ==
  ASSUME TypeOK, NEW step \in Steps, BreakBuffer(step)
  PROVE  /\ w' \in Attempts /\ w'.pc = step /\ events' \in Seq(EventKinds)
         /\ events' = events \/ events' = Append(events, "loading")
<1>1. PICK y \in Yields, written \in {<<>>, <<"loading">>} :
        /\ events' = events \o written
        /\ w' = [w EXCEPT !.pc = step, !.gen = y[2], !.left = y[3], !.buffered = TRUE,
                          !.retryable = FALSE]
  BY DEF BreakBuffer
<1>2. events \in Seq(EventKinds) /\ "loading" \in EventKinds BY Names DEF TypeOK
<1>3. events' = events \/ events' = Append(events, "loading")
  BY <1>1, <1>2, ConcatEmptySeq, AppendIsConcat
<1>4. events' \in Seq(EventKinds) BY <1>2, <1>3
<1>5. w' \in Attempts /\ w'.pc = step BY <1>1, YieldsType DEF TypeOK, Attempts
<1>6. QED BY <1>3, <1>4, <1>5

\* A failure that the bound admits keeps the count of failures in range.
LEMMA FaultType == ASSUME TypeOK, Fault PROVE faults' \in 0..MaxFaults
  BY RunAssumption DEF TypeOK, Fault

\* Settling a run keeps its status well typed.
LEMMA SettleType ==
  ASSUME TypeOK, NEW s \in Statuses PROVE Settle(s) \in Statuses
  BY DEF TypeOK, Settle

\* Every step of a cancel request keeps the types.
LEMMA CancelTypes ==
  ASSUME TypeOK, NEW c \in Cancellers, CancelStep(c) PROVE TypeOK'
<1> USE RunAssumption DEF TypeOK, runVars, envVars, history
<1>0. Stages = {"new", "read", "locked", "sent", "unsent", "acked", "unheard", "failed"}
  BY DEF Stages
<1>1. CASE ReadRun(c) \/ LockRow(c)
  <2>1. ReadRun(c) => cancel' \in [Cancellers -> [pc : Stages, writes : BOOLEAN]]
    <3>1. (status \in {"pending", "running"}) \in BOOLEAN OBVIOUS
    <3>2. ASSUME NEW m \in BOOLEAN,
                 cancel' = [cancel EXCEPT ![c] = [pc |-> "read", writes |-> m]]
          PROVE  cancel' \in [Cancellers -> [pc : Stages, writes : BOOLEAN]]
      BY <1>0, <3>2
    <3>3. QED BY <3>1, <3>2, Zenon DEF ReadRun
  <2>2. LockRow(c) => cancel' \in [Cancellers -> [pc : Stages, writes : BOOLEAN]]
    BY <1>0 DEF LockRow
  <2>3. QED
    BY <1>1, <2>1, <2>2 DEF ReadRun, LockRow
<1>2. CASE Publish(c)
  <2>1. cancelKey' \in BOOLEAN /\ faults' \in 0..MaxFaults
    BY <1>2, FaultType DEF Publish
  <2>2. cancel' \in [Cancellers -> [pc : Stages, writes : BOOLEAN]]
    BY <1>0, <1>2 DEF Publish
  <2>3. QED
    BY <1>2, <2>1, <2>2 DEF Publish
<1>3. ASSUME NEW stage \in Stages, Ends(c, stage)
      PROVE  /\ cancel' \in [Cancellers -> [pc : Stages, writes : BOOLEAN]]
             /\ rowLock' \in Cancellers \cup {NoOne}
  BY <1>3 DEF Ends
<1>4. CASE CommitCancel(c)
  <2>1. Answer(c) \in Stages BY <1>0 DEF Answer
  <2>2. status' \in Statuses /\ reopened' \in BOOLEAN BY <1>4, Names DEF CommitCancel
  <2>3. QED
    BY <1>3, <1>4, <2>1, <2>2 DEF CommitCancel
<1>5. CASE RollBack(c)
  BY <1>0, <1>3, <1>5, FaultType DEF RollBack
<1>6. QED
  BY <1>1, <1>2, <1>4, <1>5 DEF CancelStep

\* Every step of the worker keeps the attempt record well typed.
LEMMA AttemptTypes ==
  ASSUME TypeOK, WorkerStep PROVE w' \in Attempts
<1> USE Names DEF TypeOK
<1>1. CASE StartJob \/ LoadRun \/ RejectRun \/ FinishJob \/ ExpireJob
  BY <1>1, FreshAttempt DEF StartJob, LoadRun, RejectRun, FinishJob, ExpireJob,
                            EndJob, Goto, Attempts
<1>2. CASE MarkRunning \/ SettleRun \/ Complete \/ Announce \/ Conclude \/ ClearSignal
  BY <1>2 DEF MarkRunning, SettleRun, Complete, Announce, Conclude, ClearSignal, Goto, Attempts
<1>3. CASE Buffer
  <2>1. PICK y \in Yields, now \in BOOLEAN :
          w' = [w EXCEPT !.gen = y[2], !.left = y[3], !.buffered = ~now]
    BY <1>3 DEF Buffer
  <2>2. QED
    BY <2>1, YieldsType DEF Attempts
<1>4. CASE TakeChunk
  <2>1. PICK y \in Yields :
          w' = [w EXCEPT !.gen = y[2], !.left = y[3],
                         !.chunk = IF garbled THEN @ ELSE y[1],
                         !.pc = IF garbled THEN "next" ELSE "append"]
    BY <1>4 DEF TakeChunk
  <2>2. QED
    BY <2>1, YieldsType DEF Attempts
<1>5. CASE AppendEvent
  <2>1. VerdictOn(w.chunk) \in Terminal /\ StepAfter(w.chunk) \in Steps
    BY DEF VerdictOn, StepAfter
  <2>2. QED
    BY <1>5, <2>1 DEF AppendEvent, Attempts
<1>6. CASE JudgeInterruption
  BY <1>6 DEF JudgeInterruption, Attempts
<1>7. CASE CheckCancelled \/ WatchSignal \/ LeaveStream \/ StreamEnds
  BY <1>7 DEF CheckCancelled, WatchSignal, LeaveStream, StreamEnds, Goto, Attempts
<1>8. CASE StreamRaises
  BY <1>8 DEF StreamRaises, Attempts
<1>9. CASE Drain
  BY <1>9 DEF Drain, Attempts
<1>10. CASE Abort
  BY <1>10 DEF Abort, Attempts
<1>11. CASE Report
  BY <1>11 DEF Report, Attempts
<1>12. QED
  BY <1>1, <1>2, <1>3, <1>4, <1>5, <1>6, <1>7, <1>8, <1>9, <1>10, <1>11
     DEF WorkerStep

\* Every step of the worker keeps the event stream well typed.
LEMMA EventTypes ==
  ASSUME TypeOK, WorkerStep PROVE events' \in Seq(EventKinds)
<1> USE Names DEF TypeOK
<1>1. CASE Buffer \/ Announce
  <2>1. events' = events \/ events' = Append(events, "loading")
        \/ events' = Append(events, "finished")
    BY <1>1 DEF Buffer, Announce
  <2>2. events \in Seq(EventKinds) /\ {"loading", "finished"} \subseteq EventKinds
    OBVIOUS
  <2>3. QED
    BY <2>1, <2>2, AppendProperties
<1>2. CASE AppendEvent
  <2>1. FlushThen(<<w.chunk>>) /\ w.chunk \in EventKinds
    BY <1>2 DEF AppendEvent, Attempts
  <2>2. <<w.chunk>> \in Seq(EventKinds)
    BY <2>1
  <2>3. QED
    BY <2>1, <2>2, FlushType
<1>3. CASE Drain
  <2>1. <<>> \in Seq(EventKinds)
    OBVIOUS
  <2>2. QED
    BY <1>3, <2>1, FlushType DEF Drain
<1>4. CASE Abort
  <2>1. <<"interrupted">> \in Seq(EventKinds)
    BY Names
  <2>2. QED
    BY <1>4, <2>1, FlushType DEF Abort
<1>5. CASE Report
  <2>1. <<ReportKind>> \in Seq(EventKinds)
    BY Names DEF ReportKind
  <2>2. QED
    BY <1>5, <2>1, FlushType DEF Report
<1>6. CASE UNCHANGED events
  BY <1>6
<1>7. QED
  BY <1>1, <1>2, <1>3, <1>4, <1>5, <1>6
     DEF WorkerStep, StartJob, ExpireJob, LoadRun, RejectRun, MarkRunning, TakeChunk,
         JudgeInterruption, SettleRun, CheckCancelled, WatchSignal, LeaveStream,
         StreamRaises, StreamEnds, Complete, Conclude, ClearSignal, FinishJob

\* Every step of the worker keeps the types.
LEMMA WorkerTypes ==
  ASSUME TypeOK, WorkerStep PROVE TypeOK'
<1>1. w' \in Attempts /\ events' \in Seq(EventKinds)
  BY AttemptTypes, EventTypes
<1> USE <1>1 DEF TypeOK, cancelVars, envVars, history
<1>2. CASE StartJob \/ ExpireJob
  BY <1>2, RunAssumption DEF StartJob, ExpireJob
<1>3. CASE LoadRun
  BY <1>3 DEF LoadRun, EndJob
<1>4. CASE RejectRun
  BY <1>4, Names, SettleType DEF RejectRun, EndJob
<1>5. CASE MarkRunning \/ Complete
  BY <1>5, Names, SettleType DEF MarkRunning, Complete
<1>6. CASE SettleRun \/ Conclude
  <2>1. w.verdict \in Statuses
    BY Names DEF Attempts
  <2>2. QED
    BY <1>6, <2>1, SettleType DEF SettleRun, Conclude
<1>7. CASE ClearSignal \/ FinishJob
  BY <1>7, FaultType DEF ClearSignal, FinishJob
<1>8. CASE UNCHANGED <<status, tries, job, cancelVars, envVars>>
  BY <1>8
<1>9. QED
  BY <1>2, <1>3, <1>4, <1>5, <1>6, <1>7, <1>8
     DEF WorkerStep, Buffer, TakeChunk, AppendEvent, JudgeInterruption, CheckCancelled,
         WatchSignal, LeaveStream, StreamRaises, StreamEnds, Drain, Announce, Abort, Report

\* Every failure and every step of the environment keeps the types.
LEMMA EnvironmentTypes ==
  ASSUME TypeOK, Environment PROVE TypeOK'
<1> USE RunAssumption, Names DEF TypeOK, cancelVars, runVars, envVars, history
<1>1. CASE DatabaseFails
  <2>1. \/ w' = At("idle")
        \/ w' = [w EXCEPT !.pc = "report", !.retryable = TRUE]
        \/ w' = [w EXCEPT !.pc = "close"]
    BY <1>1 DEF DatabaseFails, EndJob, Goto
  <2>2. w' \in Attempts
    <3>1. CASE w' = At("idle") BY <3>1, FreshAttempt
    <3>2. CASE w' # At("idle") BY <2>1, <3>2 DEF Attempts
    <3>3. QED BY <3>1, <3>2
  <2>3. QED
    BY <1>1, <2>2, FaultType DEF DatabaseFails, EndJob
<1>2. CASE RedisFails
  <2>1. w' \in Attempts /\ events' \in Seq(EventKinds)
    BY <1>2, BreakOffEffect, BreakBufferEffect DEF RedisFails, Writers
  <2>2. QED
    BY <1>2, <2>1, FaultType DEF RedisFails
<1>3. CASE Crash
  BY <1>3, FreshAttempt, FaultType DEF Crash
<1>4. CASE ArqCancels
  <2>1. CASE CancelInTry
    <3>1. w' \in Attempts /\ events' \in Seq(EventKinds)
      BY <2>1, BreakOffEffect, BreakBufferEffect DEF CancelInTry, Writers, Goto, Attempts
    <3>2. QED
      BY <1>4, <2>1, <3>1, FaultType DEF ArqCancels, CancelInTry
  <2>2. CASE CancelInHandler
    <3>1. w' \in Attempts /\ events' \in Seq(EventKinds)
      BY <2>2, BreakOffEffect DEF CancelInHandler, Writers, Attempts
    <3>2. QED
      BY <1>4, <2>2, <3>1, FaultType DEF ArqCancels, CancelInHandler
  <2>3. CASE CancelOutside
    BY <1>4, <2>3, FreshAttempt, FaultType DEF ArqCancels, CancelOutside
  <2>4. QED
    BY <1>4, <2>1, <2>2, <2>3 DEF ArqCancels
<1>5. CASE KeyExpires
  BY <1>5 DEF KeyExpires
<1>6. CASE DeleteUser
  BY <1>6 DEF DeleteUser
<1>7. QED
  BY <1>1, <1>2, <1>3, <1>4, <1>5, <1>6 DEF Environment, Failure

\* Every reachable state of AgentRun is well typed.
THEOREM TypeCorrect == Spec => []TypeOK
<1>1. Init => TypeOK
  <2> SUFFICES ASSUME Init PROVE TypeOK
    OBVIOUS
  <2>1. events \in Seq(EventKinds)
    BY Names DEF Init
  <2>2. cancel \in [Cancellers -> [pc : Stages, writes : BOOLEAN]]
    BY DEF Init, Stages
  <2>3. w \in Attempts /\ status \in Statuses
    BY Names, FreshAttempt DEF Init
  <2>4. tries \in 0..MaxTries /\ faults \in 0..MaxFaults
    BY RunAssumption DEF Init
  <2>5. QED
    BY <2>1, <2>2, <2>3, <2>4 DEF Init, TypeOK
<1>2. TypeOK /\ [Next]_vars => TypeOK'
  <2>1. CASE UNCHANGED vars
    BY <2>1 DEF TypeOK, vars, runVars, cancelVars, envVars, history
  <2>2. QED
    BY <2>1, CancelTypes, WorkerTypes, EnvironmentTypes DEF Next
<1>3. QED
  BY <1>1, <1>2, PTL DEF Spec

-----------------------------------------------------------------------------
\* Whatever the worker does to the status, it does it through Settle; the failures
\* and the environment leave it alone.
LEMMA StatusStep ==
  ASSUME WorkerStep \/ Environment
  PROVE  status' = status \/ \E s : status' = Settle(s)
<1>1. CASE WorkerStep
  BY <1>1 DEF WorkerStep, StartJob, ExpireJob, LoadRun, RejectRun, MarkRunning, Buffer,
              TakeChunk, AppendEvent, JudgeInterruption, SettleRun, CheckCancelled,
              WatchSignal, LeaveStream, StreamRaises, StreamEnds, Drain, Complete,
              Announce, Abort, Report, Conclude, ClearSignal, FinishJob
<1>2. CASE Environment
  BY <1>2 DEF Environment, Failure, DatabaseFails, RedisFails, Crash, ArqCancels,
              KeyExpires, DeleteUser, runVars
<1>3. QED
  BY <1>1, <1>2

\* A settled run is never settled again: it changes only by the commit of a cancel
\* request that had read the row before it was settled.
THEOREM ReopenedByEarlierReadCorrect == Spec => ReopenedByEarlierRead
<1>1. TypeOK /\ [Next]_vars =>
        [(status \in Terminal /\ status' # status) =>
           (status' = "cancel_requested" /\ ~(Asked \subseteq Asked'))]_vars
  <2> SUFFICES ASSUME TypeOK, Next, status \in Terminal, status' # status
               PROVE  status' = "cancel_requested" /\ ~(Asked \subseteq Asked')
    BY DEF vars, runVars
  <2>1. PICK c \in Cancellers : CancelStep(c)
    BY StatusStep DEF Next, Settle
  <2>2. CommitCancel(c)
    BY <2>1 DEF CancelStep, ReadRun, LockRow, Publish, RollBack, runVars
  <2>3. status' = "cancel_requested" /\ cancel[c].writes
    BY <2>2 DEF CommitCancel
  <2>4. ~cancel'[c].writes
    BY <2>2 DEF CommitCancel, Ends, TypeOK
  <2>5. QED
    BY <2>3, <2>4 DEF Asked
<1>2. QED
  BY <1>1, TypeCorrect, PTL DEF Spec, ReopenedByEarlierRead

-----------------------------------------------------------------------------
\* A cancel request that reached Redis leaves its key until an attempt is over,
\* unless it lapsed; no attempt is cancelled by ARQ without a trace of that.
KeyInv ==
  /\ (\E c \in Cancellers : cancel[c].pc \in {"sent", "acked"})
       /\ job # "gone" /\ w.pc # "done" /\ ~lapsed => cancelKey
  /\ w.evicted => lapsed
  /\ w.pc \notin {"idle"} => job = "running"

\* A cancel request that was committed and published is not forgotten while it
\* matters, over every number of attempts, crashes and failures, until the key
\* expires or an attempt is cut off between its handlers and its end.
THEOREM CancelRemembered == Spec => []CancelNotLost
<1>1. Init => KeyInv
  BY DEF Init, KeyInv, At
<1>2. TypeOK /\ KeyInv /\ [Next]_vars => KeyInv'
  <2> SUFFICES ASSUME TypeOK, KeyInv, [Next]_vars PROVE KeyInv'
    OBVIOUS
  <2>1. ASSUME NEW c \in Cancellers, CancelStep(c) PROVE KeyInv'
    <3>1. UNCHANGED <<w, job, lapsed>> /\ (cancelKey => cancelKey')
      BY <2>1 DEF CancelStep, ReadRun, LockRow, Publish, CommitCancel, RollBack, runVars,
                  envVars, history
    <3>2. CASE ReadRun(c) \/ LockRow(c) \/ RollBack(c)
      BY <3>1, <3>2 DEF ReadRun, LockRow, RollBack, Ends, TypeOK, KeyInv
    <3>3. CASE Publish(c)
      BY <3>1, <3>3 DEF Publish, TypeOK, KeyInv
    <3>4. CASE CommitCancel(c)
      <4>1. Answer(c) = "acked" => cancel[c].pc = "sent"
        BY DEF Answer
      <4>2. /\ cancel'[c].pc = Answer(c)
            /\ \A d \in Cancellers : d # c => cancel'[d] = cancel[d]
        BY <3>4 DEF CommitCancel, Ends, TypeOK
      <4>3. Answer(c) # "sent"
        BY DEF Answer
      <4>4. \A d \in Cancellers : cancel'[d].pc \in {"sent", "acked"}
                                   => cancel[d].pc \in {"sent", "acked"}
        BY <4>1, <4>2, <4>3
      <4>5. QED
        BY <3>1, <4>4 DEF KeyInv
    <3>5. QED
      BY <2>1, <3>2, <3>3, <3>4 DEF CancelStep
  <2>2. CASE WorkerStep
    <3>1. UNCHANGED <<cancel, lapsed>>
      BY <2>2 DEF WorkerStep, StartJob, ExpireJob, LoadRun, RejectRun, MarkRunning, Buffer,
              TakeChunk, AppendEvent, JudgeInterruption, SettleRun, CheckCancelled,
              WatchSignal, LeaveStream, StreamRaises, StreamEnds, Drain, Complete,
              Announce, Abort, Report, Conclude, ClearSignal, FinishJob, cancelVars,
              envVars, history
    <3>2. CASE StartJob \/ ExpireJob
      BY <2>2, <3>1, <3>2 DEF StartJob, ExpireJob, At, cancelVars, KeyInv
    <3>3. CASE LoadRun
      BY <3>1, <3>3 DEF LoadRun, EndJob, Goto, At, cancelVars, KeyInv, TypeOK, Attempts
    <3>4. CASE RejectRun \/ FinishJob
      BY <3>1, <3>4 DEF RejectRun, FinishJob, EndJob, At, cancelVars, KeyInv
    <3>5. CASE ClearSignal
      <4>1. w'.pc = "done" /\ w'.evicted = w.evicted /\ job' = job /\ w.pc = "close"
        BY <3>5 DEF ClearSignal, Goto, TypeOK, Attempts
      <4>2. QED
        BY <3>1, <4>1 DEF KeyInv
    <3>6. CASE ~(StartJob \/ ExpireJob \/ LoadRun \/ RejectRun \/ ClearSignal \/ FinishJob)
      <4>1. /\ UNCHANGED <<job, cancelKey>> /\ w.pc # "idle" /\ w'.evicted = w.evicted
            /\ w.pc # "done"
        BY <2>2, <3>6
           DEF WorkerStep, MarkRunning, Buffer, TakeChunk, AppendEvent, JudgeInterruption,
               SettleRun, CheckCancelled, WatchSignal, LeaveStream, StreamRaises, StreamEnds,
               Drain, Complete, Announce, Abort, Report, Conclude, Goto, cancelVars,
               TypeOK, Attempts, InTry
      <4>2. QED
        BY <3>1, <4>1 DEF KeyInv
    <3>7. QED
      BY <3>2, <3>3, <3>4, <3>5, <3>6
  <2>3. CASE DatabaseFails
    <3>1. /\ UNCHANGED <<cancel, cancelKey, lapsed>> /\ w.pc \notin {"idle", "done"}
          /\ \/ w'.pc = "idle" /\ w'.evicted = FALSE /\ job' = "gone"
             \/ w'.pc \in {"report", "close"} /\ w'.evicted = w.evicted /\ job' = job
      <4>1. CASE w.pc \in {"load", "reject", "mark"}
        BY <2>3, <4>1 DEF DatabaseFails, EndJob, At, cancelVars, history
      <4>2. CASE w.pc \notin {"load", "reject", "mark"}
        BY <2>3, <4>2 DEF DatabaseFails, Goto, cancelVars, history, TypeOK, Attempts
      <4>3. QED BY <4>1, <4>2
    <3>2. QED
      BY <3>1 DEF KeyInv
  <2>4. CASE RedisFails
    <3>1. /\ UNCHANGED <<cancel, cancelKey, lapsed, job>>
          /\ w.pc \notin {"idle", "done"} /\ (w'.evicted => w.evicted)
      BY <2>4 DEF RedisFails, BreakOff, BreakBuffer, cancelVars, history, TypeOK, Attempts
    <3>2. QED
      BY <3>1 DEF KeyInv
  <2>5. CASE Crash
    BY <2>5 DEF Crash, At, cancelVars, KeyInv
  <2>6. CASE ArqCancels
    <3>1. cancel' = cancel
      BY <2>6 DEF ArqCancels
    <3>2. CASE CancelInTry
      <4>1. /\ UNCHANGED <<cancelKey, lapsed, job>>
            /\ w.pc \notin {"idle", "done"} /\ (w'.evicted => w.evicted)
        BY <3>2 DEF CancelInTry, BreakOff, BreakBuffer, Goto, TypeOK, Attempts
      <4>2. QED
        BY <3>1, <4>1 DEF KeyInv
    <3>3. CASE CancelInHandler
      BY <3>1, <3>3 DEF CancelInHandler, KeyInv
    <3>4. CASE CancelOutside
      <4>1. /\ w'.pc = "idle" /\ w'.evicted = FALSE /\ w.pc \notin {"idle", "done"}
            /\ \/ UNCHANGED <<cancelKey, lapsed>>
               \/ lapsed' = TRUE
        BY <3>4 DEF CancelOutside, At
      <4>2. QED
        BY <3>1, <4>1 DEF KeyInv
    <3>5. QED
      BY <2>6, <3>2, <3>3, <3>4 DEF ArqCancels
  <2>7. CASE KeyExpires \/ DeleteUser \/ UNCHANGED vars
    BY <2>7 DEF KeyExpires, DeleteUser, vars, runVars, cancelVars, envVars, history, KeyInv
  <2>8. QED
    BY <2>1, <2>2, <2>3, <2>4, <2>5, <2>6, <2>7 DEF Next, Environment, Failure
<1>3. KeyInv => CancelNotLost
  BY DEF KeyInv, CancelNotLost
<1>4. QED
  BY <1>1, <1>2, <1>3, TypeCorrect, PTL DEF Spec

-----------------------------------------------------------------------------
\* An announced outcome stays announced, and appending its event announces it.
LEMMA Announcing ==
  ASSUME NEW l \in Seq(EventKinds), NEW k \in Seq(EventKinds), NEW s
  PROVE  /\ Life!Announced(s, l) => Life!Announced(s, l \o k)
         /\ (\E i \in 1..Len(k) : k[i] \in Life!Announcers[s]) => Life!Announced(s, l \o k)
<1>1. Life!Announced(s, l) => Life!Announced(s, l \o k)
  <2> SUFFICES ASSUME NEW i \in 1..Len(l), l[i] \in Life!Announcers[s]
               PROVE  Life!Announced(s, l \o k)
    BY DEF Life!Announced
  <2>1. i \in 1..Len(l \o k) /\ (l \o k)[i] = l[i]
    OBVIOUS
  <2>2. QED
    BY <2>1 DEF Life!Announced
<1>2. ASSUME NEW i \in 1..Len(k), k[i] \in Life!Announcers[s]
      PROVE  Life!Announced(s, l \o k)
  <2>1. Len(l) \in Nat /\ Len(k) \in Nat /\ Len(l \o k) = Len(l) + Len(k)
    OBVIOUS
  <2>2. Len(l) + i \in 1..Len(l \o k)
    BY <2>1
  <2>3. (l \o k)[Len(l) + i] = k[(Len(l) + i) - Len(l)]
    <3>1. Len(l) + i \in 1..(Len(l) + Len(k)) /\ ~(Len(l) + i <= Len(l))
      BY <2>1
    <3>2. QED
      BY <3>1, ConcatProperties
  <2>4. (Len(l) + i) - Len(l) = i
    BY <2>1
  <2>5. QED
    BY <1>2, <2>2, <2>3, <2>4 DEF Life!Announced
<1>3. QED
  BY <1>1, <1>2

\* Which event announces which outcome.
LEMMA Outcomes ==
    /\ "finished" \in Life!Announcers["completed"]
    /\ "error" \in Life!Announcers["failed"] /\ "retry" \in Life!Announcers["failed"]
    /\ "interrupted" \in Life!Announcers["cancelled"]
    /\ "interrupted" \in Life!Announcers["interrupted"]
    /\ "ask" \in Life!Announcers["interrupted"]
  BY DEF Life!Announcers

\* After a flush that ends with event k, whatever k announces is announced,
\* and what was announced before still is.
LEMMA FlushAnnounces ==
  ASSUME TypeOK, NEW k \in EventKinds, FlushThen(<<k>>), NEW s
  PROVE  /\ k \in Life!Announcers[s] => Life!Announced(s, events')
         /\ Life!Announced(s, events) => Life!Announced(s, events')
<1> DEFINE b == (IF w.buffered THEN <<"loading">> ELSE <<>>) \o <<k>>
<1>0. <<>> \in Seq(EventKinds) /\ <<k>> \in Seq(EventKinds)
      /\ <<"loading">> \in Seq(EventKinds)
  BY Names
<1>1. events \in Seq(EventKinds) /\ b \in Seq(EventKinds)
  BY <1>0 DEF TypeOK
<1>2. events' = events \o b
  <2>1. CASE w.buffered
    <3>1. events' = (events \o <<"loading">>) \o <<k>> /\ b = <<"loading">> \o <<k>>
      BY <2>1 DEF FlushThen, Held
    <3>2. QED
      BY <1>0, <1>1, <3>1, ConcatAssociative
  <2>2. CASE ~w.buffered
    <3>1. events' = (events \o <<>>) \o <<k>> /\ b = <<>> \o <<k>>
      BY <2>2 DEF FlushThen, Held
    <3>2. (events \o <<>>) \o <<k>> = events \o (<<>> \o <<k>>)
      BY <1>0, <1>1, ConcatAssociative
    <3>3. QED
      BY <2>2, <3>1, <3>2
  <2>3. QED
    BY <2>1, <2>2
<1>3. Len(b) \in 1..Len(b) /\ b[Len(b)] = k
  BY Names
<1>4. QED
  BY <1>1, <1>2, <1>3, Announcing

\* The stream is over after an ending chunk, and after no other.
LEMMA YieldsEnd ==
  ASSUME TypeOK, NEW y \in Yields PROVE y[2] = "end" => y[1] \in Endings
<1> USE DEF Endings
<1>1. CASE w.gen = "init"
  BY <1>1 DEF Yields
<1>2. CASE w.gen = "body"
  BY <1>2 DEF Yields
<1>3. CASE w.gen = "wrap"
  BY <1>3 DEF Yields
<1>4. CASE w.gen = "end"
  BY <1>4 DEF Yields
<1>5. QED
  BY <1>1, <1>2, <1>3, <1>4 DEF TypeOK, Attempts

\* A step that leaves the attempt, the stream and garbled alone, and does not
\* bring the user back, keeps AttemptInv.
LEMMA AttemptIdle ==
  ASSUME AttemptInv, UNCHANGED <<w, events, garbled>>, userGone => userGone'
  PROVE  AttemptInv'
  BY DEF AttemptInv, Life!Announced, Life!Announcers

\* A fresh attempt satisfies AttemptInv.
LEMMA AttemptFresh ==
  ASSUME NEW s \in {"idle", "load"}, w' = At(s) PROVE AttemptInv'
  BY DEF AttemptInv, At

\* The steps of the worker outside the stream and the handlers.
QuietStep ==
    \/ StartJob \/ ExpireJob \/ LoadRun \/ RejectRun \/ MarkRunning
    \/ JudgeInterruption \/ SettleRun \/ CheckCancelled \/ WatchSignal
    \/ Complete \/ Conclude \/ ClearSignal \/ FinishJob

\* They append no event and keep AttemptInv.
LEMMA QuietKeepsAttempt ==
  ASSUME TypeOK, AttemptInv, QuietStep PROVE AttemptInv'
<1> USE DEF TypeOK
<1>1. CASE StartJob \/ RejectRun \/ FinishJob \/ ExpireJob
  BY <1>1, AttemptFresh, AttemptIdle DEF StartJob, RejectRun, FinishJob, ExpireJob, EndJob, envVars
<1>2. CASE LoadRun
  <2>1. CASE w' = At("idle")
    BY <2>1, AttemptFresh
  <2>2. CASE Goto(IF userGone THEN "reject" ELSE "mark")
    BY <1>2, <2>2 DEF LoadRun, Goto, AttemptInv, Attempts, envVars
  <2>3. QED
    BY <1>2, <2>1, <2>2 DEF LoadRun, EndJob
<1>3. CASE MarkRunning \/ SettleRun \/ Conclude \/ ClearSignal
  BY <1>3 DEF MarkRunning, SettleRun, Conclude, ClearSignal, Goto, AttemptInv, Attempts, envVars
<1>4. CASE JudgeInterruption
  <2>1. Life!Announced("cancelled", events) /\ Life!Announced("interrupted", events)
    BY <1>4 DEF JudgeInterruption, AttemptInv, Life!Announced, Life!Announcers
  <2>2. w'.pc = "settle" /\ w'.verdict \in {"cancelled", "interrupted"}
    BY <1>4 DEF JudgeInterruption, Attempts
  <2>3. events' = events
    BY <1>4 DEF JudgeInterruption
  <2>4. Life!Announced(w'.verdict, events')
    BY <2>1, <2>2, <2>3
  <2>5. QED
    BY <2>2, <2>4 DEF AttemptInv
<1>5. CASE CheckCancelled \/ Complete
  BY <1>5 DEF CheckCancelled, Complete, Goto, AttemptInv, Attempts, envVars
<1>6. CASE WatchSignal
  <2>1. w'.pc = w.pc /\ w'.gen = w.gen /\ w'.chunk = w.chunk /\ w'.settled = w.settled
        /\ w'.verdict = w.verdict
    BY <1>6 DEF WatchSignal, Attempts
  <2>2. garbled' = garbled /\ userGone' = userGone /\ events' = events
    BY <1>6 DEF WatchSignal, envVars
  <2>3. QED
    BY <2>1, <2>2 DEF AttemptInv, Life!Announced, Life!Announcers
<1>7. QED
  BY <1>1, <1>2, <1>3, <1>4, <1>5, <1>6 DEF QuietStep

\* The steps of the stream and of the handlers keep AttemptInv.
LEMMA StreamKeepsAttempt ==
  ASSUME TypeOK, AttemptInv, WorkerStep, ~QuietStep PROVE AttemptInv'
<1> USE DEF TypeOK
<1>1. CASE Buffer
  <2>1. PICK y \in Yields, now \in BOOLEAN :
          /\ y[1] = "loading"
          /\ w' = [w EXCEPT !.gen = y[2], !.left = y[3], !.buffered = ~now]
    BY <1>1 DEF Buffer
  <2>2. y[2] # "end"
    BY <2>1, YieldsEnd DEF Endings
  <2>3. w'.pc = "next" /\ w'.gen # "end"
    BY <1>1, <2>1, <2>2 DEF Buffer, Attempts
  <2>4. QED
    BY <2>3 DEF AttemptInv
<1>2. CASE TakeChunk
  <2>1. PICK y \in Yields :
          w' = [w EXCEPT !.gen = y[2], !.left = y[3],
                         !.chunk = IF garbled THEN @ ELSE y[1],
                         !.pc = IF garbled THEN "next" ELSE "append"]
    BY <1>2 DEF TakeChunk
  <2>2. garbled' = garbled /\ w'.gen = y[2]
    BY <1>2, <2>1 DEF TakeChunk, envVars, Attempts
  <2>3. CASE garbled
    BY <2>1, <2>2, <2>3 DEF AttemptInv, Attempts
  <2>4. CASE ~garbled
    <3>1. w'.pc = "append" /\ w'.chunk = y[1]
      BY <2>1, <2>4 DEF Attempts
    <3>2. QED
      BY <2>2, <3>1, YieldsEnd DEF AttemptInv
  <2>5. QED
    BY <2>3, <2>4
<1>3. CASE AppendEvent
  <2>1. w'.pc = StepAfter(w.chunk) /\ w'.verdict = VerdictOn(w.chunk) /\ w'.gen = w.gen
    BY <1>3 DEF AppendEvent, Attempts
  <2>2. FlushThen(<<w.chunk>>) /\ w.chunk \in EventKinds /\ w.pc = "append"
    BY <1>3, Names DEF AppendEvent, Attempts
  <2>3. CASE w.chunk \notin Endings
    <3>1. w'.pc = "check" /\ w'.gen # "end"
      BY <2>1, <2>2, <2>3 DEF StepAfter, AttemptInv
    <3>2. QED
      BY <3>1 DEF AttemptInv
  <2>4. CASE w.chunk = "interrupted"
    <3>1. w'.pc = "judge"
      BY <2>1, <2>4 DEF StepAfter, Endings
    <3>2. Life!Announced("cancelled", events')
      BY <2>2, <2>4, FlushAnnounces, Outcomes
    <3>3. QED
      BY <3>1, <3>2 DEF AttemptInv
  <2>5. CASE w.chunk \in Endings /\ w.chunk # "interrupted"
    <3>1. w'.pc = "settle"
      BY <2>1, <2>5 DEF StepAfter
    <3>2. w.chunk \in Life!Announcers[w'.verdict]
      BY <2>1, <2>5, Outcomes DEF VerdictOn, Endings
    <3>3. Life!Announced(w'.verdict, events')
      BY <2>2, <3>2, FlushAnnounces
    <3>4. QED
      BY <3>1, <3>3 DEF AttemptInv
  <2>6. QED
    BY <2>3, <2>4, <2>5
<1>4. CASE LeaveStream \/ StreamRaises
  <2>1. w'.pc \in {"abort", "report"}
    BY <1>4 DEF LeaveStream, StreamRaises, Goto, Attempts
  <2>2. QED
    BY <2>1 DEF AttemptInv
<1>5. CASE StreamEnds
  BY <1>5 DEF StreamEnds, Goto, AttemptInv, Attempts, envVars
<1>6. CASE Drain
  <2>1. w'.pc = IF w.settled THEN "close" ELSE "complete"
    BY <1>6 DEF Drain, Attempts
  <2>2. w'.pc = "complete" => garbled'
    BY <1>6, <2>1 DEF Drain, AttemptInv, envVars
  <2>3. QED
    BY <2>1, <2>2 DEF AttemptInv
<1>7. CASE Announce
  BY <1>7 DEF Announce, Goto, AttemptInv, Attempts
<1>8. CASE Abort
  <2>1. w'.pc = "conclude" /\ w'.verdict = "cancelled" /\ FlushThen(<<"interrupted">>)
    BY <1>8 DEF Abort, Attempts
  <2>2. Life!Announced("cancelled", events')
    BY <2>1, Names, FlushAnnounces, Outcomes
  <2>3. QED
    BY <2>1, <2>2 DEF AttemptInv
<1>9. CASE Report
  <2>1. /\ w'.pc \in {"conclude", "close"}
        /\ w'.pc = "conclude" => w'.verdict = "failed"
        /\ FlushThen(<<ReportKind>>)
    BY <1>9 DEF Report, Attempts
  <2>2. ReportKind \in EventKinds /\ ReportKind \in Life!Announcers["failed"]
    BY Names, Outcomes DEF ReportKind
  <2>3. Life!Announced("failed", events')
    BY <2>1, <2>2, FlushAnnounces
  <2>4. QED
    BY <2>1, <2>3 DEF AttemptInv
<1>10. QED
  BY <1>1, <1>2, <1>3, <1>4, <1>5, <1>6, <1>7, <1>8, <1>9 DEF WorkerStep, QuietStep

\* The cancel requests and the failures keep AttemptInv.
LEMMA OthersKeepAttempt ==
  ASSUME TypeOK, AttemptInv, Environment \/ \E c \in Cancellers : CancelStep(c)
  PROVE  AttemptInv'
<1> USE DEF TypeOK
<1>1. CASE \E c \in Cancellers : CancelStep(c)
  BY <1>1, AttemptIdle DEF CancelStep, ReadRun, LockRow, Ends, Publish, CommitCancel, RollBack,
                           runVars, envVars
<1>2. CASE DatabaseFails
  <2>1. w' = At("idle") \/ w'.pc \in {"report", "close"}
    BY <1>2 DEF DatabaseFails, EndJob, Goto, Attempts
  <2>2. QED
    BY <2>1, AttemptFresh DEF AttemptInv
<1>3. CASE RedisFails
  <2>1. w'.pc \in {"report", "close"}
    BY <1>3, Names, BreakOffEffect, BreakBufferEffect DEF RedisFails, Writers
  <2>2. QED
    BY <2>1 DEF AttemptInv
<1>4. CASE Crash
  BY <1>4, AttemptFresh DEF Crash
<1>5. CASE ArqCancels
  <2>1. CASE CancelInTry
    <3>1. w'.pc = "abort"
      BY <2>1, Names, BreakOffEffect, BreakBufferEffect DEF CancelInTry, Writers, Goto, Attempts
    <3>2. QED
      BY <3>1 DEF AttemptInv
  <2>2. CASE CancelInHandler
    <3>1. w'.pc = "close"
      BY <2>2, Names, BreakOffEffect DEF CancelInHandler, Writers, Attempts
    <3>2. QED
      BY <3>1 DEF AttemptInv
  <2>3. CASE CancelOutside
    BY <2>3, AttemptFresh DEF CancelOutside
  <2>4. QED
    BY <1>5, <2>1, <2>2, <2>3 DEF ArqCancels
<1>6. CASE KeyExpires \/ DeleteUser
  BY <1>6, AttemptIdle DEF KeyExpires, DeleteUser, runVars, envVars
<1>7. QED
  BY <1>1, <1>2, <1>3, <1>4, <1>5, <1>6 DEF Environment, Failure

\* AttemptInv holds in every reachable state.
THEOREM AttemptCorrect == Spec => []AttemptInv
<1>1. Init => AttemptInv
  BY DEF Init, At, AttemptInv
<1>2. TypeOK /\ AttemptInv /\ [Next]_vars => AttemptInv'
  <2>1. CASE UNCHANGED vars
    BY <2>1, AttemptIdle DEF vars, runVars, envVars
  <2>2. QED
    BY <2>1, QuietKeepsAttempt, StreamKeepsAttempt, OthersKeepAttempt DEF Next
<1>3. QED
  BY <1>1, <1>2, TypeCorrect, PTL DEF Spec

-----------------------------------------------------------------------------
\* A flush, with or without an event after it, writes at most one batch.
LEMMA FlushWrites ==
  ASSUME TypeOK, UNCHANGED <<status, garbled, userGone, cancel>>,
         FlushThen(<<>>) \/ \E k \in EventKinds : FlushThen(<<k>>)
  PROVE  Life!Write \/ UNCHANGED Life!lifeVars
<1>0. /\ events \in Seq(EventKinds) /\ <<>> \in Seq(EventKinds)
      /\ <<"loading">> \in Seq(EventKinds)
      /\ EventKinds = Life!Kinds /\ "loading" \in Life!Kinds
  BY Names DEF TypeOK, EventKinds, Kinds, Endings, Life!Kinds
<1>1. CASE FlushThen(<<>>) /\ w.buffered
  <2>1. events' = (events \o <<"loading">>) \o <<>>
    BY <1>1 DEF FlushThen, Held
  <2>2. events' = events \o <<"loading">>
    BY <1>0, <2>1, ConcatProperties, ConcatEmptySeq
  <2>3. QED
    BY <1>0, <2>2 DEF Life!Write, Life!Batches, Asked
<1>2. CASE FlushThen(<<>>) /\ ~w.buffered
  <2>1. events' = (events \o <<>>) \o <<>>
    BY <1>2 DEF FlushThen, Held
  <2>2. events' = events
    BY <1>0, <2>1, ConcatEmptySeq
  <2>3. QED
    BY <2>2 DEF Life!lifeVars, Asked
<1>3. ASSUME NEW k \in EventKinds, FlushThen(<<k>>), w.buffered PROVE Life!Write
  <2>1. events' = (events \o <<"loading">>) \o <<k>>
    BY <1>3 DEF FlushThen, Held
  <2>2. (events \o <<"loading">>) \o <<k>> = events \o (<<"loading">> \o <<k>>)
    <3>1. <<k>> \in Seq(EventKinds)
      OBVIOUS
    <3>2. QED
      BY <1>0, <3>1, ConcatAssociative
  <2>3. <<"loading">> \o <<k>> \in Life!Batches
    BY <1>0 DEF Life!Batches
  <2>4. QED
    BY <2>1, <2>2, <2>3 DEF Life!Write, Asked
<1>4. ASSUME NEW k \in EventKinds, FlushThen(<<k>>), ~w.buffered PROVE Life!Write
  <2>1. events' = (events \o <<>>) \o <<k>>
    BY <1>4 DEF FlushThen, Held
  <2>2. events \o <<>> = events
    BY <1>0, ConcatEmptySeq
  <2>3. <<k>> \in Life!Batches
    BY <1>0 DEF Life!Batches
  <2>4. QED
    BY <2>1, <2>2, <2>3 DEF Life!Write, Asked
<1>5. QED
  BY <1>1, <1>2, <1>3, <1>4

\* Settling a run resolves it once the outcome is announced, or when nobody can
\* be told; a settled run does not move.
LEMMA SettleResolves ==
  ASSUME TypeOK, UNCHANGED <<events, garbled, userGone, cancel>>, NEW s \in Terminal,
         status' = Settle(s), ~garbled /\ ~userGone => Life!Announced(s, events)
  PROVE  Life!Resolve \/ UNCHANGED Life!lifeVars
<1>1. CASE status \in Terminal
  BY <1>1 DEF Settle, Life!lifeVars, Asked
<1>2. CASE status \notin Terminal
  BY <1>2 DEF Settle, TypeOK, Statuses, Terminal, Life!Resolve, Life!Open, Life!Terminal, Asked
<1>3. QED
  BY <1>1, <1>2

\* An event by itself is a batch.
LEMMA AppendWrites ==
  ASSUME TypeOK, UNCHANGED <<status, garbled, userGone, cancel>>, NEW k \in EventKinds,
         events' = Append(events, k)
  PROVE  Life!Write
<1>1. events' = events \o <<k>>
  BY AppendIsConcat DEF TypeOK
<1>2. <<k>> \in Life!Batches
  BY Names DEF EventKinds, Kinds, Endings, Life!Kinds, Life!Batches
<1>3. QED
  BY <1>1, <1>2 DEF Life!Write, Asked

\* A step of a cancel request is a step of the request in RunLifecycle.
LEMMA CancelImplements ==
  ASSUME TypeOK, NEW c \in Cancellers, CancelStep(c)
  PROVE  Life!LifeNext \/ UNCHANGED Life!lifeVars
<1> USE DEF TypeOK, runVars, envVars
<1>1. CASE ReadRun(c)
  <2>1. UNCHANGED <<status, events, garbled, userGone>>
    BY <1>1 DEF ReadRun
  <2>2. \A d \in Cancellers \ {c} : cancel'[d] = cancel[d]
    BY <1>1 DEF ReadRun
  <2>3. cancel'[c].writes <=> status \in {"pending", "running"}
    BY <1>1 DEF ReadRun
  <2>4. CASE cancel[c].writes
    <3>1. CASE status \in {"pending", "running"}
      <4>1. Asked' = Asked
        BY <2>2, <2>3, <2>4, <3>1 DEF Asked
      <4>2. QED
        BY <2>1, <4>1 DEF Life!lifeVars
    <3>2. CASE status \notin {"pending", "running"}
      <4>1. c \in Asked /\ Asked' = Asked \ {c}
        BY <2>2, <2>3, <2>4, <3>2 DEF Asked
      <4>2. QED
        BY <2>1, <4>1 DEF Life!LifeNext, Life!Withdraw
    <3>3. QED
      BY <3>1, <3>2
  <2>5. CASE ~cancel[c].writes /\ status \in {"pending", "running"}
    <3>1. c \notin Asked /\ Asked' = Asked \cup {c}
      BY <2>2, <2>3, <2>5 DEF Asked
    <3>2. QED
      BY <2>1, <2>5, <3>1 DEF Life!LifeNext, Life!Ask
  <2>6. CASE ~cancel[c].writes /\ status \notin {"pending", "running"}
    <3>1. Asked' = Asked
      BY <2>2, <2>3, <2>6 DEF Asked
    <3>2. QED
      BY <2>1, <3>1 DEF Life!lifeVars
  <2>7. QED
    BY <2>4, <2>5, <2>6
<1>2. CASE LockRow(c) \/ Publish(c)
  <2>1. UNCHANGED <<status, events, garbled, userGone>>
    BY <1>2 DEF LockRow, Publish
  <2>2. \A d \in Cancellers : cancel'[d].writes = cancel[d].writes
    BY <1>2 DEF LockRow, Publish
  <2>3. Asked' = Asked
    BY <2>2 DEF Asked
  <2>4. QED
    BY <2>1, <2>3 DEF Life!lifeVars
<1>3. ASSUME NEW stage, Ends(c, stage) PROVE Asked' = Asked \ {c}
  BY <1>3 DEF Ends, Asked
<1>4. CASE CommitCancel(c)
  <2>1. UNCHANGED <<events, garbled, userGone>> /\ Asked' = Asked \ {c}
    BY <1>3, <1>4 DEF CommitCancel
  <2>2. CASE c \in Asked
    <3>1. status' = "cancel_requested"
      BY <1>4, <2>2 DEF CommitCancel, Asked
    <3>2. QED
      BY <2>1, <2>2, <3>1 DEF Life!LifeNext, Life!Cancel
  <2>3. CASE c \notin Asked
    <3>1. status' = status /\ Asked' = Asked
      BY <1>4, <2>1, <2>3 DEF CommitCancel, Asked
    <3>2. QED
      BY <2>1, <3>1 DEF Life!lifeVars
  <2>4. QED
    BY <2>2, <2>3
<1>5. CASE RollBack(c)
  <2>1. UNCHANGED <<status, events, garbled, userGone>> /\ Asked' = Asked \ {c}
    BY <1>3, <1>5 DEF RollBack
  <2>2. CASE c \in Asked
    BY <2>1, <2>2 DEF Life!LifeNext, Life!Withdraw
  <2>3. CASE c \notin Asked
    BY <2>1, <2>3 DEF Life!lifeVars
  <2>4. QED
    BY <2>2, <2>3
<1>6. QED
  BY <1>1, <1>2, <1>4, <1>5 DEF CancelStep

\* Every step of AgentRun is a step of RunLifecycle, or changes nothing there.
LEMMA StepImplements ==
  ASSUME TypeOK, AttemptInv, [Next]_vars
  PROVE  Life!LifeNext \/ UNCHANGED Life!lifeVars
<1> USE DEF envVars, cancelVars, runVars
<1>1. CASE \E c \in Cancellers : CancelStep(c)
  BY <1>1, CancelImplements
<1>2. CASE WorkerStep
  <2>1. CASE StartJob \/ ExpireJob \/ LoadRun \/ TakeChunk \/ JudgeInterruption
             \/ CheckCancelled \/ WatchSignal \/ LeaveStream \/ StreamRaises
             \/ StreamEnds \/ ClearSignal \/ FinishJob
    <3>1. UNCHANGED <<status, events, garbled, userGone, cancel>>
      BY <2>1 DEF StartJob, ExpireJob, LoadRun, TakeChunk, JudgeInterruption, CheckCancelled,
                  WatchSignal, LeaveStream, StreamRaises, StreamEnds, ClearSignal, FinishJob
    <3>2. QED
      BY <3>1 DEF Life!lifeVars, Asked
  <2>2. CASE RejectRun
    BY <2>2, SettleResolves, Names DEF RejectRun, AttemptInv, Life!LifeNext
  <2>3. CASE MarkRunning
    BY <2>3 DEF MarkRunning, Settle, TypeOK, Statuses, Terminal, Life!lifeVars,
                Life!LifeNext, Life!Begin, Life!Open, Asked
  <2>4. CASE Complete
    BY <2>4, SettleResolves, Names DEF Complete, AttemptInv, Life!LifeNext
  <2>5. CASE SettleRun \/ Conclude
    <3>1. w.verdict \in Terminal /\ Life!Announced(w.verdict, events)
      BY <2>5 DEF SettleRun, Conclude, AttemptInv, TypeOK, Attempts
    <3>2. QED
      BY <2>5, <3>1, SettleResolves DEF SettleRun, Conclude, Life!LifeNext
  <2>6. CASE AppendEvent \/ Drain \/ Abort \/ Report
    <3>1. UNCHANGED <<status, garbled, userGone, cancel>>
      BY <2>6 DEF AppendEvent, Drain, Abort, Report
    <3>2. FlushThen(<<>>) \/ \E k \in EventKinds : FlushThen(<<k>>)
      <4>1. w.chunk \in EventKinds /\ ReportKind \in EventKinds
        BY Names DEF TypeOK, Attempts, ReportKind
      <4>2. QED
        BY <2>6, <4>1, Names DEF AppendEvent, Drain, Abort, Report
    <3>3. QED
      BY <3>1, <3>2, FlushWrites DEF Life!LifeNext
  <2>7. CASE Buffer \/ Announce
    <3>1. UNCHANGED <<status, garbled, userGone, cancel>>
      BY <2>7 DEF Buffer, Announce
    <3>2. events' = events \/ \E k \in EventKinds : events' = Append(events, k)
      BY <2>7, Names DEF Buffer, Announce
    <3>3. QED
      BY <3>1, <3>2, AppendWrites DEF Life!LifeNext, Life!lifeVars, Asked
  <2>8. QED
    BY <1>2, <2>1, <2>2, <2>3, <2>4, <2>5, <2>6, <2>7 DEF WorkerStep
<1>3. CASE Environment
  <2>1. CASE DatabaseFails \/ Crash \/ KeyExpires
    <3>1. UNCHANGED <<status, events, garbled, userGone, cancel>>
      BY <2>1 DEF DatabaseFails, Crash, KeyExpires
    <3>2. QED
      BY <3>1 DEF Life!lifeVars, Asked
  <2>2. CASE RedisFails \/ ArqCancels
    <3>1. UNCHANGED <<status, garbled, userGone, cancel>>
      BY <2>2 DEF RedisFails, ArqCancels
    <3>2. \/ events' = events \/ events' = Append(events, "loading") \/ FlushThen(<<>>)
          \/ \E k \in EventKinds : FlushThen(<<k>>)
      BY <2>2, Names, BreakOffEffect, BreakBufferEffect
         DEF RedisFails, ArqCancels, CancelInTry, CancelInHandler, CancelOutside, Writers
    <3>3. "loading" \in EventKinds
      BY Names
    <3>4. QED
      BY <3>1, <3>2, <3>3, FlushWrites, AppendWrites DEF Life!LifeNext, Life!lifeVars, Asked
  <2>3. CASE DeleteUser
    BY <2>3 DEF DeleteUser, TypeOK, Life!LifeNext, Life!Spoil, Life!lifeVars, Asked
  <2>4. QED
    BY <1>3, <2>1, <2>2, <2>3 DEF Environment, Failure
<1>4. CASE UNCHANGED vars
  BY <1>4 DEF vars, Life!lifeVars, Asked
<1>5. QED
  BY <1>1, <1>2, <1>3, <1>4 DEF Next

\* AgentRun implements RunLifecycle.
THEOREM Implements == Spec => ImplementsLifecycle
<1>1. Init => Life!LifeInit
  BY DEF Init, Life!LifeInit, Asked
<1>2. TypeOK /\ AttemptInv /\ [Next]_vars => [Life!LifeNext]_(Life!lifeVars)
  BY StepImplements
<1>3. QED
  BY <1>1, <1>2, TypeCorrect, AttemptCorrect, PTL
     DEF Spec, ImplementsLifecycle, Life!LifeSpec

\* A run with a readable query and an owner is terminal only once its outcome is
\* announced in the stream: whatever implements RunLifecycle keeps this.
THEOREM AnnouncedCorrect == Spec => []AnnouncedFirst
<1>1. Init => AnnouncedFirst
  BY DEF Init, AnnouncedFirst, Terminal
<1>2. ASSUME TypeOK, AnnouncedFirst, Life!LifeNext \/ UNCHANGED Life!lifeVars
      PROVE  AnnouncedFirst'
  <2>1. CASE Life!Write
    <3>1. PICK b \in Life!Batches : events' = events \o b
      BY <2>1 DEF Life!Write
    <3>2. events \in Seq(EventKinds) /\ b \in Seq(EventKinds)
      <4>1. events \in Seq(EventKinds)
        BY <1>2 DEF TypeOK
      <4>2. EventKinds = Life!Kinds /\ "loading" \in EventKinds
        BY Names DEF Life!Kinds, EventKinds, Kinds, Endings
      <4>3. PICK k \in EventKinds : b = <<k>> \/ b = <<"loading">> \o <<k>>
        BY <4>2 DEF Life!Batches
      <4>4. <<"loading">> \in Seq(EventKinds) /\ <<k>> \in Seq(EventKinds)
        BY <4>2
      <4>5. <<"loading">> \o <<k>> \in Seq(EventKinds)
        BY <4>4, ConcatProperties
      <4>6. QED
        BY <4>1, <4>3, <4>4, <4>5
    <3>3. status' = status /\ (~garbled' /\ ~userGone' <=> ~garbled /\ ~userGone)
      BY <2>1 DEF Life!Write
    <3>4. QED
      BY <1>2, <3>1, <3>2, <3>3, Announcing DEF AnnouncedFirst
  <2>2. CASE Life!Begin
    BY <2>2 DEF Life!Begin, Life!Open, AnnouncedFirst, Terminal
  <2>3. CASE Life!Resolve
    BY <2>3 DEF Life!Resolve, AnnouncedFirst, Life!Announced, Life!Announcers
  <2>4. CASE Life!Spoil \/ UNCHANGED Life!lifeVars
    <3>1. UNCHANGED <<status, events>> /\ (~garbled' /\ ~userGone' => ~garbled /\ ~userGone)
      BY <2>4 DEF Life!Spoil, Life!lifeVars
    <3>2. QED
      BY <1>2, <3>1 DEF AnnouncedFirst, Life!Announced, Life!Announcers
  <2>5. CASE \E c \in Cancellers : Life!Ask(c) \/ Life!Cancel(c) \/ Life!Withdraw(c)
    <3>1. /\ events' = events /\ (~garbled' /\ ~userGone' <=> ~garbled /\ ~userGone)
          /\ status' = status \/ status' = "cancel_requested"
      BY <2>5 DEF Life!Ask, Life!Cancel, Life!Withdraw
    <3>2. QED
      BY <1>2, <3>1 DEF AnnouncedFirst, Life!Announced, Life!Announcers, Terminal
  <2>6. QED
    BY <1>2, <2>1, <2>2, <2>3, <2>4, <2>5 DEF Life!LifeNext
<1>3. TypeOK /\ AttemptInv /\ AnnouncedFirst /\ [Next]_vars => AnnouncedFirst'
  BY <1>2, StepImplements
<1>4. QED
  BY <1>1, <1>3, TypeCorrect, AttemptCorrect, PTL DEF Spec
-----------------------------------------------------------------------------
(* Without failures: who asked for a cancellation.                         *)

\* The row is locked by the request that is between its lock and its commit.
LockInv == \A c \in Cancellers : cancel[c].pc \in {"locked", "sent", "unsent"} => rowLock = c

Signalled == \E c \in Cancellers : cancel[c].pc \in {"sent", "acked"}
Requested == \E c \in Cancellers : cancel[c].pc \in {"acked", "unheard"}

\* What makes the worker abort was signalled by a request; the verdict of a
\* cancellation, too; and the row says so only when one has been committed.
Grounds ==
  /\ cancelKey \/ w.cancelled \/ w.pc = "abort" => Signalled
  /\ w.pc \in {"settle", "conclude"} /\ w.verdict = "cancelled" => Signalled \/ Requested
  /\ status \in {"cancel_requested", "cancelled"} => Requested
RequestInv == faults = 0 => Grounds

\* A failure is counted, and the count never goes back.
LEMMA FaultCounted == ASSUME TypeOK, Fault PROVE faults' # 0
  BY RunAssumption DEF TypeOK, Fault

\* A free row is one that no request has published for without its commit.
LEMMA FreeRow ==
  ASSUME LockInv, RowFree, Signalled PROVE Requested
  BY RunAssumption DEF LockInv, RowFree, Signalled, Requested

\* The requests keep the row locked between them.
LEMMA LockKept == ASSUME TypeOK, LockInv, [Next]_vars PROVE LockInv'
<1>1. ASSUME NEW c \in Cancellers, CancelStep(c) PROVE LockInv'
  <2> USE DEF TypeOK, LockInv
  <2>0. CASE ReadRun(c) BY <2>0 DEF ReadRun
  <2>1. CASE LockRow(c) BY <2>1, RunAssumption DEF LockRow, RowFree
  <2>2. CASE Publish(c) BY <2>2 DEF Publish
  <2>3. ASSUME NEW stage \in {"acked", "unheard", "failed"}, Ends(c, stage) PROVE LockInv'
    BY <2>3, RunAssumption DEF Ends
  <2>4. CASE CommitCancel(c) BY <2>3, <2>4 DEF CommitCancel, Answer
  <2>5. CASE RollBack(c) BY <2>3, <2>5 DEF RollBack
  <2>6. QED BY <1>1, <2>0, <2>1, <2>2, <2>4, <2>5 DEF CancelStep
<1>2. CASE WorkerStep
  BY <1>2 DEF WorkerStep, StartJob, ExpireJob, LoadRun, RejectRun, MarkRunning, Buffer,
              TakeChunk, AppendEvent, JudgeInterruption, SettleRun, CheckCancelled,
              WatchSignal, LeaveStream, StreamRaises, StreamEnds, Drain, Complete,
              Announce, Abort, Report, Conclude, ClearSignal, FinishJob, cancelVars, LockInv
<1>3. CASE Environment
  BY <1>3 DEF Environment, Failure, DatabaseFails, RedisFails, Crash, ArqCancels,
              KeyExpires, DeleteUser, cancelVars, LockInv
<1>4. CASE UNCHANGED vars BY <1>4 DEF vars, cancelVars, LockInv
<1>5. QED BY <1>1, <1>2, <1>3, <1>4 DEF Next

\* The requests keep the grounds for a cancellation.
LEMMA RequestsKeepGrounds ==
  ASSUME TypeOK, LockInv, RequestInv, NEW c \in Cancellers, CancelStep(c) PROVE RequestInv'
<1> SUFFICES ASSUME faults' = 0 PROVE Grounds'
  BY DEF RequestInv
<1> USE DEF TypeOK
<1>1. CASE ReadRun(c) \/ LockRow(c)
  <2>1. /\ UNCHANGED <<status, w, cancelKey, faults>>
        /\ cancel[c].pc \in {"new", "read"} /\ cancel'[c].pc \in {"read", "locked"}
        /\ \A d \in Cancellers \ {c} : cancel'[d] = cancel[d]
    BY <1>1 DEF ReadRun, LockRow, runVars, envVars
  <2>2. Grounds BY <2>1 DEF RequestInv
  <2>3. (Signalled => Signalled') /\ (Requested => Requested')
    BY <2>1 DEF Signalled, Requested
  <2>4. QED BY <2>1, <2>2, <2>3 DEF Grounds
<1>2. CASE Publish(c)
  <2>1. /\ UNCHANGED <<status, w, faults>> /\ cancel[c].pc = "locked"
        /\ cancel'[c].pc = "sent" /\ \A d \in Cancellers \ {c} : cancel'[d] = cancel[d]
    BY <1>2, FaultCounted DEF Publish, runVars
  <2>2. Grounds BY <2>1 DEF RequestInv
  <2>3. Signalled' /\ (Requested => Requested')
    BY <2>1 DEF Signalled, Requested
  <2>4. QED BY <2>1, <2>2, <2>3 DEF Grounds
<1>3. CASE CommitCancel(c)
  <2>1. /\ UNCHANGED <<w, cancelKey, faults>> /\ cancel[c].pc \in {"sent", "unsent"}
        /\ cancel'[c].pc = IF cancel[c].pc = "sent" THEN "acked" ELSE "unheard"
        /\ \A d \in Cancellers \ {c} : cancel'[d] = cancel[d]
    BY <1>3 DEF CommitCancel, Ends, Answer
  <2>2. Grounds BY <2>1 DEF RequestInv
  <2>3. (Signalled => Signalled') /\ Requested'
    BY <2>1 DEF Signalled, Requested
  <2>4. QED BY <2>1, <2>2, <2>3 DEF Grounds
<1>4. CASE RollBack(c) BY <1>4, FaultCounted DEF RollBack
<1>5. QED BY <1>1, <1>2, <1>3, <1>4 DEF CancelStep

\* The worker keeps them.
LEMMA WorkerKeepsGrounds ==
  ASSUME TypeOK, LockInv, RequestInv, WorkerStep PROVE RequestInv'
<1> SUFFICES ASSUME faults' = 0 PROVE Grounds'
  BY DEF RequestInv
<1> USE DEF TypeOK
<1>1. cancel' = cancel /\ (Signalled => Signalled') /\ (Requested => Requested')
  <2>1. cancel' = cancel
    BY DEF WorkerStep, StartJob, ExpireJob, LoadRun, RejectRun, MarkRunning, Buffer,
           TakeChunk, AppendEvent, JudgeInterruption, SettleRun, CheckCancelled,
           WatchSignal, LeaveStream, StreamRaises, StreamEnds, Drain, Complete,
           Announce, Abort, Report, Conclude, ClearSignal, FinishJob, cancelVars
  <2>2. QED BY <2>1 DEF Signalled, Requested
<1>2. faults = 0
  BY FaultCounted
     DEF WorkerStep, StartJob, ExpireJob, LoadRun, RejectRun, MarkRunning, Buffer,
         TakeChunk, AppendEvent, JudgeInterruption, SettleRun, CheckCancelled,
         WatchSignal, LeaveStream, StreamRaises, StreamEnds, Drain, Complete,
         Announce, Abort, Report, Conclude, ClearSignal, FinishJob, envVars
<1>3. Grounds BY <1>2 DEF RequestInv
<1>4. RowFree => (Signalled => Requested) BY FreeRow
<1>5. CASE StartJob \/ ExpireJob \/ ClearSignal \/ FinishJob
  BY <1>1, <1>3, <1>5 DEF StartJob, ExpireJob, ClearSignal, FinishJob, EndJob, Goto, At,
                          cancelVars, Grounds, Attempts
<1>6. CASE LoadRun
  <2>1. UNCHANGED <<status, cancelKey>> /\ (w' = At("idle") \/ Goto("reject") \/ Goto("mark"))
    BY <1>6 DEF LoadRun, EndJob, cancelVars
  <2>2. QED BY <1>1, <1>3, <2>1 DEF Goto, At, Grounds, Attempts
<1>7. CASE RejectRun
  BY <1>1, <1>3, <1>7 DEF RejectRun, EndJob, At, Settle, cancelVars, Grounds
<1>8. CASE MarkRunning
  BY <1>1, <1>3, <1>8 DEF MarkRunning, Goto, Settle, cancelVars, Grounds, Attempts
<1>9. CASE Buffer \/ TakeChunk
  <2>1. /\ UNCHANGED <<status, cancelKey>> /\ w'.cancelled = w.cancelled
        /\ w.pc = "next" /\ w'.pc \in {"next", "append"}
    BY <1>9 DEF Buffer, TakeChunk, cancelVars, Attempts
  <2>2. QED BY <1>1, <1>3, <2>1 DEF Grounds
<1>10. CASE AppendEvent
  <2>1. /\ UNCHANGED <<status, cancelKey>> /\ w'.cancelled = w.cancelled
        /\ w'.verdict # "cancelled" /\ w'.pc \in {"check", "judge", "settle"}
    BY <1>10 DEF AppendEvent, cancelVars, Attempts, VerdictOn, StepAfter
  <2>2. QED BY <1>1, <1>3, <2>1 DEF Grounds
<1>11. CASE JudgeInterruption
  <2>1. /\ UNCHANGED <<status, cancelKey>> /\ w'.cancelled = w.cancelled /\ w'.pc = "settle"
        /\ w'.verdict = "cancelled" => status = "cancel_requested"
    BY <1>11 DEF JudgeInterruption, cancelVars, Attempts
  <2>2. QED BY <1>1, <1>3, <2>1 DEF Grounds
<1>12. CASE SettleRun \/ Conclude
  <2>1. /\ UNCHANGED cancelKey /\ w'.cancelled = w.cancelled /\ w'.pc \in {"check", "close"}
        /\ RowFree /\ w.pc \in {"settle", "conclude"} /\ status' = Settle(w.verdict)
    BY <1>12 DEF SettleRun, Conclude, Goto, cancelVars, Attempts
  <2>2. status' = status \/ status' = w.verdict BY <2>1 DEF Settle
  <2>3. w.verdict # "cancel_requested" BY DEF Attempts, Terminal
  <2>4. QED BY <1>1, <1>3, <1>4, <2>1, <2>2, <2>3 DEF Grounds
<1>13. CASE CheckCancelled \/ LeaveStream
  <2>1. /\ UNCHANGED <<status, cancelKey>> /\ w'.cancelled = w.cancelled
        /\ w'.pc \in {"abort", "next"}
        /\ w'.pc = "abort" => w.cancelled \/ cancelKey
    BY <1>13 DEF CheckCancelled, LeaveStream, Goto, cancelVars, Attempts
  <2>2. QED BY <1>1, <1>3, <2>1 DEF Grounds
<1>14. CASE WatchSignal
  <2>1. /\ UNCHANGED <<status, cancelKey>> /\ cancelKey
        /\ w'.pc = w.pc /\ w'.verdict = w.verdict
    BY <1>14 DEF WatchSignal, cancelVars, Attempts
  <2>2. QED BY <1>1, <1>3, <2>1 DEF Grounds
<1>15. CASE StreamRaises \/ StreamEnds \/ Drain \/ Announce
  <2>1. /\ UNCHANGED <<status, cancelKey>> /\ w'.cancelled = w.cancelled
        /\ w'.pc \in {"report", "drain", "close", "complete"}
    BY <1>15 DEF StreamRaises, StreamEnds, Drain, Announce, Goto, cancelVars, Attempts
  <2>2. QED BY <1>1, <1>3, <2>1 DEF Grounds
<1>16. CASE Complete
  BY <1>1, <1>3, <1>16 DEF Complete, Goto, Settle, cancelVars, Grounds, Attempts
<1>17. CASE Abort
  <2>1. /\ UNCHANGED <<status, cancelKey>> /\ w.pc = "abort"
    BY <1>17 DEF Abort, cancelVars
  <2>2. QED BY <1>1, <1>3, <2>1 DEF Grounds
<1>18. CASE Report
  <2>1. /\ UNCHANGED <<status, cancelKey>> /\ w'.cancelled = w.cancelled
        /\ \/ w'.pc = "close"
           \/ w'.pc = "conclude" /\ w'.verdict = "failed"
    BY <1>18 DEF Report, cancelVars, Attempts
  <2>2. QED BY <1>1, <1>3, <2>1 DEF Grounds
<1>19. QED
  BY <1>5, <1>6, <1>7, <1>8, <1>9, <1>10, <1>11, <1>12, <1>13, <1>14, <1>15, <1>16,
     <1>17, <1>18 DEF WorkerStep

\* A run that nothing failed in ends as cancelled only when a cancel request was
\* committed: the worker that saw the signal early waits for the row.
THEOREM CancelledOnRequestCorrect == Spec => []CancelledOnRequest
<1>1. Init => LockInv /\ RequestInv
  BY DEF Init, LockInv, RequestInv, Grounds, At
<1>2. TypeOK /\ LockInv /\ RequestInv /\ [Next]_vars => (LockInv /\ RequestInv)'
  <2> SUFFICES ASSUME TypeOK, LockInv, RequestInv, [Next]_vars PROVE LockInv' /\ RequestInv'
    OBVIOUS
  <2>1. LockInv' BY LockKept
  <2>2. CASE Failure
    <3>1. Fault BY <2>2 DEF Failure, DatabaseFails, RedisFails, Crash, ArqCancels
    <3>2. QED BY <2>1, <3>1, FaultCounted DEF RequestInv
  <2>3. CASE KeyExpires \/ DeleteUser \/ UNCHANGED vars
    <3>1. /\ UNCHANGED <<status, w, cancel, faults>> /\ (cancelKey' => cancelKey)
      BY <2>3 DEF KeyExpires, DeleteUser, vars, runVars, cancelVars, envVars
    <3>2. (Signalled => Signalled') /\ (Requested => Requested')
      BY <3>1 DEF Signalled, Requested
    <3>3. Grounds => Grounds' BY <3>1, <3>2 DEF Grounds
    <3>4. QED BY <2>1, <3>1, <3>3 DEF RequestInv
  <2>4. QED
    BY <2>1, <2>2, <2>3, RequestsKeepGrounds, WorkerKeepsGrounds DEF Next, Environment
<1>3. RequestInv => CancelledOnRequest
  BY DEF RequestInv, Grounds, Requested, CancelledOnRequest
<1>4. QED
  BY <1>1, <1>2, <1>3, TypeCorrect, PTL DEF Spec

-----------------------------------------------------------------------------
(* Without failures: the first event that ends the answer.                 *)

Undecided(l) == \A i \in 1..Len(l) : l[i] \notin Endings

\* A run that is not settled has no ending in its stream, unless the attempt is about
\* to settle it by that ending; a run settled without an ending is left alone, or is
\* one that the attempt has completed and is about to say so.
Decision ==
  /\ job # "running" => w.pc = "idle"
  /\ status \in Terminal => Agrees(status, events)
  /\ status \notin Terminal =>
       \/ Undecided(events)
       \/ w.pc \in {"settle", "conclude"} /\ Agrees(w.verdict, events)
       \/ w.pc = "judge" /\ Agrees("interrupted", events) /\ Agrees("cancelled", events)
  /\ w.pc \in {"judge", "settle"} => ~Undecided(events)
  /\ w.pc = "announce" => status \in Terminal
  /\ ~w.evicted
  /\ status \in Terminal /\ Undecided(events) =>
       \/ job = "gone"
       \/ w.pc = "announce" /\ status = "completed"
       \/ w.pc \in {"close", "done"}
EndingInv == faults = 0 /\ ~reopened => Decision

\* A stream without an ending agrees with every outcome.
LEMMA UndecidedAgrees == ASSUME NEW l, NEW s, Undecided(l) PROVE Agrees(s, l)
  BY DEF Undecided, Agrees, IsFirstEnding

\* What is appended decides only a stream that is undecided.
LEMMA AppendDecides ==
  ASSUME NEW l \in Seq(EventKinds), NEW k \in Seq(EventKinds)
  PROVE  /\ ~Undecided(l) => ~Undecided(l \o k)
         /\ ~Undecided(k) => ~Undecided(l \o k)
         /\ Undecided(l) /\ Undecided(k) => Undecided(l \o k)
         /\ \A s : ~Undecided(l) /\ Agrees(s, l) => Agrees(s, l \o k)
         /\ \A s : Undecided(l) /\ Agrees(s, k) => Agrees(s, l \o k)
<1> DEFINE m == l \o k
<1>1. /\ Len(l) \in Nat /\ Len(k) \in Nat /\ Len(m) = Len(l) + Len(k)
      /\ \A i \in 1..Len(l) : i \in 1..Len(m) /\ m[i] = l[i]
      /\ \A i \in (Len(l) + 1)..Len(m) : i - Len(l) \in 1..Len(k) /\ m[i] = k[i - Len(l)]
      /\ \A i \in 1..Len(k) : /\ i + Len(l) \in 1..Len(m) /\ m[i + Len(l)] = k[i]
  BY ConcatProperties, LenProperties
<1> HIDE DEF m
<1>2. \A i \in 1..Len(m) : i \in 1..Len(l) \/ i \in (Len(l) + 1)..Len(m)
  BY <1>1
<1>3. ~Undecided(l) => ~Undecided(m) BY <1>1 DEF Undecided
<1>4. ~Undecided(k) => ~Undecided(m) BY <1>1 DEF Undecided
<1>5. Undecided(l) /\ Undecided(k) => Undecided(m) BY <1>1, <1>2 DEF Undecided
<1>6. ASSUME NEW s, ~Undecided(l), Agrees(s, l) PROVE Agrees(s, m)
  <2> SUFFICES ASSUME NEW i \in 1..Len(m), IsFirstEnding(i, m) PROVE s \in EndOf(m[i])
    BY DEF Agrees
  <2>1. PICK n \in 1..Len(l) : l[n] \in Endings BY <1>6 DEF Undecided
  <2>2. i \in 1..Len(l)
    <3> SUFFICES ASSUME i > Len(l) PROVE FALSE
      BY <1>1
    <3>1. n \in 1..(i - 1) /\ m[n] \in Endings BY <1>1, <2>1
    <3>2. QED BY <3>1 DEF IsFirstEnding
  <2>3. \A j \in 1..(i - 1) : j \in 1..Len(l) /\ m[j] = l[j] BY <1>1, <2>2
  <2>4. IsFirstEnding(i, l) BY <1>1, <2>2, <2>3 DEF IsFirstEnding
  <2>5. QED BY <1>1, <1>6, <2>2, <2>4 DEF Agrees
<1>7. ASSUME NEW s, Undecided(l), Agrees(s, k) PROVE Agrees(s, m)
  <2> SUFFICES ASSUME NEW i \in 1..Len(m), IsFirstEnding(i, m) PROVE s \in EndOf(m[i])
    BY DEF Agrees
  <2> DEFINE n == i - Len(l)
  <2>1. i \in (Len(l) + 1)..Len(m)
    <3>1. i \notin 1..Len(l) BY <1>1, <1>7 DEF Undecided, IsFirstEnding
    <3>2. QED BY <1>2, <3>1
  <2>2. n \in 1..Len(k) /\ m[i] = k[n] BY <1>1, <2>1
  <2>3. \A j \in 1..(n - 1) : j \in 1..Len(k) /\ j + Len(l) \in 1..(i - 1)
    BY <1>1, <2>1, <2>2
  <2>4. \A j \in 1..(n - 1) : k[j] \notin Endings
    BY <1>1, <2>3 DEF IsFirstEnding
  <2> HIDE DEF n
  <2>5. IsFirstEnding(n, k) BY <2>2, <2>4 DEF IsFirstEnding
  <2>6. QED BY <1>7, <2>2, <2>5 DEF Agrees
<1>8. QED BY <1>3, <1>4, <1>5, <1>6, <1>7 DEF m

\* What a flush and an event add: nothing but the event can end the answer.
LEMMA FlushDecides ==
  ASSUME TypeOK, NEW x \in EventKinds, FlushThen(<<x>>)
  PROVE  /\ x \notin Endings /\ Undecided(events) => Undecided(events')
         /\ x \in Endings => ~Undecided(events')
         /\ ~Undecided(events) => ~Undecided(events')
         /\ \A s : ~Undecided(events) /\ Agrees(s, events) => Agrees(s, events')
         /\ \A s : Undecided(events) /\ x \in Endings /\ s \in EndOf(x) => Agrees(s, events')
<1> DEFINE k == IF w.buffered THEN <<"loading">> \o <<x>> ELSE <<x>>
<1>1. events \in Seq(EventKinds) /\ "loading" \in EventKinds /\ "loading" \notin Endings
  BY Names DEF TypeOK, Endings
<1>2. events' = events \o k
  <2>1. CASE w.buffered
    <3>1. events' = (events \o <<"loading">>) \o <<x>> BY <2>1 DEF FlushThen, Held
    <3>2. (events \o <<"loading">>) \o <<x>> = events \o (<<"loading">> \o <<x>>)
      BY <1>1, ConcatAssociative
    <3>3. QED BY <2>1, <3>1, <3>2
  <2>2. CASE ~w.buffered
    <3>1. events' = (events \o <<>>) \o <<x>> BY <2>2 DEF FlushThen, Held
    <3>2. events \o <<>> = events BY <1>1, ConcatEmptySeq
    <3>3. QED BY <2>2, <3>1, <3>2
  <2>3. QED BY <2>1, <2>2
<1>3. /\ k \in Seq(EventKinds)
      /\ x \notin Endings => Undecided(k)
      /\ x \in Endings => ~Undecided(k)
      /\ \A s : x \in Endings /\ s \in EndOf(x) => Agrees(s, k)
  <2>1. CASE w.buffered
    <3>1. /\ <<"loading">> \in Seq(EventKinds) /\ Len(<<"loading">>) = 1
          /\ <<x>> \in Seq(EventKinds) /\ Len(<<x>>) = 1
      BY <1>1
    <3>2. k = <<"loading">> \o <<x>> BY <2>1
    <3> HIDE DEF k
    <3>3. k \in Seq(EventKinds) /\ Len(k) = 2 /\ k[1] = "loading" /\ k[2] = x
      BY <3>1, <3>2, ConcatProperties
    <3>4. \A i \in 1..Len(k) : i = 1 \/ i = 2 BY <3>3
    <3>5. QED BY <1>1, <3>3, <3>4 DEF Undecided, Agrees, IsFirstEnding
  <2>2. CASE ~w.buffered
    <3>1. k = <<x>> /\ k \in Seq(EventKinds) /\ Len(k) = 1 /\ k[1] = x
      BY <1>1, <2>2
    <3> HIDE DEF k
    <3>2. \A i \in 1..Len(k) : i = 1 BY <3>1
    <3>3. QED BY <3>1, <3>2 DEF Undecided, Agrees, IsFirstEnding
  <2>3. QED BY <2>1, <2>2
<1> HIDE DEF k
<1>4. QED BY <1>1, <1>2, <1>3, AppendDecides

\* A flush by itself decides nothing.
LEMMA FlushOnlyDecides ==
  ASSUME TypeOK, FlushThen(<<>>)
  PROVE  /\ Undecided(events) => Undecided(events')
         /\ ~Undecided(events) => ~Undecided(events')
         /\ \A s : ~Undecided(events) /\ Agrees(s, events) => Agrees(s, events')
<1>1. events \in Seq(EventKinds) BY DEF TypeOK
<1>2. <<"loading">> \in Seq(EventKinds) /\ Undecided(<<"loading">>)
  BY Names DEF Undecided, Endings
<1>3. CASE w.buffered
  <2>1. events \o <<"loading">> \in Seq(EventKinds)
    BY <1>1, <1>2, ConcatProperties
  <2>2. events' = (events \o <<"loading">>) \o <<>> BY <1>3 DEF FlushThen, Held
  <2>3. events' = events \o <<"loading">> BY <2>1, <2>2, ConcatEmptySeq
  <2>4. QED BY <1>1, <1>2, <2>3, AppendDecides
<1>4. CASE ~w.buffered
  <2>1. events' = (events \o <<>>) \o <<>> BY <1>4 DEF FlushThen, Held
  <2>2. events' = events BY <1>1, <2>1, ConcatEmptySeq
  <2>3. QED BY <2>2
<1>5. QED BY <1>3, <1>4

\* A step that leaves the stream and the decisive fields of the attempt alone, or
\* turns from one step that decides nothing to another, keeps the decision.
Neutral == {"load", "reject", "mark", "next", "append", "check", "drain", "complete",
            "abort", "report"}
LEMMA NeutralKeeps ==
  ASSUME Decision, UNCHANGED <<status, job, events>>,
         w.pc \in Neutral, w'.pc \in Neutral, w'.evicted = w.evicted
  PROVE  Decision'
  BY DEF Decision, Neutral

\* The requests keep the decision, unless one reopens a settled run.
LEMMA RequestsKeepDecision ==
  ASSUME TypeOK, EndingInv, NEW c \in Cancellers, CancelStep(c) PROVE EndingInv'
<1> USE DEF envVars, history
<1>1. UNCHANGED <<w, job, events>>
  BY DEF CancelStep, ReadRun, LockRow, Publish, CommitCancel, RollBack, runVars
<1>2. /\ status' \in Terminal => status' = status
      /\ status \in Terminal /\ status' # status => reopened'
  BY DEF CancelStep, ReadRun, LockRow, Publish, CommitCancel, RollBack, runVars, Terminal
<1>3. /\ faults' = 0 => faults = 0
      /\ ~reopened' => ~reopened
  <2>1. Fault \/ UNCHANGED faults
    BY DEF CancelStep, ReadRun, LockRow, Publish, CommitCancel, RollBack
  <2>2. reopened => reopened'
    <3>1. CommitCancel(c) => (reopened => reopened')
      BY Zenon DEF CommitCancel
    <3>2. ~CommitCancel(c) => UNCHANGED reopened
      BY DEF CancelStep, ReadRun, LockRow, Publish, RollBack
    <3>3. QED BY <3>1, <3>2
  <2>3. QED BY <2>1, <2>2, FaultCounted
<1>4. Decision /\ ~reopened' => Decision' BY <1>1, <1>2 DEF Decision
<1>5. QED BY <1>3, <1>4 DEF EndingInv

\* The worker keeps the decision.
LEMMA WorkerKeepsDecision ==
  ASSUME TypeOK, EndingInv, WorkerStep PROVE EndingInv'
<1> SUFFICES ASSUME faults' = 0, ~reopened' PROVE Decision'
  BY DEF EndingInv
<1> USE DEF TypeOK
<1>1. faults = 0 /\ ~reopened
  BY FaultCounted
     DEF WorkerStep, StartJob, ExpireJob, LoadRun, RejectRun, MarkRunning, Buffer,
         TakeChunk, AppendEvent, JudgeInterruption, SettleRun, CheckCancelled,
         WatchSignal, LeaveStream, StreamRaises, StreamEnds, Drain, Complete,
         Announce, Abort, Report, Conclude, ClearSignal, FinishJob, envVars, history
<1>2. Decision BY <1>1 DEF EndingInv
<1>3. \A s : Undecided(events) => Agrees(s, events) BY UndecidedAgrees
<1>4. CASE StartJob \/ ExpireJob
  <2>1. UNCHANGED <<status, events>> /\ job = "queued"
        /\ \/ job' = "running" /\ w'.pc = "load" /\ w'.evicted = FALSE
           \/ job' = "gone" /\ w' = w
    BY <1>4 DEF StartJob, ExpireJob, At
  <2>2. QED BY <1>2, <2>1 DEF Decision
<1>5. CASE LoadRun
  <2>1. UNCHANGED <<status, events>> /\ w.pc = "load"
        /\ \/ status \in Terminal /\ job' = "gone" /\ w'.pc = "idle" /\ w'.evicted = FALSE
           \/ job' = job /\ w'.pc \in {"reject", "mark"} /\ w'.evicted = w.evicted
    BY <1>5 DEF LoadRun, EndJob, Goto, At, Attempts
  <2>2. QED BY <1>2, <2>1 DEF Decision
<1>6. CASE RejectRun
  <2>1. UNCHANGED events /\ w.pc = "reject" /\ job' = "gone" /\ w'.pc = "idle"
        /\ w'.evicted = FALSE /\ (status' = status \/ status \notin Terminal)
    BY <1>6 DEF RejectRun, EndJob, At, Settle
  <2>2. QED BY <1>2, <1>3, <2>1 DEF Decision
<1>7. CASE MarkRunning
  <2>1. UNCHANGED <<job, events>> /\ w.pc = "mark" /\ w'.pc = "next" /\ w'.evicted = w.evicted
        /\ (status' = status \/ (status \notin Terminal /\ status' \notin Terminal))
    BY <1>7 DEF MarkRunning, Goto, Settle, Terminal, Attempts
  <2>2. QED BY <1>2, <2>1 DEF Decision
<1>8. CASE Buffer
  <2>1. /\ UNCHANGED <<status, job>> /\ w.pc = "next" /\ w'.pc = "next"
        /\ w'.evicted = w.evicted
        /\ events' = events \/ events' = events \o <<"loading">>
    <3>1. events' = events \/ events' = Append(events, "loading")
      BY <1>8 DEF Buffer
    <3>2. Append(events, "loading") = events \o <<"loading">>
      BY AppendIsConcat
    <3>3. QED BY <1>8, <3>1, <3>2 DEF Buffer, Attempts
  <2>2. <<"loading">> \in Seq(EventKinds) /\ Undecided(<<"loading">>)
    BY Names DEF Undecided, Endings
  <2>3. /\ Undecided(events) => Undecided(events')
        /\ ~Undecided(events) => ~Undecided(events')
        /\ \A s : ~Undecided(events) /\ Agrees(s, events) => Agrees(s, events')
    <3>1. CASE events' = events BY <3>1
    <3>2. CASE events' = events \o <<"loading">> BY <2>2, <3>2, AppendDecides
    <3>3. QED BY <2>1, <3>1, <3>2
  <2>4. QED BY <1>2, <2>1, <2>3 DEF Decision
<1>9. CASE TakeChunk
  <2>1. UNCHANGED <<status, job, events>> /\ w.pc = "next" /\ w'.pc \in {"next", "append"}
        /\ w'.evicted = w.evicted
    BY <1>9 DEF TakeChunk, Attempts
  <2>2. QED BY <1>2, <2>1, NeutralKeeps DEF Neutral
<1>10. CASE AppendEvent
  <2>1. /\ UNCHANGED <<status, job>> /\ w.pc = "append" /\ FlushThen(<<w.chunk>>)
        /\ w'.verdict = VerdictOn(w.chunk) /\ w'.pc = StepAfter(w.chunk)
        /\ w'.evicted = w.evicted
    BY <1>10 DEF AppendEvent, Attempts
  <2>2. w.chunk \in EventKinds /\ w.chunk \in Kinds BY Names DEF Attempts
  <2>3. /\ w.chunk \notin Endings /\ Undecided(events) => Undecided(events')
        /\ w.chunk \in Endings => ~Undecided(events')
        /\ ~Undecided(events) => ~Undecided(events')
        /\ \A s : ~Undecided(events) /\ Agrees(s, events) => Agrees(s, events')
        /\ \A s : Undecided(events) /\ w.chunk \in Endings /\ s \in EndOf(w.chunk)
             => Agrees(s, events')
    BY <2>1, <2>2, FlushDecides
  <2>4. /\ w'.pc \in {"check", "judge", "settle"}
        /\ w'.pc = "check" <=> w.chunk \notin Endings
        /\ w'.pc = "judge" => w.chunk = "interrupted"
        /\ w'.pc = "settle" => VerdictOn(w.chunk) \in EndOf(w.chunk)
    BY <2>1, <2>2 DEF StepAfter, VerdictOn, EndOf, Endings, Kinds
  <2>5. "interrupted" \in EndOf("interrupted") /\ "cancelled" \in EndOf("interrupted")
    BY DEF EndOf
  <2>6. QED BY <1>2, <2>1, <2>3, <2>4, <2>5 DEF Decision
<1>11. CASE JudgeInterruption
  <2>1. /\ UNCHANGED <<status, job, events>> /\ w.pc = "judge" /\ w'.pc = "settle"
        /\ w'.verdict \in {"cancelled", "interrupted"} /\ w'.evicted = w.evicted
    BY <1>11 DEF JudgeInterruption, Attempts
  <2>2. QED BY <1>2, <2>1 DEF Decision
<1>12. CASE SettleRun \/ Conclude
  <2>1. /\ UNCHANGED <<job, events>> /\ status' = Settle(w.verdict)
        /\ w'.evicted = w.evicted
        /\ \/ w.pc = "settle" /\ w'.pc = "check"
           \/ w.pc = "conclude" /\ w'.pc = "close"
    BY <1>12 DEF SettleRun, Conclude, Goto, Attempts
  <2>2. w.verdict \in Terminal BY DEF Attempts
  <2>3. status' \in Terminal /\ (status' = status \/ (status \notin Terminal /\ status' = w.verdict))
    BY <2>1, <2>2 DEF Settle
  <2>4. Agrees(status', events) BY <1>2, <1>3, <2>1, <2>3 DEF Decision
  <2>5. QED BY <1>2, <2>1, <2>3, <2>4 DEF Decision
<1>13. CASE CheckCancelled \/ LeaveStream \/ StreamRaises \/ StreamEnds
  <2>1. UNCHANGED <<status, job, events>> /\ w.pc \in {"check", "next"}
        /\ w'.pc \in {"abort", "next", "report", "drain"} /\ w'.evicted = w.evicted
    BY <1>13 DEF CheckCancelled, LeaveStream, StreamRaises, StreamEnds, Goto, Attempts
  <2>2. QED BY <1>2, <2>1, NeutralKeeps DEF Neutral
<1>14. CASE WatchSignal
  <2>1. UNCHANGED <<status, job, events>> /\ w'.pc = w.pc /\ w'.verdict = w.verdict
        /\ w'.evicted = w.evicted
    BY <1>14 DEF WatchSignal, Attempts
  <2>2. QED BY <1>2, <2>1 DEF Decision
<1>15. CASE Drain
  <2>1. /\ UNCHANGED <<status, job>> /\ w.pc = "drain" /\ FlushThen(<<>>)
        /\ w'.evicted = w.evicted
        /\ w'.pc \in {"complete", "close"}
    BY <1>15 DEF Drain, Attempts
  <2>2. /\ Undecided(events) => Undecided(events')
        /\ ~Undecided(events) => ~Undecided(events')
        /\ \A s : ~Undecided(events) /\ Agrees(s, events) => Agrees(s, events')
    BY <2>1, FlushOnlyDecides
  <2>3. QED BY <1>2, <2>1, <2>2 DEF Decision
<1>16. CASE Complete
  <2>1. /\ UNCHANGED <<job, events>> /\ w.pc = "complete" /\ w'.pc = "announce"
        /\ w'.evicted = w.evicted
        /\ \/ status \in Terminal /\ status' = status
           \/ status \notin Terminal /\ status' = "completed"
    BY <1>16 DEF Complete, Goto, Settle, Attempts
  <2>2. "completed" \in Terminal BY DEF Terminal
  <2>3. QED BY <1>2, <1>3, <2>1, <2>2 DEF Decision
<1>17. CASE Announce
  <2>1. /\ UNCHANGED <<status, job>> /\ w.pc = "announce" /\ w'.pc = "close"
        /\ w'.evicted = w.evicted
        /\ events' = events \o <<"finished">>
    <3>1. events' = Append(events, "finished") BY <1>17 DEF Announce
    <3>2. events \in Seq(EventKinds) /\ "finished" \in EventKinds BY Names
    <3>3. events' = events \o <<"finished">> BY <3>1, <3>2, AppendIsConcat
    <3>4. QED BY <1>17, <3>3 DEF Announce, Goto, Attempts
  <2>2. <<"finished">> \in Seq(EventKinds) /\ ~Undecided(<<"finished">>)
        /\ Agrees("completed", <<"finished">>)
    BY Names DEF Undecided, Endings, Agrees, EndOf
  <2>3. /\ ~Undecided(events')
        /\ \A s : ~Undecided(events) /\ Agrees(s, events) => Agrees(s, events')
        /\ Undecided(events) => Agrees("completed", events')
    BY <2>1, <2>2, AppendDecides
  <2>4. status \in Terminal /\ (Undecided(events) => status = "completed")
    BY <1>2, <2>1 DEF Decision
  <2>5. Agrees(status, events') BY <1>2, <2>3, <2>4 DEF Decision
  <2>6. QED BY <1>2, <2>1, <2>3, <2>4, <2>5 DEF Decision
<1>18. CASE Abort
  <2>1. /\ UNCHANGED <<status, job>> /\ w.pc = "abort" /\ w'.pc = "conclude"
        /\ FlushThen(<<"interrupted">>) /\ w'.verdict = "cancelled" /\ w'.evicted = w.evicted
    BY <1>18 DEF Abort, Attempts
  <2>2. /\ "interrupted" \in EventKinds /\ "interrupted" \in Endings
        /\ "cancelled" \in EndOf("interrupted")
    BY Names DEF Endings, EndOf
  <2>3. /\ ~Undecided(events')
        /\ \A s : ~Undecided(events) /\ Agrees(s, events) => Agrees(s, events')
        /\ Undecided(events) => Agrees("cancelled", events')
    BY <2>1, <2>2, FlushDecides
  <2>4. QED BY <1>2, <2>1, <2>3 DEF Decision
<1>19. CASE Report
  <2>1. /\ UNCHANGED <<status, job>> /\ w.pc = "report" /\ FlushThen(<<ReportKind>>)
        /\ w'.evicted = w.evicted
        /\ \/ w'.pc = "close" /\ w.retryable
           \/ w'.pc = "conclude" /\ w'.verdict = "failed"
    BY <1>19 DEF Report, Attempts
  <2>2. /\ ReportKind \in EventKinds /\ (ReportKind \in Endings => "failed" \in EndOf(ReportKind))
        /\ w.retryable => ReportKind \notin Endings
    BY Names DEF ReportKind, Endings, EndOf
  <2>3. /\ ReportKind \notin Endings /\ Undecided(events) => Undecided(events')
        /\ ~Undecided(events) => ~Undecided(events')
        /\ \A s : ~Undecided(events) /\ Agrees(s, events) => Agrees(s, events')
        /\ Undecided(events) => Undecided(events') \/ Agrees("failed", events')
    BY <2>1, <2>2, FlushDecides
  <2>4. Undecided(events') => Agrees("failed", events') BY UndecidedAgrees
  <2>5. QED BY <1>2, <2>1, <2>2, <2>3, <2>4 DEF Decision
<1>20. CASE ClearSignal \/ FinishJob
  <2>1. /\ UNCHANGED <<status, events>>
        /\ \/ w.pc = "close" /\ w'.pc = "done" /\ job' = job /\ w'.evicted = w.evicted
           \/ /\ w.pc = "done" /\ w'.pc = "idle" /\ w'.evicted = FALSE
              /\ ~w.evicted => job' = "gone"
              /\ job' \in {"queued", "gone"}
    BY <1>20 DEF ClearSignal, FinishJob, Goto, At, Attempts
  <2>2. QED BY <1>2, <2>1 DEF Decision
<1>21. QED
  BY <1>4, <1>5, <1>6, <1>7, <1>8, <1>9, <1>10, <1>11, <1>12, <1>13, <1>14, <1>15,
     <1>16, <1>17, <1>18, <1>19, <1>20 DEF WorkerStep

\* In a run that nothing failed in and that no request reopened on an earlier read,
\* the first event that ends the answer says how the run ended: a client that stops
\* reading there shows what the row says, whatever the stream yields after it.
THEOREM FirstEndingDecidesCorrect == Spec => []FirstEndingDecides
<1>1. Init => EndingInv
  <2> SUFFICES ASSUME Init PROVE Decision
    BY DEF EndingInv
  <2>1. /\ status = "pending" /\ job = "queued" /\ w.pc = "idle" /\ w.evicted = FALSE
        /\ events = <<"init">> /\ status \notin Terminal
    BY DEF Init, At, Terminal
  <2>2. Undecided(events) BY <2>1 DEF Undecided, Endings
  <2>3. QED BY <2>1, <2>2 DEF Decision
<1>2. TypeOK /\ EndingInv /\ [Next]_vars => EndingInv'
  <2> SUFFICES ASSUME TypeOK, EndingInv, [Next]_vars PROVE EndingInv'
    OBVIOUS
  <2>1. CASE Failure
    <3>1. Fault BY <2>1 DEF Failure, DatabaseFails, RedisFails, Crash, ArqCancels
    <3>2. QED BY <3>1, FaultCounted DEF EndingInv
  <2>2. CASE KeyExpires \/ DeleteUser \/ UNCHANGED vars
    <3>1. UNCHANGED <<status, job, w, events, faults, reopened>>
      BY <2>2 DEF KeyExpires, DeleteUser, vars, runVars, envVars, history
    <3>2. QED BY <3>1 DEF EndingInv, Decision
  <2>3. QED
    BY <2>1, <2>2, RequestsKeepDecision, WorkerKeepsDecision DEF Next, Environment
<1>3. EndingInv => FirstEndingDecides
  BY DEF EndingInv, Decision, FirstEndingDecides
<1>4. QED
  BY <1>1, <1>2, <1>3, TypeCorrect, PTL DEF Spec

=============================================================================
