------------------------------ MODULE ServedRun ------------------------------
(***************************************************************************)
(* One agent run and the page that follows it: the worker, the ARQ job and *)
(* the cancel requests of AgentRun, the server, the connection and the     *)
(* page of RunStream, all on one row and one event stream.  RunStream by   *)
(* itself follows any run that keeps the promise of RunLifecycle; here it  *)
(* follows the run of process_agent_run, and what is proved of each of the *)
(* two holds of both together.                                             *)
(***************************************************************************)
EXTENDS AgentRunProofs

CONSTANTS
    PageLimit, MaxLog, MaxTrips, MaxCuts, MaxOutages, MaxExpiries, MaxOvertakes,
    MaxTroubles                                      \* of RunStream

VARIABLES
    server, pipe, page, snapshot, settledAt, budget  \* of RunStream

Stream == INSTANCE RunStreamProofs
            WITH log <- events, plain <- ~garbled /\ ~userGone,
                 Askers <- Cancellers, asked <- Asked,
                 RunKinds <- EventKinds, RunStatuses <- Statuses

servedVars == <<vars, settledAt, server, pipe, page, snapshot, budget>>

ServedInit == Init /\ Stream!Init

\* Worker, requests and failures; the bound on the log is that of RunStream.
RunGoesOn ==
    /\ Next /\ Len(events') <= MaxLog
    /\ settledAt' = IF /\ status \notin Terminal /\ status' \in Terminal
                       /\ ~(settledAt[status'] > 0)
                    THEN [settledAt EXCEPT ![status'] = Len(events)] ELSE settledAt
    /\ UNCHANGED <<server, pipe, page, snapshot, budget>>

\* The server reads the row and the stream, the page reads the server.
PageGoesOn ==
    /\ UNCHANGED vars
    /\ Stream!ServerStep \/ Stream!PageStep \/ Stream!Disturbance

ServedSpec == ServedInit /\ [][RunGoesOn \/ PageGoesOn]_servedVars

-----------------------------------------------------------------------------
(* Both parts are what they are alone.                                     *)

\* The page does not touch the run.
LEMMA ServedIsARun == ServedSpec => Spec
<1>1. [RunGoesOn \/ PageGoesOn]_servedVars => [Next]_vars
  BY DEF RunGoesOn, PageGoesOn, servedVars
<1>2. QED BY <1>1, PTL DEF ServedSpec, ServedInit, Spec

\* The two instances of RunLifecycle are of one run.
LEMMA OneRun == Life!LifeNext = Stream!LifeNext /\ Life!lifeVars = Stream!lifeVars
<1>1. Life!lifeVars = Stream!lifeVars BY DEF Life!lifeVars, Stream!lifeVars
<1>2. /\ Life!Write = Stream!Write /\ Life!Begin = Stream!Begin
      /\ Life!Resolve = Stream!Resolve /\ Life!Spoil = Stream!Spoil
  BY DEF Life!Write, Life!Begin, Life!Resolve, Life!Spoil,
         Life!Batches, Life!Kinds, Life!Announced, Life!Announcers, Life!Open, Life!Terminal,
         Stream!Write, Stream!Begin, Stream!Resolve, Stream!Spoil,
         Stream!Batches, Stream!Kinds, Stream!Announced, Stream!Announcers, Stream!Open,
         Stream!Terminal
<1>3. \A c \in Cancellers : /\ Life!Ask(c) = Stream!Ask(c)
                            /\ Life!Cancel(c) = Stream!Cancel(c)
                            /\ Life!Withdraw(c) = Stream!Withdraw(c)
  BY DEF Life!Ask, Life!Cancel, Life!Withdraw, Stream!Ask, Stream!Cancel, Stream!Withdraw
<1>4. QED BY <1>1, <1>2, <1>3 DEF Life!LifeNext, Stream!LifeNext

\* A step of the worker is a step of the run that the page follows.
LEMMA RunGoesOnAsPromised ==
  ASSUME TypeOK, TypeOK', AttemptInv, RunGoesOn
  PROVE  Stream!RunStep \/ UNCHANGED Stream!vars
<1>1. Next /\ Len(events') <= MaxLog /\ UNCHANGED <<server, pipe, page, snapshot, budget>>
  BY DEF RunGoesOn
<1>2. UNCHANGED Stream!streamVars BY <1>1 DEF Stream!streamVars
<1>3. events' \in Seq(EventKinds \cup {"init"}) /\ status' \in Statuses
  <2>1. EventKinds \cup {"init"} = EventKinds BY DEF EventKinds, Kinds
  <2>2. QED BY <2>1 DEF TypeOK
<1>4. status' = status \/ status' \notin Terminal => settledAt' = settledAt BY DEF RunGoesOn
<1>5. Life!LifeNext \/ UNCHANGED Life!lifeVars BY <1>1, StepImplements
<1>6. CASE UNCHANGED Life!lifeVars
  BY <1>2, <1>4, <1>6 DEF Life!lifeVars, Stream!vars, Stream!lifeVars
<1>7. CASE Stream!Write
  BY <1>1, <1>2, <1>3, <1>4, <1>7 DEF Stream!Write, Stream!RunWrites, Stream!RunStep
<1>8. CASE Stream!Begin \/ \E c \in Cancellers : Stream!Ask(c) \/ Stream!Cancel(c)
                                                  \/ Stream!Withdraw(c)
  <2>1. settledAt' = settledAt
    BY <1>4, <1>8 DEF Stream!Begin, Stream!Ask, Stream!Cancel, Stream!Withdraw, Terminal
  <2>2. Stream!RunMoves BY <1>2, <1>3, <1>8, <2>1 DEF Stream!RunMoves
  <2>3. QED BY <2>2 DEF Stream!RunStep
<1>9. CASE Stream!Resolve
  <2>1. status \notin Terminal /\ status' \in Terminal
    BY <1>9 DEF Stream!Resolve, Stream!Open, Stream!Terminal, Terminal
  <2>2. settledAt' = IF settledAt[status'] > 0 THEN settledAt
                     ELSE [settledAt EXCEPT ![status'] = Len(events)]
    BY <2>1 DEF RunGoesOn
  <2>3. QED BY <1>2, <1>3, <1>9, <2>2 DEF Stream!RunSettles, Stream!RunStep
<1>10. CASE Stream!Spoil
  <2>1. status' = status BY <1>10 DEF Stream!Spoil
  <2>2. QED BY <1>2, <1>4, <1>10, <2>1 DEF Stream!RunSpoils, Stream!RunStep
<1>11. QED BY <1>5, <1>6, <1>7, <1>8, <1>9, <1>10, OneRun DEF Stream!LifeNext

\* A step of both is a step of RunStream.
LEMMA ServedStep ==
  ASSUME TypeOK, TypeOK', AttemptInv, [RunGoesOn \/ PageGoesOn]_servedVars
  PROVE  [Stream!Next]_(Stream!vars)
<1>1. CASE RunGoesOn BY <1>1, RunGoesOnAsPromised DEF Stream!Next
<1>2. CASE PageGoesOn BY <1>2 DEF PageGoesOn, Stream!Next
<1>3. CASE UNCHANGED servedVars
  BY <1>3 DEF servedVars, vars, runVars, cancelVars, envVars, Asked, Stream!vars, Stream!lifeVars,
              Stream!streamVars
<1>4. QED BY <1>1, <1>2, <1>3

\* The run of the worker, served and followed, is a behaviour of RunStream: the
\* server and the page need nothing of the worker but the promise of RunLifecycle.
THEOREM ServedImplementsStream == ServedSpec => Stream!Spec
<1>1. ServedSpec => [](TypeOK /\ AttemptInv)
  BY ServedIsARun, TypeCorrect, AttemptCorrect, PTL
<1>2. TypeOK /\ TypeOK' /\ AttemptInv /\ [RunGoesOn \/ PageGoesOn]_servedVars
        => [Stream!Next]_(Stream!vars)
  BY ServedStep
<1>3. ServedInit => Stream!Init BY DEF ServedInit
<1>4. QED BY <1>1, <1>2, <1>3, PTL DEF ServedSpec, Stream!Spec

-----------------------------------------------------------------------------
(* From the worker to the page.                                            *)

\* Bounds of the page as in StreamAssumption.
PageBounds ==
  /\ {PageLimit, MaxLog} \subseteq Nat \ {0}
  /\ {MaxTrips, MaxCuts, MaxOutages, MaxExpiries, MaxOvertakes, MaxTroubles} \subseteq Nat

\* The run is one that RunStream may follow.
LEMMA Followable == PageBounds => Stream!StreamAssumption
BY DEF PageBounds, Stream!StreamAssumption, Stream!Kinds, Stream!Terminal, Stream!Open,
       EventKinds, Kinds, Endings, Statuses, Terminal

\* The event at which the page stopped says what the row says.
ShownIsTrue ==
  status \in Terminal =>
    \A n \in 1..Len(events) :
      n = page.lastSeq /\ events[n] \in Endings => status \in EndOf(events[n])

\* If the worker and its stores did not fail, nothing was overtaken in the page and no
\* cancel request reopened the run on an earlier read, the outcome the page shows is
\* the outcome in the row, however cancel requests, chunks and attempts race at the
\* worker, and reconnects, trips, late returns and outages at the page.
THEOREM ShownIsTrueCorrect ==
  ASSUME PageBounds
  PROVE  ServedSpec => [](faults = 0 /\ ~reopened /\ Stream!NoneYet("overtakes")
                            => ShownIsTrue)
<1>1. ServedSpec => [](faults = 0 /\ ~reopened /\ status \in Terminal
                         => Agrees(status, events))
  <2>1. FirstEndingDecides
          => (faults = 0 /\ ~reopened /\ status \in Terminal => Agrees(status, events))
    BY DEF FirstEndingDecides
  <2>2. QED BY ServedIsARun, FirstEndingDecidesCorrect, <2>1, PTL
<1>2. ServedSpec => []Stream!ShowsFirstEnding
  BY ServedImplementsStream, Followable, Stream!ShowsFirstEndingCorrect, PTL
<1>3. ASSUME status \in Terminal => Agrees(status, events),
             Stream!ShowsFirstEnding, Stream!NoneYet("overtakes")
      PROVE  ShownIsTrue
  <2> SUFFICES ASSUME status \in Terminal, NEW n \in 1..Len(events),
                      n = page.lastSeq, events[n] \in Endings
               PROVE  status \in EndOf(events[n])
    BY DEF ShownIsTrue
  <2>1. \A j \in 1..(n - 1) : events[j] \notin Endings
    BY <1>3 DEF Stream!ShowsFirstEnding, Stream!NoEndingUpTo, Stream!Ending, Endings
  <2>2. IsFirstEnding(n, events) BY <2>1 DEF IsFirstEnding
  <2>3. QED BY <1>3, <2>2 DEF Agrees
<1>4. QED BY <1>1, <1>2, <1>3, PTL

\* What a page reads of this run, whatever fails: the events without a hole; before a
\* final close frame everything that was written until the row was settled, for a
\* readable run the announcement of the outcome among it; and the frame is news only
\* after a retry that is not coming.
THEOREM ServedToTheEnd ==
  ASSUME PageBounds
  PROVE  ServedSpec => /\ Stream!NoGap
                       /\ [](Stream!NothingAfterClose /\ Stream!OutcomeSeen)
                       /\ []Stream!ClosedAfterRetry
<1>1. QED
  BY ServedImplementsStream, Followable, Stream!NoGapCorrect,
     Stream!NothingAfterCloseCorrect, Stream!OutcomeSeenCorrect,
     Stream!ClosedAfterRetryCorrect, PTL

\* Who is told that the run was cancelled.
ToldCancelled ==
  (\E i \in 1..Len(pipe) : pipe[i].type = "close" /\ pipe[i].status = "cancelled")
    => Requested

\* The row has said that the run was cancelled, at some time, and a request had been
\* committed by then.
CancelledForAReason == faults = 0 /\ settledAt["cancelled"] > 0 => Requested

\* A committed request stays committed, and a failure stays counted.
LEMMA RequestStays ==
  ASSUME TypeOK, [Next]_vars
  PROVE  (faults' = 0 => faults = 0) /\ (Requested => Requested')
<1>1. ASSUME NEW c \in Cancellers, CancelStep(c)
      PROVE  (faults' = 0 => faults = 0) /\ (Requested => Requested')
  <2>1. /\ cancel[c].pc \notin {"acked", "unheard"}
        /\ \A d \in Cancellers \ {c} : cancel'[d] = cancel[d]
    BY <1>1 DEF CancelStep, ReadRun, LockRow, Publish, CommitCancel, RollBack, Ends, TypeOK
  <2>2. faults' = faults \/ Fault
    BY <1>1 DEF CancelStep, ReadRun, LockRow, Publish, CommitCancel, RollBack, envVars
  <2>3. QED BY <2>1, <2>2, FaultCounted DEF Requested
<1>2. CASE WorkerStep \/ Environment \/ UNCHANGED vars
  <2>1. cancel' = cancel
    BY <1>2
       DEF WorkerStep, StartJob, ExpireJob, LoadRun, RejectRun, MarkRunning, Buffer,
           TakeChunk, AppendEvent, JudgeInterruption, SettleRun, CheckCancelled,
           WatchSignal, LeaveStream, StreamRaises, StreamEnds, Drain, Complete, Announce,
           Abort, Report, Conclude, ClearSignal, FinishJob, Environment, Failure,
           DatabaseFails, RedisFails, Crash, ArqCancels, KeyExpires, DeleteUser, vars,
           cancelVars
  <2>2. faults' = faults \/ Fault
    BY <1>2
       DEF WorkerStep, StartJob, ExpireJob, LoadRun, RejectRun, MarkRunning, Buffer,
           TakeChunk, AppendEvent, JudgeInterruption, SettleRun, CheckCancelled,
           WatchSignal, LeaveStream, StreamRaises, StreamEnds, Drain, Complete, Announce,
           Abort, Report, Conclude, ClearSignal, FinishJob, Environment, Failure,
           DatabaseFails, RedisFails, Crash, ArqCancels, KeyExpires, DeleteUser, vars,
           envVars
  <2>3. QED BY <2>1, <2>2, FaultCounted DEF Requested
<1>3. QED BY <1>1, <1>2 DEF Next

\* As long as the worker and its stores have not failed, the page is told of a
\* cancellation only after a cancel request of the user was committed: also when the
\* run has been reopened since.
THEOREM ToldCancelledCorrect ==
  ASSUME PageBounds
  PROVE  ServedSpec => [](faults = 0 => ToldCancelled)
<1>1. ServedSpec => [](TypeOK /\ CancelledOnRequest)
  BY ServedIsARun, TypeCorrect, CancelledOnRequestCorrect, PTL
<1>2. ServedSpec => []Stream!Inv
  BY ServedImplementsStream, Followable, Stream!StreamInvariant, PTL
<1>3. ServedInit => CancelledForAReason
  BY DEF ServedInit, Stream!Init, Stream!Terminal, CancelledForAReason
<1>4. ASSUME TypeOK, CancelledOnRequest', Stream!Inv, CancelledForAReason,
             [RunGoesOn \/ PageGoesOn]_servedVars
      PROVE  CancelledForAReason'
  <2>1. settledAt \in [Terminal -> Stream!Seqs]
    BY <1>4 DEF Stream!Inv, Stream!StreamTypeOK, Stream!Terminal, Terminal
  <2>2. [Next]_vars BY <1>4 DEF RunGoesOn, PageGoesOn, servedVars
  <2>3. (faults' = 0 => faults = 0) /\ (Requested => Requested')
    BY <1>4, <2>2, RequestStays
  <2>4. settledAt'["cancelled"] = settledAt["cancelled"] \/ status' = "cancelled"
    <3>1. CASE RunGoesOn BY <2>1, <3>1 DEF RunGoesOn, Terminal
    <3>2. CASE ~RunGoesOn
      BY <1>4, <3>2 DEF PageGoesOn, servedVars, Stream!ServerStep, Stream!PageStep,
         Stream!Disturbance, Stream!PollRow, Stream!SendPage, Stream!FindNothing,
         Stream!CloseOldConnection, Stream!Connect, Stream!Receive, Stream!EndOfStream,
         Stream!FireTimer, Stream!FinishPresentation, Stream!Return, Stream!BeginResume,
         Stream!BeginResumeLate, Stream!AskRun, Stream!AskActiveRun, Stream!ReportOutage,
         Stream!ShutDown, Stream!CutConnection, Stream!Leave, Stream!Reload,
         Stream!runVars
    <3>3. QED BY <3>1, <3>2
  <2>5. faults' = 0 /\ status' = "cancelled" => Requested'
    BY <1>4 DEF CancelledOnRequest, Requested
  <2>6. QED BY <1>4, <2>3, <2>4, <2>5 DEF CancelledForAReason
<1>5. ASSUME CancelledForAReason, Stream!Inv, faults = 0 PROVE ToldCancelled
  <2> SUFFICES ASSUME NEW i \in 1..Len(pipe),
                      pipe[i].type = "close", pipe[i].status = "cancelled"
               PROVE  Requested
    BY DEF ToldCancelled
  <2>1. settledAt["cancelled"] > 0
    BY <1>5 DEF Stream!Inv, Stream!Truthful, Stream!Terminal
  <2>2. QED BY <1>5, <2>1 DEF CancelledForAReason
<1>6. ServedSpec => []CancelledForAReason
  BY <1>1, <1>2, <1>3, <1>4, PTL DEF ServedSpec
<1>7. QED BY <1>2, <1>5, <1>6, PTL
=============================================================================
