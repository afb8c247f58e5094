----------------------------- MODULE RunStream ------------------------------
(***************************************************************************)
(* Following a run: the SSE endpoint that polls the row and the event      *)
(* stream (stream_agent_run_events), the connection, and one page of the   *)
(* web client (useAgentRunStream.js) that reconnects, leaves the thread,   *)
(* comes back and reloads.  The run itself is RunLifecycle, the promise    *)
(* AgentRun implements.                                                    *)
(*                                                                         *)
(* The sequence id of an event is its place in the log.  Heartbeats and    *)
(* the text of the events are left out.                                    *)
(***************************************************************************)
EXTENDS RunLifecycle, FiniteSets

CONSTANTS
    RunKinds,      \* events and statuses of the runs that are followed:
    RunStatuses,   \*   all of them, or those the page tells apart
    PageLimit,     \* events per XRANGE
    MaxLog,        \* bound: events of a run, the init event among them
    MaxTrips,      \* bound: times the user leaves the thread or reloads the page
    MaxCuts,       \* bound: connections that break
    MaxOutages,    \* bound: database or Redis errors met while serving the page, and
                   \*   API processes that stop while they serve the stream
    MaxExpiries,   \* bound: returns to the thread more than an hour after the snapshot
    MaxOvertakes,  \* bound: timers that run out before the EOF or the answer they were
                   \*   to wait for, returns before the ending has been presented
    MaxTroubles    \* bound: all of these together

ASSUME StreamAssumption ==
    /\ RunKinds \subseteq Kinds
    /\ RunStatuses \subseteq Terminal \cup Open
    /\ PageLimit \in Nat \ {0}
    /\ MaxLog \in Nat \ {0}
    /\ {MaxTrips, MaxCuts, MaxOutages, MaxExpiries, MaxOvertakes, MaxTroubles}
           \subseteq Nat

VARIABLES
    server,     \* the generator that serves the open connection
    pipe,       \* frames written and not yet read by the page
    page,       \* ts of this thread
    snapshot,   \* active_run:<thread> in localStorage, its last_seq
    settledAt,  \* history: events in the log when the status first became each
                \*   terminal one, 0 before
    budget      \* what is left of the bounds

streamVars == <<server, pipe, page, snapshot, budget>>
runVars == <<lifeVars, settledAt>>
vars == <<lifeVars, settledAt, streamVars>>

-----------------------------------------------------------------------------
NoSnapshot == -1
Seqs == 0..MaxLog

\* event: one entry of the log; close: the server is done; unavailable: an
\* "error" event with no payload.
Frames == [type : {"event"}, seq : Seqs]
          \cup [type : {"close"}, status : Terminal \cup {"open"}]
          \cup [type : {"unavailable"}]

Servers == [pc : {"off", "poll", "list", "sleep"}, seen : Terminal \cup Open, last : Seqs]

Pages == [following  : BOOLEAN,   \* activeRunId is this run
          lastSeq    : Seqs,      \* runLastSeq
          conn       : {"none", "opening", "open"},  \* none: no abort controller
          timers     : Nat,       \* reconnect timers under way
          finalizing : BOOLEAN,   \* presentationFinalizingRunId
          away       : BOOLEAN,   \* another thread is shown
          resume     : {"no", "due", "ask", "active"},  \* resumeActiveRunForThread
          resumeSeq  : Seqs]      \* last_seq of the snapshot it read

Budget == [trips : 0..MaxTrips, cuts : 0..MaxCuts,
           outages : 0..MaxOutages, expiries : 0..MaxExpiries,
           overtakes : 0..MaxOvertakes, all : 0..MaxTroubles]

StreamTypeOK ==
    /\ LifeTypeOK /\ Len(log) <= MaxLog
    /\ server \in Servers
    /\ pipe \in Seq(Frames)
    /\ page \in Pages
    /\ snapshot \in Seqs \cup {NoSnapshot}
    /\ settledAt \in [Terminal -> Seqs]
    /\ budget \in Budget

FullBudget == [trips |-> MaxTrips, cuts |-> MaxCuts, outages |-> MaxOutages,
               expiries |-> MaxExpiries, overtakes |-> MaxOvertakes,
               all |-> MaxTroubles]

NoServer == [pc |-> "off", seen |-> "pending", last |-> 0]

\* sendMessage has just created the run and calls startRunStream(threadId, runId, 0).
Init ==
    /\ LifeInit /\ settledAt = [s \in Terminal |-> 0]
    /\ server = NoServer /\ pipe = <<>> /\ snapshot = 0
    /\ page = [following |-> TRUE, lastSeq |-> 0, conn |-> "opening", timers |-> 0,
               finalizing |-> FALSE, away |-> FALSE, resume |-> "no", resumeSeq |-> 0]
    /\ budget = FullBudget

Spend(what) == /\ budget[what] > 0 /\ budget.all > 0
               /\ budget' = [budget EXCEPT ![what] = @ - 1, !.all = @ - 1]

-----------------------------------------------------------------------------
(* The run.                                                                *)

RunWrites == /\ Write /\ log' \in Seq(RunKinds \cup {"init"}) /\ Len(log') <= MaxLog
             /\ UNCHANGED <<settledAt, streamVars>>
RunMoves == /\ Begin \/ \E a \in Askers : Ask(a) \/ Cancel(a) \/ Withdraw(a)
            /\ status' \in RunStatuses \cup {status}
            /\ UNCHANGED <<settledAt, streamVars>>
RunSettles == /\ Resolve /\ status' \in RunStatuses
              /\ settledAt' = IF settledAt[status'] > 0 THEN settledAt
                              ELSE [settledAt EXCEPT ![status'] = Len(log)]
              /\ UNCHANGED streamVars
RunSpoils == Spoil /\ UNCHANGED <<settledAt, streamVars>>

RunStep == RunWrites \/ RunMoves \/ RunSettles \/ RunSpoils

-----------------------------------------------------------------------------
(* The server.  The generator is cancelled when its connection goes.       *)

Send(frames) == pipe' = pipe \o frames

CloseFrame(s) == [type |-> "close", status |-> s]

\* One transaction reads the row, at once or after the pause between two rounds.
PollRow ==
    /\ server.pc \in {"poll", "sleep"}
    /\ server' = [server EXCEPT !.pc = "list", !.seen = status]
    /\ UNCHANGED <<runVars, pipe, page, snapshot, budget>>

\* XRANGE after the last event sent; a page of events is sent.
NextPage(after) ==
    LET upTo == IF Len(log) <= after + PageLimit THEN Len(log) ELSE after + PageLimit
    IN  [i \in 1..(upTo - after) |-> [type |-> "event", seq |-> after + i]]

\* Mutants: the cursor moves by the size of a page, full or not; the last page of
\* a settled run is followed by the close frame.
SendPageSkipping ==
    /\ server.pc = "list" /\ NextPage(server.last) # <<>>
    /\ Send(NextPage(server.last))
    /\ server' = [server EXCEPT !.pc = "sleep", !.last = @ + PageLimit]
    /\ UNCHANGED <<runVars, page, snapshot, budget>>

SendPageAndClose ==
    /\ server.pc = "list" /\ NextPage(server.last) # <<>>
    /\ IF server.seen \in Terminal
       THEN /\ Send(Append(NextPage(server.last), CloseFrame(server.seen)))
            /\ server' = NoServer
       ELSE /\ Send(NextPage(server.last))
            /\ server' = [server EXCEPT !.pc = "sleep", !.last = @ + Len(NextPage(@))]
    /\ UNCHANGED <<runVars, page, snapshot, budget>>

SendPage ==
    /\ server.pc = "list" /\ NextPage(server.last) # <<>>
    /\ Send(NextPage(server.last))
    /\ server' = [server EXCEPT !.pc = "sleep", !.last = @ + Len(NextPage(@))]
    /\ UNCHANGED <<runVars, page, snapshot, budget>>

\* Nothing to send: the stream is over if the row was terminal when it was read.
FindNothing ==
    /\ server.pc = "list" /\ NextPage(server.last) = <<>>
    /\ IF server.seen \in Terminal
       THEN Send(<<CloseFrame(server.seen)>>) /\ server' = NoServer
       ELSE server' = [server EXCEPT !.pc = "sleep"] /\ UNCHANGED pipe
    /\ UNCHANGED <<runVars, page, snapshot, budget>>

\* SSE_MAX_CONNECTION_MINUTES.
CloseOldConnection ==
    /\ server.pc = "sleep" /\ Send(<<CloseFrame("open")>>) /\ server' = NoServer
    /\ UNCHANGED <<runVars, page, snapshot, budget>>

\* A database error at the poll, a Redis error at the list.
ReportOutage ==
    /\ server.pc # "off" /\ Spend("outages")
    /\ Send(<<[type |-> "unavailable"], CloseFrame("open")>>) /\ server' = NoServer
    /\ UNCHANGED <<runVars, page, snapshot>>

\* CancelledError: the generator returns, the response ends without a close frame.
ShutDown ==
    /\ server.pc # "off" /\ Spend("outages") /\ server' = NoServer
    /\ UNCHANGED <<runVars, pipe, page, snapshot>>

ServerStep == PollRow \/ SendPage \/ FindNothing \/ CloseOldConnection

-----------------------------------------------------------------------------
(* The page.                                                               *)

Hangup == server' = NoServer /\ pipe' = <<>>

\* startRunStream aborts the connection there is and opens another.
Start(p, after) ==
    /\ page' = [p EXCEPT !.following = TRUE, !.lastSeq = after, !.conn = "opening"]
    /\ snapshot' = after /\ Hangup

Connect ==
    /\ page.conn = "opening" /\ page' = [page EXCEPT !.conn = "open"]
    /\ server' = [NoServer EXCEPT !.pc = "poll", !.last = page.lastSeq]
    /\ UNCHANGED <<runVars, pipe, snapshot, budget>>

\* finalizeRunPresentation: it returns at once while it is under way for this run.
Finalize(p) ==
    IF p.finalizing THEN page' = p /\ UNCHANGED snapshot
    ELSE /\ page' = [p EXCEPT !.finalizing = TRUE, !.following = FALSE]
         /\ snapshot' = NoSnapshot

Ending == {"finished", "error", "interrupted", "ask"}

HandleEvent(n) ==
    LET seen == [page EXCEPT !.lastSeq = n]
    IN  IF log[n] \in Ending THEN Finalize(seen) ELSE page' = seen /\ snapshot' = n

\* Mutants: every close frame is final; a close frame is not followed by a reconnect.
HandleCloseAsFinal(s) == Finalize(page)

HandleCloseIdly(s) == IF s \in Terminal THEN Finalize(page) ELSE UNCHANGED <<page, snapshot>>

HandleClose(s) ==
    IF s \in Terminal THEN Finalize(page)
    ELSE page' = [page EXCEPT !.timers = @ + 1] /\ UNCHANGED snapshot

\* onEvent: frames of a run that is no longer active, and events seen before, are ignored.
Receive ==
    /\ page.conn = "open" /\ pipe # <<>> /\ pipe' = Tail(pipe)
    /\ LET f == Head(pipe)
       IN  IF ~page.following \/ (f.type = "event" /\ f.seq <= page.lastSeq)
           THEN UNCHANGED <<page, snapshot>>
           ELSE CASE f.type = "event" -> HandleEvent(f.seq)
                  [] f.type = "close" -> HandleClose(f.status)
                  [] f.type = "unavailable" -> Finalize(page)
    /\ UNCHANGED <<runVars, server, budget>>

\* The response ends: the finally block of startRunStream.
EndOfStream ==
    /\ page.conn = "open" /\ server.pc = "off" /\ pipe = <<>>
    /\ page' = [page EXCEPT !.conn = "none"]
    /\ UNCHANGED <<runVars, server, pipe, snapshot, budget>>

\* The request is refused or the connection breaks: catch, then finally.
CutConnection ==
    /\ page.conn # "none" /\ Spend("cuts") /\ Hangup
    /\ page' = [page EXCEPT !.conn = "none",
                            !.timers = IF page.following THEN @ + 1 ELSE @]
    /\ UNCHANGED <<runVars, snapshot>>

\* The connection is gone for good, and no request of a resume is under way.
Unhurried == page.resume = "no" /\ (page.conn = "open" => server.pc # "off")

\* A reconnect timer does nothing while there is a connection, closed or not.
FireTimer ==
    /\ page.timers > 0
    /\ IF Unhurried THEN UNCHANGED budget ELSE Spend("overtakes")
    /\ LET rung == [page EXCEPT !.timers = @ - 1]
       IN  IF page.following /\ page.conn = "none" THEN Start(rung, page.lastSeq)
           ELSE page' = rung /\ UNCHANGED <<snapshot, server, pipe>>
    /\ UNCHANGED runVars

\* The promise chain of finalizeRunPresentation ends: the history is reloaded.
FinishPresentation ==
    /\ page.finalizing /\ page' = [page EXCEPT !.finalizing = FALSE]
    /\ UNCHANGED <<runVars, server, pipe, snapshot, budget>>

\* Another thread is selected: stopRunStreamSubscription.
Leave ==
    /\ ~page.away /\ Spend("trips") /\ Hangup
    /\ page' = [page EXCEPT !.away = TRUE, !.conn = "none"]
    /\ UNCHANGED <<runVars, snapshot>>

\* The thread is selected again.
Return ==
    /\ page.away /\ page.resume = "no"
    /\ page' = [page EXCEPT !.away = FALSE, !.resume = "due"]
    /\ UNCHANGED <<runVars, server, pipe, snapshot, budget>>

\* Everything but the snapshot is lost.
Reload ==
    /\ Spend("trips") /\ Hangup
    /\ page' = [following |-> FALSE, lastSeq |-> 0, conn |-> "none", timers |-> 0,
                finalizing |-> FALSE, away |-> FALSE, resume |-> "due", resumeSeq |-> 0]
    /\ UNCHANGED <<runVars, snapshot>>

\* Mutant: the position of the snapshot is not used.
BeginResumeAtZero ==
    /\ page.resume = "due"
    /\ IF page.finalizing THEN Spend("overtakes") ELSE UNCHANGED budget
    /\ page' = IF page.conn # "none" THEN [page EXCEPT !.resume = "no"]
               ELSE IF snapshot = NoSnapshot THEN [page EXCEPT !.resume = "active"]
               ELSE [page EXCEPT !.resume = "ask", !.resumeSeq = 0]
    /\ UNCHANGED <<runVars, server, pipe, snapshot>>

\* resumeActiveRunForThread up to its first await.
BeginResume ==
    /\ page.resume = "due"
    /\ IF page.finalizing THEN Spend("overtakes") ELSE UNCHANGED budget
    /\ page' = IF page.conn # "none" THEN [page EXCEPT !.resume = "no"]
               ELSE IF snapshot = NoSnapshot THEN [page EXCEPT !.resume = "active"]
               ELSE [page EXCEPT !.resume = "ask", !.resumeSeq = snapshot]
    /\ UNCHANGED <<runVars, server, pipe, snapshot>>

\* The same when the snapshot is older than ACTIVE_RUN_STORAGE_TTL_MS; what has been
\* finalizing for an hour is not there.
BeginResumeLate ==
    /\ page.resume = "due" /\ page.conn = "none" /\ ~page.finalizing
    /\ snapshot # NoSnapshot /\ Spend("expiries") /\ snapshot' = NoSnapshot
    /\ page' = [page EXCEPT !.resume = "active"]
    /\ UNCHANGED <<runVars, server, pipe>>

\* Mutant: the snapshot is read again when the answer is there.
AskRunRereading ==
    /\ page.resume = "ask"
    /\ \/ /\ status \in Open /\ UNCHANGED budget
          /\ Start([page EXCEPT !.resume = "no"], snapshot)
       \/ /\ (status \in Terminal /\ UNCHANGED budget) \/ Spend("outages")
          /\ page' = [page EXCEPT !.resume = "active"] /\ snapshot' = NoSnapshot
          /\ UNCHANGED <<server, pipe>>
    /\ UNCHANGED runVars

\* getAgentRun answers, or fails.
AskRun ==
    /\ page.resume = "ask"
    /\ \/ /\ status \in Open /\ UNCHANGED budget
          /\ Start([page EXCEPT !.resume = "no"], page.resumeSeq)
       \/ /\ (status \in Terminal /\ UNCHANGED budget) \/ Spend("outages")
          /\ page' = [page EXCEPT !.resume = "active"] /\ snapshot' = NoSnapshot
          /\ UNCHANGED <<server, pipe>>
    /\ UNCHANGED runVars

\* getThreadActiveRun answers, or fails.
AskActiveRun ==
    /\ page.resume = "active"
    /\ \/ status \in Open /\ Start([page EXCEPT !.resume = "no"], 0) /\ UNCHANGED budget
       \/ /\ (status \in Terminal /\ UNCHANGED budget) \/ Spend("outages")
          /\ page' = [page EXCEPT !.resume = "no", !.following = FALSE, !.lastSeq = 0]
          /\ snapshot' = NoSnapshot /\ UNCHANGED <<server, pipe>>
    /\ UNCHANGED runVars

PageStep ==
    \/ Connect \/ Receive \/ EndOfStream \/ FireTimer \/ FinishPresentation
    \/ Return \/ BeginResume \/ BeginResumeLate \/ AskRun \/ AskActiveRun

Disturbance == ReportOutage \/ ShutDown \/ CutConnection \/ Leave \/ Reload

Next == RunStep \/ ServerStep \/ PageStep \/ Disturbance

\* The server and the page go on; the run may stop at any time, and the user may stay
\* in another thread for good.
Fairness == /\ WF_vars(ServerStep)
            /\ WF_vars(Connect) /\ WF_vars(Receive) /\ WF_vars(EndOfStream)
            /\ WF_vars(FireTimer) /\ WF_vars(FinishPresentation)
            /\ WF_vars(BeginResume \/ AskRun \/ AskActiveRun)

Spec == Init /\ [][Next]_vars
FairSpec == Spec /\ Fairness

-----------------------------------------------------------------------------
(* Properties.                                                             *)

\* The page reads the log without a hole: over every page of events, reconnect
\* and late frame, an event it takes from a connection is the one after the last
\* it has.
NoGap ==
    [][page.conn = "open" /\ page'.conn = "open" /\ page'.lastSeq > page.lastSeq
         => page'.lastSeq = page.lastSeq + 1]_vars

\* A close frame with a final status is the end: everything the run wrote before
\* it first had that status reaches the page before the frame, because the row is
\* read before the events.
NothingAfterClose ==
    \A i \in 1..Len(pipe) :
        page.following /\ pipe[i].type = "close" /\ pipe[i].status \in Terminal
            => LET end == settledAt[pipe[i].status]
               IN  \/ page.lastSeq >= end
                   \/ \E j \in 1..(i - 1) : pipe[j] = [type |-> "event", seq |-> end]

NoneYet(what) == budget[what] = FullBudget[what]

\* The run has been settled; a cancel request has reopened it since.
Settled == \E s \in Terminal : settledAt[s] > 0
Reopened == Settled /\ status \notin Terminal

\* The page that follows a run does not go back, so no event is handled twice, if
\* no request fails, its own timers, requests and presentations do not overtake
\* one another, the user is back within the hour and the run was not reopened.
NoReplay ==
    [][page.following /\ page'.following /\ ~Reopened
         /\ NoneYet("outages")' /\ NoneYet("overtakes")' /\ NoneYet("expiries")'
         => page'.lastSeq >= page.lastSeq]_vars

\* A page that follows the run, or is about to, stops only when the run has been
\* settled or its outcome has been announced to it, as long as no request fails.
Tracks == page.following \/ page.resume # "no"
Over == Settled \/ \E i \in 1..page.lastSeq : log[i] \in Ending
StopsAtTheEnd == [][Tracks /\ ~Tracks' => Over \/ Over' \/ ~NoneYet("outages")']_vars

\* "run event stream is temporarily unavailable, please reconnect": after such a
\* frame, too, the page goes on until then.
KeepsFollowing == [][Tracks /\ ~Tracks' => Over \/ Over']_vars

\* A settled run does not leave the page waiting, whatever it missed, while the
\* user looks at it, unless the API process stopped while it served the page,
\* something was overtaken or the run was reopened.
PageSettles == (status \in Terminal) ~>
    \/ ~page.following /\ ~page.finalizing
    \/ page.away \/ Reopened
    \/ ~NoneYet("outages") \/ ~NoneYet("overtakes")
=============================================================================
