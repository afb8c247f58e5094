------------------------------ MODULE Sandbox -------------------------------
(***************************************************************************)
(* The sandbox of one thread: the processes that run agents, each with its *)
(* own ProvisionerSandboxProvider (a cached address and the time of its    *)
(* last touch, under a lock of the thread), the provisioner with its       *)
(* Docker backend, its table of activity and the idle reaper, and the      *)
(* container.                                                              *)
(*                                                                         *)
(* Clocks are ages that stop at the limit they are compared with: Tick     *)
(* lets one unit pass.  A container is named by its address: Docker maps   *)
(* another port each time it starts one.  0 stands for none.               *)
(***************************************************************************)
EXTENDS Integers, FiniteSets

CONSTANTS
    Procs,      \* processes that run agents: the API and the ARQ workers
    Closers,    \* those that shut their provider down (lifespan of the API)
    KeepAlive,  \* sandbox_keepalive_interval_seconds
    Latency,    \* timeout of a request to the provisioner
    Exec,       \* sandbox_exec_timeout_seconds
    Idle,       \* SANDBOX_IDLE_TIMEOUT_SECONDS of the provisioner
    Ports,      \* bound: addresses of containers
    MaxFaults   \* bound: lost requests, failed Docker calls, restarts, shutdowns, and
                \*   health checks that a living sandbox does not answer in time

\* An interval or a timeout of 0 turns touching or the reaper off: not modelled.
ASSUME SandboxAssumption ==
    /\ Closers \subseteq Procs
    /\ KeepAlive \in Nat \ {0} /\ Idle \in Nat \ {0}
    /\ Latency \in Nat /\ Exec \in Nat /\ Ports \in Nat /\ MaxFaults \in Nat

\* The idle timeout leaves room for a command that starts with the oldest activity
\* for which the provider does not touch the sandbox.
Roomy == Idle >= KeepAlive + Latency + Exec

VARIABLES
    box,       \* the container of the thread
    ready,     \* it has answered the health check since it was started
    maker,     \* whose create holds the lock of the backend over a start
    activity,  \* age of _last_activity_at, Unknown without an entry
    reaper,    \* where SandboxIdleReaper._run is
    conn,      \* per process: the address in _connections
    touched,   \* per process: age of _last_touch_at, if there is one
    call,      \* per process: the request of provider.get under way
    busy,      \* per process: time its commands may go on, Unknown without one
    closing,   \* per process: the DELETE of provider.shutdown
    dead,      \* history: the last call of a process was sent to a missing sandbox
    lapsed,    \* history: a touch failed, or did not find the living sandbox that
               \*   was used after it, since the last activity
    lost,      \* history: the entry of a living sandbox was removed or not seeded
    faults     \* failures so far

boxVars == <<box, ready, maker>>
tableVars == <<activity, lapsed, lost>>
provVars == <<conn, touched, dead>>
vars == <<boxVars, tableVars, reaper, provVars, call, busy, closing, faults>>

-----------------------------------------------------------------------------
Unknown == -1
Nobody == [op |-> "gone"]   \* the client of the create has given up
Free == [op |-> "free"]
For(p) == [op |-> "for", who |-> p]

NoCall == [op |-> "none", at |-> "asked", url |-> 0, age |-> 0]
Calls == [op  : {"none", "touch", "discover", "create"},
          at  : {"asked", "making", "found", "marked", "missing", "lost"},
          url : 0..Ports,
          age : 0..Latency]

SandboxTypeOK ==
    /\ box \in 0..Ports /\ ready \in BOOLEAN
    /\ maker \in {Free, Nobody} \cup {For(p) : p \in Procs}
    /\ activity \in Unknown..Idle
    /\ reaper \in {"wait", "delete", "forget"}
    /\ conn \in [Procs -> 0..Ports]
    /\ touched \in [Procs -> 0..KeepAlive]
    /\ call \in [Procs -> Calls]
    /\ busy \in [Procs -> Unknown..Exec]
    /\ closing \in [Procs -> {"no", "delete", "forget"}]
    /\ dead \in [Procs -> BOOLEAN]
    /\ lapsed \in BOOLEAN /\ lost \in BOOLEAN
    /\ faults \in 0..MaxFaults

Init ==
    /\ box = 0 /\ ready = FALSE /\ maker = Free
    /\ activity = Unknown /\ reaper = "wait"
    /\ conn = [p \in Procs |-> 0] /\ touched = [p \in Procs |-> 0]
    /\ call = [p \in Procs |-> NoCall]
    /\ busy = [p \in Procs |-> Unknown] /\ closing = [p \in Procs |-> "no"]
    /\ dead = [p \in Procs |-> FALSE] /\ lapsed = FALSE /\ lost = FALSE
    /\ faults = 0

Fault == faults < MaxFaults /\ faults' = faults + 1

-----------------------------------------------------------------------------
(* The provider: get() and the command its caller sends at once.           *)

Ask(p, op) == call' = [call EXCEPT ![p] = [NoCall EXCEPT !.op = op]]
Answer(p, at) == call' = [call EXCEPT ![p].at = at]

\* Mutant: the client of the command has no timeout of its own.
UseUntimed(p, url) ==
    /\ call' = [call EXCEPT ![p] = NoCall]
    /\ dead' = [dead EXCEPT ![p] = url # box]
    /\ busy' = IF url = box THEN [busy EXCEPT ![p] = Exec + 1] ELSE busy

\* The command starts at the address, or fails if its container is gone.  Commands
\* of a process overlap: the last one started may go on longest.
Use(p, url) ==
    /\ call' = [call EXCEPT ![p] = NoCall]
    /\ dead' = [dead EXCEPT ![p] = url # box]
    /\ busy' = IF url = box THEN [busy EXCEPT ![p] = Exec] ELSE busy

\* Mutant: a sandbox is touched one interval too late.
FreshLonger(p) == touched[p] <= KeepAlive

\* ~_should_touch.
Fresh(p) == touched[p] < KeepAlive

Begin(p) ==
    /\ call[p] = NoCall /\ closing[p] = "no"
    /\ IF conn[p] = 0 THEN Ask(p, "discover") /\ UNCHANGED <<dead, busy>>
       ELSE IF Fresh(p) THEN Use(p, conn[p])
       ELSE Ask(p, "touch") /\ UNCHANGED <<dead, busy>>
    /\ UNCHANGED <<boxVars, tableVars, reaper, conn, touched, closing, faults>>

\* 200: the connection stays, whatever the address of the sandbox is by now.
TouchAnswered(p) ==
    /\ call[p].op = "touch" /\ call[p].at = "marked"
    /\ touched' = [touched EXCEPT ![p] = 0] /\ Use(p, conn[p])
    /\ UNCHANGED <<boxVars, tableVars, reaper, conn, closing, faults>>

\* Mutant: the connection is kept.
TouchMissingKept(p) ==
    /\ call[p].op = "touch" /\ call[p].at = "missing"
    /\ touched' = [touched EXCEPT ![p] = 0] /\ Use(p, conn[p])
    /\ UNCHANGED <<boxVars, tableVars, reaper, conn, closing, faults>>

\* 404: the connection is removed, and returned once more to the same user.  If the
\* sandbox lives the command runs in it, and nobody has marked it.
TouchMissing(p) ==
    /\ call[p].op = "touch" /\ call[p].at = "missing"
    /\ conn' = [conn EXCEPT ![p] = 0] /\ touched' = [touched EXCEPT ![p] = 0]
    /\ Use(p, conn[p]) /\ lapsed' = (lapsed \/ conn[p] = box)
    /\ UNCHANGED <<boxVars, activity, lost, reaper, closing, faults>>

\* A record becomes the connection.
Discovered(p) ==
    /\ call[p].op \in {"discover", "create"} /\ call[p].at = "marked"
    /\ conn' = [conn EXCEPT ![p] = call[p].url]
    /\ touched' = [touched EXCEPT ![p] = 0] /\ Use(p, call[p].url)
    /\ UNCHANGED <<boxVars, tableVars, reaper, closing, faults>>

DiscoverMissing(p) ==
    /\ call[p].op = "discover" /\ call[p].at = "missing" /\ Ask(p, "create")
    /\ UNCHANGED <<boxVars, tableVars, reaper, provVars, busy, closing, faults>>

\* The request raises.  After a touch the connection is used as it is, otherwise
\* the command fails.
Raise(p) ==
    /\ call[p].op # "none" /\ call[p].at = "lost"
    /\ IF call[p].op = "touch" THEN Use(p, conn[p]) /\ lapsed' = TRUE
       ELSE /\ call' = [call EXCEPT ![p] = NoCall] /\ dead' = [dead EXCEPT ![p] = FALSE]
            /\ UNCHANGED <<busy, lapsed>>
    /\ UNCHANGED <<boxVars, activity, lost, reaper, conn, touched, closing, faults>>

Disown(p) == maker' = IF maker = For(p) THEN Nobody ELSE maker

\* A start takes longer than the client waits: the provisioner goes on with it.
GiveUp(p) ==
    /\ call[p].op = "create" /\ call[p].at \in {"asked", "making"}
    /\ call[p].age = Latency /\ Answer(p, "lost") /\ Disown(p)
    /\ UNCHANGED <<box, ready, tableVars, reaper, provVars, busy, closing, faults>>

EndCommand(p) ==
    /\ busy[p] # Unknown /\ busy' = [busy EXCEPT ![p] = Unknown]
    /\ UNCHANGED <<boxVars, tableVars, reaper, provVars, call, closing, faults>>

-----------------------------------------------------------------------------
(* The provisioner: a handler finds the sandbox, then marks it as active.  *)

\* discover() returns a sandbox that answers the health check within 5 seconds: not one
\* that is still starting, and not one that is too busy to answer.
FindBox(p) ==
    /\ call[p].op \in {"touch", "discover"} /\ call[p].at = "asked"
    /\ \/ /\ ready /\ UNCHANGED faults
          /\ call' = [call EXCEPT ![p].at = "found",
                                  ![p].url = IF call[p].op = "discover" THEN box ELSE 0]
       \/ /\ IF ready THEN Fault ELSE UNCHANGED faults
          /\ Answer(p, "missing")
    /\ UNCHANGED <<boxVars, tableVars, reaper, provVars, busy, closing>>

\* create() with the lock of the backend: a healthy container is taken over; one that
\* does not answer is removed with the commands in it, and another is started.
TakeOver(p) ==
    /\ call[p].op = "create" /\ call[p].at = "asked" /\ maker = Free /\ ready
    /\ call' = [call EXCEPT ![p].at = "found", ![p].url = box]
    /\ UNCHANGED <<boxVars, tableVars, reaper, provVars, busy, closing, faults>>

\* The lowest port that no container has and no process remembers.
Held == {box} \cup {conn[p] : p \in Procs} \cup {call[p].url : p \in Procs}
NewPort(port) == port \notin Held /\ \A n \in 1..(port - 1) : n \in Held

StartBox(p) ==
    /\ call[p].op = "create" /\ call[p].at = "asked" /\ maker = Free
    /\ IF ready THEN Fault ELSE UNCHANGED faults
    /\ \E port \in 1..Ports : NewPort(port) /\ box' = port
    /\ ready' = FALSE /\ busy' = [q \in Procs |-> Unknown]
    /\ maker' = For(p) /\ Answer(p, "making")
    /\ UNCHANGED <<tableVars, reaper, provVars, closing>>

\* idle_reaper.touch.
Touch == activity' = 0 /\ lapsed' = FALSE /\ lost' = FALSE

\* wait_for_sandbox_ready returns True; the handler of a client that has given up
\* marks the sandbox at once.
BoxReady ==
    /\ maker # Free /\ box # 0 /\ ready' = TRUE /\ maker' = Free
    /\ IF maker = Nobody THEN Touch /\ UNCHANGED call
       ELSE /\ call' = [call EXCEPT ![maker.who].at = "found", ![maker.who].url = box]
            /\ UNCHANGED tableVars
    /\ UNCHANGED <<box, reaper, provVars, busy, closing, faults>>

\* It does not, or the container has been removed meanwhile: 500.  The container
\* that was started stays, and without an entry.
BoxFails ==
    /\ maker # Free /\ maker' = Free
    /\ IF box = 0 THEN UNCHANGED faults ELSE Fault
    /\ call' = [p \in Procs |-> IF maker = For(p) THEN [call[p] EXCEPT !.at = "lost"] ELSE call[p]]
    /\ UNCHANGED <<box, ready, tableVars, reaper, provVars, busy, closing>>

Mark(p) ==
    /\ call[p].at = "found" /\ Answer(p, "marked") /\ Touch
    /\ UNCHANGED <<boxVars, reaper, provVars, busy, closing, faults>>

\* The container goes with the commands in it.
Destroy == /\ box' = 0 /\ ready' = FALSE
           /\ busy' = [p \in Procs |-> Unknown]

\* forget.
Forget == activity' = Unknown /\ lost' = (box # 0) /\ UNCHANGED lapsed

-----------------------------------------------------------------------------
(* SandboxIdleReaper._run.                                                 *)

Collect ==
    /\ reaper = "wait" /\ activity >= Idle /\ reaper' = "delete"
    /\ UNCHANGED <<boxVars, tableVars, provVars, call, busy, closing, faults>>

Reap ==
    /\ reaper = "delete" /\ Destroy /\ reaper' = "forget"
    /\ UNCHANGED <<maker, tableVars, provVars, call, closing, faults>>

\* Mutant: the entry is forgotten as well.
ReapFailsForgetting ==
    /\ reaper = "delete" /\ Fault /\ reaper' = "wait" /\ activity' = Unknown
    /\ UNCHANGED <<boxVars, lapsed, lost, provVars, call, busy, closing>>

\* Docker refuses; the entry stays for the next round.
ReapFails ==
    /\ reaper = "delete" /\ Fault /\ reaper' = "wait"
    /\ UNCHANGED <<boxVars, tableVars, provVars, call, busy, closing>>

ReaperForgets ==
    /\ reaper = "forget" /\ Forget /\ reaper' = "wait"
    /\ UNCHANGED <<boxVars, provVars, call, busy, closing, faults>>

-----------------------------------------------------------------------------
(* Failures, restarts and time.                                            *)

\* A handler marks what it has found, whether or not its client is still there.
Finish(p) == IF call[p].at = "found" THEN Touch ELSE UNCHANGED tableVars

\* A request or its answer is lost.
LoseRequest(p) ==
    /\ call[p].op # "none" /\ call[p].at # "lost" /\ Fault
    /\ Answer(p, "lost") /\ Disown(p) /\ Finish(p)
    /\ UNCHANGED <<box, ready, reaper, provVars, busy, closing>>

\* Mutant: the reaper starts without looking for existing containers.
RestartUnseeded ==
    /\ Fault /\ maker' = Free /\ reaper' = "wait"
    /\ call' = [p \in Procs |-> IF call[p].op = "none" THEN NoCall ELSE [call[p] EXCEPT !.at = "lost"]]
    /\ closing' = [p \in Procs |-> "no"]
    /\ activity' = Unknown /\ UNCHANGED <<lapsed, lost>>
    /\ UNCHANGED <<box, ready, provVars, busy>>

\* The provisioner restarts: the containers stay, _seed_existing starts their clocks
\* again unless Docker refuses the list.
RestartProvisioner ==
    /\ Fault /\ maker' = Free /\ reaper' = "wait"
    /\ call' = [p \in Procs |-> IF call[p].op = "none" THEN NoCall ELSE [call[p] EXCEPT !.at = "lost"]]
    /\ closing' = [p \in Procs |-> "no"]
    /\ \/ activity' = (IF box = 0 THEN Unknown ELSE 0) /\ UNCHANGED <<lapsed, lost>>
       \/ Forget
    /\ UNCHANGED <<box, ready, provVars, busy>>

\* provider.shutdown of a process that ends.
Shutdown(p) ==
    /\ p \in Closers /\ closing[p] = "no" /\ Fault /\ Disown(p) /\ Finish(p)
    /\ closing' = [closing EXCEPT ![p] = IF conn[p] = 0 THEN "no" ELSE "delete"]
    /\ conn' = [conn EXCEPT ![p] = 0] /\ touched' = [touched EXCEPT ![p] = 0]
    /\ call' = [call EXCEPT ![p] = NoCall]
    /\ busy' = [busy EXCEPT ![p] = Unknown] /\ dead' = [dead EXCEPT ![p] = FALSE]
    /\ UNCHANGED <<box, ready, reaper>>

\* delete_sandbox.
CloseBox(p) ==
    /\ closing[p] = "delete" /\ Destroy /\ closing' = [closing EXCEPT ![p] = "forget"]
    /\ UNCHANGED <<maker, tableVars, reaper, provVars, call, faults>>

\* The request fails: the process ends without its sandbox being removed.
CloseFails(p) ==
    /\ closing[p] = "delete" /\ closing' = [closing EXCEPT ![p] = "no"]
    /\ UNCHANGED <<boxVars, tableVars, reaper, provVars, call, busy, faults>>

CloseEntry(p) ==
    /\ closing[p] = "forget" /\ Forget /\ closing' = [closing EXCEPT ![p] = "no"]
    /\ UNCHANGED <<boxVars, reaper, provVars, call, busy, faults>>

Older(age, limit) == IF age = Unknown \/ age = limit THEN age ELSE age + 1

\* A command does not outlast its time, nor an answer the patience of its client.
Tick ==
    /\ \A p \in Procs : busy[p] # 0 /\ (call[p].op = "none" \/ call[p].age < Latency)
    /\ activity' = Older(activity, Idle)
    /\ touched' = [p \in Procs |-> IF conn[p] = 0 THEN 0 ELSE Older(touched[p], KeepAlive)]
    /\ busy' = [p \in Procs |-> IF busy[p] = Unknown THEN Unknown ELSE busy[p] - 1]
    /\ call' = [p \in Procs |-> IF call[p].op = "none" THEN NoCall ELSE [call[p] EXCEPT !.age = @ + 1]]
    /\ UNCHANGED <<boxVars, lapsed, lost, reaper, conn, dead, closing, faults>>

Handle(p) == FindBox(p) \/ TakeOver(p) \/ StartBox(p) \/ Mark(p)
Proceed(p) == \/ TouchAnswered(p) \/ TouchMissing(p) \/ Discovered(p)
              \/ DiscoverMissing(p) \/ Raise(p) \/ GiveUp(p)
Start == BoxReady \/ BoxFails
Sweep == Collect \/ Reap \/ ReapFails \/ ReaperForgets
Close(p) == CloseBox(p) \/ CloseFails(p) \/ CloseEntry(p)

Next ==
    \/ \E p \in Procs : \/ Begin(p) \/ Handle(p) \/ Proceed(p) \/ EndCommand(p)
                        \/ LoseRequest(p) \/ Shutdown(p) \/ Close(p)
    \/ Start \/ Sweep \/ RestartProvisioner \/ Tick

Spec == Init /\ [][Next]_vars

\* Handlers, clients, the reaper and the clock go on; nobody has to ask for the
\* sandbox.
Fairness ==
    /\ \A p \in Procs : /\ WF_vars(Handle(p)) /\ WF_vars(Proceed(p))
                        /\ WF_vars(EndCommand(p)) /\ WF_vars(Close(p))
    /\ WF_vars(Start) /\ WF_vars(Sweep) /\ WF_vars(Tick)

FairSpec == Spec /\ Fairness

-----------------------------------------------------------------------------
(* Properties.                                                             *)

InUse == \E p \in Procs : busy[p] # Unknown

\* A sandbox with a running command is not picked by the reaper, whichever process
\* touched it last, if the idle timeout leaves the room it needs ("adjusting idle
\* timeout ... to avoid reaping running commands").  It may be picked when a touch has
\* failed, or was answered with 404 by a sandbox too busy for its health check: the
\* provider goes on with the address it has, and the next command runs unmarked.
NotPickedInUse == Roomy /\ InUse /\ ~lapsed => activity < Idle

\* Whoever holds the address of the living sandbox can rely on the reaper to know
\* it, unless its entry was lost to a removal that raced its start.
HeldIsKnown ==
    ready /\ (\E p \in Procs : conn[p] = box) => activity # Unknown \/ lost

\* A sandbox that nobody asks for any more goes away, unless its entry was lost or
\* its start failed half-way.
Quiet == \A p \in Procs : call[p] = NoCall /\ busy[p] = Unknown
IdleGoesAway == (<>[]Quiet) => <>[](box = 0 \/ lost \/ ~ready)

\* A process that goes on asking is not sent to a missing sandbox for ever, unless
\* another process has had it replaced or the reaper never rests.
Replaced(p) == box # 0 /\ conn[p] \notin {0, box}
Recovers ==
    \A p \in Procs : (<>[](reaper = "wait")) /\ ([]<><<Begin(p)>>_vars)
                         => []<>(~dead[p] \/ Replaced(p))

\* "to avoid reaping running commands": the reaper removes no sandbox in use.
NoRunningCommandReaped ==
    [][reaper = "delete" /\ reaper' = "forget" => ~InUse]_vars
=============================================================================
