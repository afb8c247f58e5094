---------------------------- MODULE RunLifecycle ----------------------------
(***************************************************************************)
(* What an agent run promises to whoever follows it, without the worker:   *)
(* a log of events that only grows, and a status that is settled at most   *)
(* once, after the event announcing the outcome is in the log. The promise *)
(* has a gap: a cancel request that has read the row while it was open     *)
(* reopens a run that was settled meanwhile.                               *)
(* AgentRun implements it; RunStream follows it.                           *)
(***************************************************************************)
EXTENDS Integers, Sequences

CONSTANT Askers  \* requests that cancel the run

VARIABLES
    status,  \* agent_runs.status
    log,     \* run:events:<id>, by kind
    plain,   \* the owner exists and the chunks of the run can be parsed
    asked    \* cancel requests that have read an open row and are not over

lifeVars == <<status, log, plain, asked>>

Terminal == {"completed", "failed", "cancelled", "interrupted"}
Open == {"pending", "running", "cancel_requested"}
Kinds == {"init", "loading", "info", "finished", "error", "retry", "interrupted", "ask"}

\* Events that announce an outcome.
Announcers == [completed   |-> {"finished"},
               failed      |-> {"error", "retry"},
               cancelled   |-> {"interrupted"},
               interrupted |-> {"interrupted", "ask"}]

Announced(s, l) == \E i \in 1..Len(l) : l[i] \in Announcers[s]

LifeTypeOK == /\ status \in Terminal \cup Open
              /\ log \in Seq(Kinds)
              /\ plain \in BOOLEAN
              /\ asked \subseteq Askers

LifeInit == status = "pending" /\ log = <<"init">> /\ plain \in BOOLEAN /\ asked = {}

\* An event, or the buffered loading chunks and an event.
Batches == {<<k>> : k \in Kinds} \cup {<<"loading">> \o <<k>> : k \in Kinds}

Write == \E b \in Batches : log' = log \o b /\ UNCHANGED <<status, plain, asked>>

\* mark_running.
Begin == status \in Open /\ status' = "running" /\ UNCHANGED <<log, plain, asked>>

\* cancel_agent_run_view reads the row; request_cancel commits on what it has
\* read; or the request fails.
Ask(a) == /\ a \notin asked /\ status \in {"pending", "running"}
          /\ asked' = asked \cup {a} /\ UNCHANGED <<status, log, plain>>
Cancel(a) == /\ a \in asked /\ asked' = asked \ {a}
             /\ status' = "cancel_requested" /\ UNCHANGED <<log, plain>>
Withdraw(a) == a \in asked /\ asked' = asked \ {a} /\ UNCHANGED <<status, log, plain>>

\* set_terminal_status.
Resolve == /\ status \in Open /\ status' \in Terminal
           /\ plain => Announced(status', log)
           /\ UNCHANGED <<log, plain, asked>>

\* The owner is deleted.
Spoil == plain /\ plain' = FALSE /\ UNCHANGED <<status, log, asked>>

LifeNext == \/ Write \/ Begin \/ Resolve \/ Spoil
            \/ \E a \in Askers : Ask(a) \/ Cancel(a) \/ Withdraw(a)

LifeSpec == LifeInit /\ [][LifeNext]_lifeVars
=============================================================================
