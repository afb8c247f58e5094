---------------------------- MODULE GetOrCreate -----------------------------
(***************************************************************************)
(* What POST /chat/runs promises its callers ("Idempotency request ID"):   *)
(* a request id is a register that is written once, with the run of the    *)
(* first request that gets there; every request is answered from it, and   *)
(* only the request that wrote it hands the job of the run to a worker.    *)
(* RunCreation implements it without a step that does both the look and    *)
(* the write.                                                              *)
(***************************************************************************)
CONSTANTS Requests, RequestIds, Users, NoRun

VARIABLES
    ask,    \* what each request carries: its user and its request id
    run,    \* the run of each request id, named after the request that made it
    reply,  \* what each request has been told
    queued  \* runs whose job has been handed over

registerVars == <<ask, run, reply, queued>>

Waiting == [state |-> "waiting", run |-> NoRun]
Told(state, r) == [state |-> state, run |-> r]

RegisterInit ==
    /\ ask \in [Requests -> [user : Users, id : RequestIds]]
    /\ run = [id \in RequestIds |-> NoRun]
    /\ reply = [r \in Requests |-> Waiting]
    /\ queued = {}

\* The run comes into being, once for each request id.
Create(r) ==
    /\ reply[r] = Waiting /\ run[ask[r].id] = NoRun
    /\ run' = [run EXCEPT ![ask[r].id] = r]
    /\ UNCHANGED <<ask, reply, queued>>

\* A run of the caller is the answer, with its job queued if the caller made it.
Confirm(r) ==
    LET made == run[ask[r].id]
    IN  /\ reply[r] = Waiting /\ made # NoRun /\ ask[made].user = ask[r].user
        /\ reply' = [reply EXCEPT ![r] = Told("answered", made)]
        /\ queued' = IF made = r THEN queued \cup {r} ELSE queued
        /\ UNCHANGED <<ask, run>>

\* A run of somebody else is a conflict.
Refuse(r) ==
    LET made == run[ask[r].id]
    IN  /\ reply[r] = Waiting /\ made # NoRun /\ ask[made].user # ask[r].user
        /\ reply' = [reply EXCEPT ![r] = Told("refused", NoRun)]
        /\ UNCHANGED <<ask, run, queued>>

\* An error, at any time: what was created stays.
Break(r) ==
    /\ reply[r] = Waiting
    /\ reply' = [reply EXCEPT ![r] = Told("failed", NoRun)]
    /\ UNCHANGED <<ask, run, queued>>

RegisterNext == \E r \in Requests : Create(r) \/ Confirm(r) \/ Refuse(r) \/ Break(r)

RegisterSpec == RegisterInit /\ [][RegisterNext]_registerVars
=============================================================================
