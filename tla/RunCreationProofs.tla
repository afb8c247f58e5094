------------------------- MODULE RunCreationProofs --------------------------
(* What holds of RunCreation for any number of racing requests, users,      *)
(* request ids and failures.                                                *)
EXTENDS RunCreation, TLAPS

\* An answer, to whatever lookup, keeps the types of what it changes.
LEMMA AnswerTypes ==
  ASSUME CreationTypeOK, NEW r \in Requests, NEW run \in Requests, Answer(r, run)
  PROVE  pc' \in [Requests -> Steps] /\ found' \in [Requests -> Requests \cup {NoRun}]
  BY DEF CreationTypeOK, Steps, Answer, Goto

\* Every step keeps the types.
LEMMA TypeStep == CreationTypeOK /\ [Next]_vars => CreationTypeOK'
<1> SUFFICES ASSUME CreationTypeOK, [Next]_vars PROVE CreationTypeOK'
  OBVIOUS
<1> USE DEF CreationTypeOK
<1>0. ASSUME NEW r \in Requests, NEW step \in Steps, Goto(r, step)
      PROVE  pc' \in [Requests -> Steps]
  BY <1>0 DEF Goto
<1>1. ASSUME NEW r \in Requests, Lookup(r) \/ Relookup(r) PROVE CreationTypeOK'
  <2>1. CASE \E run \in WithIdOf(r, rows) : Answer(r, run)
    <3>1. PICK run \in Requests : Answer(r, run)
      BY <2>1 DEF WithIdOf
    <3>2. QED
      BY <1>1, <3>1, AnswerTypes DEF Lookup, Relookup
  <2>2. CASE Goto(r, "insert") /\ UNCHANGED found
    BY <1>1, <2>2, <1>0 DEF Lookup, Relookup, Steps
  <2>3. QED
    BY <1>1, <2>1, <2>2 DEF Lookup, Relookup
<1>2. ASSUME NEW r \in Requests, Insert(r) PROVE CreationTypeOK'
  BY <1>2, <1>0 DEF Insert, Steps
<1>3. ASSUME NEW r \in Requests, Commit(r) PROVE CreationTypeOK'
  BY <1>3, <1>0 DEF Commit, Steps
<1>4. ASSUME NEW r \in Requests, GetPool(r) \/ OpenStream(r) \/ Enqueue(r)
      PROVE  CreationTypeOK'
  BY <1>4, <1>0 DEF GetPool, OpenStream, Enqueue, Steps
<1>5. ASSUME NEW r \in Requests, Fail(r) PROVE CreationTypeOK'
  <2>1. failures' \in 0..MaxFailures
    BY <1>5, CreationAssumption DEF Fail
  <2>2. QED
    BY <1>5, <2>1, <1>0 DEF Fail, Steps
<1>6. CASE UNCHANGED vars
  BY <1>6 DEF vars
<1>7. QED
  BY <1>1, <1>2, <1>3, <1>4, <1>5, <1>6 DEF Next, Proceed

\* Requests, their answers and the runs they make are well typed.
THEOREM TypeCorrect == Spec => []CreationTypeOK
<1>1. Init => CreationTypeOK
  BY CreationAssumption DEF Init, CreationTypeOK, Steps
<1>2. QED
  BY <1>1, TypeStep, PTL DEF Spec

-----------------------------------------------------------------------------
(* The unique index counts rows that are not committed yet: it is over both *)
(* together that a request id has one run.  Where a request is tells what   *)
(* it has done so far.                                                      *)

\* One run per id among what is committed or about to be; what each step has behind it.
CreationInv ==
    /\ \A a, b \in rows \cup inflight : ask[a].id = ask[b].id => a = b
    /\ queued \subseteq rows \cap opened
    /\ \A r \in Requests :
         /\ pc[r] = "commit" => r \in inflight
         /\ pc[r] \in {"pool", "open", "enqueue"} => r \in rows
         /\ pc[r] = "enqueue" => r \in opened
         /\ pc[r] = "answered" => found[r] \in rows /\ ask[found[r]] = ask[r]

\* A request that is answered from the table is answered with a run of its own.
LEMMA AnswerOwn ==
  ASSUME CreationTypeOK, CreationInv, NEW r \in Requests,
         NEW run \in WithIdOf(r, rows), Answer(r, run),
         UNCHANGED <<ask, inflight, rows, opened, queued>>
  PROVE  CreationInv'
<1>1. run \in rows /\ run \in Requests /\ ask[run].id = ask[r].id
  BY DEF WithIdOf, CreationTypeOK
<1>2. ask[run].user = ask[r].user => ask[run] = ask[r]
  BY <1>1 DEF CreationTypeOK
<1>3. QED
  BY <1>1, <1>2 DEF CreationTypeOK, CreationInv, Answer, Goto

\* Every step keeps the index unique and the progress of requests consistent.
LEMMA CreationStep ==
  ASSUME CreationTypeOK, CreationInv, [Next]_vars PROVE CreationInv'
<1> USE DEF CreationTypeOK
<1>1. ASSUME NEW r \in Requests, Lookup(r) \/ Relookup(r) PROVE CreationInv'
  <2>1. CASE \E run \in WithIdOf(r, rows) : Answer(r, run)
    BY <1>1, <2>1, AnswerOwn DEF Lookup, Relookup
  <2>2. CASE Lookup(r) /\ Goto(r, "insert") /\ UNCHANGED found
    BY <2>2 DEF Lookup, Goto, CreationInv
  <2>3. QED
    BY <1>1, <2>1, <2>2 DEF Lookup, Relookup
<1>2. ASSUME NEW r \in Requests, Insert(r) PROVE CreationInv'
  <2>1. CASE WithIdOf(r, rows) = {}
    <3>1. \A a \in rows \cup inflight : ask[a].id # ask[r].id
      BY <1>2, <2>1 DEF Insert, WithIdOf
    <3>2. rows' \cup inflight' = (rows \cup inflight) \cup {r} /\ UNCHANGED ask
      BY <1>2, <2>1 DEF Insert
    <3>3. \A a, b \in rows' \cup inflight' : ask'[a].id = ask'[b].id => a = b
      BY <3>1, <3>2 DEF CreationInv
    <3>4. QED
      BY <1>2, <2>1, <3>3 DEF Insert, Goto, CreationInv
  <2>2. CASE WithIdOf(r, rows) # {}
    BY <1>2, <2>2 DEF Insert, Goto, CreationInv
  <2>3. QED
    BY <2>1, <2>2
<1>3. ASSUME NEW r \in Requests, Commit(r) PROVE CreationInv'
  <2>1. rows' \cup inflight' = rows \cup inflight
    BY <1>3 DEF Commit, CreationInv
  <2>2. QED
    BY <1>3, <2>1 DEF Commit, Goto, CreationInv
<1>4. ASSUME NEW r \in Requests, GetPool(r) \/ OpenStream(r) \/ Enqueue(r)
      PROVE  CreationInv'
  BY <1>4 DEF GetPool, OpenStream, Enqueue, Goto, CreationInv
<1>5. ASSUME NEW r \in Requests, Fail(r) PROVE CreationInv'
  BY <1>5 DEF Fail, Goto, CreationInv
<1>6. CASE UNCHANGED vars
  BY <1>6 DEF vars, CreationInv
<1>7. QED
  BY <1>1, <1>2, <1>3, <1>4, <1>5, <1>6 DEF Next, Proceed

\* What a request has done at each step, and the unique index over both tables.
THEOREM CreationCorrect == Spec => []CreationInv
<1>1. Init => CreationInv
  BY DEF Init, CreationInv
<1>2. QED
  BY <1>1, TypeCorrect, CreationStep, PTL DEF Spec

\* However many requests with one id race, there is one committed run for it.
THEOREM OneRun == Spec => []OneRunPerRequestId
<1>1. CreationInv => OneRunPerRequestId
  BY DEF CreationInv, OneRunPerRequestId
<1>2. QED
  BY <1>1, CreationCorrect, PTL

\* No user is answered with the run of another, whoever else used the id.
THEOREM OwnRun == Spec => []AnsweredWithOwnRun
<1>1. CreationInv => AnsweredWithOwnRun
  BY DEF CreationInv, AnsweredWithOwnRun
<1>2. QED
  BY <1>1, CreationCorrect, PTL

\* A worker never takes a job before the row and the init event are there.
THEOREM QueuedReady == Spec => []QueuedRunIsReady
<1>1. CreationInv => QueuedRunIsReady
  BY DEF CreationInv, QueuedRunIsReady
<1>2. QED
  BY <1>1, CreationCorrect, PTL

-----------------------------------------------------------------------------
(* The endpoint implements the register: a run comes into being with the   *)
(* commit, and every look at the table finds what the register holds.      *)

RunMap == [id \in RequestIds |-> RunOf(id)]
ReplyMap == [r \in Requests |-> ReplyTo(r)]

\* The run of an id is the one row that has it.
LEMMA RunOfRow ==
  ASSUME CreationTypeOK, CreationInv
  PROVE  /\ \A r \in rows : RunOf(ask[r].id) = r
         /\ \A id \in RequestIds : (\A r \in rows : ask[r].id # id) => RunOf(id) = NoRun
         /\ \A r \in Requests : ask[r].id \in RequestIds /\ ask[r].user \in Users
<1>1. \A r \in rows : RunOf(ask[r].id) = r
  <2> SUFFICES ASSUME NEW r \in rows PROVE RunOf(ask[r].id) = r
    OBVIOUS
  <2>1. RunOf(ask[r].id) \in rows /\ ask[RunOf(ask[r].id)].id = ask[r].id
    BY DEF RunOf
  <2>2. QED BY <2>1 DEF CreationInv
<1>2. \A r \in Requests : ask[r].id \in RequestIds /\ ask[r].user \in Users
  BY DEF CreationTypeOK
<1>3. QED BY <1>1, <1>2 DEF RunOf

\* While the table and the questions stay, so does the register.
LEMMA SameRuns == UNCHANGED <<ask, rows>> => UNCHANGED RunMap
BY DEF RunMap, RunOf

\* A request that goes on without an answer has been told nothing new.
LEMMA SameReplies ==
  ASSUME CreationTypeOK, NEW r \in Requests, NEW step \in Steps,
         pc[r] \notin {"answered", "refused", "failed"},
         step \notin {"answered", "refused", "failed"},
         Goto(r, step), UNCHANGED found
  PROVE  UNCHANGED ReplyMap
<1>1. \A q \in Requests : ReplyTo(q)' = ReplyTo(q)
  BY DEF ReplyTo, Goto, CreationTypeOK
<1>2. QED BY <1>1 DEF ReplyMap

\* An answer changes what its request is told, and nothing else.
LEMMA NewReply ==
  ASSUME CreationTypeOK, NEW r \in Requests,
         NEW step \in {"answered", "refused", "failed"}, Goto(r, step),
         NEW made \in Requests \cup {NoRun},
         IF step = "answered" THEN found' = [found EXCEPT ![r] = made]
         ELSE UNCHANGED found /\ made = NoRun
  PROVE  ReplyMap' = [ReplyMap EXCEPT ![r] = [state |-> step, run |-> made]]
<1>1. ReplyTo(r)' = [state |-> step, run |-> made]
  BY DEF ReplyTo, Goto, CreationTypeOK
<1>2. \A q \in Requests \ {r} : ReplyTo(q)' = ReplyTo(q)
  BY DEF ReplyTo, Goto, CreationTypeOK
<1>3. QED BY <1>1, <1>2 DEF ReplyMap

\* A request with steps to go is waiting.
LEMMA StillWaiting ==
  ASSUME NEW r \in Requests, pc[r] \notin {"answered", "refused", "failed"}
  PROVE  ReplyMap[r] = [state |-> "waiting", run |-> NoRun]
BY DEF ReplyMap, ReplyTo

\* What the instance of the register says, in terms of the two functions.
LEMMA RegisterMap ==
  /\ Register!RegisterNext <=>
       \E r \in Requests :
         \/ Register!Create(r) \/ Register!Confirm(r) \/ Register!Refuse(r) \/ Register!Break(r)
  /\ \A r \in Requests :
       /\ Register!Create(r) <=>
            /\ ReplyMap[r] = [state |-> "waiting", run |-> NoRun] /\ RunMap[ask[r].id] = NoRun
            /\ RunMap' = [RunMap EXCEPT ![ask[r].id] = r]
            /\ UNCHANGED <<ask, ReplyMap, queued>>
       /\ Register!Confirm(r) <=>
            /\ ReplyMap[r] = [state |-> "waiting", run |-> NoRun] /\ RunMap[ask[r].id] # NoRun
            /\ ask[RunMap[ask[r].id]].user = ask[r].user
            /\ ReplyMap' = [ReplyMap EXCEPT ![r] = [state |-> "answered", run |-> RunMap[ask[r].id]]]
            /\ queued' = (IF RunMap[ask[r].id] = r THEN queued \cup {r} ELSE queued)
            /\ UNCHANGED <<ask, RunMap>>
       /\ Register!Refuse(r) <=>
            /\ ReplyMap[r] = [state |-> "waiting", run |-> NoRun] /\ RunMap[ask[r].id] # NoRun
            /\ ask[RunMap[ask[r].id]].user # ask[r].user
            /\ ReplyMap' = [ReplyMap EXCEPT ![r] = [state |-> "refused", run |-> NoRun]]
            /\ UNCHANGED <<ask, RunMap, queued>>
       /\ Register!Break(r) <=>
            /\ ReplyMap[r] = [state |-> "waiting", run |-> NoRun]
            /\ ReplyMap' = [ReplyMap EXCEPT ![r] = [state |-> "failed", run |-> NoRun]]
            /\ UNCHANGED <<ask, RunMap, queued>>
BY DEF Register!RegisterNext, Register!Create, Register!Confirm, Register!Refuse,
       Register!Break, Register!Waiting, Register!Told, RunMap, ReplyMap

\* A request has no row before it commits.
Unmade == \A r \in Requests :
            /\ pc[r] \in {"lookup", "insert", "commit", "relookup"} => r \notin rows
            /\ pc[r] \in {"lookup", "insert", "relookup"} => r \notin inflight

\* Only the commit of a request adds its row.
LEMMA UnmadeStep == ASSUME CreationTypeOK, Unmade, [Next]_vars PROVE Unmade'
<1> USE DEF CreationTypeOK
<1>1. ASSUME NEW r \in Requests, Lookup(r) \/ Relookup(r) PROVE Unmade'
  <2>1. UNCHANGED <<inflight, rows>> BY <1>1 DEF Lookup, Relookup
  <2>2. pc[r] \in {"lookup", "relookup"} BY <1>1 DEF Lookup, Relookup
  <2>3. pc' = [pc EXCEPT ![r] = pc'[r]]
    BY <1>1 DEF Lookup, Relookup, Answer, Goto
  <2>4. QED BY <2>1, <2>2, <2>3 DEF Unmade
<1>2. ASSUME NEW r \in Requests, Insert(r) PROVE Unmade'
  BY <1>2 DEF Insert, Goto, Unmade
<1>3. ASSUME NEW r \in Requests, Commit(r) PROVE Unmade'
  BY <1>3 DEF Commit, Goto, Unmade
<1>4. ASSUME NEW r \in Requests, GetPool(r) \/ OpenStream(r) \/ Enqueue(r) \/ Fail(r)
      PROVE  Unmade'
  BY <1>4 DEF GetPool, OpenStream, Enqueue, Fail, Goto, Unmade
<1>5. CASE UNCHANGED vars BY <1>5 DEF vars, Unmade
<1>6. QED BY <1>1, <1>2, <1>3, <1>4, <1>5 DEF Next, Proceed

\* A request answered from the table is told what the register holds.
LEMMA AnswerReads ==
  ASSUME CreationTypeOK, CreationInv, Unmade, NEW r \in Requests,
         pc[r] \in {"lookup", "relookup"}, NEW made \in WithIdOf(r, rows), Answer(r, made),
         UNCHANGED <<ask, rows, queued>>
  PROVE  Register!Confirm(r) \/ Register!Refuse(r)
<1>1. /\ made \in rows /\ made \in Requests /\ ask[made].id = ask[r].id /\ made # r
      /\ made # NoRun /\ RunMap[ask[r].id] = made
  BY RunOfRow, CreationAssumption DEF WithIdOf, Unmade, CreationTypeOK, RunMap
<1>2. UNCHANGED RunMap BY SameRuns
<1>3. ReplyMap[r] = [state |-> "waiting", run |-> NoRun] BY StillWaiting
<1>4. CASE ask[made].user = ask[r].user
  <2>1. Goto(r, "answered") /\ found' = [found EXCEPT ![r] = made] BY <1>4 DEF Answer
  <2>2. ReplyMap' = [ReplyMap EXCEPT ![r] = [state |-> "answered", run |-> made]]
    BY <1>1, <2>1, NewReply
  <2>3. QED BY <1>1, <1>2, <1>3, <1>4, <2>2, RegisterMap
<1>5. CASE ask[made].user # ask[r].user
  <2>1. Goto(r, "refused") /\ UNCHANGED found BY <1>5 DEF Answer
  <2>2. ReplyMap' = [ReplyMap EXCEPT ![r] = [state |-> "refused", run |-> NoRun]]
    BY <2>1, NewReply
  <2>3. QED BY <1>1, <1>2, <1>3, <1>5, <2>2, RegisterMap
<1>6. QED BY <1>4, <1>5

\* The commit of a row is where its run comes into being.
LEMMA CommitCreates ==
  ASSUME CreationTypeOK, CreationInv, Unmade, NEW r \in Requests, Commit(r)
  PROVE  Register!Create(r)
<1>1. /\ pc[r] = "commit" /\ Goto(r, "pool") /\ rows' = rows \cup {r}
      /\ UNCHANGED <<ask, found, queued>>
  BY DEF Commit
<1>2. r \in inflight /\ r \notin rows BY <1>1 DEF CreationInv, Unmade
<1>3. \A a \in rows : ask[a].id # ask[r].id BY <1>2 DEF CreationInv
<1>4. RunMap[ask[r].id] = NoRun BY <1>3, RunOfRow DEF RunMap
<1>5. RunMap' = [RunMap EXCEPT ![ask[r].id] = r]
  <2>1. RunOf(ask[r].id)' = r
    <3>1. \A a \in rows' : ask'[a].id = ask[r].id <=> a = r BY <1>1, <1>3
    <3>2. r \in rows' BY <1>1
    <3>3. QED BY <1>1, <3>1, <3>2 DEF RunOf
  <2>2. \A id \in RequestIds \ {ask[r].id} : RunOf(id)' = RunOf(id)
    <3> SUFFICES ASSUME NEW id \in RequestIds, id # ask[r].id PROVE RunOf(id)' = RunOf(id)
      OBVIOUS
    <3>1. \A a : (a \in rows' /\ ask'[a].id = id) <=> (a \in rows /\ ask[a].id = id)
      BY <1>1
    <3>2. CASE \E a \in rows : ask[a].id = id
      <4>1. PICK a \in rows : ask[a].id = id BY <3>2
      <4>2. RunOf(id) = a BY <4>1, RunOfRow
      <4>3. \E b \in rows' : ask'[b].id = id BY <3>1, <4>1
      <4>4. RunOf(id)' \in rows' /\ ask'[RunOf(id)'].id = id BY <4>3 DEF RunOf
      <4>5. RunOf(id)' \in rows /\ ask[RunOf(id)'].id = id BY <3>1, <4>4
      <4>6. QED BY <4>1, <4>2, <4>5 DEF CreationInv
    <3>3. CASE ~\E a \in rows : ask[a].id = id BY <3>1, <3>3 DEF RunOf
    <3>4. QED BY <3>2, <3>3
  <2>3. ask[r].id \in RequestIds BY RunOfRow
  <2>4. \A id \in RequestIds : RunOf(id)' = [RunMap EXCEPT ![ask[r].id] = r][id]
    BY <1>1, <2>1, <2>2, <2>3 DEF RunMap
  <2>5. QED BY <2>4 DEF RunMap
<1>6. UNCHANGED ReplyMap BY <1>1, SameReplies DEF Steps
<1>7. ReplyMap[r] = [state |-> "waiting", run |-> NoRun] BY <1>1, StillWaiting
<1>8. QED BY <1>1, <1>4, <1>5, <1>6, <1>7, RegisterMap

\* Every step of the endpoint is a step of the register or none.
LEMMA RegisterStep ==
  ASSUME CreationTypeOK, CreationInv, Unmade, [Next]_vars
  PROVE  Register!RegisterNext \/ UNCHANGED <<ask, RunMap, ReplyMap, queued>>
<1>1. ASSUME NEW r \in Requests, Lookup(r) \/ Relookup(r)
      PROVE  Register!RegisterNext \/ UNCHANGED <<ask, RunMap, ReplyMap, queued>>
  <2>1. pc[r] \in {"lookup", "relookup"} /\ UNCHANGED <<ask, rows, queued>>
    BY <1>1 DEF Lookup, Relookup
  <2>2. CASE \E made \in WithIdOf(r, rows) : Answer(r, made)
    BY <2>1, <2>2, AnswerReads, RegisterMap
  <2>3. CASE Goto(r, "insert") /\ UNCHANGED found
    BY <2>1, <2>3, SameRuns, SameReplies DEF Steps
  <2>4. QED BY <1>1, <2>2, <2>3 DEF Lookup, Relookup
<1>2. ASSUME NEW r \in Requests, Insert(r) \/ GetPool(r) \/ OpenStream(r)
      PROVE  UNCHANGED <<ask, RunMap, ReplyMap, queued>>
  <2>1. /\ pc[r] \in {"insert", "pool", "open"} /\ UNCHANGED <<ask, rows, queued, found>>
        /\ Goto(r, "commit") \/ Goto(r, "relookup") \/ Goto(r, "open") \/ Goto(r, "enqueue")
    BY <1>2 DEF Insert, GetPool, OpenStream
  <2>2. UNCHANGED ReplyMap BY <2>1, SameReplies DEF Steps
  <2>3. QED BY <2>1, <2>2, SameRuns
<1>3. ASSUME NEW r \in Requests, Enqueue(r) PROVE Register!Confirm(r)
  <2>1. /\ pc[r] = "enqueue" /\ Goto(r, "answered") /\ found' = [found EXCEPT ![r] = r]
        /\ queued' = queued \cup {r} /\ UNCHANGED <<ask, rows>>
    BY <1>3 DEF Enqueue
  <2>2. r \in rows /\ RunMap[ask[r].id] = r /\ r # NoRun
    BY <2>1, RunOfRow, CreationAssumption DEF CreationInv, RunMap
  <2>3. ReplyMap' = [ReplyMap EXCEPT ![r] = [state |-> "answered", run |-> r]]
    BY <2>1, NewReply
  <2>4. ReplyMap[r] = [state |-> "waiting", run |-> NoRun] BY <2>1, StillWaiting
  <2>5. QED BY <2>1, <2>2, <2>3, <2>4, SameRuns, RegisterMap
<1>4. ASSUME NEW r \in Requests, Fail(r) PROVE Register!Break(r)
  <2>1. /\ pc[r] \notin {"answered", "refused", "failed"} /\ Goto(r, "failed")
        /\ UNCHANGED <<ask, rows, queued, found>>
    BY <1>4 DEF Fail
  <2>2. ReplyMap' = [ReplyMap EXCEPT ![r] = [state |-> "failed", run |-> NoRun]]
    BY <2>1, NewReply
  <2>3. QED BY <2>1, <2>2, StillWaiting, SameRuns, RegisterMap
<1>5. CASE UNCHANGED vars
  BY <1>5 DEF vars, RunMap, RunOf, ReplyMap, ReplyTo
<1>6. QED
  BY <1>1, <1>2, <1>3, <1>4, <1>5, CommitCreates, RegisterMap DEF Next, Proceed

\* Callers cannot tell the endpoint from a register that is written once for each
\* request id and read at once: races between the look, the insert and the second
\* look do not show, and a job is handed over only by the request that made its run.
THEOREM Implements == Spec => ImplementsRegister
<1>1. Init => Register!RegisterInit
  <2> SUFFICES ASSUME Init PROVE Register!RegisterInit
    OBVIOUS
  <2>1. \A id \in RequestIds : RunOf(id) = NoRun BY DEF Init, RunOf
  <2>2. \A r \in Requests : ReplyTo(r) = [state |-> "waiting", run |-> NoRun]
    BY DEF Init, ReplyTo
  <2>3. QED BY <2>1, <2>2 DEF Init, Register!RegisterInit, Register!Waiting
<1>2. CreationTypeOK /\ CreationInv /\ Unmade /\ [Next]_vars
        => [Register!RegisterNext]_(Register!registerVars)
  BY RegisterStep DEF Register!registerVars, RunMap, ReplyMap
<1>3. Spec => []Unmade
  <2>1. Init => Unmade BY DEF Init, Unmade
  <2>2. QED BY <2>1, UnmadeStep, TypeCorrect, PTL DEF Spec
<1>4. QED
  BY <1>1, <1>2, <1>3, TypeCorrect, CreationCorrect, PTL
     DEF Spec, ImplementsRegister, Register!RegisterSpec
=============================================================================
