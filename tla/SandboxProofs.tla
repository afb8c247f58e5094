--------------------------- MODULE SandboxProofs ----------------------------
(* What holds of Sandbox for any number of processes, whatever the          *)
(* intervals and timeouts, addresses and failures.                          *)
EXTENDS Sandbox, TLAPS

-----------------------------------------------------------------------------
(* Types.                                                                  *)

\* The ages that may be unknown.
LEMMA Ages ==
  ASSUME NEW limit \in Nat
  PROVE  /\ Unknown \in Unknown..limit
         /\ 0..limit \subseteq Unknown..limit
         /\ \A age \in Unknown..limit : Older(age, limit) \in Unknown..limit
  BY DEF Unknown, Older

\* A request that is asked, or answered, is a request.
LEMMA CallTypes ==
  ASSUME SandboxTypeOK, NEW p \in Procs
  PROVE  /\ NoCall \in Calls
         /\ \A op \in {"none", "touch", "discover", "create"} :
              Ask(p, op) => call' \in [Procs -> Calls]
         /\ \A at \in {"asked", "making", "found", "marked", "missing", "lost"} :
              Answer(p, at) => call' \in [Procs -> Calls]
<1> USE SandboxAssumption DEF SandboxTypeOK
<1>1. NoCall \in Calls
  BY DEF NoCall, Calls
<1>2. \A op \in {"none", "touch", "discover", "create"} :
        [NoCall EXCEPT !.op = op] \in Calls
  BY DEF NoCall, Calls
<1>3. \A c \in Calls, at \in {"asked", "making", "found", "marked", "missing", "lost"} :
        [c EXCEPT !.at = at] \in Calls
  BY DEF Calls
<1>4. ASSUME NEW at \in {"asked", "making", "found", "marked", "missing", "lost"}, Answer(p, at)
      PROVE  call' \in [Procs -> Calls]
  <2>1. call' = [call EXCEPT ![p] = [call[p] EXCEPT !.at = at]]
    BY <1>4 DEF Answer
  <2>2. QED
    BY <1>3, <2>1
<1>5. ASSUME NEW op \in {"none", "touch", "discover", "create"}, Ask(p, op)
      PROVE  call' \in [Procs -> Calls]
  BY <1>2, <1>5 DEF Ask
<1>6. QED
  BY <1>1, <1>4, <1>5

\* Changing where a request is and which address it has found keeps it one.
LEMMA CallUpdate ==
  ASSUME NEW c \in Calls, NEW u \in 0..Ports,
         NEW at \in {"asked", "making", "found", "marked", "missing", "lost"}
  PROVE  [c EXCEPT !.at = at, !.url = u] \in Calls /\ [c EXCEPT !.at = at] \in Calls
  BY DEF Calls

\* The command that follows a request keeps the types of what it changes.
LEMMA UseTypes ==
  ASSUME SandboxTypeOK, NEW p \in Procs, NEW url, Use(p, url)
  PROVE  /\ call' \in [Procs -> Calls] /\ dead' \in [Procs -> BOOLEAN]
         /\ busy' \in [Procs -> Unknown..Exec]
<1> USE SandboxAssumption DEF SandboxTypeOK
<1>1. NoCall \in Calls
  BY CallTypes
<1>2. Exec \in Unknown..Exec
  BY DEF Unknown
<1>3. QED
  BY <1>1, <1>2 DEF Use

\* A failure that the bound admits keeps the count in range.
LEMMA FaultType == ASSUME SandboxTypeOK, Fault PROVE faults' \in 0..MaxFaults
  BY SandboxAssumption DEF SandboxTypeOK, Fault

\* Activity is a known age after a touch, and unknown after a removal.
LEMMA TableTypes ==
  ASSUME SandboxTypeOK, Touch \/ Forget \/ UNCHANGED tableVars
  PROVE  activity' \in Unknown..Idle /\ lapsed' \in BOOLEAN /\ lost' \in BOOLEAN
<1> USE SandboxAssumption DEF SandboxTypeOK, tableVars
<1>1. CASE Touch
  <2>1. activity' \in Unknown..Idle
    BY <1>1 DEF Touch, Unknown
  <2>2. lapsed' \in BOOLEAN /\ lost' \in BOOLEAN
    BY <1>1, Zenon DEF Touch
  <2>3. QED
    BY <2>1, <2>2
<1>2. CASE Forget
  <2>1. lost' \in BOOLEAN
    BY <1>2, Zenon DEF Forget
  <2>2. QED
    BY <1>2, <2>1, Ages DEF Forget
<1>3. QED
  BY <1>1, <1>2

\* What a process does with the answers to its requests.
LEMMA ProviderTypes ==
  ASSUME SandboxTypeOK, NEW p \in Procs, Begin(p) \/ Proceed(p) \/ EndCommand(p)
  PROVE  SandboxTypeOK'
<1> USE SandboxAssumption DEF SandboxTypeOK, boxVars, tableVars, provVars
<1>0. Unknown \in Unknown..Exec
  BY DEF Unknown
<1>1. CASE Begin(p)
  <2>1. CASE conn[p] = 0
    BY <1>1, <2>1, CallTypes DEF Begin
  <2>2. CASE conn[p] # 0 /\ Fresh(p)
    BY <1>1, <2>2, UseTypes DEF Begin
  <2>3. CASE conn[p] # 0 /\ ~Fresh(p)
    BY <1>1, <2>3, CallTypes DEF Begin
  <2>4. QED
    BY <2>1, <2>2, <2>3
<1>2. CASE TouchAnswered(p)
  BY <1>2, UseTypes DEF TouchAnswered
<1>3. CASE TouchMissing(p)
  <2>1. lapsed' \in BOOLEAN BY <1>3, Zenon DEF TouchMissing
  <2>2. QED BY <1>3, <2>1, UseTypes DEF TouchMissing
<1>4. CASE Discovered(p)
  <2>1. call[p].url \in 0..Ports
    BY DEF Calls
  <2>2. QED
    BY <1>4, <2>1, UseTypes DEF Discovered
<1>5. CASE DiscoverMissing(p)
  BY <1>5, CallTypes DEF DiscoverMissing
<1>6. CASE Raise(p)
  <2>1. CASE call[p].op = "touch"
    BY <1>6, <2>1, UseTypes DEF Raise
  <2>2. CASE call[p].op # "touch"
    BY <1>6, <2>2, CallTypes DEF Raise
  <2>3. QED
    BY <2>1, <2>2
<1>7. CASE GiveUp(p)
  <2>1. maker' \in {Free, Nobody} \cup {For(q) : q \in Procs}
    BY <1>7 DEF GiveUp, Disown
  <2>2. QED
    BY <1>7, <2>1, CallTypes DEF GiveUp
<1>8. CASE EndCommand(p)
  BY <1>0, <1>8 DEF EndCommand
<1>9. QED
  BY <1>1, <1>2, <1>3, <1>4, <1>5, <1>6, <1>7, <1>8 DEF Proceed

\* What the provisioner does with requests.
LEMMA HandlerTypes ==
  ASSUME SandboxTypeOK, (\E p \in Procs : Handle(p)) \/ Start
  PROVE  SandboxTypeOK'
<1> USE SandboxAssumption DEF SandboxTypeOK, boxVars, tableVars, provVars
<1>1. CASE \E p \in Procs : FindBox(p)
  <2>1. PICK p \in Procs : FindBox(p)
    BY <1>1
  <2>2. call' \in [Procs -> Calls]
    <3>1. CASE Answer(p, "missing") BY <3>1, CallTypes
    <3>2. CASE ~Answer(p, "missing")
      <4> DEFINE u == IF call[p].op = "discover" THEN box ELSE 0
      <4>1. call' = [call EXCEPT ![p] = [call[p] EXCEPT !.at = "found", !.url = u]]
        BY <2>1, <3>2 DEF FindBox
      <4>2. u \in 0..Ports OBVIOUS
      <4> HIDE DEF u
      <4>3. QED BY <4>1, <4>2, CallUpdate
    <3>3. QED BY <3>1, <3>2
  <2>3. faults' \in 0..MaxFaults BY <2>1, FaultType DEF FindBox
  <2>4. QED
    BY <2>1, <2>2, <2>3 DEF FindBox
<1>2. CASE \E p \in Procs : TakeOver(p)
  <2>1. PICK p \in Procs : TakeOver(p)
    BY <1>2
  <2>2. call' \in [Procs -> Calls]
    BY <2>1, CallUpdate DEF TakeOver
  <2>3. QED
    BY <2>1, <2>2 DEF TakeOver
<1>3. CASE \E p \in Procs : StartBox(p)
  <2>1. PICK p \in Procs : StartBox(p)
    BY <1>3
  <2>2. call' \in [Procs -> Calls]
    BY <2>1, CallTypes DEF StartBox
  <2>3. box' \in 0..Ports /\ maker' \in {Free, Nobody} \cup {For(q) : q \in Procs}
    BY <2>1 DEF StartBox
  <2>4. faults' \in 0..MaxFaults /\ busy' \in [Procs -> Unknown..Exec]
    BY <2>1, FaultType, Ages DEF StartBox
  <2>5. ready' \in BOOLEAN BY <2>1, Zenon DEF StartBox
  <2>6. QED
    BY <2>1, <2>2, <2>3, <2>4, <2>5 DEF StartBox
<1>4. CASE \E p \in Procs : Mark(p)
  <2>1. PICK p \in Procs : Mark(p)
    BY <1>4
  <2>2. QED
    BY <2>1, CallTypes, TableTypes DEF Mark
<1>5. CASE BoxReady
  <2>1. activity' \in Unknown..Idle /\ lapsed' \in BOOLEAN /\ lost' \in BOOLEAN
    BY <1>5, TableTypes DEF BoxReady
  <2>2. call' \in [Procs -> Calls]
    <3>1. CASE maker = Nobody
      BY <1>5, <3>1 DEF BoxReady
    <3>2. CASE maker # Nobody
      <4>1. PICK p \in Procs : maker = For(p)
        BY <1>5, <3>2 DEF BoxReady
      <4>2. call' = [call EXCEPT ![p] = [call[p] EXCEPT !.at = "found", !.url = box]]
        BY <1>5, <3>2, <4>1 DEF BoxReady, For
      <4>3. QED
        BY <4>2, CallUpdate
    <3>3. QED
      BY <3>1, <3>2
  <2>3. QED
    BY <1>5, <2>1, <2>2 DEF BoxReady
<1>6. CASE BoxFails
  <2>1. call' \in [Procs -> Calls]
    BY <1>6, CallUpdate DEF BoxFails
  <2>2. faults' \in 0..MaxFaults
    BY <1>6, FaultType DEF BoxFails
  <2>3. QED
    BY <1>6, <2>1, <2>2 DEF BoxFails
<1>7. QED
  BY <1>1, <1>2, <1>3, <1>4, <1>5, <1>6 DEF Handle, Start

\* What removes sandboxes.
LEMMA RemovalTypes ==
  ASSUME SandboxTypeOK, Sweep \/ \E p \in Procs : Close(p)
  PROVE  SandboxTypeOK'
<1> USE SandboxAssumption DEF SandboxTypeOK, boxVars, tableVars, provVars
<1>0. ASSUME Destroy
      PROVE  box' \in 0..Ports /\ ready' \in BOOLEAN /\ busy' \in [Procs -> Unknown..Exec]
  <2>1. ready' \in BOOLEAN
    BY <1>0, Zenon DEF Destroy
  <2>2. Unknown \in Unknown..Exec
    BY Ages
  <2>3. QED
    BY <1>0, <2>1, <2>2 DEF Destroy
<1>1. CASE Collect \/ ReapFails
  BY <1>1, FaultType DEF Collect, ReapFails
<1>2. CASE Reap
  BY <1>0, <1>2 DEF Reap
<1>3. CASE ReaperForgets
  BY <1>3, TableTypes DEF ReaperForgets
<1>4. ASSUME NEW p \in Procs, Close(p) PROVE SandboxTypeOK'
  <2>1. CASE CloseBox(p)
    BY <1>0, <2>1 DEF CloseBox
  <2>2. CASE CloseFails(p)
    BY <2>2 DEF CloseFails
  <2>3. CASE CloseEntry(p)
    BY <2>3, TableTypes DEF CloseEntry
  <2>4. QED
    BY <1>4, <2>1, <2>2, <2>3 DEF Close
<1>5. QED
  BY <1>1, <1>2, <1>3, <1>4 DEF Sweep

\* Failures, restarts, ends of processes and time.
LEMMA WorldTypes ==
  ASSUME SandboxTypeOK,
         RestartProvisioner \/ Tick \/ \E p \in Procs : LoseRequest(p) \/ Shutdown(p)
  PROVE  SandboxTypeOK'
<1> USE SandboxAssumption DEF SandboxTypeOK, boxVars, tableVars, provVars
<1>1. CASE \E p \in Procs : LoseRequest(p)
  <2>1. PICK p \in Procs : LoseRequest(p)
    BY <1>1
  <2>2. maker' \in {Free, Nobody} \cup {For(q) : q \in Procs}
    BY <2>1 DEF LoseRequest, Disown
  <2>3. activity' \in Unknown..Idle /\ lapsed' \in BOOLEAN /\ lost' \in BOOLEAN
    BY <2>1, TableTypes DEF LoseRequest, Finish
  <2>4. QED
    BY <2>1, <2>2, <2>3, CallTypes, FaultType DEF LoseRequest
<1>2. CASE \E p \in Procs : Shutdown(p)
  <2>1. PICK p \in Procs : Shutdown(p)
    BY <1>2
  <2>2. maker' \in {Free, Nobody} \cup {For(q) : q \in Procs}
    BY <2>1 DEF Shutdown, Disown
  <2>3. activity' \in Unknown..Idle /\ lapsed' \in BOOLEAN /\ lost' \in BOOLEAN
    BY <2>1, TableTypes DEF Shutdown, Finish
  <2>4. busy' \in [Procs -> Unknown..Exec]
    BY <2>1 DEF Shutdown, Unknown
  <2>5. call' \in [Procs -> Calls]
    BY <2>1, CallTypes DEF Shutdown
  <2>6. QED
    BY <2>1, <2>2, <2>3, <2>4, <2>5, FaultType DEF Shutdown
<1>3. CASE RestartProvisioner
  <2>1. activity' \in Unknown..Idle /\ lapsed' \in BOOLEAN /\ lost' \in BOOLEAN
    BY <1>3, TableTypes DEF RestartProvisioner, Unknown
  <2>2. call' \in [Procs -> Calls]
    BY <1>3, CallUpdate, CallTypes DEF RestartProvisioner
  <2>3. QED
    BY <1>3, <2>1, <2>2, FaultType DEF RestartProvisioner
<1>4. CASE Tick
  <2>1. activity' \in Unknown..Idle
    BY <1>4, Ages DEF Tick
  <2>2. touched' \in [Procs -> 0..KeepAlive]
    <3>1. \A age \in 0..KeepAlive : Older(age, KeepAlive) \in 0..KeepAlive
      BY DEF Older, Unknown
    <3>2. QED
      BY <1>4, <3>1 DEF Tick
  <2>3. busy' \in [Procs -> Unknown..Exec]
    BY <1>4 DEF Tick, Unknown
  <2>4. \A p \in Procs : call[p].op # "none" => [call[p] EXCEPT !.age = @ + 1] \in Calls
    BY <1>4 DEF Tick, Calls
  <2>5. call' \in [Procs -> Calls]
    BY <1>4, <2>4, CallTypes DEF Tick
  <2>6. QED
    BY <1>4, <2>1, <2>2, <2>3, <2>5 DEF Tick
<1>5. QED
  BY <1>1, <1>2, <1>3, <1>4

\* Every step keeps the types.
LEMMA TypeStep == SandboxTypeOK /\ [Next]_vars => SandboxTypeOK'
<1> SUFFICES ASSUME SandboxTypeOK, [Next]_vars PROVE SandboxTypeOK'
  OBVIOUS
<1>1. CASE UNCHANGED vars
  BY <1>1 DEF SandboxTypeOK, vars, boxVars, tableVars, provVars
<1>2. CASE Next
  BY <1>2, ProviderTypes, HandlerTypes, RemovalTypes, WorldTypes DEF Next
<1>3. QED
  BY <1>1, <1>2

\* Every state of the processes, of the provisioner and of the clocks is well typed.
THEOREM TypeCorrect == Spec => []SandboxTypeOK
<1>1. Init => SandboxTypeOK
  <2>1. NoCall \in Calls
    BY SandboxAssumption DEF NoCall, Calls
  <2>2. QED
    <3> SUFFICES ASSUME Init PROVE SandboxTypeOK
      OBVIOUS
    <3>1. /\ Unknown \in Unknown..Idle /\ Unknown \in Unknown..Exec
          /\ 0 \in 0..Ports /\ 0 \in 0..KeepAlive /\ 0 \in 0..MaxFaults
      BY SandboxAssumption, Ages
    <3>2. ready \in BOOLEAN /\ lapsed \in BOOLEAN /\ lost \in BOOLEAN
      BY Zenon DEF Init
    <3>3. QED
      BY <2>1, <3>1, <3>2 DEF Init, SandboxTypeOK
<1>2. QED
  BY <1>1, TypeStep, PTL DEF Spec

-----------------------------------------------------------------------------
(* Addresses.  A process holds the address of a container only after it has *)
(* answered its health check once, and no container is started at an        *)
(* address that is held.                                                    *)

\* Whoever remembers the address of the container knows one that has started, and
\* whoever asks for a touch remembers an address.
AddressInv ==
    /\ box = 0 => ~ready
    /\ \A p \in Procs :
         /\ conn[p] # 0 /\ conn[p] = box => ready
         /\ call[p].url # 0 /\ call[p].url = box => ready
         /\ call[p].op = "touch" => conn[p] # 0

\* The removal of the container, whoever asks for it.
LEMMA AddressRemoval ==
  ASSUME AddressInv, Destroy, UNCHANGED <<conn, call>> PROVE AddressInv'
  BY DEF AddressInv, Destroy

\* A step of one process that changes its own connection and request only.
LEMMA AddressOwn ==
  ASSUME SandboxTypeOK, AddressInv, NEW p \in Procs, UNCHANGED <<box, ready>>,
         NEW c, NEW u,
         conn' = [conn EXCEPT ![p] = c], call' = [call EXCEPT ![p] = u],
         c # 0 /\ c = box => ready,
         u.url # 0 /\ u.url = box => ready,
         u.op = "touch" => c # 0
  PROVE  AddressInv'
  BY DEF SandboxTypeOK, AddressInv

\* A request ends, and the command goes to the address that is kept, or to none.
LEMMA AddressUse ==
  ASSUME SandboxTypeOK, AddressInv, NEW p \in Procs, UNCHANGED <<box, ready>>,
         NEW url, NEW c, Use(p, url), conn' = [conn EXCEPT ![p] = c],
         c # 0 /\ c = box => ready
  PROVE  AddressInv'
  BY AddressOwn DEF Use, NoCall

\* Every step keeps the addresses of processes up to date or harmless.
LEMMA AddressStep ==
  ASSUME SandboxTypeOK, AddressInv, [Next]_vars PROVE AddressInv'
<1> USE DEF SandboxTypeOK
<1>0. ASSUME UNCHANGED <<box, ready, conn>>, NEW p \in Procs, NEW u,
             call' = [call EXCEPT ![p] = u],
             u.url # 0 /\ u.url = box => ready,
             u.op = "touch" => conn[p] # 0
      PROVE  AddressInv'
  BY <1>0 DEF AddressInv
<1>1. ASSUME NEW p \in Procs, Begin(p) PROVE AddressInv'
  <2>1. CASE conn[p] = 0
    BY <1>0, <1>1, <2>1 DEF Begin, Ask, NoCall, boxVars
  <2>2. CASE conn[p] # 0 /\ Fresh(p)
    BY <1>0, <1>1, <2>2 DEF Begin, Use, NoCall, boxVars
  <2>3. CASE conn[p] # 0 /\ ~Fresh(p)
    BY <1>0, <1>1, <2>3 DEF Begin, Ask, NoCall, boxVars
  <2>4. QED
    BY <2>1, <2>2, <2>3
<1>2. ASSUME NEW p \in Procs, Proceed(p) PROVE AddressInv'
  <2>1. CASE TouchAnswered(p)
    BY <1>0, <2>1 DEF TouchAnswered, Use, NoCall, boxVars
  <2>2. CASE TouchMissing(p)
    BY <2>2, AddressUse DEF TouchMissing, boxVars
  <2>3. CASE Discovered(p)
    <3>1. call[p].url # 0 /\ call[p].url = box => ready
      BY DEF AddressInv
    <3>2. QED
      BY <2>3, <3>1, AddressUse DEF Discovered, boxVars
  <2>4. CASE DiscoverMissing(p)
    BY <1>0, <2>4 DEF DiscoverMissing, Ask, NoCall, boxVars, provVars
  <2>5. CASE Raise(p)
    BY <1>0, <2>5 DEF Raise, Use, NoCall, boxVars
  <2>6. CASE GiveUp(p)
    <3>1. call' = [call EXCEPT ![p] = [call[p] EXCEPT !.at = "lost"]]
      BY <2>6 DEF GiveUp, Answer
    <3>2. QED
      BY <2>6, <3>1 DEF GiveUp, AddressInv, provVars, Calls
  <2>7. QED
    BY <1>2, <2>1, <2>2, <2>3, <2>4, <2>5, <2>6 DEF Proceed
<1>3. ASSUME NEW p \in Procs, Handle(p) PROVE AddressInv'
  <2>1. CASE FindBox(p)
    <3>1. /\ \A q \in Procs \ {p} : call'[q] = call[q]
          /\ call'[p].op = call[p].op
          /\ \/ call'[p].url = call[p].url
             \/ ready /\ call'[p].url \in {0, box}
      BY <2>1 DEF FindBox, Answer, Calls
    <3>2. UNCHANGED <<box, ready, conn>> BY <2>1 DEF FindBox, boxVars, provVars
    <3>3. QED BY <3>1, <3>2 DEF AddressInv
  <2>2. CASE TakeOver(p)
    BY <2>2 DEF TakeOver, AddressInv, boxVars, provVars, Calls
  <2>3. CASE StartBox(p)
    <3>1. /\ \A q \in Procs : conn[q] # box' /\ call[q].url # box'
          /\ box' # 0 /\ conn' = conn /\ ~ready'
      BY <2>3 DEF StartBox, NewPort, Held, provVars
    <3>2. \A q \in Procs : call'[q].url = call[q].url /\ call'[q].op = call[q].op
      BY <2>3 DEF StartBox, Answer, Calls
    <3>3. QED
      BY <3>1, <3>2 DEF AddressInv
  <2>4. CASE Mark(p)
    BY <2>4 DEF Mark, Answer, AddressInv, boxVars, provVars, Calls
  <2>5. QED
    BY <1>3, <2>1, <2>2, <2>3, <2>4 DEF Handle
<1>4. CASE BoxReady
  <2>1. ready' /\ UNCHANGED <<box, conn>> /\ box # 0
    BY <1>4 DEF BoxReady, provVars
  <2>2. \A q \in Procs : call'[q].op = call[q].op
    BY <1>4 DEF BoxReady, Calls
  <2>3. QED
    BY <2>1, <2>2 DEF AddressInv
<1>5. CASE BoxFails
  BY <1>5 DEF BoxFails, AddressInv, provVars, Calls
<1>6. CASE Sweep
  <2>1. CASE Reap
    BY <2>1, AddressRemoval DEF Reap, provVars
  <2>2. CASE Collect \/ ReapFails \/ ReaperForgets
    BY <2>2 DEF Collect, ReapFails, ReaperForgets, AddressInv, boxVars, provVars
  <2>3. QED
    BY <1>6, <2>1, <2>2 DEF Sweep
<1>7. ASSUME NEW p \in Procs, Close(p) PROVE AddressInv'
  <2>1. CASE CloseBox(p)
    BY <2>1, AddressRemoval DEF CloseBox, provVars
  <2>2. CASE CloseFails(p) \/ CloseEntry(p)
    BY <2>2 DEF CloseFails, CloseEntry, AddressInv, boxVars, provVars
  <2>3. QED
    BY <1>7, <2>1, <2>2 DEF Close
<1>8. ASSUME NEW p \in Procs, EndCommand(p) \/ LoseRequest(p) \/ Shutdown(p)
      PROVE  AddressInv'
  <2>1. CASE EndCommand(p)
    BY <2>1 DEF EndCommand, AddressInv, boxVars, provVars
  <2>2. CASE LoseRequest(p)
    BY <2>2 DEF LoseRequest, Answer, AddressInv, provVars, Calls
  <2>3. CASE Shutdown(p)
    BY <2>3, AddressOwn DEF Shutdown, NoCall
  <2>4. QED
    BY <1>8, <2>1, <2>2, <2>3
<1>9. CASE RestartProvisioner \/ Tick
  BY <1>9 DEF RestartProvisioner, Tick, NoCall, AddressInv, boxVars, provVars, Calls
<1>10. CASE UNCHANGED vars
  BY <1>10 DEF vars, AddressInv, boxVars, provVars
<1>11. QED
  BY <1>1, <1>2, <1>3, <1>4, <1>5, <1>6, <1>7, <1>8, <1>9, <1>10 DEF Next, Start

\* The addresses that processes remember, or are being given, are those of the
\* container that has answered its health check since it was started, or of none:
\* never of one that is still starting.  (It may miss later health checks.)
THEOREM AddressCorrect == Spec => []AddressInv
<1>1. Init => AddressInv
  BY DEF Init, AddressInv, NoCall
<1>2. QED
  BY <1>1, TypeCorrect, AddressStep, PTL DEF Spec

-----------------------------------------------------------------------------
(* The reaper and the sandboxes that are held.                             *)

\* HeldIsKnown with the answers that are about to become a connection, and for
\* containers that are not ready as well.
KnownInv ==
    box # 0 /\ (\E p \in Procs : conn[p] = box \/ (call[p].at = "marked" /\ call[p].url = box))
        => activity # Unknown \/ lost

\* Whatever has just been touched or forgotten is known or lost.
LEMMA KnownTable == ASSUME Touch \/ (Forget /\ UNCHANGED box) PROVE KnownInv'
<1>1. CASE Touch
  BY <1>1 DEF Touch, KnownInv, Unknown
<1>2. CASE Forget /\ UNCHANGED box
  <2>1. box' # 0 => lost'
    BY <1>2, Zenon DEF Forget
  <2>2. QED
    BY <2>1 DEF KnownInv
<1>3. QED
  BY <1>1, <1>2

\* A step that neither adds a holder nor removes an entry.
LEMMA KnownKept ==
  ASSUME KnownInv, UNCHANGED <<activity, lost>>, box' \in {0, box},
         \A p \in Procs : /\ conn'[p] \in {0, conn[p]}
                          /\ call'[p].at = "marked" => call'[p].at = call[p].at /\ call'[p].url = call[p].url
  PROVE  KnownInv'
  BY DEF KnownInv

\* Every step leaves the reaper with an entry for a sandbox that is held, or marks it as lost.
LEMMA KnownStep ==
  ASSUME SandboxTypeOK, AddressInv, KnownInv, [Next]_vars PROVE KnownInv'
<1> USE DEF SandboxTypeOK, boxVars, tableVars, provVars
<1>1. ASSUME NEW p \in Procs, Begin(p) \/ EndCommand(p) PROVE KnownInv'
  BY <1>1, KnownKept DEF Begin, EndCommand, Ask, Use, NoCall
<1>2. ASSUME NEW p \in Procs, Proceed(p) PROVE KnownInv'
  <2>1. CASE TouchAnswered(p) \/ TouchMissing(p) \/ DiscoverMissing(p) \/ Raise(p)
    BY <2>1, KnownKept DEF TouchAnswered, TouchMissing, DiscoverMissing, Raise, Ask, Use, NoCall
  <2>2. CASE Discovered(p)
    BY <2>2 DEF Discovered, Use, NoCall, KnownInv
  <2>3. CASE GiveUp(p)
    BY <2>3, KnownKept DEF GiveUp, Answer, Calls
  <2>4. QED
    BY <1>2, <2>1, <2>2, <2>3 DEF Proceed
<1>3. ASSUME NEW p \in Procs, Handle(p) PROVE KnownInv'
  <2>1. CASE FindBox(p) \/ TakeOver(p)
    <3>1. \A q \in Procs : q # p => call'[q] = call[q]
      BY <2>1 DEF FindBox, TakeOver, Answer
    <3>2. call'[p].at # "marked"
      BY <2>1 DEF FindBox, TakeOver, Answer, Calls
    <3>3. QED
      BY <2>1, <3>1, <3>2, KnownKept DEF FindBox, TakeOver
  <2>2. CASE StartBox(p)
    <3>1. \A q \in Procs : conn[q] # box' /\ call[q].url # box'
      BY <2>2 DEF StartBox, NewPort, Held
    <3>2. \A q \in Procs : call'[q].url = call[q].url
      BY <2>2 DEF StartBox, Answer, Calls
    <3>3. QED
      BY <2>2, <3>1, <3>2 DEF StartBox, KnownInv
  <2>3. CASE Mark(p)
    BY <2>3, KnownTable DEF Mark
  <2>4. QED
    BY <1>3, <2>1, <2>2, <2>3 DEF Handle
<1>4. CASE Start
  <2>1. CASE BoxReady /\ maker = Nobody
    BY <2>1, KnownTable DEF BoxReady
  <2>2. CASE BoxReady /\ maker # Nobody
    BY <2>2, KnownKept DEF BoxReady, Calls
  <2>3. CASE BoxFails
    BY <2>3, KnownKept DEF BoxFails, Calls
  <2>4. QED
    BY <1>4, <2>1, <2>2, <2>3 DEF Start
<1>5. CASE Sweep
  <2>1. CASE Collect \/ Reap \/ ReapFails
    BY <2>1, KnownKept DEF Collect, Reap, ReapFails, Destroy
  <2>2. CASE ReaperForgets
    BY <2>2, KnownTable DEF ReaperForgets
  <2>3. QED
    BY <1>5, <2>1, <2>2 DEF Sweep
<1>6. ASSUME NEW p \in Procs, Close(p) PROVE KnownInv'
  <2>1. CASE CloseBox(p) \/ CloseFails(p)
    BY <2>1, KnownKept DEF CloseBox, CloseFails, Destroy
  <2>2. CASE CloseEntry(p)
    BY <2>2, KnownTable DEF CloseEntry
  <2>3. QED
    BY <1>6, <2>1, <2>2 DEF Close
<1>7. ASSUME NEW p \in Procs, LoseRequest(p) \/ Shutdown(p) PROVE KnownInv'
  <2>1. CASE call[p].at = "found"
    BY <1>7, <2>1, KnownTable DEF LoseRequest, Shutdown, Finish
  <2>2. CASE call[p].at # "found"
    BY <1>7, <2>2, KnownKept DEF LoseRequest, Shutdown, Finish, Answer, NoCall, Calls
  <2>3. QED
    BY <2>1, <2>2
<1>8. CASE RestartProvisioner
  <2>1. CASE Forget
    BY <1>8, <2>1, KnownTable DEF RestartProvisioner
  <2>2. CASE activity' = IF box = 0 THEN Unknown ELSE 0
    BY <1>8, <2>2 DEF RestartProvisioner, KnownInv, Unknown
  <2>3. QED
    BY <1>8, <2>1, <2>2 DEF RestartProvisioner
<1>9. CASE Tick
  <2>1. activity # Unknown => activity' # Unknown
    BY <1>9, SandboxAssumption DEF Tick, Older, Unknown
  <2>2. \A q \in Procs : call'[q].at = "marked" => call[q].at = "marked" /\ call'[q].url = call[q].url
    BY <1>9 DEF Tick, NoCall, Calls
  <2>3. QED
    BY <1>9, <2>1, <2>2 DEF Tick, KnownInv
<1>10. CASE UNCHANGED vars
  BY <1>10 DEF vars, KnownInv
<1>11. QED
  BY <1>1, <1>2, <1>3, <1>4, <1>5, <1>6, <1>7, <1>8, <1>9, <1>10 DEF Next

\* The reaper knows every sandbox that a process holds, unless its entry was lost.
THEOREM HeldKnown == Spec => []HeldIsKnown
<1>1. Init => KnownInv
  BY DEF Init, KnownInv
<1>2. AddressInv /\ KnownInv => HeldIsKnown
  BY DEF AddressInv, KnownInv, HeldIsKnown
<1>3. QED
  BY <1>1, <1>2, TypeCorrect, AddressCorrect, KnownStep, PTL DEF Spec

-----------------------------------------------------------------------------
(* The reaper and the commands.  The activity may be as old as the touch    *)
(* that is not repeated yet, the time its answer took and the command; what *)
(* a running command has left is always below that.                         *)

\* Unless a touch has failed or missed a living sandbox: what was marked is no older than its request, what was
\* touched no older than the touch and its answer, and a command that is running ends
\* before the activity is as old as all three together.
MarginInv ==
    ~lapsed => \A p \in Procs :
        /\ call[p].at = "marked" => activity <= call[p].age
        /\ conn[p] # 0 /\ touched[p] < KeepAlive => activity <= touched[p] + Latency
        /\ busy[p] # Unknown => activity + busy[p] < KeepAlive + Latency + Exec

\* The ages are numbers within their limits.
LEMMA Numbers ==
  ASSUME SandboxTypeOK
  PROVE  /\ activity \in Int /\ activity <= Idle
         /\ \A p \in Procs : /\ call[p].age \in Nat /\ call[p].age <= Latency
                             /\ touched[p] \in Nat
                             /\ busy[p] \in Int /\ busy[p] <= Exec
         /\ KeepAlive \in Nat /\ Latency \in Nat /\ Exec \in Nat /\ KeepAlive > 0
  BY SandboxAssumption DEF SandboxTypeOK, Calls, Unknown

\* A sandbox that has just been touched has all the time.
LEMMA MarginTouch == ASSUME SandboxTypeOK', Touch PROVE MarginInv'
<1>1. /\ activity' = 0
      /\ \A p \in Procs : /\ call'[p].age \in Nat /\ touched'[p] \in Nat
                          /\ busy'[p] \in Int /\ busy'[p] <= Exec
  BY SandboxAssumption DEF SandboxTypeOK, Touch, Calls, Unknown
<1>2. QED
  BY <1>1, SandboxAssumption DEF MarginInv

\* A step in which nothing gets older and nothing is started.
LEMMA MarginKept ==
  ASSUME SandboxTypeOK, MarginInv, lapsed' = lapsed, activity' \in {activity, Unknown},
         \A p \in Procs : /\ \/ conn'[p] = 0
                             \/ conn'[p] = conn[p] /\ touched'[p] = touched[p]
                          /\ busy'[p] \in {busy[p], Unknown}
                          /\ call'[p].at = "marked" =>
                               call[p].at = "marked" /\ call'[p].age = call[p].age
  PROVE  MarginInv'
<1>1. activity' \in Int /\ (activity' <= activity)
  BY SandboxAssumption DEF SandboxTypeOK, Unknown
<1>2. QED
  BY <1>1, Numbers DEF MarginInv

\* A command is started in a sandbox that was active not long ago.
LEMMA MarginUse ==
  ASSUME SandboxTypeOK, MarginInv, NEW p \in Procs, NEW url, Use(p, url),
         UNCHANGED activity, lapsed' = lapsed,
         ~lapsed /\ url = box => activity < KeepAlive + Latency,
         ~lapsed /\ conn'[p] # 0 /\ touched'[p] < KeepAlive
             => activity <= touched'[p] + Latency,
         \A q \in Procs \ {p} : conn'[q] = conn[q] /\ touched'[q] = touched[q]
  PROVE  MarginInv'
<1>1. /\ call'[p].at # "marked"
      /\ busy'[p] # Unknown => busy'[p] = busy[p] \/ (url = box /\ busy'[p] = Exec)
      /\ \A q \in Procs \ {p} : call'[q] = call[q] /\ busy'[q] = busy[q]
  BY DEF Use, NoCall, SandboxTypeOK
<1>2. QED
  BY <1>1, Numbers DEF MarginInv

\* What a process does with its answers leaves a command the time it needs.
LEMMA MarginProvider ==
  ASSUME SandboxTypeOK, AddressInv, MarginInv, NEW p \in Procs, Begin(p) \/ Proceed(p)
  PROVE  MarginInv'
<1> USE DEF SandboxTypeOK, boxVars, tableVars, provVars
<1>1. CASE Begin(p) /\ (conn[p] = 0 \/ ~Fresh(p))
  BY <1>1, MarginKept DEF Begin, Ask, NoCall
<1>2. CASE Begin(p) /\ conn[p] # 0 /\ Fresh(p)
  <2>1. ~lapsed => activity <= touched[p] + Latency /\ touched[p] < KeepAlive
    BY <1>2 DEF MarginInv, Fresh
  <2>2. QED
    BY <1>2, <2>1, Numbers, MarginUse DEF Begin
<1>3. CASE TouchAnswered(p)
  <2>1. ~lapsed => activity <= call[p].age
    BY <1>3 DEF TouchAnswered, MarginInv
  <2>2. touched'[p] = 0 /\ \A q \in Procs \ {p} : touched'[q] = touched[q]
    BY <1>3 DEF TouchAnswered
  <2>3. QED
    BY <1>3, <2>1, <2>2, Numbers, MarginUse DEF TouchAnswered
<1>4. CASE TouchMissing(p) /\ conn[p] = box
  <2>1. lapsed' BY <1>4 DEF TouchMissing
  <2>2. QED BY <2>1 DEF MarginInv
<1>10. CASE TouchMissing(p) /\ conn[p] # box
  <2>1. lapsed' = lapsed BY <1>10 DEF TouchMissing
  <2>2. /\ conn'[p] = 0
        /\ \A q \in Procs \ {p} : conn'[q] = conn[q] /\ touched'[q] = touched[q]
    BY <1>10 DEF TouchMissing
  <2>3. QED
    BY <1>10, <2>1, <2>2, MarginUse DEF TouchMissing
<1>5. CASE Discovered(p)
  <2>1. ~lapsed => activity <= call[p].age
    BY <1>5 DEF Discovered, MarginInv
  <2>2. /\ touched'[p] = 0
        /\ \A q \in Procs \ {p} : conn'[q] = conn[q] /\ touched'[q] = touched[q]
    BY <1>5 DEF Discovered
  <2>3. QED
    BY <1>5, <2>1, <2>2, Numbers, MarginUse DEF Discovered
<1>6. CASE DiscoverMissing(p)
  BY <1>6, MarginKept DEF DiscoverMissing, Ask, NoCall
<1>7. CASE Raise(p)
  <2>1. CASE call[p].op = "touch"
    BY <1>7, <2>1 DEF Raise, MarginInv
  <2>2. CASE call[p].op # "touch"
    BY <1>7, <2>2, MarginKept DEF Raise, NoCall
  <2>3. QED
    BY <2>1, <2>2
<1>8. CASE GiveUp(p)
  <2>1. call'[p].at = "lost" /\ \A q \in Procs \ {p} : call'[q] = call[q]
    BY <1>8 DEF GiveUp, Answer, Calls
  <2>2. QED
    BY <1>8, <2>1, MarginKept DEF GiveUp
<1>9. QED
  BY <1>1, <1>2, <1>3, <1>4, <1>10, <1>5, <1>6, <1>7, <1>8 DEF Proceed

\* Whatever gets older, a command has that much less time left.
LEMMA MarginTick == ASSUME SandboxTypeOK, MarginInv, Tick PROVE MarginInv'
<1> SUFFICES ASSUME ~lapsed', NEW p \in Procs
             PROVE  /\ call'[p].at = "marked" => activity' <= call'[p].age
                    /\ conn'[p] # 0 /\ touched'[p] < KeepAlive => activity' <= touched'[p] + Latency
                    /\ busy'[p] # Unknown => activity' + busy'[p] < KeepAlive + Latency + Exec
  BY DEF MarginInv
<1>0. /\ call[p].at = "marked" => activity <= call[p].age
      /\ conn[p] # 0 /\ touched[p] < KeepAlive => activity <= touched[p] + Latency
      /\ busy[p] # Unknown => activity + busy[p] < KeepAlive + Latency + Exec
  BY DEF MarginInv, Tick
<1>1. activity' \in Int /\ (activity' <= activity + 1)
  BY Numbers DEF Tick, Older, Unknown
<1>2. call'[p].at = "marked" => call[p].at = "marked" /\ call'[p].age = call[p].age + 1
  BY DEF Tick, NoCall, SandboxTypeOK, Calls
<1>3. conn'[p] # 0 /\ touched'[p] < KeepAlive => conn[p] # 0 /\ touched[p] < KeepAlive
                                              /\ touched'[p] = touched[p] + 1
  BY Numbers DEF Tick, Older, Unknown, SandboxTypeOK
<1>4. busy'[p] # Unknown => busy[p] # Unknown /\ busy'[p] = busy[p] - 1
  BY DEF Tick, SandboxTypeOK
<1>5. QED
  BY <1>0, <1>1, <1>2, <1>3, <1>4, Numbers

\* Every step leaves the commands the time they need.
LEMMA MarginStep ==
  ASSUME SandboxTypeOK, SandboxTypeOK', AddressInv, MarginInv, [Next]_vars
  PROVE  MarginInv'
<1> USE DEF SandboxTypeOK, boxVars, tableVars, provVars
<1>1. ASSUME NEW p \in Procs, Handle(p) PROVE MarginInv'
  <2>1. CASE Mark(p)
    BY <2>1, MarginTouch DEF Mark
  <2>2. CASE FindBox(p) \/ TakeOver(p) \/ StartBox(p)
    <3>1. \A q \in Procs : q # p => call'[q] = call[q]
      BY <2>2 DEF FindBox, TakeOver, StartBox, Answer
    <3>2. call'[p].at # "marked"
      BY <2>2 DEF FindBox, TakeOver, StartBox, Answer, Calls
    <3>3. QED
      BY <2>2, <3>1, <3>2, MarginKept DEF FindBox, TakeOver, StartBox
  <2>3. QED
    BY <1>1, <2>1, <2>2 DEF Handle
<1>2. CASE Start
  <2>1. CASE BoxReady /\ maker = Nobody
    BY <2>1, MarginTouch DEF BoxReady
  <2>2. CASE BoxReady /\ maker # Nobody
    <3>1. \A q \in Procs : call'[q].at = "marked" => call'[q] = call[q]
      BY <2>2 DEF BoxReady, Calls
    <3>2. QED
      BY <2>2, <3>1, MarginKept DEF BoxReady
  <2>3. CASE BoxFails
    BY <2>3, MarginKept DEF BoxFails, Calls
  <2>4. QED
    BY <1>2, <2>1, <2>2, <2>3 DEF Start
<1>3. CASE Sweep
  BY <1>3, MarginKept DEF Sweep, Collect, Reap, ReapFails, ReaperForgets, Destroy, Forget
<1>4. ASSUME NEW p \in Procs, Close(p) \/ EndCommand(p) PROVE MarginInv'
  BY <1>4, MarginKept DEF Close, CloseBox, CloseFails, CloseEntry, EndCommand, Destroy, Forget
<1>5. ASSUME NEW p \in Procs, LoseRequest(p) \/ Shutdown(p) PROVE MarginInv'
  <2>1. CASE call[p].at = "found"
    BY <1>5, <2>1, MarginTouch DEF LoseRequest, Shutdown, Finish
  <2>2. CASE call[p].at # "found"
    BY <1>5, <2>2, MarginKept DEF LoseRequest, Shutdown, Finish, Answer, NoCall, Calls
  <2>3. QED
    BY <2>1, <2>2
<1>6. CASE RestartProvisioner
  <2>1. CASE activity' = 0 /\ UNCHANGED <<lapsed, lost>>
    <3>1. CASE lapsed
      BY <2>1, <3>1 DEF MarginInv
    <3>2. CASE ~lapsed
      <4>1. UNCHANGED <<conn, touched, busy>> /\ \A p \in Procs : call'[p].at # "marked"
        BY <1>6 DEF RestartProvisioner, NoCall, Calls
      <4>2. QED
        BY <2>1, <4>1, Numbers DEF MarginInv
    <3>3. QED
      BY <3>1, <3>2
  <2>2. CASE activity' = Unknown /\ UNCHANGED lapsed
    BY <1>6, <2>2, MarginKept DEF RestartProvisioner, NoCall, Calls
  <2>3. QED
    BY <1>6, <2>1, <2>2 DEF RestartProvisioner, Forget
<1>7. CASE UNCHANGED vars
  BY <1>7 DEF vars, MarginInv
<1>8. QED
  BY <1>1, <1>2, <1>3, <1>4, <1>5, <1>6, <1>7, MarginProvider, MarginTick DEF Next

\* For any intervals that leave the room, and any number of processes that touch the
\* sandbox and use it: the reaper does not pick a sandbox in which a command runs,
\* unless a touch since the last activity failed or did not find the living sandbox.
THEOREM NotPicked == Spec => []NotPickedInUse
<1>1. Init => MarginInv
  BY DEF Init, MarginInv, NoCall
<1>2. SandboxTypeOK /\ MarginInv => NotPickedInUse
  <2> SUFFICES ASSUME SandboxTypeOK, MarginInv, Roomy, InUse, ~lapsed PROVE activity < Idle
    BY DEF NotPickedInUse
  <2>1. PICK p \in Procs : busy[p] # Unknown
    BY DEF InUse
  <2>2. activity + busy[p] < KeepAlive + Latency + Exec /\ busy[p] >= 0
    BY <2>1 DEF MarginInv, SandboxTypeOK, Unknown
  <2>3. QED
    BY <2>2, Numbers, SandboxAssumption DEF Roomy
<1>3. QED
  BY <1>1, <1>2, TypeCorrect, AddressCorrect, MarginStep, PTL DEF Spec
=============================================================================
