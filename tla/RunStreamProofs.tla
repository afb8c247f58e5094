--------------------------- MODULE RunStreamProofs ---------------------------
(***************************************************************************)
(* What holds of a page that follows a run, for any run, page size, number *)
(* of trips, broken connections, outages, late returns, overtaken timers   *)
(* and reopened endings.                                                   *)
(***************************************************************************)
EXTENDS RunStream, SequenceTheorems, TLAPS

-----------------------------------------------------------------------------
(* The inductive invariant.                                                *)

\* Without an open connection there is neither a server nor a frame.
Hung == page.conn # "open" => server.pc = "off" /\ pipe = <<>>

\* Every position is one of the log.
Within ==
  /\ page.lastSeq <= Len(log) /\ page.resumeSeq <= Len(log) /\ snapshot <= Len(log)
  /\ Len(log) > 0 /\ \A s \in Terminal : settledAt[s] <= Len(log)
  /\ \A i \in 1..Len(pipe) : pipe[i].type = "event" => pipe[i].seq \in 1..Len(log)

\* Events come first, and nothing else while the server is at work.
Ordered ==
  /\ server.pc # "off" => \A i \in 1..Len(pipe) : pipe[i].type = "event"
  /\ \A i, j \in 1..Len(pipe) : i < j /\ pipe[j].type = "event" => pipe[i].type = "event"

\* The frames of a page that follows continue where it is, and the server
\* continues where they end.
Chain ==
  page.conn = "open" /\ page.following =>
    /\ \A i \in 1..Len(pipe) : pipe[i].type = "event" => pipe[i].seq = page.lastSeq + i
    /\ server.pc # "off" => server.last = page.lastSeq + Len(pipe)

\* What the row, the server and its last frame say of the end has been noted.
Truthful ==
  /\ status \in Terminal => settledAt[status] > 0
  /\ server.seen \in Terminal => settledAt[server.seen] > 0
  /\ \A i \in 1..Len(pipe) :
       pipe[i].type = "close" /\ pipe[i].status \in Terminal
         => settledAt[pipe[i].status] > 0

Outage == ~NoneYet("outages")

\* A page that stopped following with a connection left had a reason.
Stopped ==
  /\ \A i \in 1..Len(pipe) : pipe[i].type = "unavailable" => Outage
  /\ page.conn # "none" /\ ~page.following => Over \/ Outage

\* Before anything fails, is overtaken or is late a page that follows is where its
\* snapshot is, and a resume under way starts there.
Undisturbed ==
  NoneYet("outages") /\ NoneYet("overtakes") /\ NoneYet("expiries") =>
    /\ page.resume \in {"ask", "active"} => page.conn = "none"
    /\ page.finalizing => ~page.following /\ page.resume \notin {"ask", "active"}
    /\ page.following /\ page.resume # "active" => snapshot = page.lastSeq
    /\ page.following /\ page.resume = "ask" => page.resumeSeq = page.lastSeq
    /\ page.following /\ page.resume = "active" => Settled

\* A readable run was announced before it was settled.
AnnouncedInTime ==
  plain => \A s \in Terminal :
             settledAt[s] > 0 => \E n \in 1..settledAt[s] : log[n] \in Announcers[s]

Inv ==
  /\ StreamTypeOK /\ Hung /\ Within /\ Ordered /\ Chain /\ Truthful
  /\ NothingAfterClose /\ Stopped /\ Undisturbed /\ AnnouncedInTime

\* What the page is told at the end it has been told before: when a final close
\* frame of a readable run is next, the event that announces its outcome is among
\* those the page has taken.
OutcomeSeen ==
  (/\ plain /\ page.following /\ pipe # <<>>
   /\ Head(pipe).type = "close" /\ Head(pipe).status \in Terminal)
    => \E n \in 1..page.lastSeq : log[n] \in Announcers[Head(pipe).status]

-----------------------------------------------------------------------------
(* Frames and the pipe.                                                    *)

\* What the fields of a frame are.
LEMMA FrameFields ==
  ASSUME NEW f \in Frames
  PROVE  /\ f.type \in {"event", "close", "unavailable"}
         /\ f.type = "event" => f.seq \in Seqs /\ f = [type |-> "event", seq |-> f.seq]
         /\ f.type = "close" => f.status \in Terminal \cup {"open"}
BY DEF Frames

\* Arithmetic of places: the event e lies in the next n places after k, and
\* before place i, when the last of those places is not before e.
LEMMA PlaceOf ==
  ASSUME NEW k \in Nat, NEW n \in Nat, NEW l \in Nat, NEW e \in Nat, NEW i \in Nat,
         k < e, e <= l, l <= k + n, n + 1 <= i
  PROVE  /\ e - k \in 1..n /\ e - k \in 1..(i - 1) /\ k + (e - k) = e
OBVIOUS

\* Arithmetic of places: two places of a tail, in the sequence it is the tail of.
LEMMA PlacesOfTail ==
  ASSUME NEW n \in Nat \ {0}, NEW m, m = n - 1, NEW i \in 1..m, NEW j \in 1..m, i < j
  PROVE  /\ i + 1 \in 1..n /\ j + 1 \in 1..n /\ i + 1 < j + 1
OBVIOUS

\* A sequence of frames taken up to its first frame, and after it.
LEMMA TailOf ==
  ASSUME NEW s \in Seq(Frames), s # <<>>
  PROVE  /\ Tail(s) \in Seq(Frames) /\ Len(Tail(s)) = Len(s) - 1 /\ Len(s) \in Nat \ {0}
         /\ Head(s) = s[1] /\ Head(s) \in Frames
         /\ \A i \in 1..(Len(s) - 1) : Tail(s)[i] = s[i + 1]
<1>1. Len(s) \in Nat \ {0} BY EmptySeq
<1>2. QED BY <1>1, HeadTailProperties

\* What a write leaves of the frames there are, and what it adds.
LEMMA SendEffect ==
  ASSUME NEW s \in Seq(Frames), NEW t \in Seq(Frames)
  PROVE  /\ s \o t \in Seq(Frames) /\ Len(s \o t) = Len(s) + Len(t)
         /\ Len(s) \in Nat /\ Len(t) \in Nat
         /\ \A i \in 1..Len(s) : (s \o t)[i] = s[i]
         /\ \A i \in (Len(s) + 1)..(Len(s) + Len(t)) : (s \o t)[i] = t[i - Len(s)]
BY ConcatProperties, LenProperties

\* A page of events goes on after the position asked for and ends within the log.
LEMMA PageOfEvents ==
  ASSUME NEW after \in Seqs, log \in Seq(Kinds), Len(log) <= MaxLog
  PROVE  /\ NextPage(after) \in Seq(Frames) /\ Len(NextPage(after)) \in Nat
         /\ NextPage(after) # <<>> => after + Len(NextPage(after)) <= Len(log)
         /\ NextPage(after) = <<>> => Len(log) <= after
         /\ \A i \in 1..Len(NextPage(after)) :
              NextPage(after)[i] = [type |-> "event", seq |-> after + i]
<1> DEFINE upTo == IF Len(log) <= after + PageLimit THEN Len(log) ELSE after + PageLimit
<1> DEFINE n == upTo - after
<1>1. /\ PageLimit \in Nat \ {0} /\ MaxLog \in Nat /\ Len(log) \in Nat
      /\ after \in Nat /\ after <= MaxLog
  BY StreamAssumption DEF Seqs
<1>2. /\ n \in Int /\ after + n <= Len(log) /\ (n <= 0 => Len(log) <= after)
  BY <1>1
<1>3. NextPage(after) = [i \in 1..n |-> [type |-> "event", seq |-> after + i]]
  BY DEF NextPage
<1> HIDE DEF n, upTo
<1>4. CASE n >= 1
  <2>1. \A i \in 1..n : [type |-> "event", seq |-> after + i] \in Frames
    BY <1>1, <1>2 DEF Frames, Seqs
  <2>2. NextPage(after) \in Seq(Frames) /\ Len(NextPage(after)) = n
    BY <1>2, <1>3, <1>4, <2>1
  <2>3. NextPage(after) # <<>> BY <1>2, <1>4, <2>2, EmptySeq
  <2>4. \A i \in 1..n : NextPage(after)[i] = [type |-> "event", seq |-> after + i]
    BY <1>3
  <2>5. QED BY <1>2, <1>4, <2>2, <2>3, <2>4
<1>5. CASE n <= 0
  <2>1. 1..n = 1..0 BY <1>2, <1>5
  <2>2. NextPage(after) = [i \in 1..0 |-> [type |-> "event", seq |-> after + i]]
    BY <1>3, <2>1
  <2>3. NextPage(after) \in Seq(Frames) /\ Len(NextPage(after)) = 0
    BY <2>2
  <2>4. NextPage(after) = <<>> BY <2>3, EmptySeq
  <2>5. QED BY <1>2, <1>5, <2>3, <2>4
<1>6. QED BY <1>2, <1>4, <1>5

\* A bound once used stays used.
LEMMA SpendEffect ==
  ASSUME budget \in Budget, NEW w \in {"trips", "cuts", "outages", "expiries", "overtakes"},
         Spend(w)
  PROVE  /\ budget' \in Budget
         /\ NoneYet("outages")' => NoneYet("outages")
         /\ NoneYet("overtakes")' => NoneYet("overtakes")
         /\ NoneYet("expiries")' => NoneYet("expiries")
         /\ w = "outages" => ~NoneYet("outages")'
         /\ w = "overtakes" => ~NoneYet("overtakes")'
         /\ w = "expiries" => ~NoneYet("expiries")'
<1>1. {MaxTrips, MaxCuts, MaxOutages, MaxExpiries, MaxOvertakes, MaxTroubles} \subseteq Nat
  BY StreamAssumption
<1>2. /\ budget'[w] = budget[w] - 1 /\ budget[w] > 0 /\ budget.all > 0
      /\ budget' = [budget EXCEPT ![w] = budget[w] - 1, !["all"] = budget.all - 1]
  BY DEF Spend, Budget
<1>3. budget' \in Budget
  <2>1. /\ budget.trips \in 0..MaxTrips /\ budget.cuts \in 0..MaxCuts
        /\ budget.outages \in 0..MaxOutages /\ budget.expiries \in 0..MaxExpiries
        /\ budget.overtakes \in 0..MaxOvertakes /\ budget.all \in 0..MaxTroubles
    BY DEF Budget
  <2>2. budget.all - 1 \in 0..MaxTroubles BY <1>1, <1>2, <2>1
  <2>3. CASE w = "trips" BY <1>1, <1>2, <2>1, <2>2, <2>3 DEF Budget
  <2>4. CASE w = "cuts" BY <1>1, <1>2, <2>1, <2>2, <2>4 DEF Budget
  <2>5. CASE w = "outages" BY <1>1, <1>2, <2>1, <2>2, <2>5 DEF Budget
  <2>6. CASE w = "expiries" BY <1>1, <1>2, <2>1, <2>2, <2>6 DEF Budget
  <2>7. CASE w = "overtakes" BY <1>1, <1>2, <2>1, <2>2, <2>7 DEF Budget
  <2>8. QED BY <2>3, <2>4, <2>5, <2>6, <2>7
<1>4. \A x \in {"outages", "overtakes", "expiries"} :
        /\ budget[x] \in Int /\ budget[x] <= FullBudget[x]
        /\ x # w => budget'[x] = budget[x]
  BY <1>1, <1>2 DEF Budget, FullBudget
<1>5. \A x \in {"outages", "overtakes", "expiries"} :
        /\ NoneYet(x)' => NoneYet(x)
        /\ x = w => ~NoneYet(x)'
  <2> SUFFICES ASSUME NEW x \in {"outages", "overtakes", "expiries"}
               PROVE  /\ NoneYet(x)' => NoneYet(x)
                      /\ x = w => ~NoneYet(x)'
    OBVIOUS
  <2>1. FullBudget' = FullBudget BY DEF FullBudget
  <2>2. NoneYet(x)' <=> budget'[x] = FullBudget[x] BY <2>1 DEF NoneYet
  <2>3. CASE x = w
    <3>1. budget'[x] = budget[x] - 1 BY <1>2, <2>3
    <3>2. QED BY <1>4, <2>2, <2>3, <3>1
  <2>4. CASE x # w BY <1>4, <2>2, <2>4 DEF NoneYet
  <2>5. QED BY <2>3, <2>4
<1>6. QED BY <1>3, <1>5

-----------------------------------------------------------------------------
(* Steps of the run.                                                       *)

\* A batch is a sequence of one or two events.
LEMMA BatchTyped == \A b \in Batches : b \in Seq(Kinds)
<1>1. \A k \in Kinds : <<k>> \in Seq(Kinds)
  OBVIOUS
<1>2. "loading" \in Kinds BY DEF Kinds
<1>3. \A k \in Kinds : <<"loading">> \o <<k>> \in Seq(Kinds)
  BY <1>1, <1>2, ConcatProperties
<1>4. QED BY <1>1, <1>3 DEF Batches

\* The log only grows, and each final status is noted with the position of the end
\* when it is set for the first time.
LEMMA RunEffect ==
  ASSUME Inv, RunStep
  PROVE  /\ LifeTypeOK' /\ (Len(log) <= MaxLog)' /\ settledAt' \in [Terminal -> Seqs]
         /\ UNCHANGED streamVars
         /\ plain' => plain
         /\ Len(log) \in Nat /\ Len(log') \in Nat /\ Len(log) <= Len(log')
         /\ \A i \in 1..Len(log) : log'[i] = log[i]
         /\ status' \in Terminal => settledAt'[status'] > 0
         /\ \A s \in Terminal :
              \/ settledAt'[s] = settledAt[s]
              \/ /\ settledAt[s] = 0 /\ settledAt'[s] = Len(log)
                 /\ plain' => \E n \in 1..settledAt'[s] : log'[n] \in Announcers[s]
<1>1. /\ LifeTypeOK /\ Len(log) \in Nat /\ Len(log) <= MaxLog /\ Len(log) > 0
      /\ settledAt \in [Terminal -> Seqs] /\ \A s \in Terminal : settledAt[s] \in Nat
      /\ status \in Terminal => settledAt[status] > 0
      /\ MaxLog \in Nat /\ Terminal \cap Open = {} /\ RunKinds \cup {"init"} \subseteq Kinds
  BY StreamAssumption
     DEF Inv, StreamTypeOK, LifeTypeOK, Terminal, Open, Kinds, Within, Truthful, Seqs
<1>2. CASE RunWrites
  <2>1. PICK b \in Batches : log' = log \o b /\ UNCHANGED <<status, plain, asked>>
    BY <1>2 DEF RunWrites, Write
  <2>2. b \in Seq(Kinds) BY <2>1, BatchTyped
  <2>3. /\ log' \in Seq(Kinds) /\ Len(log') = Len(log) + Len(b) /\ Len(b) \in Nat
        /\ \A i \in 1..Len(log) : log'[i] = log[i]
    BY <1>1, <2>1, <2>2, ConcatProperties, LenProperties DEF LifeTypeOK
  <2>4. Len(log') <= MaxLog /\ UNCHANGED <<settledAt, streamVars>>
    BY <1>2 DEF RunWrites
  <2>5. QED BY <1>1, <2>1, <2>3, <2>4 DEF LifeTypeOK
<1>3. CASE RunMoves
  <2>1. /\ UNCHANGED <<log, plain, settledAt, streamVars>>
        /\ status' = status \/ status' \in Open
        /\ asked' \subseteq asked \cup Askers
    BY <1>3 DEF RunMoves, Begin, Ask, Cancel, Withdraw, Open
  <2>2. QED BY <1>1, <2>1 DEF LifeTypeOK
<1>4. CASE RunSettles
  <2>1. /\ UNCHANGED <<log, plain, asked, streamVars>> /\ status' \in Terminal
        /\ settledAt' = IF settledAt[status'] > 0 THEN settledAt
                        ELSE [settledAt EXCEPT ![status'] = Len(log)]
        /\ plain => Announced(status', log)
    BY <1>4 DEF RunSettles, Resolve
  <2>2. plain => \E n \in 1..Len(log) : log[n] \in Announcers[status']
    BY <2>1 DEF Announced
  <2>3. LifeTypeOK' BY <1>1, <2>1 DEF LifeTypeOK
  <2>4. CASE settledAt[status'] > 0
    BY <1>1, <2>1, <2>3, <2>4
  <2>5. CASE ~(settledAt[status'] > 0)
    <3>1. settledAt' = [settledAt EXCEPT ![status'] = Len(log)] /\ settledAt[status'] = 0
      BY <1>1, <2>1, <2>5
    <3>2. Len(log) \in Seqs BY <1>1 DEF Seqs
    <3>3. /\ settledAt' \in [Terminal -> Seqs] /\ settledAt'[status'] = Len(log)
          /\ \A s \in Terminal : s # status' => settledAt'[s] = settledAt[s]
      BY <1>1, <2>1, <3>1, <3>2
    <3>4. QED BY <1>1, <2>1, <2>2, <2>3, <3>1, <3>3
  <2>6. QED BY <2>4, <2>5
<1>5. CASE RunSpoils
  <2>1. UNCHANGED <<status, log, asked, settledAt, streamVars>> /\ plain' = FALSE
    BY <1>5 DEF RunSpoils, Spoil
  <2>2. LifeTypeOK' BY <1>1, <2>1 DEF LifeTypeOK
  <2>3. QED BY <1>1, <2>1, <2>2
<1>6. QED BY <1>2, <1>3, <1>4, <1>5 DEF RunStep

\* What was over stays over while the page has what it has.
LEMMA RunKeeps == Inv /\ RunStep => Inv'
<1> SUFFICES ASSUME Inv, RunStep PROVE Inv'
  OBVIOUS
<1> USE DEF Inv
<1>1. /\ LifeTypeOK' /\ (Len(log) <= MaxLog)' /\ settledAt' \in [Terminal -> Seqs]
      /\ server' = server /\ pipe' = pipe /\ page' = page /\ snapshot' = snapshot
      /\ budget' = budget /\ (plain' => plain)
      /\ Len(log) \in Nat /\ Len(log') \in Nat /\ Len(log) <= Len(log')
      /\ \A i \in 1..Len(log) : log'[i] = log[i]
      /\ status' \in Terminal => settledAt'[status'] > 0
  BY RunEffect DEF streamVars
<1>2. \A s \in Terminal :
        /\ settledAt[s] \in Nat /\ settledAt'[s] \in Nat /\ settledAt[s] <= Len(log)
        /\ settledAt[s] > 0 => settledAt'[s] = settledAt[s]
        /\ \/ settledAt'[s] = settledAt[s]
           \/ /\ settledAt[s] = 0 /\ settledAt'[s] = Len(log)
              /\ plain' => \E n \in 1..settledAt'[s] : log'[n] \in Announcers[s]
  <2>1. \A s \in Terminal : settledAt[s] \in Nat /\ settledAt[s] <= Len(log)
    BY DEF StreamTypeOK, Seqs, Within
  <2>2. \A s \in Terminal :
          \/ settledAt'[s] = settledAt[s]
          \/ /\ settledAt[s] = 0 /\ settledAt'[s] = Len(log)
             /\ plain' => \E n \in 1..settledAt'[s] : log'[n] \in Announcers[s]
    BY RunEffect
  <2>3. QED BY <1>1, <2>1, <2>2
<1>3. /\ page.lastSeq \in Nat /\ page.lastSeq <= Len(log)
      /\ page.resumeSeq \in Nat /\ snapshot \in Int /\ Len(pipe) \in Nat
  BY LenProperties DEF StreamTypeOK, Pages, Seqs, Within, NoSnapshot
<1>4. StreamTypeOK' BY <1>1 DEF StreamTypeOK
<1>5. Hung' /\ Ordered' /\ Chain' BY <1>1 DEF Hung, Ordered, Chain
<1>6. Within'
  <2>1. (page.lastSeq <= Len(log) /\ page.resumeSeq <= Len(log) /\ snapshot <= Len(log))'
    BY <1>1, <1>3 DEF Within
  <2>2. Len(log') > 0 /\ \A s \in Terminal : settledAt'[s] <= Len(log')
    BY <1>1, <1>2 DEF Within
  <2>3. (\A i \in 1..Len(pipe) : pipe[i].type = "event" => pipe[i].seq \in 1..Len(log))'
    BY <1>1, <1>3 DEF Within
  <2>4. QED BY <2>1, <2>2, <2>3 DEF Within
<1>7. Truthful' BY <1>1, <1>2 DEF Truthful
<1>8. NothingAfterClose' BY <1>1, <1>2 DEF NothingAfterClose, Truthful
<1>9. (Settled => Settled') /\ (Over => Over')
  BY <1>1, <1>2, <1>3 DEF Over, Settled
<1>10. Stopped' BY <1>1, <1>9 DEF Stopped, Outage, NoneYet, FullBudget
<1>11. Undisturbed' BY <1>1, <1>9 DEF Undisturbed, NoneYet, FullBudget
<1>12. AnnouncedInTime'
  <2> SUFFICES ASSUME plain', NEW s \in Terminal, settledAt'[s] > 0
               PROVE  \E n \in 1..settledAt'[s] : log'[n] \in Announcers[s]
    BY DEF AnnouncedInTime
  <2>1. CASE settledAt'[s] = settledAt[s]
    <3>1. PICK n \in 1..settledAt[s] : log[n] \in Announcers[s]
      BY <1>1, <2>1 DEF AnnouncedInTime
    <3>2. n \in 1..Len(log) /\ log'[n] = log[n] BY <1>1, <1>2
    <3>3. QED BY <2>1, <3>1, <3>2
  <2>2. CASE settledAt'[s] # settledAt[s]
    BY <1>2, <2>2
  <2>3. QED BY <2>1, <2>2
<1>13. QED
  BY <1>4, <1>5, <1>6, <1>7, <1>8, <1>10, <1>11, <1>12 DEF Inv

-----------------------------------------------------------------------------
(* Steps of the server.                                                    *)

\* The types of the fields, and a status that is never both open and final.
LEMMA StreamFields ==
  ASSUME StreamTypeOK
  PROVE  /\ LifeTypeOK /\ Len(log) \in Nat /\ Len(log) <= MaxLog /\ MaxLog \in Nat
         /\ status \in Terminal \cup Open /\ Terminal \cap Open = {} /\ "open" \notin Terminal
         /\ server \in Servers /\ server.seen \in Terminal \cup Open /\ server.last \in Seqs
         /\ page \in Pages /\ page.lastSeq \in Nat /\ page.lastSeq <= MaxLog
         /\ page.resumeSeq \in Nat /\ page.resumeSeq <= MaxLog
         /\ snapshot \in Int /\ (snapshot # NoSnapshot => snapshot \in Seqs)
         /\ settledAt \in [Terminal -> Seqs] /\ (\A s \in Terminal : settledAt[s] \in Nat)
         /\ budget \in Budget
         /\ pipe \in Seq(Frames) /\ Len(pipe) \in Nat
         /\ \A i \in 1..Len(pipe) : pipe[i] \in Frames
<1>1. MaxLog \in Nat BY StreamAssumption
<1>2. Len(log) \in Nat /\ Len(pipe) \in Nat
  BY LenProperties DEF StreamTypeOK, LifeTypeOK
<1>3. \A i \in 1..Len(pipe) : pipe[i] \in Frames
  BY ElementOfSeq DEF StreamTypeOK
<1>4. page.lastSeq \in 0..MaxLog /\ page.resumeSeq \in 0..MaxLog
  BY DEF StreamTypeOK, Pages, Seqs
<1>5. server.seen \in Terminal \cup Open /\ server.last \in Seqs
  BY DEF StreamTypeOK, Servers
<1>6. Terminal \cap Open = {} /\ "open" \notin Terminal BY DEF Terminal, Open
<1>7. QED
  BY <1>1, <1>2, <1>3, <1>4, <1>5, <1>6 DEF StreamTypeOK, LifeTypeOK, Seqs, NoSnapshot

\* A step of the server that leaves the run, the page and the budget alone keeps
\* what is only about those.
LEMMA ServerFrame ==
  ASSUME Inv, UNCHANGED <<runVars, page, snapshot>>,
         server' \in Servers, pipe' \in Seq(Frames), budget' \in Budget,
         NoneYet("outages")' => NoneYet("outages"),
         NoneYet("overtakes")' => NoneYet("overtakes"),
         NoneYet("expiries")' => NoneYet("expiries")
  PROVE  StreamTypeOK' /\ Undisturbed' /\ AnnouncedInTime' /\ (Over => Over')
<1> USE DEF Inv
<1>1. /\ status' = status /\ log' = log /\ plain' = plain /\ asked' = asked
      /\ settledAt' = settledAt
      /\ page' = page /\ snapshot' = snapshot
  BY DEF runVars, lifeVars
<1>2. StreamTypeOK' BY <1>1 DEF StreamTypeOK, LifeTypeOK
<1>3. Undisturbed' BY <1>1 DEF Undisturbed, Settled
<1>4. AnnouncedInTime' BY <1>1 DEF AnnouncedInTime
<1>5. Over => Over' BY <1>1 DEF Over, Settled
<1>6. QED BY <1>2, <1>3, <1>4, <1>5

\* What the server reads of the row is true of it.
LEMMA PollKeeps == Inv /\ PollRow => Inv'
<1> SUFFICES ASSUME Inv, PollRow PROVE Inv'
  OBVIOUS
<1> USE DEF Inv
<1>1. /\ status' = status /\ log' = log /\ plain' = plain /\ asked' = asked
      /\ settledAt' = settledAt
      /\ page' = page /\ snapshot' = snapshot /\ budget' = budget /\ pipe' = pipe
      /\ UNCHANGED runVars
      /\ server' = [server EXCEPT !.pc = "list", !.seen = status] /\ server.pc # "off"
  BY DEF PollRow, runVars, lifeVars
<1>2. server \in Servers /\ status \in Terminal \cup Open BY StreamFields
<1>3. /\ server' \in Servers /\ server'.pc = "list" /\ server'.seen = status
      /\ server'.last = server.last
  BY <1>1, <1>2 DEF Servers
<1>4. StreamTypeOK' /\ Undisturbed' /\ AnnouncedInTime' /\ (Over => Over')
  BY <1>1, <1>3, ServerFrame, StreamFields DEF NoneYet, StreamTypeOK
<1>5. Hung' BY <1>1 DEF Hung
<1>6. Within' BY <1>1 DEF Within
<1>7. Ordered' BY <1>1, <1>3 DEF Ordered
<1>8. Chain' BY <1>1, <1>3 DEF Chain
<1>9. Truthful' BY <1>1, <1>3 DEF Truthful
<1>10. NothingAfterClose' BY <1>1 DEF NothingAfterClose
<1>11. Stopped' BY <1>1, <1>4 DEF Stopped, Outage, NoneYet
<1>12. QED
  BY <1>4, <1>5, <1>6, <1>7, <1>8, <1>9, <1>10, <1>11 DEF Inv

\* The events sent are the next of the log.
LEMMA SendKeeps == Inv /\ SendPage => Inv'
<1> SUFFICES ASSUME Inv, SendPage PROVE Inv'
  OBVIOUS
<1> USE DEF Inv
<1> DEFINE sent == NextPage(server.last)
<1>1. /\ status' = status /\ log' = log /\ plain' = plain /\ asked' = asked
      /\ settledAt' = settledAt
      /\ page' = page /\ snapshot' = snapshot /\ budget' = budget /\ UNCHANGED runVars
      /\ server.pc # "off" /\ sent # <<>> /\ pipe' = pipe \o sent
      /\ server' = [server EXCEPT !.pc = "sleep", !.last = @ + Len(NextPage(@))]
  BY DEF SendPage, Send, runVars, lifeVars
<1>2. /\ server \in Servers /\ server.last \in Nat /\ server.last \in Seqs
      /\ page.lastSeq \in Nat
      /\ pipe \in Seq(Frames) /\ Len(pipe) \in Nat /\ MaxLog \in Nat
      /\ log \in Seq(Kinds) /\ Len(log) \in Nat /\ Len(log) <= MaxLog
  BY StreamFields DEF Seqs, LifeTypeOK
<1>3. /\ sent \in Seq(Frames) /\ Len(sent) \in Nat /\ server.last + Len(sent) <= Len(log)
      /\ \A i \in 1..Len(sent) : sent[i] = [type |-> "event", seq |-> server.last + i]
  BY <1>1, <1>2, PageOfEvents
<1>4. /\ server'.pc = "sleep" /\ server'.seen = server.seen
      /\ server'.last = server.last + Len(sent) /\ server' \in Servers
  <2>1. server' = [server EXCEPT !.pc = "sleep", !.last = server.last + Len(sent)]
    BY <1>1
  <2>2. server.last + Len(sent) \in Seqs BY <1>2, <1>3 DEF Seqs
  <2> HIDE DEF sent
  <2>3. QED BY <1>2, <2>1, <2>2 DEF Servers
<1>5. /\ pipe' \in Seq(Frames) /\ Len(pipe') = Len(pipe) + Len(sent)
      /\ \A i \in 1..Len(pipe) : pipe'[i] = pipe[i]
      /\ \A i \in (Len(pipe) + 1)..(Len(pipe) + Len(sent)) : pipe'[i] = sent[i - Len(pipe)]
  BY <1>1, <1>2, <1>3, SendEffect
<1> HIDE DEF sent
<1>6. \A i \in (Len(pipe) + 1)..Len(pipe') :
        /\ pipe'[i].type = "event" /\ pipe'[i].seq = server.last + (i - Len(pipe))
        /\ pipe'[i].seq \in 1..Len(log)
  <2> SUFFICES ASSUME NEW i \in (Len(pipe) + 1)..Len(pipe')
               PROVE  /\ pipe'[i].type = "event"
                      /\ pipe'[i].seq = server.last + (i - Len(pipe))
                      /\ pipe'[i].seq \in 1..Len(log)
    OBVIOUS
  <2>1. i - Len(pipe) \in 1..Len(sent) /\ pipe'[i] = sent[i - Len(pipe)]
    BY <1>2, <1>3, <1>5
  <2>2. pipe'[i] = [type |-> "event", seq |-> server.last + (i - Len(pipe))]
    BY <1>3, <2>1
  <2>3. QED BY <1>2, <1>3, <2>1, <2>2
<1>7. \A i \in 1..Len(pipe') : i \in 1..Len(pipe) \/ i \in (Len(pipe) + 1)..Len(pipe')
  BY <1>2, <1>3, <1>5
<1>8. \A i \in 1..Len(pipe) : i \in 1..Len(pipe') /\ pipe'[i] = pipe[i]
                              /\ pipe[i].type = "event"
  BY <1>1, <1>2, <1>3, <1>5 DEF Ordered
<1>9. \A i \in 1..Len(pipe') : pipe'[i].type = "event"
  BY <1>6, <1>7, <1>8
<1>10. StreamTypeOK' /\ Undisturbed' /\ AnnouncedInTime' /\ (Over => Over')
  BY <1>1, <1>4, <1>5, ServerFrame, StreamFields DEF NoneYet, StreamTypeOK
<1>11. Hung' BY <1>1 DEF Hung
<1>12. Within' BY <1>1, <1>6, <1>7, <1>8 DEF Within
<1>13. Ordered' BY <1>9 DEF Ordered
<1>14. Chain'
  <2> SUFFICES ASSUME page'.conn = "open", page'.following
               PROVE  /\ \A i \in 1..Len(pipe') : pipe'[i].seq = page'.lastSeq + i
                      /\ server'.last = page'.lastSeq + Len(pipe')
    BY DEF Chain
  <2>1. server.last = page.lastSeq + Len(pipe) BY <1>1 DEF Chain
  <2>2. \A i \in 1..Len(pipe) : pipe'[i].seq = page.lastSeq + i
    BY <1>1, <1>8 DEF Chain
  <2>3. \A i \in (Len(pipe) + 1)..Len(pipe') : pipe'[i].seq = page.lastSeq + i
    BY <1>2, <1>3, <1>5, <1>6, <2>1
  <2>4. \A i \in 1..Len(pipe') : pipe'[i].seq = page.lastSeq + i
    BY <1>7, <2>2, <2>3
  <2>5. server'.last = page.lastSeq + Len(pipe')
    BY <1>2, <1>3, <1>4, <1>5, <2>1
  <2>6. QED BY <1>1, <2>4, <2>5
<1>15. Truthful' BY <1>1, <1>4, <1>9 DEF Truthful
<1>16. NothingAfterClose' BY <1>9 DEF NothingAfterClose
<1>17. Stopped' BY <1>1, <1>9, <1>10 DEF Stopped, Outage, NoneYet
<1>18. QED
  BY <1>10, <1>11, <1>12, <1>13, <1>14, <1>15, <1>16, <1>17 DEF Inv

\* However the server ends, the frames it ends with are not events; one with a
\* final status has been noted, and comes after the last event of the log.
LEMMA EndingServed ==
  ASSUME Inv, UNCHANGED <<runVars, page, snapshot>>, server.pc # "off", server' = NoServer,
         NEW t \in Seq(Frames), pipe' = pipe \o t, budget' \in Budget,
         NoneYet("outages")' => NoneYet("outages"),
         NoneYet("overtakes")' => NoneYet("overtakes"),
         NoneYet("expiries")' => NoneYet("expiries"),
         \A i \in 1..Len(t) :
           /\ t[i].type # "event"
           /\ t[i].type = "unavailable" => Outage'
           /\ t[i].type = "close" /\ t[i].status \in Terminal
                => settledAt[t[i].status] > 0 /\ Len(log) <= server.last
  PROVE  Inv'
<1> USE DEF Inv
<1>1. /\ status' = status /\ log' = log /\ plain' = plain /\ asked' = asked
      /\ settledAt' = settledAt
      /\ page' = page /\ snapshot' = snapshot
      /\ server'.pc = "off" /\ server'.seen = "pending" /\ server' \in Servers
  <2>1. NoServer \in Servers
    BY StreamAssumption DEF NoServer, Servers, Open, Seqs
  <2>2. QED BY <2>1 DEF runVars, lifeVars, NoServer
<1>2. /\ server.last \in Nat /\ page.lastSeq \in Nat
      /\ pipe \in Seq(Frames) /\ Len(pipe) \in Nat /\ Len(log) \in Nat /\ Len(t) \in Nat
      /\ page.conn = "open"
      /\ \A s \in Terminal : settledAt[s] \in Nat /\ settledAt[s] <= Len(log)
      /\ \A i \in 1..Len(pipe) : pipe[i] \in Frames /\ pipe[i].type = "event"
  BY StreamFields, LenProperties DEF Seqs, Within, Hung, Ordered
<1>3. /\ pipe' \in Seq(Frames) /\ Len(pipe') = Len(pipe) + Len(t)
      /\ \A i \in 1..Len(pipe) : pipe'[i] = pipe[i]
      /\ \A i \in (Len(pipe) + 1)..(Len(pipe) + Len(t)) : pipe'[i] = t[i - Len(pipe)]
  BY <1>2, SendEffect
<1>4. \A i \in 1..Len(pipe') :
        \/ i \in 1..Len(pipe) /\ pipe'[i] = pipe[i] /\ pipe'[i].type = "event"
        \/ /\ i \in (Len(pipe) + 1)..Len(pipe') /\ pipe'[i].type # "event"
           /\ pipe'[i].type = "unavailable" => Outage'
           /\ pipe'[i].type = "close" /\ pipe'[i].status \in Terminal
                => settledAt[pipe'[i].status] > 0 /\ Len(log) <= server.last
  <2> SUFFICES ASSUME NEW i \in 1..Len(pipe'), i \notin 1..Len(pipe)
               PROVE  /\ i \in (Len(pipe) + 1)..Len(pipe')
                      /\ i - Len(pipe) \in 1..Len(t) /\ pipe'[i] = t[i - Len(pipe)]
    BY <1>2, <1>3
  <2>1. QED BY <1>2, <1>3
<1>5. StreamTypeOK' /\ Undisturbed' /\ AnnouncedInTime' /\ (Over => Over')
  BY <1>1, <1>3, ServerFrame
<1>6. Hung' BY <1>1, <1>2 DEF Hung
<1>7. Within' BY <1>1, <1>4 DEF Within
<1>8. Ordered' BY <1>1, <1>2, <1>3, <1>4 DEF Ordered
<1>9. Chain' BY <1>1, <1>2, <1>4 DEF Chain
<1>10. Truthful' BY <1>1, <1>4 DEF Truthful, Terminal
<1>11. NothingAfterClose'
  <2> SUFFICES ASSUME NEW i \in 1..Len(pipe'), page.following, pipe'[i].type = "close",
                      pipe'[i].status \in Terminal, NEW end, end = settledAt[pipe'[i].status],
                      ~(page.lastSeq >= end)
               PROVE  \E j \in 1..(i - 1) : pipe'[j] = [type |-> "event", seq |-> end]
    BY <1>1 DEF NothingAfterClose
  <2>1. /\ i \in (Len(pipe) + 1)..Len(pipe') /\ Len(log) <= server.last
        /\ end \in Nat /\ end <= Len(log)
    BY <1>2, <1>4
  <2>2. server.last = page.lastSeq + Len(pipe) BY <1>2 DEF Chain
  <2> DEFINE j == end - page.lastSeq
  <2>3. j \in 1..Len(pipe) /\ j \in 1..(i - 1)
    <3>1. page.lastSeq \in Nat /\ Len(pipe) \in Nat /\ Len(log) \in Nat /\ page.lastSeq < end
      BY <1>2, <2>1
    <3>2. i \in Nat /\ Len(pipe) + 1 <= i BY <2>1, <3>1
    <3>3. Len(log) <= page.lastSeq + Len(pipe) BY <2>1, <2>2
    <3>4. QED BY <2>1, <3>1, <3>2, <3>3, PlaceOf
  <2>4. page.lastSeq + j = end BY <1>2, <2>1
  <2> HIDE DEF j
  <2>5. pipe[j].seq = end /\ pipe[j].type = "event" /\ pipe[j] \in Frames
    BY <1>2, <2>3, <2>4 DEF Chain
  <2>6. pipe'[j] = [type |-> "event", seq |-> end]
    BY <1>3, <2>3, <2>5, FrameFields
  <2>7. QED BY <2>3, <2>6
<1>12. Stopped'
  <2>1. (page.conn # "none" /\ ~page.following => Over \/ Outage)'
    BY <1>1, <1>5 DEF Stopped, Outage
  <2>2. QED BY <1>4, <2>1 DEF Stopped
<1>13. QED
  BY <1>5, <1>6, <1>7, <1>8, <1>9, <1>10, <1>11, <1>12 DEF Inv

\* A close frame is a frame, whatever its status.
LEMMA CloseFrames ==
  \A s \in Terminal \cup {"open"} :
    /\ CloseFrame(s) \in Frames /\ CloseFrame(s).type = "close" /\ CloseFrame(s).status = s
BY DEF CloseFrame, Frames

\* The server goes to sleep, or closes because the row was final when it was read.
LEMMA FindNothingKeeps == Inv /\ FindNothing => Inv'
<1> SUFFICES ASSUME Inv, FindNothing PROVE Inv'
  OBVIOUS
<1> USE DEF Inv
<1>1. /\ status' = status /\ log' = log /\ plain' = plain /\ asked' = asked
      /\ settledAt' = settledAt
      /\ page' = page /\ snapshot' = snapshot /\ budget' = budget /\ UNCHANGED runVars
      /\ server.pc # "off" /\ NextPage(server.last) = <<>>
  BY DEF FindNothing, runVars, lifeVars
<1>2. /\ server \in Servers /\ server.last \in Seqs /\ log \in Seq(Kinds) /\ Len(log) <= MaxLog
      /\ budget \in Budget /\ pipe \in Seq(Frames)
  BY StreamFields DEF LifeTypeOK
<1>3. CASE server.seen \in Terminal
  <2> DEFINE f == CloseFrame(server.seen)
  <2>1. server' = NoServer /\ pipe' = pipe \o <<f>>
    BY <1>3 DEF FindNothing, Send
  <2>2. f \in Frames /\ f.type = "close" /\ f.status = server.seen
    BY <1>3, CloseFrames
  <2>3. Len(log) <= server.last BY <1>1, <1>2, PageOfEvents
  <2>4. settledAt[server.seen] > 0 BY <1>3 DEF Truthful
  <2> HIDE DEF f
  <2>5. <<f>> \in Seq(Frames) /\ Len(<<f>>) = 1 /\ <<f>>[1] = f
    BY <2>2
  <2>6. \A i \in 1..Len(<<f>>) : <<f>>[i] = f BY <2>5
  <2>7. QED
    BY <1>1, <1>2, <2>1, <2>2, <2>3, <2>4, <2>5, <2>6, EndingServed DEF NoneYet
<1>4. CASE server.seen \notin Terminal
  <2>1. server' = [server EXCEPT !.pc = "sleep"] /\ pipe' = pipe
    BY <1>4 DEF FindNothing
  <2>2. /\ server'.pc = "sleep" /\ server'.seen = server.seen /\ server'.last = server.last
        /\ server' \in Servers
    BY <1>2, <2>1 DEF Servers
  <2>3. StreamTypeOK' /\ Undisturbed' /\ AnnouncedInTime' /\ (Over => Over')
    BY <1>1, <1>2, <2>1, <2>2, ServerFrame DEF NoneYet
  <2>4. Hung' /\ Within' /\ Chain' /\ Truthful'
    BY <1>1, <2>1, <2>2 DEF Hung, Within, Chain, Truthful
  <2>5. Ordered' BY <1>1, <2>1 DEF Ordered
  <2>6. NothingAfterClose' BY <1>1, <2>1 DEF NothingAfterClose
  <2>7. Stopped' BY <1>1, <2>1, <2>3 DEF Stopped, Outage, NoneYet
  <2>8. QED BY <2>3, <2>4, <2>5, <2>6, <2>7 DEF Inv
<1>5. QED BY <1>3, <1>4

\* The end of an old connection says nothing of the run.
LEMMA CloseOldKeeps == Inv /\ CloseOldConnection => Inv'
<1> SUFFICES ASSUME Inv, CloseOldConnection PROVE Inv'
  OBVIOUS
<1> DEFINE f == CloseFrame("open")
<1>1. /\ UNCHANGED <<runVars, page, snapshot>> /\ budget' = budget
      /\ server.pc # "off" /\ server' = NoServer /\ pipe' = pipe \o <<f>>
  BY DEF CloseOldConnection, Send
<1>2. f \in Frames /\ f.type = "close" /\ f.status \notin Terminal
  BY CloseFrames DEF Terminal
<1>3. budget \in Budget BY DEF Inv, StreamTypeOK
<1> HIDE DEF f
<1>4. <<f>> \in Seq(Frames) /\ \A i \in 1..Len(<<f>>) : <<f>>[i] = f
  BY <1>2
<1>5. QED BY <1>1, <1>2, <1>3, <1>4, EndingServed DEF NoneYet

\* A failed request ends the connection with a frame of its own and is paid for.
LEMMA OutageKeeps == Inv /\ ReportOutage => Inv'
<1> SUFFICES ASSUME Inv, ReportOutage PROVE Inv'
  OBVIOUS
<1> DEFINE f == [type |-> "unavailable"]
           g == CloseFrame("open")
<1>1. /\ UNCHANGED <<runVars, page, snapshot>> /\ Spend("outages")
      /\ server.pc # "off" /\ server' = NoServer /\ pipe' = pipe \o <<f, g>>
  BY DEF ReportOutage, Send
<1>2. /\ f \in Frames /\ f.type = "unavailable"
      /\ g \in Frames /\ g.type = "close" /\ g.status \notin Terminal
  BY CloseFrames DEF Terminal, Frames
<1>3. /\ budget' \in Budget /\ ~NoneYet("outages")'
      /\ NoneYet("overtakes")' => NoneYet("overtakes")
      /\ NoneYet("expiries")' => NoneYet("expiries")
  BY <1>1, SpendEffect DEF Inv, StreamTypeOK
<1> HIDE DEF f, g
<1>4. <<f, g>> \in Seq(Frames) /\ \A i \in 1..Len(<<f, g>>) : <<f, g>>[i] \in {f, g}
  BY <1>2
<1>5. QED BY <1>1, <1>2, <1>3, <1>4, EndingServed DEF Outage

\* A generator that is cancelled writes nothing.
LEMMA ShutDownKeeps == Inv /\ ShutDown => Inv'
<1> SUFFICES ASSUME Inv, ShutDown PROVE Inv'
  OBVIOUS
<1>1. /\ UNCHANGED <<runVars, page, snapshot>> /\ Spend("outages")
      /\ server.pc # "off" /\ server' = NoServer /\ pipe' = pipe
  BY DEF ShutDown
<1>2. pipe \in Seq(Frames) BY DEF Inv, StreamTypeOK
<1>3. /\ pipe' = pipe \o <<>> /\ <<>> \in Seq(Frames)
      /\ \A i \in 1..Len(<<>>) : FALSE
  BY <1>1, <1>2, ConcatEmptySeq, EmptySeq
<1>4. budget' \in Budget /\ ~NoneYet("outages")'
      /\ (NoneYet("overtakes")' => NoneYet("overtakes"))
      /\ (NoneYet("expiries")' => NoneYet("expiries"))
  BY <1>1, SpendEffect DEF Inv, StreamTypeOK
<1> DEFINE t == <<>>
<1>5. /\ t \in Seq(Frames) /\ pipe' = pipe \o t /\ \A i \in 1..Len(t) : FALSE
  BY <1>3
<1> HIDE DEF t
<1>6. QED BY <1>1, <1>4, <1>5, EndingServed

-----------------------------------------------------------------------------
(* Steps of the page.                                                      *)

\* The invariant without the part that is about failures and overtaking.
Others ==
  /\ StreamTypeOK /\ Hung /\ Within /\ Ordered /\ Chain /\ Truthful
  /\ NothingAfterClose /\ Stopped /\ AnnouncedInTime

\* A step that leaves the connection as it is: the page stays where it is, or stops
\* for a reason.
LEMMA PageAlone ==
  ASSUME Inv, UNCHANGED <<runVars, server, pipe>>, page' \in Pages, budget' \in Budget,
         snapshot' \in Seqs \cup {NoSnapshot}, NoneYet("outages")' => NoneYet("outages"),
         page'.resumeSeq <= Len(log), snapshot' <= Len(log),
         \/ page'.following = page.following /\ page'.lastSeq = page.lastSeq
         \/ /\ ~page'.following /\ page'.lastSeq = 0
            /\ status \in Terminal \/ Outage',
         \/ page'.conn = page.conn
         \/ page'.conn = "none" /\ server.pc = "off" /\ pipe = <<>>
  PROVE  Others'
<1> USE DEF Inv
<1>1. /\ status' = status /\ log' = log /\ plain' = plain /\ asked' = asked
      /\ settledAt' = settledAt
      /\ server' = server /\ pipe' = pipe
  BY DEF runVars, lifeVars
<1>2. Len(log) \in Nat /\ page.lastSeq <= Len(log) BY StreamFields DEF Within
<1>3. StreamTypeOK' BY <1>1 DEF StreamTypeOK, LifeTypeOK
<1>4. Hung' BY <1>1 DEF Hung
<1>5. Within' BY <1>1, <1>2 DEF Within
<1>6. Ordered' BY <1>1 DEF Ordered
<1>7. Chain' BY <1>1 DEF Chain, Hung
<1>8. Truthful' BY <1>1 DEF Truthful
<1>9. NothingAfterClose' BY <1>1 DEF NothingAfterClose
<1>10. Stopped'
  <2>1. \A i \in 1..Len(pipe') : pipe'[i].type = "unavailable" => Outage'
    BY <1>1 DEF Stopped, Outage
  <2>2. (page.conn # "none" /\ ~page.following => Over \/ Outage)'
    <3> SUFFICES ASSUME page'.conn # "none", ~page'.following PROVE Over' \/ Outage'
      OBVIOUS
    <3>1. CASE page'.following = page.following /\ page'.lastSeq = page.lastSeq
      <4>1. page.conn # "none" /\ ~page.following BY <3>1
      <4>2. Over \/ Outage BY <4>1 DEF Stopped
      <4>3. Over => Over' BY <1>1, <3>1 DEF Over, Settled
      <4>4. QED BY <4>2, <4>3 DEF Outage
    <3>2. CASE status \in Terminal \/ Outage'
      BY <1>1, <3>2 DEF Over, Settled, Truthful
    <3>3. QED BY <3>1, <3>2
  <2>3. QED BY <2>1, <2>2 DEF Stopped
<1>11. AnnouncedInTime' BY <1>1 DEF AnnouncedInTime
<1>12. QED
  BY <1>3, <1>4, <1>5, <1>6, <1>7, <1>8, <1>9, <1>10, <1>11 DEF Others

\* A step that gives the connection up: what was under way on it is forgotten.
LEMMA HungUp ==
  ASSUME Inv, UNCHANGED runVars, Hangup, page' \in Pages, budget' \in Budget,
         snapshot' \in Seqs \cup {NoSnapshot},
         page'.resumeSeq <= Len(log), page'.lastSeq <= Len(log), snapshot' <= Len(log),
         page'.conn = "none" \/ (page'.conn = "opening" /\ page'.following)
  PROVE  Others'
<1> USE DEF Inv
<1>1. /\ status' = status /\ log' = log /\ plain' = plain /\ asked' = asked
      /\ settledAt' = settledAt
      /\ pipe' = <<>> /\ server' = NoServer /\ server'.pc = "off" /\ server'.seen = "pending"
      /\ server' \in Servers /\ server'.seen \notin Terminal
  <2>1. NoServer \in Servers
    BY StreamAssumption DEF NoServer, Servers, Open, Seqs
  <2>2. QED BY <2>1 DEF runVars, lifeVars, NoServer, Hangup, Terminal
<1>2. pipe' \in Seq(Frames) /\ \A i \in 1..Len(pipe') : FALSE
  BY <1>1
<1>3. StreamTypeOK' BY <1>1, <1>2 DEF StreamTypeOK, LifeTypeOK
<1>4. Hung' BY <1>1 DEF Hung
<1>5. Within' BY <1>1, <1>2 DEF Within
<1>6. Ordered' BY <1>1, <1>2 DEF Ordered
<1>7. Chain' BY <1>1 DEF Chain
<1>8. Truthful' BY <1>1, <1>2 DEF Truthful
<1>9. NothingAfterClose' BY <1>2 DEF NothingAfterClose
<1>10. Stopped' BY <1>2 DEF Stopped
<1>11. AnnouncedInTime' BY <1>1 DEF AnnouncedInTime
<1>12. QED
  BY <1>3, <1>4, <1>5, <1>6, <1>7, <1>8, <1>9, <1>10, <1>11 DEF Others

\* The types that a step of the page starts from.
LEMMA PageFields ==
  ASSUME Inv
  PROVE  /\ page \in Pages /\ page.lastSeq \in Nat /\ page.lastSeq \in Seqs
         /\ page.lastSeq <= Len(log) /\ page.resumeSeq <= Len(log) /\ snapshot <= Len(log)
         /\ page.resumeSeq \in Seqs /\ snapshot \in Seqs \cup {NoSnapshot} /\ snapshot \in Int
         /\ Len(log) \in Nat /\ 0 \in Seqs /\ NoSnapshot <= Len(log) /\ NoSnapshot \notin Seqs
         /\ budget \in Budget /\ Terminal \cap Open = {} /\ status \in Terminal \cup Open
<1>1. 0 \in Seqs /\ NoSnapshot \notin Seqs
  BY StreamAssumption DEF Seqs, NoSnapshot
<1>2. page.lastSeq \in Seqs /\ page.resumeSeq \in Seqs
  BY DEF Inv, StreamTypeOK, Pages
<1>3. QED
  BY <1>1, <1>2, StreamFields DEF Inv, StreamTypeOK, Within, NoSnapshot

\* A connection starts after what the page has.
LEMMA ConnectKeeps == Inv /\ Connect => Inv'
<1> SUFFICES ASSUME Inv, Connect PROVE Inv'
  OBVIOUS
<1> USE DEF Inv
<1>1. /\ status' = status /\ log' = log /\ plain' = plain /\ asked' = asked
      /\ settledAt' = settledAt
      /\ pipe' = pipe /\ snapshot' = snapshot /\ budget' = budget /\ page.conn = "opening"
      /\ page' = [page EXCEPT !.conn = "open"]
      /\ server' = [NoServer EXCEPT !.pc = "poll", !.last = page.lastSeq]
  BY DEF Connect, runVars, lifeVars
<1>2. page \in Pages /\ page.lastSeq \in Nat /\ page.lastSeq \in Seqs BY PageFields
<1>3. /\ server' \in Servers /\ server'.pc = "poll" /\ server'.last = page.lastSeq
      /\ server'.seen \notin Terminal
  BY <1>1, <1>2 DEF NoServer, Servers, Open, Terminal
<1>4. /\ page' \in Pages /\ page'.lastSeq = page.lastSeq /\ page'.following = page.following
      /\ page'.conn = "open" /\ page'.resume = page.resume /\ page'.resumeSeq = page.resumeSeq
      /\ page'.finalizing = page.finalizing
  BY <1>1, <1>2 DEF Pages
<1>5. pipe' = <<>> /\ Len(pipe') = 0 /\ \A i \in 1..Len(pipe') : FALSE
  BY <1>1 DEF Hung
<1>6. StreamTypeOK' BY <1>1, <1>3, <1>4 DEF StreamTypeOK, LifeTypeOK
<1>7. Hung' BY <1>4 DEF Hung
<1>8. Within' BY <1>1, <1>4 DEF Within
<1>9. Ordered' BY <1>5 DEF Ordered
<1>10. Chain' BY <1>2, <1>3, <1>4, <1>5 DEF Chain
<1>11. Truthful' BY <1>1, <1>3, <1>5 DEF Truthful
<1>12. NothingAfterClose' BY <1>5 DEF NothingAfterClose
<1>13. Stopped' BY <1>1, <1>4, <1>5 DEF Stopped, Over, Settled, Outage, NoneYet
<1>14. Undisturbed' BY <1>1, <1>4 DEF Undisturbed, NoneYet, Settled
<1>15. AnnouncedInTime' BY <1>1 DEF AnnouncedInTime
<1>16. QED
  BY <1>6, <1>7, <1>8, <1>9, <1>10, <1>11, <1>12, <1>13, <1>14, <1>15 DEF Inv

\* The end of the response leaves nothing to read.
LEMMA EndOfStreamKeeps == Inv /\ EndOfStream => Inv'
<1> SUFFICES ASSUME Inv, EndOfStream PROVE Inv'
  OBVIOUS
<1>1. /\ UNCHANGED <<runVars, server, pipe>> /\ snapshot' = snapshot /\ budget' = budget
      /\ settledAt' = settledAt /\ server.pc = "off" /\ pipe = <<>>
      /\ page' = [page EXCEPT !.conn = "none"]
  BY DEF EndOfStream, runVars, lifeVars
<1>2. /\ page' \in Pages /\ page'.lastSeq = page.lastSeq /\ page'.following = page.following
      /\ page'.conn = "none" /\ page'.resume = page.resume
      /\ page'.resumeSeq = page.resumeSeq /\ page'.finalizing = page.finalizing
  BY <1>1, PageFields DEF Pages
<1>3. Others' BY <1>1, <1>2, PageFields, PageAlone DEF NoneYet
<1>4. Undisturbed' BY <1>1, <1>2 DEF Inv, Undisturbed, NoneYet, Settled
<1>5. QED BY <1>3, <1>4 DEF Others, Inv

\* A broken connection starts a timer and moves nothing.
LEMMA CutKeeps == Inv /\ CutConnection => Inv'
<1> SUFFICES ASSUME Inv, CutConnection PROVE Inv'
  OBVIOUS
<1>1. /\ UNCHANGED runVars /\ snapshot' = snapshot /\ Spend("cuts") /\ Hangup
      /\ settledAt' = settledAt
      /\ page' = [page EXCEPT !.conn = "none",
                              !.timers = IF page.following THEN @ + 1 ELSE @]
  BY DEF CutConnection, runVars, lifeVars
<1>2. page \in Pages BY PageFields
<1>3. /\ page' \in Pages /\ page'.lastSeq = page.lastSeq /\ page'.following = page.following
      /\ page'.conn = "none" /\ page'.resume = page.resume
      /\ page'.resumeSeq = page.resumeSeq /\ page'.finalizing = page.finalizing
  <2> DEFINE n == IF page.following THEN page.timers + 1 ELSE page.timers
  <2>1. n \in Nat
    <3>1. page.timers \in Nat BY <1>2 DEF Pages
    <3>2. n = page.timers \/ n = page.timers + 1 OBVIOUS
    <3>3. QED BY <3>1, <3>2
  <2>2. page' = [page EXCEPT !.conn = "none", !.timers = n] BY <1>1
  <2> HIDE DEF n
  <2>3. QED BY <1>2, <2>1, <2>2 DEF Pages
<1>4. /\ budget' \in Budget /\ (NoneYet("outages")' => NoneYet("outages"))
      /\ (NoneYet("overtakes")' => NoneYet("overtakes"))
      /\ (NoneYet("expiries")' => NoneYet("expiries"))
  BY <1>1, PageFields, SpendEffect
<1>5. Others' BY <1>1, <1>3, <1>4, PageFields, HungUp
<1>6. Undisturbed' BY <1>1, <1>3, <1>4 DEF Inv, Undisturbed, Settled
<1>7. QED BY <1>5, <1>6 DEF Others, Inv

\* Nor does leaving the thread.
LEMMA LeaveKeeps == Inv /\ Leave => Inv'
<1> SUFFICES ASSUME Inv, Leave PROVE Inv'
  OBVIOUS
<1>1. /\ UNCHANGED runVars /\ snapshot' = snapshot /\ Spend("trips") /\ Hangup
      /\ settledAt' = settledAt
      /\ page' = [page EXCEPT !.away = TRUE, !.conn = "none"]
  BY DEF Leave, runVars, lifeVars
<1>2. page \in Pages BY PageFields
<1>3. /\ page' \in Pages /\ page'.lastSeq = page.lastSeq /\ page'.following = page.following
      /\ page'.conn = "none" /\ page'.resume = page.resume
      /\ page'.resumeSeq = page.resumeSeq /\ page'.finalizing = page.finalizing
  BY <1>1, <1>2 DEF Pages
<1>4. /\ budget' \in Budget /\ (NoneYet("outages")' => NoneYet("outages"))
      /\ (NoneYet("overtakes")' => NoneYet("overtakes"))
      /\ (NoneYet("expiries")' => NoneYet("expiries"))
  BY <1>1, PageFields, SpendEffect
<1>5. Others' BY <1>1, <1>3, <1>4, PageFields, HungUp
<1>6. Undisturbed' BY <1>1, <1>3, <1>4 DEF Inv, Undisturbed, Settled
<1>7. QED BY <1>5, <1>6 DEF Others, Inv

\* A page that was reloaded follows nothing.
LEMMA ReloadKeeps == Inv /\ Reload => Inv'
<1> SUFFICES ASSUME Inv, Reload PROVE Inv'
  OBVIOUS
<1>1. /\ UNCHANGED runVars /\ snapshot' = snapshot /\ Spend("trips") /\ Hangup
      /\ page' \in Pages /\ page'.lastSeq = 0 /\ page'.following = FALSE
      /\ page'.conn = "none" /\ page'.resume = "due" /\ page'.resumeSeq = 0
      /\ page'.finalizing = FALSE
  BY PageFields DEF Reload, Pages
<1>2. budget' \in Budget
  BY <1>1, PageFields, SpendEffect
<1>3. Others' BY <1>1, <1>2, PageFields, HungUp
<1>4. Undisturbed' BY <1>1 DEF Undisturbed, Settled
<1>5. QED BY <1>3, <1>4 DEF Others, Inv

\* The thread is shown again: a resume is due, and nothing moves.
LEMMA ReturnKeeps == Inv /\ Return => Inv'
<1> SUFFICES ASSUME Inv, Return PROVE Inv'
  OBVIOUS
<1>1. /\ UNCHANGED <<runVars, server, pipe>> /\ snapshot' = snapshot /\ budget' = budget
      /\ settledAt' = settledAt /\ page.resume = "no"
      /\ page' = [page EXCEPT !.away = FALSE, !.resume = "due"]
  BY DEF Return, runVars, lifeVars
<1>2. /\ page' \in Pages /\ page'.lastSeq = page.lastSeq /\ page'.following = page.following
      /\ page'.conn = page.conn /\ page'.resume = "due"
      /\ page'.resumeSeq = page.resumeSeq /\ page'.finalizing = page.finalizing
  BY <1>1, PageFields DEF Pages
<1>3. Others' BY <1>1, <1>2, PageFields, PageAlone DEF NoneYet
<1>4. Undisturbed' BY <1>1, <1>2 DEF Inv, Undisturbed, NoneYet, Settled
<1>5. QED BY <1>3, <1>4 DEF Others, Inv

\* The presentation of the end is over.
LEMMA FinishKeeps == Inv /\ FinishPresentation => Inv'
<1> SUFFICES ASSUME Inv, FinishPresentation PROVE Inv'
  OBVIOUS
<1>1. /\ UNCHANGED <<runVars, server, pipe>> /\ snapshot' = snapshot /\ budget' = budget
      /\ settledAt' = settledAt
      /\ page' = [page EXCEPT !.finalizing = FALSE]
  BY DEF FinishPresentation, runVars, lifeVars
<1>2. /\ page' \in Pages /\ page'.lastSeq = page.lastSeq /\ page'.following = page.following
      /\ page'.conn = page.conn /\ page'.resume = page.resume
      /\ page'.resumeSeq = page.resumeSeq /\ page'.finalizing = FALSE
  BY <1>1, PageFields DEF Pages
<1>3. Others' BY <1>1, <1>2, PageFields, PageAlone DEF NoneYet
<1>4. Undisturbed' BY <1>1, <1>2 DEF Inv, Undisturbed, NoneYet, Settled
<1>5. QED BY <1>3, <1>4 DEF Others, Inv

\* Following starts where the page has been told to start.
LEMMA StartEffect ==
  ASSUME NEW p \in Pages, NEW after \in Seqs, Start(p, after)
  PROVE  /\ page' \in Pages /\ page'.following = TRUE /\ page'.lastSeq = after
         /\ page'.conn = "opening" /\ snapshot' = after /\ Hangup
         /\ page'.resume = p.resume /\ page'.resumeSeq = p.resumeSeq
         /\ page'.finalizing = p.finalizing
BY DEF Start, Pages

\* A timer that runs out reconnects where the page is, or does nothing.
LEMMA TimerKeeps == Inv /\ FireTimer => Inv'
<1> SUFFICES ASSUME Inv, FireTimer PROVE Inv'
  OBVIOUS
<1> DEFINE rung == [page EXCEPT !.timers = @ - 1]
<1>1. /\ UNCHANGED runVars /\ status' = status /\ settledAt' = settledAt
      /\ page.timers > 0
      /\ IF Unhurried THEN UNCHANGED budget ELSE Spend("overtakes")
      /\ IF page.following /\ page.conn = "none" THEN Start(rung, page.lastSeq)
         ELSE page' = rung /\ UNCHANGED <<snapshot, server, pipe>>
  BY DEF FireTimer, runVars, lifeVars
<1>2. /\ rung \in Pages /\ rung.lastSeq = page.lastSeq /\ rung.following = page.following
      /\ rung.conn = page.conn /\ rung.resume = page.resume
      /\ rung.resumeSeq = page.resumeSeq /\ rung.finalizing = page.finalizing
  BY <1>1, PageFields DEF Pages
<1> HIDE DEF rung
<1>3. /\ budget' \in Budget /\ (NoneYet("outages")' => NoneYet("outages"))
      /\ (NoneYet("overtakes")' => NoneYet("overtakes"))
      /\ (NoneYet("expiries")' => NoneYet("expiries"))
      /\ (NoneYet("overtakes")' => page.resume = "no")
  <2>1. CASE Unhurried BY <1>1, <2>1, PageFields DEF NoneYet, Unhurried
  <2>2. CASE ~Unhurried BY <1>1, <2>2, PageFields, SpendEffect
  <2>3. QED BY <2>1, <2>2
<1>4. CASE page.following /\ page.conn = "none"
  <2>1. Start(rung, page.lastSeq) BY <1>1, <1>4
  <2>2. /\ page' \in Pages /\ page'.following = TRUE /\ page'.lastSeq = page.lastSeq
        /\ page'.conn = "opening" /\ snapshot' = page.lastSeq /\ Hangup
        /\ page'.resume = page.resume /\ page'.resumeSeq = page.resumeSeq
        /\ page'.finalizing = page.finalizing
    BY <1>2, <2>1, PageFields, StartEffect
  <2>3. Others' BY <1>1, <1>3, <2>2, PageFields, HungUp
  <2>4. Undisturbed' BY <1>1, <1>3, <1>4, <2>2 DEF Inv, Undisturbed, Settled
  <2>5. QED BY <2>3, <2>4 DEF Others, Inv
<1>5. CASE ~(page.following /\ page.conn = "none")
  <2>1. page' = rung /\ UNCHANGED <<snapshot, server, pipe>> BY <1>1, <1>5
  <2>2. UNCHANGED <<runVars, server, pipe>> BY <1>1, <2>1
  <2>3. Others' BY <1>2, <1>3, <2>1, <2>2, PageFields, PageAlone
  <2>4. Undisturbed' BY <1>1, <1>2, <1>3, <2>1 DEF Inv, Undisturbed, Settled
  <2>5. QED BY <2>3, <2>4 DEF Others, Inv
<1>6. QED BY <1>4, <1>5

\* The resume reads where to go on before it asks for the run.
LEMMA BeginResumeKeeps == Inv /\ BeginResume => Inv'
<1> SUFFICES ASSUME Inv, BeginResume PROVE Inv'
  OBVIOUS
<1>1. /\ UNCHANGED <<runVars, server, pipe>> /\ status' = status /\ settledAt' = settledAt
      /\ snapshot' = snapshot
      /\ page.resume = "due"
      /\ IF page.finalizing THEN Spend("overtakes") ELSE UNCHANGED budget
      /\ page' = IF page.conn # "none" THEN [page EXCEPT !.resume = "no"]
                 ELSE IF snapshot = NoSnapshot THEN [page EXCEPT !.resume = "active"]
                 ELSE [page EXCEPT !.resume = "ask", !.resumeSeq = snapshot]
  BY DEF BeginResume, runVars, lifeVars
<1>2. /\ page' \in Pages /\ page'.lastSeq = page.lastSeq /\ page'.following = page.following
      /\ page'.conn = page.conn /\ page'.finalizing = page.finalizing
      /\ page'.resumeSeq = page.resumeSeq \/ page'.resumeSeq = snapshot
  BY <1>1, PageFields DEF Pages
<1>3. \/ page.conn # "none" /\ page'.resume = "no"
      \/ page.conn = "none" /\ snapshot = NoSnapshot /\ page'.resume = "active"
      \/ /\ page.conn = "none" /\ snapshot # NoSnapshot
         /\ page'.resume = "ask" /\ page'.resumeSeq = snapshot
  BY <1>1, PageFields DEF Pages
<1>4. /\ budget' \in Budget /\ (NoneYet("outages")' => NoneYet("outages"))
      /\ (NoneYet("overtakes")' => NoneYet("overtakes"))
      /\ (NoneYet("expiries")' => NoneYet("expiries"))
      /\ (NoneYet("overtakes")' => ~page.finalizing)
  <2>1. CASE page.finalizing BY <1>1, <2>1, PageFields, SpendEffect
  <2>2. CASE ~page.finalizing BY <1>1, <2>2, PageFields DEF NoneYet
  <2>3. QED BY <2>1, <2>2
<1>5. Others' BY <1>1, <1>2, <1>4, PageFields, PageAlone
<1>6. Undisturbed'
  BY <1>1, <1>2, <1>3, <1>4, PageFields DEF Inv, Undisturbed, Settled
<1>7. QED BY <1>5, <1>6 DEF Others, Inv

\* A resume that comes too late for the snapshot forgets it.
LEMMA BeginLateKeeps == Inv /\ BeginResumeLate => Inv'
<1> SUFFICES ASSUME Inv, BeginResumeLate PROVE Inv'
  OBVIOUS
<1>1. /\ UNCHANGED <<runVars, server, pipe>> /\ snapshot' = NoSnapshot
      /\ Spend("expiries") /\ page' = [page EXCEPT !.resume = "active"]
  BY DEF BeginResumeLate
<1>2. /\ page' \in Pages /\ page'.lastSeq = page.lastSeq /\ page'.following = page.following
      /\ page'.conn = page.conn /\ page'.resumeSeq = page.resumeSeq
  BY <1>1, PageFields DEF Pages
<1>3. /\ budget' \in Budget /\ (NoneYet("outages")' => NoneYet("outages"))
      /\ ~NoneYet("expiries")'
  BY <1>1, PageFields, SpendEffect
<1>4. Others' BY <1>1, <1>2, <1>3, PageFields, PageAlone
<1>5. Undisturbed' BY <1>3 DEF Undisturbed
<1>6. QED BY <1>4, <1>5 DEF Others, Inv

\* The answer about the run: follow it from where the resume read, or forget it.
LEMMA AskRunKeeps == Inv /\ AskRun => Inv'
<1> SUFFICES ASSUME Inv, AskRun PROVE Inv'
  OBVIOUS
<1> DEFINE p == [page EXCEPT !.resume = "no"]
           q == [page EXCEPT !.resume = "active"]
<1>1. /\ UNCHANGED runVars /\ status' = status /\ settledAt' = settledAt
      /\ page.resume = "ask"
      /\ \/ status \in Open /\ UNCHANGED budget /\ Start(p, page.resumeSeq)
         \/ /\ (status \in Terminal /\ UNCHANGED budget) \/ Spend("outages")
            /\ page' = q /\ snapshot' = NoSnapshot
            /\ UNCHANGED <<server, pipe>>
  BY DEF AskRun, runVars, lifeVars
<1>2. /\ p \in Pages /\ p.resume = "no" /\ p.resumeSeq = page.resumeSeq
      /\ p.finalizing = page.finalizing
      /\ q \in Pages /\ q.resume = "active" /\ q.resumeSeq = page.resumeSeq
      /\ q.finalizing = page.finalizing /\ q.lastSeq = page.lastSeq
      /\ q.following = page.following /\ q.conn = page.conn
  BY PageFields DEF Pages
<1> HIDE DEF p, q
<1>3. CASE status \in Open /\ UNCHANGED budget /\ Start(p, page.resumeSeq)
  <2>1. /\ page' \in Pages /\ page'.following = TRUE /\ page'.lastSeq = page.resumeSeq
        /\ page'.conn = "opening" /\ snapshot' = page.resumeSeq /\ Hangup
        /\ page'.resume = "no" /\ page'.resumeSeq = page.resumeSeq
        /\ page'.finalizing = page.finalizing
    BY <1>2, <1>3, PageFields, StartEffect
  <2>2. Others' BY <1>1, <1>3, <2>1, PageFields, HungUp
  <2>3. Undisturbed' BY <1>1, <1>3, <2>1 DEF Inv, Undisturbed, NoneYet, Settled
  <2>4. QED BY <2>2, <2>3 DEF Others, Inv
<1>4. CASE /\ (status \in Terminal /\ UNCHANGED budget) \/ Spend("outages")
           /\ page' = q /\ snapshot' = NoSnapshot
           /\ UNCHANGED <<server, pipe>>
  <2>1. /\ budget' \in Budget /\ (NoneYet("outages")' => NoneYet("outages"))
        /\ (NoneYet("overtakes")' => NoneYet("overtakes"))
        /\ (NoneYet("expiries")' => NoneYet("expiries"))
        /\ status \in Terminal \/ ~NoneYet("outages")'
    BY <1>4, PageFields, SpendEffect DEF NoneYet
  <2>2. UNCHANGED <<runVars, server, pipe>> BY <1>1, <1>4
  <2>3. Others' BY <1>2, <1>4, <2>1, <2>2, PageFields, PageAlone
  <2>4. Undisturbed' BY <1>1, <1>2, <1>4, <2>1 DEF Inv, Undisturbed, Settled, Truthful
  <2>5. QED BY <2>3, <2>4 DEF Others, Inv
<1>5. QED BY <1>1, <1>3, <1>4

\* The answer about the thread: follow its run from the start, or follow nothing.
LEMMA AskActiveKeeps == Inv /\ AskActiveRun => Inv'
<1> SUFFICES ASSUME Inv, AskActiveRun PROVE Inv'
  OBVIOUS
<1> DEFINE p == [page EXCEPT !.resume = "no"]
           q == [page EXCEPT !.resume = "no", !.following = FALSE, !.lastSeq = 0]
<1>1. /\ UNCHANGED runVars /\ status' = status /\ settledAt' = settledAt
      /\ page.resume = "active"
      /\ \/ status \in Open /\ Start(p, 0) /\ UNCHANGED budget
         \/ /\ (status \in Terminal /\ UNCHANGED budget) \/ Spend("outages")
            /\ page' = q /\ snapshot' = NoSnapshot
            /\ UNCHANGED <<server, pipe>>
  BY DEF AskActiveRun, runVars, lifeVars
<1>2. /\ p \in Pages /\ p.resume = "no" /\ p.resumeSeq = page.resumeSeq
      /\ p.finalizing = page.finalizing
      /\ q \in Pages /\ q.resume = "no" /\ q.resumeSeq = page.resumeSeq
      /\ q.finalizing = page.finalizing /\ q.lastSeq = 0
      /\ q.following = FALSE /\ q.conn = page.conn
  BY PageFields DEF Pages
<1> HIDE DEF p, q
<1>3. CASE status \in Open /\ Start(p, 0) /\ UNCHANGED budget
  <2>1. /\ page' \in Pages /\ page'.following = TRUE /\ page'.lastSeq = 0
        /\ page'.conn = "opening" /\ snapshot' = 0 /\ Hangup
        /\ page'.resume = "no" /\ page'.resumeSeq = page.resumeSeq
        /\ page'.finalizing = page.finalizing
    BY <1>2, <1>3, PageFields, StartEffect
  <2>2. Others' BY <1>1, <1>3, <2>1, PageFields, HungUp
  <2>3. Undisturbed' BY <1>1, <1>3, <2>1 DEF Inv, Undisturbed, NoneYet, Settled
  <2>4. QED BY <2>2, <2>3 DEF Others, Inv
<1>4. CASE /\ (status \in Terminal /\ UNCHANGED budget) \/ Spend("outages")
           /\ page' = q /\ snapshot' = NoSnapshot
           /\ UNCHANGED <<server, pipe>>
  <2>1. /\ budget' \in Budget /\ (NoneYet("outages")' => NoneYet("outages"))
        /\ (NoneYet("overtakes")' => NoneYet("overtakes"))
        /\ (NoneYet("expiries")' => NoneYet("expiries"))
        /\ status \in Terminal \/ Outage'
    BY <1>4, PageFields, SpendEffect DEF NoneYet, Outage
  <2>2. UNCHANGED <<runVars, server, pipe>> BY <1>1, <1>4
  <2>3. Others' BY <1>2, <1>4, <2>1, <2>2, PageFields, PageAlone
  <2>4. Undisturbed' BY <1>1, <1>2, <1>4, <2>1 DEF Inv, Undisturbed, Settled
  <2>5. QED BY <2>3, <2>4 DEF Others, Inv
<1>5. QED BY <1>1, <1>3, <1>4

\* The presentation of the end is begun unless it is under way.
LEMMA FinalizeEffect ==
  ASSUME NEW p \in Pages, Finalize(p)
  PROVE  /\ page' \in Pages /\ page'.conn = p.conn /\ page'.lastSeq = p.lastSeq
         /\ page'.resume = p.resume /\ page'.resumeSeq = p.resumeSeq
         /\ \/ /\ p.finalizing /\ page'.finalizing /\ snapshot' = snapshot
               /\ page'.following = p.following
            \/ /\ ~p.finalizing /\ page'.finalizing /\ snapshot' = NoSnapshot
               /\ page'.following = FALSE
<1>1. CASE p.finalizing BY <1>1 DEF Finalize
<1>2. CASE ~p.finalizing BY <1>2 DEF Finalize, Pages
<1>3. QED BY <1>1, <1>2

\* The frame at the head is ignored, is taken, ends the following, or is met while
\* the end is being presented.
Ignores == page' = page /\ snapshot' = snapshot
Moves(f) == /\ f.type = "event" /\ f.seq > page.lastSeq /\ page'.lastSeq = f.seq
            /\ page'.following = page.following /\ page'.finalizing = page.finalizing
            /\ \/ snapshot' = f.seq /\ log[f.seq] \notin Ending
               \/ page.finalizing /\ snapshot' = snapshot
Ends(f) == /\ ~page.finalizing /\ page'.finalizing /\ page'.following = FALSE
           /\ snapshot' = NoSnapshot
           /\ \/ f.type = "event" /\ page'.lastSeq = f.seq /\ log[f.seq] \in Ending
              \/ /\ f.type # "event" /\ page'.lastSeq = page.lastSeq
                 /\ \/ f.type = "close" /\ f.status \in Terminal
                    \/ f.type = "unavailable"
Waits(f) == /\ f.type # "event" /\ page'.lastSeq = page.lastSeq /\ snapshot' = snapshot
            /\ page'.following = page.following /\ page'.finalizing = page.finalizing

\* These are the ways a frame is received.
LEMMA ReceiveEffect ==
  ASSUME Inv, Receive, NEW f, f = Head(pipe)
  PROVE  /\ UNCHANGED <<runVars, server, budget>>
         /\ page.conn = "open" /\ pipe # <<>> /\ pipe' = Tail(pipe)
         /\ page' \in Pages /\ page'.conn = "open"
         /\ page'.resume = page.resume /\ page'.resumeSeq = page.resumeSeq
         /\ \/ Ignores /\ (~page.following \/ (f.type = "event" /\ f.seq <= page.lastSeq))
            \/ page.following /\ (Moves(f) \/ Ends(f) \/ Waits(f))
<1>1. /\ UNCHANGED <<runVars, server, budget>>
      /\ page.conn = "open" /\ pipe # <<>> /\ pipe' = Tail(pipe)
  BY DEF Receive
<1>2. page \in Pages /\ page.lastSeq \in Nat /\ page.timers \in Nat
  BY PageFields DEF Pages
<1>3. /\ f.type \in {"event", "close", "unavailable"}
      /\ f.type = "event" => f.seq \in Seqs /\ f.seq \in Nat
  BY <1>1, TailOf, FrameFields, StreamFields DEF Inv, Seqs
<1>4. CASE ~page.following \/ (f.type = "event" /\ f.seq <= page.lastSeq)
  <2>1. UNCHANGED <<page, snapshot>> BY <1>4 DEF Receive
  <2>2. QED BY <1>1, <1>2, <1>4, <2>1 DEF Ignores
<1>5. CASE page.following /\ ~(f.type = "event" /\ f.seq <= page.lastSeq)
  <2>1. CASE f.type = "event"
    <3>1. HandleEvent(f.seq) BY <1>5, <2>1 DEF Receive
    <3> DEFINE seen == [page EXCEPT !.lastSeq = f.seq]
    <3>2. /\ seen \in Pages /\ seen.lastSeq = f.seq /\ seen.conn = page.conn
          /\ seen.following = page.following /\ seen.finalizing = page.finalizing
          /\ seen.resume = page.resume /\ seen.resumeSeq = page.resumeSeq
      BY <1>2, <1>3, <2>1 DEF Pages
    <3>3. f.seq > page.lastSeq BY <1>2, <1>3, <1>5, <2>1
    <3>4. IF log[f.seq] \in Ending THEN Finalize(seen)
          ELSE page' = seen /\ snapshot' = f.seq
      BY <3>1 DEF HandleEvent
    <3> HIDE DEF seen
    <3>5. CASE log[f.seq] \in Ending
      <4>1. Finalize(seen) BY <3>4, <3>5
      <4>2. QED
        BY <1>1, <1>5, <2>1, <3>2, <3>3, <3>5, <4>1, FinalizeEffect DEF Moves, Ends
    <3>6. CASE log[f.seq] \notin Ending
      BY <1>1, <1>5, <2>1, <3>2, <3>3, <3>4, <3>6 DEF Moves
    <3>7. QED BY <3>5, <3>6
  <2>2. CASE f.type = "close"
    <3>1. HandleClose(f.status) BY <1>5, <2>2 DEF Receive
    <3>2. CASE f.status \in Terminal
      <4>1. Finalize(page) BY <3>1, <3>2 DEF HandleClose
      <4>2. QED BY <1>1, <1>2, <1>5, <2>2, <3>2, <4>1, FinalizeEffect DEF Ends, Waits
    <3>3. CASE f.status \notin Terminal
      <4>1. page' = [page EXCEPT !.timers = page.timers + 1] /\ snapshot' = snapshot
        BY <3>1, <3>3 DEF HandleClose
      <4>2. /\ page' \in Pages /\ page'.lastSeq = page.lastSeq /\ page'.conn = page.conn
            /\ page'.following = page.following /\ page'.finalizing = page.finalizing
            /\ page'.resume = page.resume /\ page'.resumeSeq = page.resumeSeq
        BY <1>2, <4>1 DEF Pages
      <4>3. QED BY <1>1, <1>5, <2>2, <4>1, <4>2 DEF Waits
    <3>4. QED BY <3>2, <3>3
  <2>3. CASE f.type = "unavailable"
    <3>1. Finalize(page) BY <1>5, <2>3 DEF Receive
    <3>2. QED BY <1>1, <1>2, <1>5, <2>3, <3>1, FinalizeEffect DEF Ends, Waits
  <2>4. QED BY <1>3, <2>1, <2>2, <2>3
<1>6. QED BY <1>4, <1>5

\* What the page takes from the connection is the next event, and it stops for a
\* reason.
LEMMA ReceiveKeeps == Inv /\ Receive => Inv'
<1> SUFFICES ASSUME Inv, Receive PROVE Inv'
  OBVIOUS
<1> USE DEF Inv
<1> DEFINE f == Head(pipe)
<1>1. /\ status' = status /\ log' = log /\ plain' = plain /\ asked' = asked
      /\ settledAt' = settledAt
      /\ server' = server /\ budget' = budget
      /\ page.conn = "open" /\ pipe # <<>> /\ pipe' = Tail(pipe)
      /\ page' \in Pages /\ page'.conn = "open"
      /\ page'.resume = page.resume /\ page'.resumeSeq = page.resumeSeq
  BY ReceiveEffect DEF runVars, lifeVars
<1>2. \/ Ignores /\ (~page.following \/ (f.type = "event" /\ f.seq <= page.lastSeq))
      \/ page.following /\ (Moves(f) \/ Ends(f) \/ Waits(f))
  BY ReceiveEffect
<1>3. /\ page.lastSeq \in Nat /\ Len(log) \in Nat /\ Len(pipe) \in Nat \ {0}
      /\ \A s \in Terminal : settledAt[s] \in Nat
      /\ MaxLog \in Nat /\ Len(log) <= MaxLog /\ page.lastSeq <= Len(log)
      /\ pipe \in Seq(Frames)
  BY <1>1, TailOf, StreamFields, PageFields
<1>4. /\ f = pipe[1] /\ f \in Frames
      /\ pipe' \in Seq(Frames) /\ Len(pipe') = Len(pipe) - 1
      /\ \A i \in 1..Len(pipe') : pipe'[i] = pipe[i + 1] /\ i + 1 \in 1..Len(pipe)
  BY <1>1, <1>3, TailOf
<1> HIDE DEF f
<1>5. f.type = "event" => f.seq \in 1..Len(log) /\ f.seq \in Seqs /\ f.seq \in Nat
  BY <1>3, <1>4, FrameFields DEF Within
<1>6. page.following /\ f.type = "event" => f.seq = page.lastSeq + 1
  BY <1>1, <1>3, <1>4 DEF Chain
<1>7. f.type # "event" => server.pc = "off" /\ \A i \in 1..Len(pipe') : pipe'[i].type # "event"
  <2> SUFFICES ASSUME f.type # "event"
               PROVE  server.pc = "off" /\ \A i \in 1..Len(pipe') : pipe'[i].type # "event"
    OBVIOUS
  <2>1. 1 \in 1..Len(pipe) BY <1>3
  <2>2. server.pc = "off" BY <1>4, <2>1 DEF Ordered
  <2>3. ASSUME NEW i \in 1..Len(pipe') PROVE pipe'[i].type # "event"
    <3>1. /\ i + 1 \in 1..Len(pipe) /\ pipe'[i] = pipe[i + 1] BY <1>4
    <3>2. 1 < i + 1 OBVIOUS
    <3>3. pipe[i + 1].type # "event" BY <1>4, <2>1, <3>1, <3>2 DEF Ordered
    <3>4. QED BY <3>1, <3>3
  <2>4. QED BY <2>2, <2>3
<1>8. \/ Ignores /\ ~page.following
      \/ page.following /\ (Moves(f) \/ Ends(f) \/ Waits(f))
  BY <1>2, <1>3, <1>5, <1>6
<1>9. /\ page'.following => page.following
      /\ page'.following /\ f.type = "event" => page'.lastSeq = page.lastSeq + 1
      /\ page'.following /\ f.type # "event" => page'.lastSeq = page.lastSeq
  BY <1>6, <1>8 DEF Ignores, Moves, Ends, Waits
<1>10. /\ page'.lastSeq \in Nat /\ page.lastSeq <= page'.lastSeq /\ page'.lastSeq <= Len(log)
       /\ snapshot' \in Seqs \cup {NoSnapshot} /\ snapshot' <= Len(log)
  BY <1>3, <1>5, <1>6, <1>8, PageFields DEF Ignores, Moves, Ends, Waits
<1>11. StreamTypeOK' BY <1>1, <1>4, <1>10 DEF StreamTypeOK, LifeTypeOK
<1>12. Hung' BY <1>1 DEF Hung
<1>13. Within' BY <1>1, <1>4, <1>10 DEF Within
<1>14. Ordered'
  <2>1. server'.pc # "off" => \A i \in 1..Len(pipe') : pipe'[i].type = "event"
    BY <1>1, <1>4 DEF Ordered
  <2>2. \A i, j \in 1..Len(pipe') : i < j /\ pipe'[j].type = "event" => pipe'[i].type = "event"
    <3> SUFFICES ASSUME NEW i \in 1..Len(pipe'), NEW j \in 1..Len(pipe'), i < j,
                        pipe'[j].type = "event"
                 PROVE  pipe'[i].type = "event"
      OBVIOUS
    <3>1. /\ i + 1 \in 1..Len(pipe) /\ j + 1 \in 1..Len(pipe) /\ i + 1 < j + 1
      BY <1>3, <1>4, PlacesOfTail
    <3>2. pipe'[i] = pipe[i + 1] /\ pipe'[j] = pipe[j + 1] BY <1>4
    <3>3. pipe[i + 1].type = "event" BY <3>1, <3>2 DEF Ordered
    <3>4. QED BY <3>2, <3>3
  <2>3. QED BY <2>1, <2>2 DEF Ordered
<1>15. Chain'
  <2> SUFFICES ASSUME page'.following
               PROVE  /\ \A i \in 1..Len(pipe') : pipe'[i].type = "event" =>
                           pipe'[i].seq = page'.lastSeq + i
                      /\ server'.pc # "off" => server'.last = page'.lastSeq + Len(pipe')
    BY DEF Chain
  <2>1. page.following BY <1>9
  <2>2. CASE f.type = "event"
    <3>1. page'.lastSeq = page.lastSeq + 1 BY <1>9, <2>2
    <3>2. \A i \in 1..Len(pipe') : pipe'[i].type = "event" =>
            pipe'[i].seq = page.lastSeq + (i + 1)
      BY <1>1, <1>4, <2>1 DEF Chain
    <3>3. server.pc # "off" => server.last = page.lastSeq + Len(pipe)
      BY <1>1, <2>1 DEF Chain
    <3>4. \A i \in 1..Len(pipe') : page.lastSeq + (i + 1) = page'.lastSeq + i
      BY <1>3, <3>1
    <3>5. page.lastSeq + Len(pipe) = page'.lastSeq + Len(pipe')
      BY <1>3, <1>4, <3>1
    <3>6. QED BY <1>1, <3>2, <3>3, <3>4, <3>5
  <2>3. CASE f.type # "event" BY <1>1, <1>7, <2>3
  <2>4. QED BY <2>2, <2>3
<1>16. Truthful' BY <1>1, <1>4 DEF Truthful
<1>17. NothingAfterClose'
  <2> SUFFICES ASSUME NEW i \in 1..Len(pipe'), page'.following, pipe'[i].type = "close",
                      pipe'[i].status \in Terminal, NEW end, end = settledAt[pipe'[i].status],
                      ~(page'.lastSeq >= end)
               PROVE  \E j \in 1..(i - 1) : pipe'[j] = [type |-> "event", seq |-> end]
    BY <1>1 DEF NothingAfterClose
  <2>1. i + 1 \in 1..Len(pipe) /\ pipe'[i] = pipe[i + 1] BY <1>4
  <2>2. end \in Nat /\ ~(page.lastSeq >= end) BY <1>3, <1>10
  <2>3. page.following BY <1>9
  <2>4. \E j \in 1..((i + 1) - 1) : pipe[j] = [type |-> "event", seq |-> end]
    BY <2>1, <2>2, <2>3 DEF NothingAfterClose
  <2>5. PICK j \in 1..((i + 1) - 1) : pipe[j] = [type |-> "event", seq |-> end]
    BY <2>4
  <2>6. j # 1
    <3> SUFFICES ASSUME j = 1 PROVE FALSE
      OBVIOUS
    <3>1. f.type = "event" /\ f.seq = end BY <1>4, <2>5
    <3>2. page'.lastSeq = end BY <1>6, <1>9, <2>3, <3>1
    <3>3. QED BY <1>3, <2>2, <3>2
  <2>7. /\ j - 1 \in 1..(i - 1) /\ j - 1 \in 1..Len(pipe') /\ (j - 1) + 1 = j
    BY <1>3, <1>4, <2>5, <2>6
  <2>8. pipe'[j - 1] = [type |-> "event", seq |-> end]
    BY <1>4, <2>5, <2>7
  <2>9. QED BY <2>7, <2>8
<1>18. Over => Over'
  BY <1>1, <1>3, <1>10 DEF Over, Settled
<1>19. Stopped'
  <2>1. \A i \in 1..Len(pipe') : pipe'[i].type = "unavailable" => Outage'
    BY <1>1, <1>4 DEF Stopped, Outage, NoneYet
  <2>2. f.type = "unavailable" => Outage' BY <1>1, <1>3, <1>4 DEF Stopped, Outage, NoneYet
  <2>3. f.type = "close" /\ f.status \in Terminal => Over'
    BY <1>1, <1>3, <1>4 DEF Truthful, Over, Settled
  <2>4. ~page'.following => Over' \/ Outage'
    <3> SUFFICES ASSUME ~page'.following PROVE Over' \/ Outage'
      OBVIOUS
    <3>1. CASE ~page.following
      BY <1>1, <1>18, <3>1 DEF Stopped, Outage, NoneYet
    <3>2. CASE page.following
      <4>1. Ends(f) BY <1>8, <3>2 DEF Moves, Waits
      <4>2. CASE f.type = "event" /\ page'.lastSeq = f.seq /\ log[f.seq] \in Ending
        <5>1. f.seq \in 1..page'.lastSeq /\ log'[f.seq] \in Ending
          BY <1>1, <1>5, <4>2
        <5>2. QED BY <5>1 DEF Over, Settled
      <4>3. QED BY <2>2, <2>3, <4>1, <4>2 DEF Ends
    <3>3. QED BY <3>1, <3>2
  <2>5. QED BY <2>1, <2>4 DEF Stopped
<1>20. Undisturbed'
  <2> SUFFICES ASSUME NoneYet("outages"), NoneYet("overtakes"), NoneYet("expiries")
               PROVE  Undisturbed'
    BY <1>1 DEF Undisturbed, NoneYet, Settled
  <2>1. /\ page.resume \notin {"ask", "active"}
        /\ page.finalizing => ~page.following
        /\ page.following => snapshot = page.lastSeq
    BY <1>1 DEF Undisturbed, Settled
  <2>2. page'.finalizing => ~page'.following
    BY <1>8, <2>1 DEF Ignores, Moves, Ends, Waits
  <2>3. page'.following => snapshot' = page'.lastSeq
    BY <1>8, <2>1 DEF Ignores, Moves, Ends, Waits
  <2>4. QED BY <1>1, <2>1, <2>2, <2>3 DEF Undisturbed, Settled
<1>21. AnnouncedInTime' BY <1>1 DEF AnnouncedInTime
<1>22. QED
  BY <1>11, <1>12, <1>13, <1>14, <1>15, <1>16, <1>17, <1>19, <1>20, <1>21 DEF Inv

-----------------------------------------------------------------------------
(* The theorems.                                                           *)

\* sendMessage starts with a page that follows a run of one event.
LEMMA StreamInit == Init => Inv
<1> SUFFICES ASSUME Init PROVE Inv
  OBVIOUS
<1>1. /\ status = "pending" /\ log = <<"init">> /\ plain \in BOOLEAN
      /\ asked = {} /\ settledAt = [s \in Terminal |-> 0]
      /\ server = NoServer /\ pipe = <<>> /\ snapshot = 0
      /\ page = [following |-> TRUE, lastSeq |-> 0, conn |-> "opening", timers |-> 0,
                 finalizing |-> FALSE, away |-> FALSE, resume |-> "no", resumeSeq |-> 0]
      /\ budget = FullBudget
  BY DEF Init, LifeInit
<1>2. /\ MaxLog \in Nat \ {0}
      /\ {MaxTrips, MaxCuts, MaxOutages, MaxExpiries, MaxOvertakes, MaxTroubles} \subseteq Nat
  BY StreamAssumption
<1>3. /\ status \in Open /\ status \notin Terminal
      /\ log \in Seq(Kinds) /\ Len(log) = 1
  BY <1>1 DEF Open, Terminal, Kinds
<1>4. 0 \in Seqs /\ server \in Servers /\ server.pc = "off" /\ server.seen \notin Terminal
  BY <1>1, <1>2 DEF Seqs, NoServer, Servers, Open, Terminal
<1>5. budget \in Budget BY <1>1, <1>2 DEF FullBudget, Budget
<1>6. /\ page \in Pages /\ page.following = TRUE /\ page.lastSeq = 0 /\ page.conn = "opening"
      /\ page.finalizing = FALSE /\ page.resume = "no" /\ page.resumeSeq = 0
  BY <1>1, <1>4 DEF Pages
<1>7. pipe \in Seq(Frames) /\ \A i \in 1..Len(pipe) : FALSE
  BY <1>1
<1>8. StreamTypeOK
  BY <1>1, <1>2, <1>3, <1>4, <1>5, <1>6, <1>7 DEF StreamTypeOK, LifeTypeOK
<1>9. Hung /\ Ordered /\ Truthful BY <1>1, <1>3, <1>4, <1>7 DEF Hung, Ordered, Truthful
<1>10. Within BY <1>1, <1>3, <1>6, <1>7 DEF Within
<1>11. Chain /\ Undisturbed BY <1>1, <1>6 DEF Chain, Undisturbed
<1>12. NothingAfterClose /\ AnnouncedInTime
  BY <1>1, <1>7 DEF NothingAfterClose, AnnouncedInTime
<1>13. Stopped BY <1>6, <1>7 DEF Stopped
<1>14. QED BY <1>8, <1>9, <1>10, <1>11, <1>12, <1>13 DEF Inv

\* Every step keeps the invariant.
LEMMA StreamNext == Inv /\ [Next]_vars => Inv'
<1> SUFFICES ASSUME Inv, [Next]_vars PROVE Inv'
  OBVIOUS
<1>1. CASE RunStep BY <1>1, RunKeeps
<1>2. CASE ServerStep
  BY <1>2, PollKeeps, SendKeeps, FindNothingKeeps, CloseOldKeeps DEF ServerStep
<1>3. CASE PageStep
  BY <1>3, ConnectKeeps, ReceiveKeeps, EndOfStreamKeeps, TimerKeeps, FinishKeeps,
     ReturnKeeps, BeginResumeKeeps, BeginLateKeeps, AskRunKeeps, AskActiveKeeps DEF PageStep
<1>4. CASE Disturbance
  BY <1>4, OutageKeeps, ShutDownKeeps, CutKeeps, LeaveKeeps, ReloadKeeps DEF Disturbance
<1>5. CASE UNCHANGED vars
  <2>1. /\ status' = status /\ log' = log /\ plain' = plain /\ asked' = asked
      /\ settledAt' = settledAt
        /\ server' = server /\ pipe' = pipe /\ page' = page /\ snapshot' = snapshot
        /\ budget' = budget
    BY <1>5 DEF vars, lifeVars, streamVars
  <2>2. StreamTypeOK' BY <2>1 DEF Inv, StreamTypeOK, LifeTypeOK
  <2>7. Hung' /\ Within' /\ Ordered' /\ Chain'
    BY <2>1 DEF Inv, Hung, Within, Ordered, Chain
  <2>3. Truthful' /\ NothingAfterClose' /\ AnnouncedInTime'
    BY <2>1 DEF Inv, Truthful, NothingAfterClose, AnnouncedInTime
  <2>4. Stopped' BY <2>1 DEF Inv, Stopped, Over, Settled, Outage, NoneYet
  <2>5. Undisturbed' BY <2>1 DEF Inv, Undisturbed, NoneYet, Settled
  <2>6. QED BY <2>2, <2>3, <2>4, <2>5, <2>7 DEF Inv
<1>6. QED BY <1>1, <1>2, <1>3, <1>4, <1>5 DEF Next

\* The invariant holds of every state that can be reached.
LEMMA StreamInvariant == Spec => []Inv
<1>1. QED BY StreamInit, StreamNext, PTL DEF Spec

\* The variables keep their types, and every position is one of the log: no frame,
\* snapshot or resume names an event that was not written.
THEOREM StreamTypeCorrect == Spec => [](StreamTypeOK /\ Within)
<1>1. Inv => StreamTypeOK /\ Within BY DEF Inv
<1>2. QED BY StreamInvariant, <1>1, PTL

\* However the reading of the row and the reading of the events fall between the
\* writes of the worker, everything written before the run was settled reaches the
\* page before a close frame with a final status.
THEOREM NothingAfterCloseCorrect == Spec => []NothingAfterClose
<1>1. Inv => NothingAfterClose BY DEF Inv
<1>2. QED BY StreamInvariant, <1>1, PTL

\* What was used is not given back.
LEMMA BudgetShrinks ==
  ASSUME Inv, [Next]_vars
  PROVE  /\ NoneYet("outages")' => NoneYet("outages")
         /\ NoneYet("overtakes")' => NoneYet("overtakes")
         /\ NoneYet("expiries")' => NoneYet("expiries")
<1>1. budget \in Budget BY PageFields
<1>2. budget' = budget =>
        /\ NoneYet("outages")' => NoneYet("outages")
        /\ NoneYet("overtakes")' => NoneYet("overtakes")
        /\ NoneYet("expiries")' => NoneYet("expiries")
  BY DEF NoneYet
<1>3. \/ budget' = budget
      \/ Spend("trips") \/ Spend("cuts") \/ Spend("outages") \/ Spend("expiries")
      \/ Spend("overtakes")
  <2>1. CASE RunStep BY <2>1, RunEffect DEF Inv, streamVars
  <2>2. CASE ServerStep
    BY <2>2 DEF ServerStep, PollRow, SendPage, FindNothing, CloseOldConnection
  <2>3. CASE PageStep
    BY <2>3 DEF PageStep, Connect, Receive, EndOfStream, FireTimer, FinishPresentation,
                Return, BeginResume, BeginResumeLate, AskRun, AskActiveRun
  <2>4. CASE Disturbance
    BY <2>4 DEF Disturbance, ReportOutage, ShutDown, CutConnection, Leave, Reload
  <2>5. CASE UNCHANGED vars BY <2>5 DEF vars, streamVars
  <2>6. QED BY <2>1, <2>2, <2>3, <2>4, <2>5 DEF Next
<1>4. QED BY <1>1, <1>2, <1>3, SpendEffect

\* What a step other than a receipt does to the position of the page: nothing, or it
\* forgets it, takes up the one it asked with, or starts from the beginning.
Stays == /\ page'.lastSeq = page.lastSeq /\ page'.following = page.following
         /\ page.resume # "no" /\ page'.resume = "no" => page.conn # "none"
Forgets == /\ ~page'.following /\ page'.lastSeq = 0
           /\ \/ page'.resume # "no"
              \/ status \in Terminal \/ Outage'
Resumes == /\ page.resume = "ask" /\ page'.following /\ page'.lastSeq = page.resumeSeq
           /\ page'.conn = "opening"
Restarts == /\ page.resume = "active" /\ page'.following /\ page'.lastSeq = 0
            /\ page'.conn = "opening" /\ status \notin Terminal

\* These are all the steps there are.
LEMMA PageMoves ==
  ASSUME Inv, [Next]_vars, ~Receive
  PROVE  Stays \/ Forgets \/ Resumes \/ Restarts
<1>1. page \in Pages /\ page.lastSeq \in Seqs /\ page.resumeSeq \in Seqs /\ 0 \in Seqs
      /\ budget \in Budget /\ Terminal \cap Open = {}
  BY PageFields
<1>2. page' = page => Stays BY DEF Stays
<1>3. CASE RunStep
  <2>1. page' = page BY <1>3, RunEffect DEF Inv, streamVars
  <2>2. QED BY <1>2, <2>1
<1>4. CASE ServerStep
  BY <1>2, <1>4 DEF ServerStep, PollRow, SendPage, FindNothing, CloseOldConnection
<1>5. CASE ReportOutage \/ ShutDown
  BY <1>2, <1>5 DEF ReportOutage, ShutDown
<1>6. CASE Connect BY <1>1, <1>6 DEF Connect, Stays, Pages
<1>7. CASE EndOfStream BY <1>1, <1>7 DEF EndOfStream, Stays, Pages
<1>8. CASE CutConnection BY <1>1, <1>8 DEF CutConnection, Stays, Pages
<1>9. CASE FinishPresentation BY <1>1, <1>9 DEF FinishPresentation, Stays, Pages
<1>10. CASE Leave BY <1>1, <1>10 DEF Leave, Stays, Pages
<1>11. CASE Return BY <1>1, <1>11 DEF Return, Stays, Pages
<1>12. CASE BeginResume BY <1>1, <1>12 DEF BeginResume, Stays, Pages
<1>13. CASE Reload BY <1>1, <1>13 DEF Reload, Forgets
<1>19. CASE BeginResumeLate BY <1>1, <1>19 DEF BeginResumeLate, Stays, Pages
<1>14. CASE FireTimer
  <2> DEFINE rung == [page EXCEPT !.timers = @ - 1]
  <2>1. /\ page.timers > 0
        /\ \/ page.following /\ Start(rung, page.lastSeq)
           \/ page' = rung
    BY <1>14 DEF FireTimer
  <2>2. rung \in Pages /\ rung.lastSeq = page.lastSeq /\ rung.following = page.following
        /\ rung.resume = page.resume
    BY <1>1, <2>1 DEF Pages
  <2> HIDE DEF rung
  <2>3. QED BY <1>1, <2>1, <2>2, StartEffect DEF Stays, Pages
<1>15. CASE AskRun
  <2> DEFINE p == [page EXCEPT !.resume = "no"]
  <2>1. /\ page.resume = "ask"
        /\ \/ Start(p, page.resumeSeq)
           \/ page' = [page EXCEPT !.resume = "active"]
    BY <1>15 DEF AskRun
  <2>2. p \in Pages BY <1>1 DEF Pages
  <2> HIDE DEF p
  <2>3. CASE Start(p, page.resumeSeq) BY <1>1, <2>1, <2>2, <2>3, StartEffect DEF Resumes
  <2>4. CASE page' = [page EXCEPT !.resume = "active"]
    BY <1>1, <2>4 DEF Stays, Pages
  <2>5. QED BY <2>1, <2>3, <2>4
<1>16. CASE AskActiveRun
  <2> DEFINE p == [page EXCEPT !.resume = "no"]
  <2>1. /\ page.resume = "active"
        /\ \/ status \in Open /\ Start(p, 0)
           \/ /\ status \in Terminal \/ Spend("outages")
              /\ page' = [page EXCEPT !.resume = "no", !.following = FALSE, !.lastSeq = 0]
    BY <1>16 DEF AskActiveRun
  <2>2. p \in Pages BY <1>1 DEF Pages
  <2> HIDE DEF p
  <2>3. CASE status \in Open /\ Start(p, 0)
    BY <1>1, <2>1, <2>2, <2>3, StartEffect DEF Restarts
  <2>4. CASE /\ status \in Terminal \/ Spend("outages")
             /\ page' = [page EXCEPT !.resume = "no", !.following = FALSE, !.lastSeq = 0]
    <3>1. ~page'.following /\ page'.lastSeq = 0 BY <1>1, <2>4 DEF Pages
    <3>2. status \in Terminal \/ Outage' BY <1>1, <2>4, SpendEffect DEF Outage
    <3>3. QED BY <3>1, <3>2 DEF Forgets
  <2>5. QED BY <2>1, <2>3, <2>4
<1>17. CASE UNCHANGED vars BY <1>2, <1>17 DEF vars, streamVars
<1>18. QED
  BY <1>3, <1>4, <1>5, <1>6, <1>7, <1>8, <1>9, <1>10, <1>11, <1>12, <1>13, <1>14,
     <1>15, <1>16, <1>17, <1>19 DEF Next, PageStep, Disturbance

\* A page that reads from a connection moves by one event.
LEMMA NextEventOnly ==
  ASSUME Inv, Receive, page'.lastSeq > page.lastSeq
  PROVE  page'.lastSeq = page.lastSeq + 1
<1> DEFINE f == Head(pipe)
<1>1. /\ page.conn = "open" /\ pipe # <<>>
      /\ \/ Ignores
         \/ page.following /\ (Moves(f) \/ Ends(f) \/ Waits(f))
  BY ReceiveEffect
<1>2. /\ page.lastSeq \in Nat /\ 1 \in 1..Len(pipe) /\ f = pipe[1]
  BY <1>1, TailOf, PageFields, StreamFields DEF Inv
<1>3. page.following /\ f.type = "event" => f.seq = page.lastSeq + 1
  BY <1>1, <1>2 DEF Inv, Chain
<1> HIDE DEF f
<1>4. QED BY <1>1, <1>2, <1>3 DEF Ignores, Moves, Ends, Waits

\* Over every page of events, broken connection, reconnect and late frame the page
\* reads the log without a hole.
THEOREM NoGapCorrect == Spec => NoGap
<1> DEFINE Step == page.conn = "open" /\ page'.conn = "open" /\ page'.lastSeq > page.lastSeq
                     => page'.lastSeq = page.lastSeq + 1
<1>1. ASSUME Inv, [Next]_vars PROVE Step
  <2>1. CASE Receive BY <1>1, <2>1, NextEventOnly
  <2>2. CASE ~Receive
    <3>1. Stays \/ Forgets \/ Resumes \/ Restarts BY <1>1, <2>2, PageMoves
    <3>2. page.lastSeq \in Nat BY <1>1, PageFields
    <3>3. QED BY <3>1, <3>2 DEF Stays, Forgets, Resumes, Restarts
  <2>3. QED BY <2>1, <2>2
<1>2. Inv /\ [Next]_vars => [Step]_vars BY <1>1
<1>3. QED BY StreamInvariant, <1>2, PTL DEF Spec, NoGap

\* Unless a request fails, something is overtaken, the user comes back too late or the
\* run is reopened, the page never goes back while it follows: the position a resume
\* took before its requests is still the right one when they are answered, and it
\* starts over only for a run that it does not follow.
THEOREM NoReplayCorrect == Spec => NoReplay
<1> DEFINE Step == page.following /\ page'.following /\ ~Reopened
                     /\ NoneYet("outages")' /\ NoneYet("overtakes")' /\ NoneYet("expiries")'
                     => page'.lastSeq >= page.lastSeq
<1>1. ASSUME Inv, [Next]_vars PROVE Step
  <2> SUFFICES ASSUME page.following, page'.following, ~Reopened,
                      NoneYet("outages")', NoneYet("overtakes")', NoneYet("expiries")'
               PROVE  page'.lastSeq >= page.lastSeq
    OBVIOUS
  <2>1. page.lastSeq \in Nat BY <1>1, PageFields
  <2>2. CASE Receive
    <3> DEFINE f == Head(pipe)
    <3>1. Ignores \/ Moves(f) \/ Ends(f) \/ Waits(f) BY <1>1, <2>2, ReceiveEffect
    <3>2. page'.lastSeq \in Int
      BY <1>1, <2>2, ReceiveEffect, StreamFields DEF Pages, Seqs, Inv
    <3> HIDE DEF f
    <3>3. page'.lastSeq = page.lastSeq \/ Moves(f)
      BY <3>1 DEF Ignores, Ends, Waits
    <3>4. Moves(f) => page'.lastSeq > page.lastSeq
      BY DEF Moves
    <3>5. QED BY <2>1, <3>2, <3>3, <3>4
  <2>3. CASE ~Receive
    <3>1. Stays \/ Forgets \/ Resumes \/ Restarts BY <1>1, <2>3, PageMoves
    <3>2. NoneYet("outages") /\ NoneYet("overtakes") /\ NoneYet("expiries")
      BY <1>1, BudgetShrinks
    <3>3. Undisturbed BY <1>1 DEF Inv
    <3>4. QED
      BY <2>1, <3>1, <3>2, <3>3 DEF Stays, Forgets, Resumes, Restarts, Undisturbed, Reopened
  <2>4. QED BY <2>2, <2>3
<1>2. Inv /\ [Next]_vars => [Step]_vars BY <1>1
<1>3. QED BY StreamInvariant, <1>2, PTL DEF Spec, NoReplay

\* The page gives up only when the run is over, or its outcome has been announced to
\* it, or a request failed: whatever close frames, timers and returns come in
\* between.
THEOREM StopsAtTheEndCorrect == Spec => StopsAtTheEnd
<1> DEFINE Step == Tracks /\ ~Tracks' => Over \/ Over' \/ ~NoneYet("outages")'
<1>1. ASSUME Inv, [Next]_vars PROVE Step
  <2> SUFFICES ASSUME Tracks, ~page'.following, page'.resume = "no"
               PROVE  Over \/ Over' \/ ~NoneYet("outages")'
    BY DEF Tracks
  <2>1. Inv' BY <1>1, StreamNext
  <2>2. ~NoneYet("outages") => ~NoneYet("outages")' BY <1>1, BudgetShrinks
  <2>3. CASE Receive
    <3>1. page'.conn = "open" BY <1>1, <2>3, ReceiveEffect
    <3>2. QED BY <2>1, <3>1 DEF Inv, Stopped, Outage
  <2>4. CASE ~Receive
    <3>1. Stays \/ Forgets \/ Resumes \/ Restarts BY <1>1, <2>4, PageMoves
    <3>2. CASE Stays
      BY <1>1, <2>2, <3>2 DEF Stays, Tracks, Inv, Stopped, Outage
    <3>3. status \in Terminal => Over BY <1>1 DEF Inv, Truthful, Over, Settled
    <3>4. QED BY <3>1, <3>2, <3>3 DEF Forgets, Resumes, Restarts, Outage
  <2>5. QED BY <2>3, <2>4
<1>2. Inv /\ [Next]_vars => [Step]_vars BY <1>1
<1>3. QED BY StreamInvariant, <1>2, PTL DEF Spec, StopsAtTheEnd

\* Whoever is told the outcome of a run has been told how it came about: when a
\* final close frame of a readable run is next, the event that announces the outcome
\* is among those the page has taken.
THEOREM OutcomeSeenCorrect == Spec => []OutcomeSeen
<1>1. ASSUME Inv PROVE OutcomeSeen
  <2> SUFFICES ASSUME plain, page.following, pipe # <<>>,
                      Head(pipe).type = "close", Head(pipe).status \in Terminal
               PROVE  \E n \in 1..page.lastSeq : log[n] \in Announcers[Head(pipe).status]
    BY DEF OutcomeSeen
  <2> DEFINE end == settledAt[Head(pipe).status]
  <2>1. Head(pipe) = pipe[1] /\ 1 \in 1..Len(pipe) /\ page.lastSeq \in Nat /\ end \in Nat
    BY <1>1, TailOf, StreamFields DEF Inv
  <2>2. end > 0 BY <1>1, <2>1 DEF Inv, Truthful
  <2>3. page.lastSeq >= end
    <3>1. \/ page.lastSeq >= end
          \/ \E j \in 1..(1 - 1) : pipe[j] = [type |-> "event", seq |-> end]
      BY <1>1, <2>1 DEF Inv, NothingAfterClose
    <3>2. QED BY <3>1
  <2>4. \E n \in 1..end : log[n] \in Announcers[Head(pipe).status]
    BY <1>1, <2>2 DEF Inv, AnnouncedInTime
  <2> HIDE DEF end
  <2>5. QED BY <2>1, <2>3, <2>4
<1>2. Inv => OutcomeSeen BY <1>1
<1>3. QED BY StreamInvariant, <1>2, PTL

-----------------------------------------------------------------------------
(* What the page shows as the outcome.                                     *)

NoEndingUpTo(n) == \A i \in 1..n : log[i] \notin Ending

\* The page never reads past the first event that ends the answer: the outcome it
\* shows is that event, however often it was away, reloaded or reconnected.
ShowsFirstEnding == NoneYet("overtakes") => NoEndingUpTo(page.lastSeq - 1)

\* Every position to go on from lies before the first ending, and nobody asks for
\* one while an ending is presented.
Ahead ==
  NoneYet("overtakes") =>
    /\ NoEndingUpTo(page.lastSeq - 1)
    /\ page.following => NoEndingUpTo(page.lastSeq) /\ ~page.finalizing
    /\ NoEndingUpTo(snapshot)
    /\ page.resume = "ask" => NoEndingUpTo(page.resumeSeq)
    /\ page.resume \in {"ask", "active"} => page.conn = "none" /\ ~page.finalizing

\* An event taken is one more; a log that has grown is the same up to its old end.
LEMMA EndingsBehind ==
  ASSUME Inv
  PROVE  /\ \A m, n \in Int : m <= n /\ NoEndingUpTo(n) => NoEndingUpTo(m)
         /\ NoEndingUpTo(0) /\ NoEndingUpTo(NoSnapshot)
         /\ \A n \in Nat : NoEndingUpTo(n) /\ log[n + 1] \notin Ending => NoEndingUpTo(n + 1)
         /\ \A n \in Int : log' = log /\ NoEndingUpTo(n) => NoEndingUpTo(n)'
         /\ \A n \in Int : RunStep /\ n <= Len(log) /\ NoEndingUpTo(n) => NoEndingUpTo(n)'
<1>1. \A n \in Nat : NoEndingUpTo(n) /\ log[n + 1] \notin Ending => NoEndingUpTo(n + 1)
  <2> SUFFICES ASSUME NEW n \in Nat, NoEndingUpTo(n), log[n + 1] \notin Ending,
                      NEW i \in 1..(n + 1)
               PROVE  log[i] \notin Ending
    BY DEF NoEndingUpTo
  <2>1. i \in 1..n \/ i = n + 1 OBVIOUS
  <2>2. QED BY <2>1 DEF NoEndingUpTo
<1>2. \A n \in Int : RunStep /\ n <= Len(log) /\ NoEndingUpTo(n) => NoEndingUpTo(n)'
  <2> SUFFICES ASSUME NEW n \in Int, RunStep, n <= Len(log), NoEndingUpTo(n),
                      NEW i \in 1..n
               PROVE  log'[i] \notin Ending
    BY DEF NoEndingUpTo
  <2>1. /\ Len(log) \in Nat /\ \A j \in 1..Len(log) : log'[j] = log[j]
    BY RunEffect
  <2>2. i \in 1..Len(log) BY <2>1
  <2>3. QED BY <2>1, <2>2 DEF NoEndingUpTo
<1>3. QED BY <1>1, <1>2 DEF NoEndingUpTo, NoSnapshot

\* A step of the page that keeps its position or starts from one that lies before
\* the first ending.
LEMMA AheadOnPage ==
  ASSUME Inv, Ahead, log' = log, NoneYet("overtakes")' => NoneYet("overtakes"),
         page'.lastSeq \in Int, page'.resumeSeq \in Int, snapshot' \in Int,
         NoneYet("overtakes") =>
           /\ \/ page'.lastSeq = page.lastSeq /\ (page'.following => page.following)
              \/ NoEndingUpTo(page'.lastSeq)
           /\ NoEndingUpTo(snapshot')
           /\ page'.resume = "ask" => NoEndingUpTo(page'.resumeSeq),
         NoneYet("overtakes")' =>
           /\ page'.following => ~page'.finalizing
           /\ page'.resume \in {"ask", "active"} => page'.conn = "none" /\ ~page'.finalizing
  PROVE  Ahead'
<1> SUFFICES ASSUME NoneYet("overtakes")'
             PROVE  /\ NoEndingUpTo(page.lastSeq - 1)'
                    /\ (page.following => NoEndingUpTo(page.lastSeq))'
                    /\ NoEndingUpTo(snapshot)'
                    /\ (page.resume = "ask" => NoEndingUpTo(page.resumeSeq))'
  BY DEF Ahead
<1>1. /\ NoEndingUpTo(page.lastSeq - 1)
      /\ page.following => NoEndingUpTo(page.lastSeq)
  BY DEF Ahead
<1>2. NoEndingUpTo(page'.lastSeq - 1)
  <2>1. page'.lastSeq - 1 <= page'.lastSeq OBVIOUS
  <2>2. QED BY <1>1, <2>1, EndingsBehind
<1>3. page'.following => NoEndingUpTo(page'.lastSeq) BY <1>1
<1>4. \A n \in Int : (\A i \in 1..n : log[i] \notin Ending) => \A i \in 1..n : log'[i] \notin Ending
  OBVIOUS
<1>5. page'.lastSeq - 1 \in Int OBVIOUS
<1>6. QED BY <1>2, <1>3, <1>4, <1>5 DEF NoEndingUpTo

\* Steps that keep the page and its snapshot.
LEMMA AheadWithoutPage ==
  Inv /\ Ahead /\ [Next]_vars /\ UNCHANGED <<page, snapshot>> => Ahead'
<1> SUFFICES ASSUME Inv, Ahead, [Next]_vars, UNCHANGED <<page, snapshot>> PROVE Ahead'
  OBVIOUS
<1>1. NoneYet("overtakes")' => NoneYet("overtakes") BY BudgetShrinks
<1>2. \A n \in Int : n <= Len(log) /\ NoEndingUpTo(n) => NoEndingUpTo(n)'
  <2>1. CASE RunStep BY <2>1, EndingsBehind
  <2>2. CASE ~RunStep
    <3>1. log' = log
      BY <2>2 DEF Next, ServerStep, PageStep, Disturbance, PollRow, SendPage, FindNothing,
         CloseOldConnection, Connect, Receive, EndOfStream, FireTimer, FinishPresentation,
         Return, BeginResume, BeginResumeLate, AskRun, AskActiveRun, ReportOutage, ShutDown, CutConnection,
         Leave, Reload, vars, runVars, lifeVars
    <3>2. QED BY <3>1, EndingsBehind
  <2>3. QED BY <2>1, <2>2
<1>3. /\ page.lastSeq \in Int /\ page.lastSeq - 1 \in Int /\ page.lastSeq - 1 <= Len(log)
      /\ page.lastSeq <= Len(log) /\ page.resumeSeq \in Int /\ page.resumeSeq <= Len(log)
      /\ snapshot \in Int /\ snapshot <= Len(log) /\ Len(log) \in Nat
  BY PageFields, StreamFields DEF Inv
<1>4. page' = page /\ snapshot' = snapshot OBVIOUS
<1>5. QED BY <1>1, <1>2, <1>3, <1>4 DEF Ahead, NoEndingUpTo

\* The next event is taken: the page goes on, or it was the first ending.
LEMMA AheadReceive == Inv /\ Ahead /\ Receive => Ahead'
<1> SUFFICES ASSUME Inv, Ahead, Receive PROVE Ahead'
  OBVIOUS
<1> DEFINE f == Head(pipe)
<1>1. /\ UNCHANGED <<runVars, server, budget>> /\ page.conn = "open" /\ pipe # <<>>
      /\ page' \in Pages
      /\ page'.resume = page.resume /\ page'.resumeSeq = page.resumeSeq
      /\ \/ Ignores
         \/ page.following /\ (Moves(f) \/ Ends(f) \/ Waits(f))
  BY ReceiveEffect
<1>2. /\ log' = log /\ budget' = budget /\ (NoneYet("overtakes")' <=> NoneYet("overtakes"))
  BY <1>1 DEF runVars, lifeVars, NoneYet
<1>3. page.following /\ f.type = "event" => f.seq = page.lastSeq + 1
  <2>1. pipe \in Seq(Frames) BY DEF Inv, StreamTypeOK
  <2>2. f = pipe[1] /\ Len(pipe) \in Nat \ {0} BY <1>1, <2>1, TailOf
  <2>3. 1 \in 1..Len(pipe) BY <2>2
  <2>4. QED BY <1>1, <2>2, <2>3 DEF Inv, Chain
<1>4. page'.lastSeq \in Int /\ page'.resumeSeq \in Int /\ page.lastSeq \in Nat
  BY <1>1, PageFields, StreamFields DEF Inv, Pages, Seqs
<1>5. snapshot \in Int /\ page.lastSeq <= Len(log) BY PageFields
<1> HIDE DEF f
<1>6. CASE Ignores
  <2>1. UNCHANGED <<page, snapshot>> BY <1>6 DEF Ignores
  <2>2. [Next]_vars BY DEF Next, PageStep
  <2>3. QED BY <2>1, <2>2, AheadWithoutPage
<1>7. CASE page.following /\ Moves(f)
  <2>1. /\ page'.lastSeq = page.lastSeq + 1 /\ page'.following = page.following
        /\ page'.finalizing = page.finalizing
        /\ \/ snapshot' = page.lastSeq + 1 /\ log[page.lastSeq + 1] \notin Ending
           \/ page.finalizing /\ snapshot' = snapshot
    BY <1>3, <1>7 DEF Moves
  <2>2. SUFFICES ASSUME NoneYet("overtakes") PROVE Ahead'
    BY <1>2 DEF Ahead
  <2>3. snapshot' = page.lastSeq + 1 /\ log[page.lastSeq + 1] \notin Ending
    BY <1>7, <2>1, <2>2 DEF Ahead
  <2>4. NoEndingUpTo(page.lastSeq + 1)
    BY <1>4, <1>7, <2>2, <2>3, EndingsBehind DEF Ahead
  <2>5. page'.resume \notin {"ask", "active"} /\ ~page'.finalizing
    BY <1>1, <1>7, <2>1, <2>2 DEF Ahead
  <2>6. QED BY <1>2, <1>4, <2>1, <2>3, <2>4, <2>5, AheadOnPage
<1>8. CASE page.following /\ Ends(f)
  <2>1. /\ page'.following = FALSE /\ snapshot' = NoSnapshot
        /\ page'.lastSeq = page.lastSeq + 1 \/ page'.lastSeq = page.lastSeq
    BY <1>3, <1>8 DEF Ends
  <2>2. SUFFICES ASSUME NoneYet("overtakes") PROVE Ahead'
    BY <1>2 DEF Ahead
  <2>3. NoEndingUpTo(page'.lastSeq - 1)
    BY <1>4, <1>8, <2>1, <2>2, EndingsBehind DEF Ahead
  <2>4. page'.resume \notin {"ask", "active"}
    BY <1>1, <2>2 DEF Ahead
  <2>5. NoEndingUpTo(NoSnapshot) BY EndingsBehind
  <2>6. QED BY <1>2, <2>1, <2>3, <2>4, <2>5 DEF Ahead, NoEndingUpTo
<1>9. CASE page.following /\ Waits(f)
  <2>1. /\ page'.lastSeq = page.lastSeq /\ snapshot' = snapshot
        /\ page'.following = page.following /\ page'.finalizing = page.finalizing
    BY <1>9 DEF Waits
  <2>2. NoneYet("overtakes") => page'.resume \notin {"ask", "active"} /\ ~page'.finalizing
    BY <1>1, <1>9, <2>1 DEF Ahead
  <2>3. QED BY <1>2, <1>4, <1>5, <2>1, <2>2, AheadOnPage DEF Ahead
<1>10. QED BY <1>1, <1>6, <1>7, <1>8, <1>9

\* A connection is opened, lost or given up, a thread left or taken up again, a
\* presentation over: the page keeps its place, or loses everything but the snapshot.
LEMMA AheadInPlace ==
  Inv /\ Ahead
  /\ (Connect \/ EndOfStream \/ CutConnection \/ FinishPresentation \/ Leave \/ Return \/ Reload)
    => Ahead'
<1> SUFFICES ASSUME Inv, Ahead,
                    \/ Connect \/ EndOfStream \/ CutConnection \/ FinishPresentation
                    \/ Leave \/ Return \/ Reload
             PROVE  Ahead'
  OBVIOUS
<1>1. /\ page \in Pages /\ page.lastSeq \in Int /\ page.resumeSeq \in Int
      /\ snapshot \in Int /\ 0 \in Int /\ 0 \in Seqs
  BY PageFields, StreamFields DEF Inv
<1>2. log' = log /\ snapshot' = snapshot
  BY DEF Connect, EndOfStream, CutConnection, FinishPresentation, Leave, Return, Reload,
         runVars, lifeVars
<1>3. NoneYet("overtakes")' => NoneYet("overtakes")
  <2>1. [Next]_vars BY DEF Next, PageStep, Disturbance
  <2>2. QED BY <2>1, BudgetShrinks
<1>4. \/ /\ page'.lastSeq = page.lastSeq /\ page'.following = page.following
         /\ page'.resumeSeq = page.resumeSeq
         /\ page'.finalizing => page.finalizing
         /\ page'.resume = page.resume \/ page'.resume = "due"
         /\ page'.conn = page.conn \/ page'.conn = "none" \/ page.conn = "opening"
      \/ /\ page'.lastSeq = 0 /\ page'.following = FALSE /\ page'.resumeSeq = 0
         /\ page'.finalizing = FALSE /\ page'.resume = "due"
  <2>1. CASE Connect BY <1>1, <2>1 DEF Connect, Pages
  <2>2. CASE EndOfStream BY <1>1, <2>2 DEF EndOfStream, Pages
  <2>3. CASE CutConnection BY <1>1, <2>3 DEF CutConnection, Pages
  <2>4. CASE FinishPresentation BY <1>1, <2>4 DEF FinishPresentation, Pages
  <2>5. CASE Leave BY <1>1, <2>5 DEF Leave, Pages
  <2>6. CASE Return BY <1>1, <2>6 DEF Return, Pages
  <2>7. CASE Reload BY <2>7 DEF Reload
  <2>8. QED BY <2>1, <2>2, <2>3, <2>4, <2>5, <2>6, <2>7
<1>5. NoEndingUpTo(0) BY EndingsBehind
<1>6. CASE /\ page'.lastSeq = 0 /\ page'.following = FALSE /\ page'.resumeSeq = 0
           /\ page'.finalizing = FALSE /\ page'.resume = "due"
  BY <1>1, <1>2, <1>3, <1>5, <1>6, AheadOnPage DEF Ahead
<1>7. CASE /\ page'.lastSeq = page.lastSeq /\ page'.following = page.following
           /\ page'.resumeSeq = page.resumeSeq
           /\ page'.finalizing => page.finalizing
           /\ page'.resume = page.resume \/ page'.resume = "due"
           /\ page'.conn = page.conn \/ page'.conn = "none" \/ page.conn = "opening"
  <2>1. NoneYet("overtakes") =>
          /\ page'.following => ~page'.finalizing
          /\ page'.resume \in {"ask", "active"} => page'.conn = "none" /\ ~page'.finalizing
    BY <1>7 DEF Ahead
  <2>2. QED BY <1>1, <1>2, <1>3, <1>7, <2>1, AheadOnPage DEF Ahead
<1>8. QED BY <1>4, <1>6, <1>7

\* A reconnect goes on where the page is.
LEMMA AheadTimer == Inv /\ Ahead /\ FireTimer => Ahead'
<1> SUFFICES ASSUME Inv, Ahead, FireTimer PROVE Ahead'
  OBVIOUS
<1> DEFINE rung == [page EXCEPT !.timers = @ - 1]
<1>1. /\ log' = log /\ page.timers > 0
      /\ IF Unhurried THEN UNCHANGED budget ELSE Spend("overtakes")
      /\ IF page.following /\ page.conn = "none" THEN Start(rung, page.lastSeq)
         ELSE page' = rung /\ UNCHANGED <<snapshot, server, pipe>>
  BY DEF FireTimer, runVars, lifeVars
<1>2. /\ page.lastSeq \in Int /\ page.resumeSeq \in Int /\ snapshot \in Int
      /\ page.lastSeq \in Seqs
  BY PageFields, StreamFields DEF Inv
<1>3. /\ rung \in Pages /\ rung.lastSeq = page.lastSeq /\ rung.following = page.following
      /\ rung.conn = page.conn /\ rung.resume = page.resume
      /\ rung.resumeSeq = page.resumeSeq /\ rung.finalizing = page.finalizing
  BY <1>1, PageFields DEF Pages
<1> HIDE DEF rung
<1>4. /\ (NoneYet("overtakes")' => NoneYet("overtakes"))
      /\ (NoneYet("overtakes")' => page.resume = "no")
  <2>1. CASE Unhurried BY <1>1, <2>1 DEF NoneYet, Unhurried
  <2>2. CASE ~Unhurried BY <1>1, <2>2, PageFields, SpendEffect
  <2>3. QED BY <2>1, <2>2
<1>5. CASE page.following /\ page.conn = "none"
  <2>1. Start(rung, page.lastSeq) BY <1>1, <1>5
  <2>2. /\ page'.lastSeq = page.lastSeq /\ snapshot' = page.lastSeq
        /\ page'.resume = page.resume /\ page'.resumeSeq = page.resumeSeq
        /\ page'.finalizing = page.finalizing
    BY <1>2, <1>3, <2>1, StartEffect
  <2>3. QED BY <1>1, <1>2, <1>4, <1>5, <2>2, AheadOnPage DEF Ahead
<1>6. CASE ~(page.following /\ page.conn = "none")
  <2>1. page' = rung /\ snapshot' = snapshot BY <1>1, <1>6
  <2>2. QED BY <1>1, <1>2, <1>3, <1>4, <2>1, AheadOnPage DEF Ahead
<1>7. QED BY <1>5, <1>6

\* A resume takes its position from the snapshot, when nothing is presented.
LEMMA AheadBeginResume == Inv /\ Ahead /\ BeginResume => Ahead'
<1> SUFFICES ASSUME Inv, Ahead, BeginResume PROVE Ahead'
  OBVIOUS
<1>1. /\ log' = log /\ snapshot' = snapshot /\ page.resume = "due"
      /\ IF page.finalizing THEN Spend("overtakes") ELSE UNCHANGED budget
      /\ page' = IF page.conn # "none" THEN [page EXCEPT !.resume = "no"]
                 ELSE IF snapshot = NoSnapshot THEN [page EXCEPT !.resume = "active"]
                 ELSE [page EXCEPT !.resume = "ask", !.resumeSeq = snapshot]
  BY DEF BeginResume, runVars, lifeVars
<1>2. /\ page.lastSeq \in Int /\ page.resumeSeq \in Int /\ snapshot \in Int
  BY PageFields, StreamFields DEF Inv
<1>3. /\ page'.lastSeq = page.lastSeq /\ page'.following = page.following
      /\ page'.conn = page.conn /\ page'.finalizing = page.finalizing
      /\ page'.resumeSeq = page.resumeSeq \/ page'.resumeSeq = snapshot
      /\ page'.resume = "ask" => page'.resumeSeq = snapshot
      /\ page'.resume # "no" => page.conn = "none"
  BY <1>1, PageFields DEF Pages
<1>4. /\ (NoneYet("overtakes")' => NoneYet("overtakes"))
      /\ (NoneYet("overtakes")' => ~page.finalizing)
  <2>1. CASE page.finalizing BY <1>1, <2>1, PageFields, SpendEffect
  <2>2. CASE ~page.finalizing BY <1>1, <2>2, PageFields DEF NoneYet
  <2>3. QED BY <2>1, <2>2
<1>5. QED BY <1>1, <1>2, <1>3, <1>4, AheadOnPage DEF Ahead

\* A resume that comes too late asks for the thread's run.
LEMMA AheadBeginLate == Inv /\ Ahead /\ BeginResumeLate => Ahead'
<1> SUFFICES ASSUME Inv, Ahead, BeginResumeLate PROVE Ahead'
  OBVIOUS
<1>1. /\ log' = log /\ snapshot' = NoSnapshot /\ page.conn = "none" /\ ~page.finalizing
      /\ Spend("expiries") /\ page' = [page EXCEPT !.resume = "active"]
  BY DEF BeginResumeLate, runVars, lifeVars
<1>2. /\ page'.lastSeq = page.lastSeq /\ page'.following = page.following
      /\ page'.conn = page.conn /\ page'.finalizing = page.finalizing
      /\ page'.resume = "active" /\ page'.resumeSeq = page.resumeSeq
      /\ page.lastSeq \in Int /\ page.resumeSeq \in Int /\ snapshot' \in Int
  BY <1>1, PageFields, StreamFields DEF Inv, Pages, NoSnapshot
<1>3. NoneYet("overtakes")' => NoneYet("overtakes")
  BY <1>1, PageFields, SpendEffect
<1>4. NoEndingUpTo(NoSnapshot) BY EndingsBehind
<1>5. QED BY <1>1, <1>2, <1>3, <1>4, AheadOnPage DEF Ahead

\* The answer of a request: follow the run from the position asked with, or from the
\* start, or forget it.
LEMMA AheadAsk == Inv /\ Ahead /\ (AskRun \/ AskActiveRun) => Ahead'
<1> SUFFICES ASSUME Inv, Ahead, AskRun \/ AskActiveRun PROVE Ahead'
  OBVIOUS
<1> DEFINE p == [page EXCEPT !.resume = "no"]
<1>1. /\ page \in Pages /\ page.lastSeq \in Int /\ page.resumeSeq \in Int /\ snapshot \in Int
      /\ page.resumeSeq \in Seqs /\ 0 \in Seqs /\ 0 \in Int /\ NoSnapshot \in Int
  BY PageFields, StreamFields DEF Inv, NoSnapshot
<1>2. log' = log BY DEF AskRun, AskActiveRun, runVars, lifeVars
<1>3. NoneYet("overtakes")' => NoneYet("overtakes")
  <2>1. [Next]_vars BY DEF Next, PageStep
  <2>2. QED BY <2>1, BudgetShrinks
<1>4. \/ page.resume = "ask" /\ Start(p, page.resumeSeq)
      \/ page.resume = "active" /\ Start(p, 0)
      \/ /\ page.resume = "ask" /\ snapshot' = NoSnapshot
         /\ page' = [page EXCEPT !.resume = "active"]
      \/ /\ page.resume = "active" /\ snapshot' = NoSnapshot
         /\ page' = [page EXCEPT !.resume = "no", !.following = FALSE, !.lastSeq = 0]
  BY DEF AskRun, AskActiveRun
<1>5. p \in Pages /\ p.resume = "no" /\ p.resumeSeq = page.resumeSeq /\ p.finalizing = page.finalizing
  BY <1>1 DEF Pages
<1>6. NoEndingUpTo(0) /\ NoEndingUpTo(NoSnapshot) BY EndingsBehind
<1>7. NoneYet("overtakes") => ~page.finalizing /\ page.conn = "none"
  BY <1>4 DEF Ahead
<1> HIDE DEF p
<1>8. CASE page.resume = "ask" /\ Start(p, page.resumeSeq)
  <2>1. /\ page'.lastSeq = page.resumeSeq /\ snapshot' = page.resumeSeq
        /\ page'.resume = "no" /\ page'.resumeSeq = page.resumeSeq
        /\ page'.finalizing = page.finalizing
    BY <1>1, <1>5, <1>8, StartEffect
  <2>2. QED BY <1>1, <1>2, <1>3, <1>7, <1>8, <2>1, AheadOnPage DEF Ahead
<1>9. CASE page.resume = "active" /\ Start(p, 0)
  <2>1. /\ page'.lastSeq = 0 /\ snapshot' = 0
        /\ page'.resume = "no" /\ page'.resumeSeq = page.resumeSeq
        /\ page'.finalizing = page.finalizing
    BY <1>1, <1>5, <1>9, StartEffect
  <2>2. QED BY <1>1, <1>2, <1>3, <1>6, <1>7, <1>9, <2>1, AheadOnPage DEF Ahead
<1>10. CASE /\ page.resume = "ask" /\ snapshot' = NoSnapshot
            /\ page' = [page EXCEPT !.resume = "active"]
  <2>1. /\ page'.lastSeq = page.lastSeq /\ page'.following = page.following
        /\ page'.resume = "active" /\ page'.resumeSeq = page.resumeSeq
        /\ page'.finalizing = page.finalizing /\ page'.conn = page.conn
    BY <1>1, <1>10 DEF Pages
  <2>2. QED BY <1>1, <1>2, <1>3, <1>6, <1>7, <1>10, <2>1, AheadOnPage DEF Ahead
<1>11. CASE /\ page.resume = "active" /\ snapshot' = NoSnapshot
            /\ page' = [page EXCEPT !.resume = "no", !.following = FALSE, !.lastSeq = 0]
  <2>1. /\ page'.lastSeq = 0 /\ page'.following = FALSE
        /\ page'.resume = "no" /\ page'.resumeSeq = page.resumeSeq
    BY <1>1, <1>11 DEF Pages
  <2>2. QED BY <1>1, <1>2, <1>3, <1>6, <1>11, <2>1, AheadOnPage DEF Ahead
<1>12. QED BY <1>4, <1>8, <1>9, <1>10, <1>11

\* No step brings the page past an ending.
LEMMA AheadNext == Inv /\ Ahead /\ [Next]_vars => Ahead'
<1> SUFFICES ASSUME Inv, Ahead, [Next]_vars PROVE Ahead'
  OBVIOUS
<1>1. CASE RunStep
  <2>1. UNCHANGED <<page, snapshot>> BY <1>1, RunEffect DEF Inv, streamVars
  <2>2. QED BY <2>1, AheadWithoutPage
<1>2. CASE ServerStep \/ ReportOutage \/ ShutDown \/ UNCHANGED vars
  <2>1. UNCHANGED <<page, snapshot>>
    BY <1>2 DEF ServerStep, PollRow, SendPage, FindNothing, CloseOldConnection,
                ReportOutage, ShutDown, vars, streamVars
  <2>2. QED BY <2>1, AheadWithoutPage
<1>3. CASE PageStep \/ CutConnection \/ Leave \/ Reload
  BY <1>3, AheadReceive, AheadInPlace, AheadTimer, AheadBeginResume, AheadBeginLate,
     AheadAsk DEF PageStep
<1>4. QED BY <1>1, <1>2, <1>3 DEF Next, Disturbance

\* What the page has taken lies before the first ending, in every state.
LEMMA AheadInvariant == Spec => []Ahead
<1>1. Init => Ahead
  <2>1. Init => /\ page.lastSeq = 0 /\ snapshot = 0 /\ page.resume = "no"
                /\ page.finalizing = FALSE
    BY DEF Init
  <2>2. QED BY <2>1 DEF Ahead, NoEndingUpTo
<1>2. QED BY <1>1, AheadNext, StreamInvariant, PTL DEF Spec

\* Whatever comes after the first ending, and however often the page lost its
\* connection, left or was reloaded, the event it stopped at is the first ending,
\* unless a timer, a return or a presentation was overtaken.
THEOREM ShowsFirstEndingCorrect == Spec => []ShowsFirstEnding
<1>1. Ahead => ShowsFirstEnding BY DEF Ahead, ShowsFirstEnding
<1>2. QED BY <1>1, AheadInvariant, PTL

\* A readable run ends for its page with an event: a final close frame is news to a
\* page that follows only when the run failed with errors of the kind that is tried
\* again, which the page does not take for an ending.
ClosedAfterRetry ==
  (/\ NoneYet("overtakes") /\ plain /\ page.following /\ pipe # <<>>
   /\ Head(pipe).type = "close" /\ Head(pipe).status \in Terminal)
    => Head(pipe).status = "failed" /\ \E n \in 1..page.lastSeq : log[n] = "retry"

\* Every announcement but that of a retry stops the page before the close frame
\* arrives.
THEOREM ClosedAfterRetryCorrect == Spec => []ClosedAfterRetry
<1>1. ASSUME OutcomeSeen, Ahead PROVE ClosedAfterRetry
  <2> SUFFICES ASSUME NoneYet("overtakes"), plain, page.following, pipe # <<>>,
                      Head(pipe).type = "close", Head(pipe).status \in Terminal
               PROVE  /\ Head(pipe).status = "failed"
                      /\ \E n \in 1..page.lastSeq : log[n] = "retry"
    BY DEF ClosedAfterRetry
  <2>1. PICK n \in 1..page.lastSeq : log[n] \in Announcers[Head(pipe).status]
    BY <1>1 DEF OutcomeSeen
  <2>2. log[n] \notin Ending BY <1>1 DEF Ahead, NoEndingUpTo
  <2>3. QED BY <2>1, <2>2 DEF Announcers, Ending, Terminal
<1>2. QED BY <1>1, AheadInvariant, OutcomeSeenCorrect, PTL
=============================================================================
