---------------------------- MODULE PaperEtlProofs ----------------------------
(* What holds of PaperEtl for any authors, profiles, limits and failures.    *)
EXTENDS PaperEtl, FiniteSetTheorems, TLAPS

-----------------------------------------------------------------------------
(* Windows of a finite set of titles.                                      *)

\* Titles are numbers.
LEMMA PapersAreNumbers == AllTitles \subseteq Int
  BY EtlAssumption DEF AllTitles

\* Sets of papers are finite, and ranks are numbers.
LEMMA PapersFinite ==
  ASSUME NEW S \in SUBSET AllTitles
  PROVE  /\ IsFiniteSet(S) /\ Cardinality(S) \in Nat
         /\ \A p : IsFiniteSet({q \in S : q < p}) /\ Rank(S, p) \in Nat
<1>1. IsFiniteSet(AllTitles)
  BY EtlAssumption, FS_Interval DEF AllTitles
<1>2. \A T \in SUBSET AllTitles : IsFiniteSet(T) /\ Cardinality(T) \in Nat
  BY <1>1, FS_Subset, FS_CardinalityType
<1>3. \A p : {q \in S : q < p} \in SUBSET AllTitles
  OBVIOUS
<1>4. QED
  BY <1>2, <1>3 DEF Rank

\* A later row has a higher rank.
LEMMA RankGrows ==
  ASSUME NEW S \in SUBSET AllTitles, NEW p \in S, NEW r \in AllTitles, p < r
  PROVE  Rank(S, p) < Rank(S, r)
<1> DEFINE before == {q \in S : q < p}  upto == {q \in S : q < r}
<1>1. S \subseteq Int /\ r \in Int
  BY PapersAreNumbers
<1>2. before \in SUBSET upto /\ before # upto
  <2>1. \A q \in S : q < p => q < r
    BY <1>1
  <2>2. p \in upto /\ p \notin before
    BY <1>1
  <2>3. QED
    BY <2>1, <2>2
<1>3. IsFiniteSet(upto) /\ Cardinality(upto) \in Nat /\ Cardinality(before) \in Nat
  BY PapersFinite DEF Rank
<1>4. Cardinality(before) <= Cardinality(upto) /\ Cardinality(before) # Cardinality(upto)
  BY <1>2, <1>3, FS_Subset
<1>5. QED
  BY <1>3, <1>4 DEF Rank

\* A window holds at most as many rows as it is long.
LEMMA WindowSize ==
  ASSUME NEW S \in SUBSET AllTitles, NEW n \in Nat
  PROVE  Cardinality(Window(S, 0, n)) <= n
<1> DEFINE W == Window(S, 0, n)
           rank == [p \in W |-> Rank(S, p)]
<1>1. W \subseteq S /\ \A p \in W : Rank(S, p) \in 0..(n - 1)
  BY DEF Window
<1>2. ASSUME NEW p \in W, NEW r \in W, Rank(S, p) = Rank(S, r)
      PROVE  p = r
  <2>1. p \in S /\ r \in S /\ p \in AllTitles /\ r \in AllTitles /\ p \in Int /\ r \in Int
    BY <1>1, PapersAreNumbers
  <2>2. Rank(S, p) \in Nat /\ Rank(S, r) \in Nat
    BY PapersFinite
  <2>3. ~(p < r) /\ ~(r < p)
    BY <1>2, <2>1, <2>2, RankGrows
  <2>4. QED
    BY <2>1, <2>3
<1>3. rank \in Injection(W, 0..(n - 1))
  <2>1. rank \in [W -> 0..(n - 1)] /\ \A p \in W : rank[p] = Rank(S, p)
    BY <1>1
  <2>2. \A p, r \in W : rank[p] = rank[r] => p = r
    BY <1>2, <2>1
  <2>3. QED
    BY <2>1, <2>2 DEF Injection, IsInjective
<1>4. IsFiniteSet(0..(n - 1)) /\ Cardinality(0..(n - 1)) = n
  BY FS_Interval
<1>5. QED
  BY <1>3, <1>4, FS_Injection

\* A window that is as long as its set holds all of it.
LEMMA WholeWindow ==
  ASSUME NEW S \in SUBSET AllTitles, NEW n \in Nat, Cardinality(S) <= n
  PROVE  Window(S, 0, n) = S
<1> SUFFICES ASSUME NEW p \in S
             PROVE  Rank(S, p) \in 0..(n - 1)
  BY DEF Window
<1> DEFINE before == {q \in S : q < p}
<1>1. before \in SUBSET S /\ before # S
  BY PapersAreNumbers
<1>2. IsFiniteSet(S) /\ Cardinality(S) \in Nat /\ Cardinality(before) \in Nat
  BY PapersFinite DEF Rank
<1>3. Cardinality(before) <= Cardinality(S) /\ Cardinality(before) # Cardinality(S)
  BY <1>1, <1>2, FS_Subset
<1>4. QED
  BY <1>2, <1>3 DEF Rank

\* When rows of the first k have left S, the later rows have moved up by as many.
LEMMA RankAfterRemoval ==
  ASSUME NEW S \in SUBSET AllTitles, NEW k \in Nat, NEW C \in SUBSET Window(S, 0, k),
         NEW p \in S
  PROVE  /\ Rank(S, p) \in Nat /\ Rank(S \ C, p) \in Nat
         /\ Rank(S \ C, p) <= Rank(S, p)
         /\ Rank(S, p) >= k =>
              p \notin C /\ Rank(S \ C, p) = Rank(S, p) - Cardinality(C)
<1> DEFINE before == {q \in S : q < p}  rest == {q \in S \ C : q < p}
<1>1. /\ C \in SUBSET S /\ S \ C \in SUBSET AllTitles /\ C \in SUBSET AllTitles
      /\ \A c \in C : Rank(S, c) \in 0..(k - 1)
  BY DEF Window
<1>2. /\ IsFiniteSet(before) /\ Rank(S, p) \in Nat /\ Rank(S \ C, p) \in Nat
      /\ IsFiniteSet(C) /\ Cardinality(C) \in Nat
  BY <1>1, PapersFinite
<1>3. Rank(S \ C, p) <= Rank(S, p)
  <2>1. rest \in SUBSET before
    OBVIOUS
  <2>2. QED
    BY <1>2, <2>1, FS_Subset DEF Rank
<1>4. ASSUME Rank(S, p) >= k
      PROVE  p \notin C /\ Rank(S \ C, p) = Rank(S, p) - Cardinality(C)
  <2>1. p \notin C
    BY <1>1, <1>2, <1>4
  <2>2. ASSUME NEW c \in C
        PROVE  c \in S /\ c < p
    <3>1. c \in Int /\ p \in Int /\ c \in AllTitles /\ p \in AllTitles /\ c \in S
      BY <1>1, PapersAreNumbers
    <3>2. ~(p < c)
      BY <1>1, <1>2, <1>4, <3>1, RankGrows
    <3>3. QED
      BY <2>1, <3>1, <3>2
  <2>3. rest = before \ C /\ before \cap C = C
    BY <2>2
  <2>4. Cardinality(before \ C) = Cardinality(before) - Cardinality(before \cap C)
    BY <1>2, FS_Difference
  <2>5. QED
    BY <2>1, <2>3, <2>4 DEF Rank
<1>5. QED
  BY <1>2, <1>3, <1>4

\* The window of n rows that starts at k - |C| in the rest continues the first k
\* rows of S.
Continues(S, C, k, n) ==
  /\ Cardinality(C) \in 0..k
  /\ Window(S, 0, k) \cup Window(S \ C, k - Cardinality(C), n) = Window(S, 0, k + n)

\* That it does, when C is taken from the first k rows.
LEMMA WindowContinues ==
  ASSUME NEW S \in SUBSET AllTitles, NEW k \in Nat, NEW n \in Nat,
         NEW C \in SUBSET Window(S, 0, k)
  PROVE  Continues(S, C, k, n)
<1>1. Window(S, 0, k) \in SUBSET AllTitles /\ C \in SUBSET AllTitles
  BY DEF Window
<1>2. Cardinality(C) \in 0..k
  <2>1. Cardinality(C) <= Cardinality(Window(S, 0, k))
    BY <1>1, PapersFinite, FS_Subset
  <2>2. QED
    BY <1>1, <2>1, PapersFinite, WindowSize
<1>3. ASSUME NEW p \in S
      PROVE  (p \in Window(S, 0, k) \/ p \in Window(S \ C, k - Cardinality(C), n))
               <=> p \in Window(S, 0, k + n)
  <2>1. /\ Rank(S, p) \in Nat /\ Rank(S \ C, p) \in Nat
        /\ Rank(S \ C, p) <= Rank(S, p)
        /\ Rank(S, p) >= k =>
             p \notin C /\ Rank(S \ C, p) = Rank(S, p) - Cardinality(C)
    BY RankAfterRemoval
  <2>2. CASE Rank(S, p) >= k
    BY <1>2, <2>1, <2>2 DEF Window
  <2>3. CASE Rank(S, p) < k
    BY <1>2, <2>1, <2>3 DEF Window
  <2>4. QED
    BY <2>1, <2>2, <2>3
<1>4. QED
  BY <1>2, <1>3 DEF Window, Continues

-----------------------------------------------------------------------------
(* Types.                                                                  *)

Steps == {"idle", "go", "saved", "ok", "failed"}

\* The part of the type invariant about tasks, attempts and failures.
Control ==
  /\ at \in [Tasks -> Steps] /\ tries \in [Tasks -> 0..(Retries + 1)]
  /\ \A t \in Tasks : tries[t] = Retries + 1 => at[t] = "failed"
  /\ faults \in 0..MaxFaults

\* What is written to the storage is an artifact.
LEMMA ArtifactTypes ==
  ASSUME NEW S
  PROVE  /\ Absent \in Artifact(S) /\ Torn \in Artifact(S)
         /\ \A R \in SUBSET S : File(R) \in Artifact(S)
         /\ \A f \in Artifact(S) : f.rows \subseteq S
         /\ Absent.rows = {} /\ Absent.st = "absent" /\ Torn.rows = {} /\ Torn.st = "torn"
         /\ \A R : File(R).rows = R /\ File(R).st = "whole"
  BY DEF Artifact, Absent, Torn, File

\* The five tasks, and the steps of those that may act.
LEMMA TaskNames ==
  /\ {"scopus", "scholar", "transform", "enrich", "load"} \subseteq Tasks
  /\ \A t : Ready(t) \/ Running(t) => at[t] # "failed"
  BY DEF Tasks, Ready, Running

\* A task that goes on.
LEMMA GoControl ==
  ASSUME Control, NEW t \in Tasks, at[t] # "failed", NEW step \in Steps, Go(t, step),
         Fault \/ UNCHANGED faults
  PROVE  Control'
<1>1. at' = [at EXCEPT ![t] = step] /\ tries' = tries
  BY DEF Go
<1>2. tries[t] # Retries + 1
  BY DEF Control
<1>3. faults' \in 0..MaxFaults
  BY EtlAssumption DEF Control, Fault
<1>4. QED
  BY <1>1, <1>2, <1>3 DEF Control

\* An attempt that fails.
LEMMA FailControl ==
  ASSUME Control, NEW t \in Tasks, at[t] # "failed", Fail(t), Fault \/ UNCHANGED faults
  PROVE  Control'
<1> DEFINE step == IF tries[t] < Retries THEN "idle" ELSE "failed"
<1>1. at' = [at EXCEPT ![t] = step] /\ tries' = [tries EXCEPT ![t] = tries[t] + 1]
  BY DEF Fail
<1>2. /\ tries[t] \in 0..Retries /\ step \in Steps
      /\ tries[t] + 1 = Retries + 1 => step = "failed"
  BY EtlAssumption DEF Control, Steps
<1>3. faults' \in 0..MaxFaults
  BY EtlAssumption DEF Control, Fault
<1> HIDE DEF step
<1>4. at' \in [Tasks -> Steps] /\ tries' \in [Tasks -> 0..(Retries + 1)]
  BY <1>1, <1>2, EtlAssumption DEF Control
<1>5. \A u \in Tasks : tries'[u] = Retries + 1 => at'[u] = "failed"
  BY <1>1, <1>2 DEF Control
<1>6. QED
  BY <1>3, <1>4, <1>5 DEF Control

\* A task that has written.
LEMMA SavedControl ==
  ASSUME Control, NEW t \in Tasks, at[t] # "failed", NEW step \in Steps, NEW f,
         Saved(t, step, f)
  PROVE  Control'
  BY GoControl, FailControl DEF Saved

\* The rest of the type invariant.
Data ==
  /\ raw \in Artifact(AllTitles) /\ master \in Artifact(AllTitles)
  /\ scholar \in Artifact(Row) /\ temp \in Artifact(Row)
  /\ merged \in Artifact(AllTitles) /\ enriched \in Artifact(Completable)
  /\ table \subseteq Completable
  /\ fresh \subseteq {"scopus", "scholar"} /\ mode \in {"incremental", "full"}
  /\ scrape \in [todo : SUBSET Authors, rows : SUBSET Row, new : Nat]
  /\ df \in [rows : SUBSET AllTitles, before : SUBSET Completable,
             done : SUBSET Completable, tried : SUBSET AllTitles, attempted : Nat]
  /\ triggers \in 0..MaxTriggers
  /\ listed \subseteq AllTitles /\ omitted \subseteq Authors \X AllTitles

\* The type invariant has these two parts.
LEMMA TypeParts == EtlTypeOK <=> Control /\ Data
  BY DEF EtlTypeOK, Control, Data, Steps

\* Every step of a task keeps the parts about tasks.
LEMMA WorkControl ==
  ASSUME Control, Work
  PROVE  Control'
<1> USE TaskNames, GoControl, FailControl, SavedControl DEF Steps
<1>1. ASSUME NEW t \in Tasks, Skip(t) \/ Unreadable(t), Ready(t) \/ Running(t)
      PROVE  Control'
  BY <1>1 DEF Skip, Unreadable
<1>2. ASSUME NEW got \in SUBSET Exported, ExtractScopus(got)
      PROVE  Control'
  BY <1>2 DEF ExtractScopus
<1>3. CASE StartScholar
  BY <1>3 DEF StartScholar, ReadLecturers
<1>4. CASE SaveScholar \/ DropTemp
  BY <1>4 DEF SaveScholar, DropTemp
<1>5. ASSUME NEW a \in Authors, ScrapeAuthor(a)
      PROVE  Control'
  <2>1. PICK f : \/ Go("scholar", "go") /\ (Fault \/ UNCHANGED faults)
                 \/ Saved("scholar", "go", f)
    BY <1>5 DEF ScrapeAuthor
  <2>2. at["scholar"] # "failed"
    BY <1>5 DEF ScrapeAuthor
  <2>3. QED
    BY <2>1, <2>2
<1>6. CASE ProcessScopus \/ DropRaw
  BY <1>6, <1>1 DEF ProcessScopus, DropRaw
<1>7. CASE Merge
  <2>1. at["transform"] # "failed" /\ (Ready("transform") \/ Running("transform"))
    BY <1>7 DEF Merge, Running
  <2>2. QED
    BY <1>7, <2>1, <1>1 DEF Merge
<1>8. CASE StartEnrich
  BY <1>8, <1>1 DEF StartEnrich
<1>9. CASE EnrichBatch
  <2>1. PICK f : Saved("enrich", "go", f) \/ (Go("enrich", "go") /\ Fault)
    BY <1>9 DEF EnrichBatch
  <2>2. at["enrich"] # "failed"
    BY <1>9 DEF EnrichBatch
  <2>3. QED
    BY <2>1, <2>2
<1>10. CASE FinishEnrich
  BY <1>10 DEF FinishEnrich
<1>11. CASE Load
  BY <1>11, <1>1 DEF Load
<1>12. ASSUME NEW t \in Tasks, Skip(t)
       PROVE  Control'
  BY <1>1, <1>12 DEF Skip
<1>13. QED
  BY <1>2, <1>3, <1>4, <1>5, <1>6, <1>7, <1>8, <1>9, <1>10, <1>11, <1>12 DEF Work

\* A new run starts with fresh tasks.
LEMMA StartRunTypes ==
  ASSUME EtlTypeOK, NEW m \in {"incremental", "full"}, NEW f \in SUBSET fresh, StartRun(m, f),
         triggers' \in 0..MaxTriggers
  PROVE  EtlTypeOK'
<1>1. Control /\ Data
  BY TypeParts
<1>2. Control'
  BY <1>1, EtlAssumption DEF StartRun, Control, Steps
<1>3. Data'
  BY <1>1 DEF StartRun, Data, NoScrape, NoDf, world
<1>4. QED
  BY <1>2, <1>3, TypeParts DEF EtlTypeOK, Control, Data, Steps

\* What the answer n articles long of an author, marked by d, consists of.
Answer(a, n, d) ==
  {[title |-> p, author |-> a, done |-> d] : p \in Window(OnProfile(a), 0, n)}

\* It consists of rows of the author.
LEMMA AnswersAreRows ==
  ASSUME NEW a \in Authors, NEW n, NEW d \in BOOLEAN
  PROVE  /\ Answer(a, n, d) \subseteq Row
         /\ Titles(Answer(a, n, d)) = Window(OnProfile(a), 0, n)
         /\ \A r \in Answer(a, n, d) : r.author = a /\ r.done = d
         /\ OnProfile(a) \subseteq AllTitles
<1>1. Window(OnProfile(a), 0, n) \subseteq OnProfile(a) /\ OnProfile(a) \subseteq AllTitles
  BY EtlAssumption DEF Window, OnProfile
<1> DEFINE W == Window(OnProfile(a), 0, n)
           article(p) == [title |-> p, author |-> a, done |-> d]
<1>2. \A p \in W : article(p) \in Row /\ article(p).title = p /\ article(p).author = a
                     /\ article(p).done = d
  BY <1>1 DEF Row
<1>3. Answer(a, n, d) = {article(p) : p \in W}
  BY DEF Answer
<1> HIDE DEF article, W
<1>4. Titles(Answer(a, n, d)) = W
  <2>1. \A p \in W : p \in Titles(Answer(a, n, d))
    BY <1>2, <1>3 DEF Titles
  <2>2. \A t \in Titles(Answer(a, n, d)) : t \in W
    BY <1>2, <1>3 DEF Titles
  <2>3. QED
    BY <2>1, <2>2
<1>5. Answer(a, n, d) \subseteq Row /\ \A r \in Answer(a, n, d) : r.author = a /\ r.done = d
  BY <1>2, <1>3
<1>6. QED
  BY <1>1, <1>4, <1>5 DEF W

\* get_papers gives such answers, whole or cut short.
LEMMA ArticlesAreAnswers ==
  ASSUME NEW a \in Authors
  PROVE  /\ IF Cardinality(OnProfile(a)) <= Limit THEN Articles(a) = Answer(a, Limit, TRUE)
                                                  ELSE Articles(a) = Answer(a, Limit, FALSE)
         /\ \A got \in CutShort(a) : \E n \in 1..Limit : got = Answer(a, n, TRUE)
<1> DEFINE all == Cardinality(OnProfile(a)) <= Limit
<1>1. Articles(a) = Answer(a, Limit, all)
  BY DEF Articles, Answer
<1>2. (all => all = TRUE) /\ (~all => all = FALSE)
  OBVIOUS
<1>3. \A got \in CutShort(a) : \E n \in 1..Limit : got = Answer(a, n, TRUE)
  BY DEF CutShort, Answer
<1> HIDE DEF all
<1>4. (all => Articles(a) = Answer(a, Limit, TRUE)) /\ (~all => Articles(a) = Answer(a, Limit, FALSE))
  BY <1>1, <1>2
<1>5. QED
  BY <1>3, <1>4 DEF all

\* Every answer has rows of the author only.
LEMMA ScrapedRows ==
  ASSUME NEW a \in Authors, NEW got \in {Articles(a), {}} \cup CutShort(a)
  PROVE  got \subseteq Row /\ \A r \in got : r.author = a
<1>1. CASE got = Articles(a)
  <2>1. PICK d \in BOOLEAN : got = Answer(a, Limit, d)
    BY <1>1, ArticlesAreAnswers
  <2>2. QED
    BY <2>1, AnswersAreRows
<1>2. CASE got \in CutShort(a)
  <2>1. PICK n \in 1..Limit : got = Answer(a, n, TRUE)
    BY <1>2, ArticlesAreAnswers
  <2>2. QED
    BY <2>1, AnswersAreRows
<1>3. QED
  BY <1>1, <1>2

\* A merge has one of the leading rows of every title, and no others.
LEMMA MergesKeepTitles ==
  ASSUME NEW old, NEW new, NEW R \in Merges(old, new)
  PROVE  /\ R \subseteq old \cup new
         /\ Titles(R) = Titles(old \cup new)
<1> DEFINE T == Titles(old \cup new)
<1>1. PICK f \in [T -> old \cup new] :
        R = {f[t] : t \in T} /\ \A t \in T : f[t] \in Leading(old, new, t)
  BY DEF Merges
<1>2. \A t \in T : f[t].title = t
  BY <1>1 DEF Leading
<1>3. QED
  BY <1>1, <1>2 DEF Titles

\* Scholar extraction writes rows.
LEMMA ScholarData ==
  ASSUME EtlTypeOK, StartScholar \/ SaveScholar \/ DropTemp \/ (\E a \in Authors : ScrapeAuthor(a))
  PROVE  Data'
<1>1. Data
  BY TypeParts
<1>2. CASE StartScholar
  <2>1. (temp' = temp \/ temp' = Absent) /\ UNCHANGED <<raw, master, scholar, merged, enriched,
             table, fresh, mode, df, triggers, listed, omitted>>
    BY <1>2 DEF StartScholar, ReadLecturers, world
  <2>2. temp' \in Artifact(Row)
    BY <1>1, <2>1, ArtifactTypes DEF Data
  <2>3. scrape' \in [todo : SUBSET Authors, rows : SUBSET Row, new : Nat]
    <3>1. CASE UNCHANGED scrape
      BY <3>1, <1>1 DEF Data
    <3>2. CASE ~UNCHANGED scrape
      <4>1. PICK kept \in {temp, Absent}, todo \in SUBSET Authors :
               scrape' = [todo |-> todo \ DoneAuthors(kept.rows), rows |-> kept.rows, new |-> 0]
        BY <1>2, <3>2 DEF StartScholar, ReadLecturers
      <4>2. kept.rows \subseteq Row
        BY <1>1, <4>1, ArtifactTypes DEF Data
      <4>3. QED
        BY <4>1, <4>2
    <3>3. QED
      BY <3>1, <3>2
  <2>4. QED
    BY <1>1, <2>1, <2>2, <2>3 DEF Data
<1>3. CASE SaveScholar
  <2> scholar.rows \subseteq Row /\ scrape.rows \subseteq Row
    BY <1>1, ArtifactTypes DEF Data
  <2>1. \A R \in Merges(scholar.rows, scrape.rows) : R \subseteq Row
    BY MergesKeepTitles
  <2>2. scholar' \in {scholar, Torn} \/ \E R \in SUBSET Row : scholar' = File(R)
    BY <1>1, <1>3, <2>1 DEF SaveScholar, Data
  <2>3. scholar' \in Artifact(Row)
    BY <1>1, <2>2, ArtifactTypes DEF Data
  <2>4. fresh' \subseteq {"scopus", "scholar"}
    BY <1>1, <1>3 DEF SaveScholar, Data
  <2>5. UNCHANGED <<raw, master, temp, merged, enriched, table, mode, memory, triggers, world>>
    BY <1>3 DEF SaveScholar
  <2>6. QED
    BY <1>1, <2>3, <2>4, <2>5 DEF Data, memory, world
<1>4. CASE DropTemp
  BY <1>1, <1>4, ArtifactTypes DEF DropTemp, Data, NoScrape, world
<1>5. ASSUME NEW a \in Authors, ScrapeAuthor(a)
      PROVE  Data'
  <2>1. PICK got \in {Articles(a), {}} \cup CutShort(a) :
           /\ scrape' = [todo |-> scrape.todo \ {a}, rows |-> scrape.rows \cup got,
                         new |-> scrape.new + 1]
           /\ temp' \in {temp, Torn, File(scrape.rows \cup got)}
           /\ omitted' \in {omitted, omitted \cup ({a} \X (OnProfile(a) \ Titles(got)))}
    BY <1>5 DEF ScrapeAuthor
  <2>2. scrape.rows \cup got \in SUBSET Row
    BY <1>1, <2>1, ScrapedRows DEF Data
  <2>3. temp' \in Artifact(Row)
    BY <1>1, <2>1, <2>2, ArtifactTypes DEF Data
  <2>4. scrape' \in [todo : SUBSET Authors, rows : SUBSET Row, new : Nat]
    BY <1>1, <2>1, <2>2 DEF Data
  <2>5. UNCHANGED <<raw, master, scholar, merged, enriched, table, fresh, mode, df, triggers,
                     listed>>
    BY <1>5 DEF ScrapeAuthor
  <2>6. omitted' \subseteq Authors \X AllTitles
    BY <1>1, <2>1, EtlAssumption DEF Data, OnProfile
  <2>7. QED
    BY <1>1, <2>3, <2>4, <2>5, <2>6 DEF Data
<1>6. QED
  BY <1>2, <1>3, <1>4, <1>5

\* Scopus extraction, its processing and the transformation write papers.
LEMMA ScopusData ==
  ASSUME EtlTypeOK,
         (\E got \in SUBSET Exported : ExtractScopus(got)) \/ ProcessScopus \/ DropRaw \/ Merge
  PROVE  Data'
<1>1. Data
  BY TypeParts
<1>2. /\ \A S \in SUBSET AllTitles : File(S) \in Artifact(AllTitles)
      /\ Torn \in Artifact(AllTitles) /\ Absent \in Artifact(AllTitles)
  BY ArtifactTypes
<1>3. ASSUME NEW got \in SUBSET Exported, ExtractScopus(got)
      PROVE  Data'
  <2>1. raw' \in {raw, File(got), Torn} /\ fresh' \in {fresh, fresh \cup {"scopus"}}
    BY <1>3 DEF ExtractScopus
  <2>2. raw' \in Artifact(AllTitles) /\ fresh' \subseteq {"scopus", "scholar"}
    BY <1>1, <1>2, <2>1, EtlAssumption DEF Data, Exported
  <2>3. UNCHANGED <<master, scholar, temp, merged, enriched, table, mode, memory, triggers, world>>
    BY <1>3 DEF ExtractScopus
  <2>4. QED
    BY <1>1, <2>2, <2>3 DEF Data, memory, world
<1>4. CASE ProcessScopus
  <2>1. master' \in {master, File(NewMaster), Torn} /\ fresh' \in {fresh, fresh \cup {"scopus"}}
    BY <1>4 DEF ProcessScopus, Unreadable, files
  <2>2. NewMaster \subseteq AllTitles
    BY <1>1, ArtifactTypes DEF Data, NewMaster
  <2>3. master' \in Artifact(AllTitles) /\ fresh' \subseteq {"scopus", "scholar"}
    BY <1>1, <1>2, <2>1, <2>2 DEF Data
  <2>4. UNCHANGED <<raw, scholar, temp, merged, enriched, table, mode, memory, triggers, world>>
    BY <1>4 DEF ProcessScopus, Unreadable, files
  <2>5. QED
    BY <1>1, <2>3, <2>4 DEF Data, memory, world
<1>5. CASE DropRaw
  BY <1>1, <1>2, <1>5 DEF Data, DropRaw, memory, world
<1>6. CASE Merge
  <2> DEFINE kept == Deduplicated(master.rows, Titles(scholar.rows))
  <2>1. merged' \in {merged, File(kept), Torn}
    BY <1>6 DEF Merge, Unreadable, files
  <2>2. master.rows \subseteq AllTitles /\ Titles(scholar.rows) \subseteq AllTitles
    <3>1. master.rows \subseteq AllTitles /\ scholar.rows \subseteq Row
      BY <1>1, ArtifactTypes DEF Data
    <3>2. \A r \in Row : r.title \in AllTitles
      BY DEF Row
    <3>3. QED
      BY <3>1, <3>2 DEF Titles
  <2>3. merged' \in Artifact(AllTitles)
    <3>1. kept \subseteq AllTitles
      BY <2>2 DEF Deduplicated
    <3> HIDE DEF kept
    <3>2. QED
      BY <1>1, <1>2, <2>1, <3>1 DEF Data
  <2>4. UNCHANGED <<raw, master, scholar, temp, enriched, table, fresh, mode, memory, triggers, world>>
    BY <1>6 DEF Merge, Unreadable, files
  <2>5. QED
    BY <1>1, <2>3, <2>4 DEF Data, memory, world
<1>7. QED
  BY <1>3, <1>4, <1>5, <1>6

\* The batch that comes next is not larger than what is left.
LEMMA BatchTypes ==
  ASSUME EtlTypeOK
  PROVE  /\ Target \in Nat
         /\ df.attempted < Target => BatchSize \in Nat /\ df.attempted + BatchSize <= Target
         /\ Pending \subseteq df.rows \ df.done /\ df.rows \subseteq AllTitles
         /\ df.attempted \in Nat /\ df.before \subseteq Completable /\ df.done \subseteq Completable
<1>1. /\ df.rows \subseteq AllTitles /\ df.attempted \in Nat
      /\ df.before \subseteq Completable /\ df.done \subseteq Completable
  BY TypeParts DEF Data
<1>2. df.rows \ df.before \in SUBSET AllTitles
  BY <1>1
<1>3. Target \in Nat
  BY <1>2, PapersFinite, EtlAssumption DEF Target
<1>4. df.attempted < Target => BatchSize \in Nat /\ df.attempted + BatchSize <= Target
  BY <1>1, <1>3, EtlAssumption DEF BatchSize
<1>5. Pending \subseteq df.rows \ df.done
  BY DEF Pending, Window
<1>6. QED
  BY <1>1, <1>3, <1>4, <1>5

\* Enrichment marks rows that can be completed, and those are loaded.
LEMMA EnrichData ==
  ASSUME EtlTypeOK, StartEnrich \/ EnrichBatch \/ FinishEnrich \/ Load
  PROVE  Data'
<1>1. Data
  BY TypeParts
<1>2. /\ \A S \in SUBSET Completable : File(S) \in Artifact(Completable)
      /\ Torn \in Artifact(Completable) /\ enriched.rows \subseteq Completable
  BY <1>1, ArtifactTypes DEF Data
<1>3. CASE StartEnrich
  <2>1. df' = df \/ Restore
    BY <1>3 DEF StartEnrich, Unreadable, memory
  <2>2. merged.rows \subseteq AllTitles
    BY <1>1, ArtifactTypes DEF Data
  <2>3. df' \in [rows : SUBSET AllTitles, before : SUBSET Completable,
                 done : SUBSET Completable, tried : SUBSET AllTitles, attempted : Nat]
    BY <1>1, <1>2, <2>1, <2>2 DEF Data, Restore
  <2>4. UNCHANGED <<files, mode, scrape, triggers, world>>
    BY <1>3 DEF StartEnrich, Unreadable, memory
  <2>5. QED
    BY <1>1, <2>3, <2>4 DEF Data, files, world
<1>4. CASE EnrichBatch
  <2>1. PICK new \in SUBSET (Pending \cap Completable) :
          /\ df' = [df EXCEPT !.done = df.done \cup new, !.tried = df.tried \cup Pending,
                              !.attempted = df.attempted + BatchSize]
          /\ enriched' \in {File(df.done \cup new), Torn}
    BY <1>4 DEF EnrichBatch
  <2>2. /\ BatchSize \in Nat /\ Pending \subseteq AllTitles /\ df.done \cup new \subseteq Completable
    BY <1>4, <2>1, BatchTypes DEF EnrichBatch
  <2>3. df' \in [rows : SUBSET AllTitles, before : SUBSET Completable,
                 done : SUBSET Completable, tried : SUBSET AllTitles, attempted : Nat]
    <3> DEFINE done == df.done \cup new  tried == df.tried \cup Pending
               n == df.attempted + BatchSize
    <3>1. done \in SUBSET Completable /\ tried \in SUBSET AllTitles /\ n \in Nat
      BY <1>1, <2>2 DEF Data
    <3>2. df' = [df EXCEPT !.done = done, !.tried = tried, !.attempted = n]
      BY <2>1
    <3> HIDE DEF done, tried, n
    <3>3. QED
      BY <1>1, <3>1, <3>2 DEF Data
  <2>4. enriched' \in Artifact(Completable)
    BY <1>2, <2>1, <2>2
  <2>5. UNCHANGED <<raw, master, scholar, temp, merged, table, fresh, mode, scrape, triggers, world>>
    BY <1>4 DEF EnrichBatch
  <2>6. QED
    BY <1>1, <2>3, <2>4, <2>5 DEF Data, world
<1>5. CASE FinishEnrich
  <2>1. enriched' \in {File(df.done), Torn}
    BY <1>5 DEF FinishEnrich
  <2>2. enriched' \in Artifact(Completable)
    BY <1>2, <2>1, BatchTypes
  <2>3. UNCHANGED <<raw, master, scholar, temp, merged, table, fresh, mode, memory, triggers, world>>
    BY <1>5 DEF FinishEnrich
  <2>4. QED
    BY <1>1, <2>2, <2>3 DEF Data, memory, world
<1>6. CASE Load
  <2>1. table' \in SUBSET (table \cup enriched.rows)
    BY <1>6 DEF Load, Unreadable, files, Window
  <2>2. UNCHANGED <<raw, master, scholar, temp, merged, enriched, fresh, mode, memory, triggers, world>>
    BY <1>6 DEF Load, Unreadable, files
  <2>3. QED
    BY <1>1, <1>2, <2>1, <2>2 DEF Data, memory, world
<1>7. QED
  BY <1>3, <1>4, <1>5, <1>6

\* Every artifact, memory and task stays within its type.
THEOREM EtlTypeCorrect == Spec => []EtlTypeOK
<1>1. Init => EtlTypeOK
  BY ArtifactTypes, EtlAssumption DEF Init, EtlTypeOK, NoScrape, NoDf
<1>2. EtlTypeOK /\ [Next]_vars => EtlTypeOK'
  <2> SUFFICES ASSUME EtlTypeOK, [Next]_vars
               PROVE  EtlTypeOK'
    OBVIOUS
  <2>1. Control /\ Data
    BY TypeParts
  <2>2. CASE Work
    <3>1. ASSUME \E t \in Tasks : Skip(t)
          PROVE  Data'
      BY <2>1, <3>1 DEF Skip, Data, files, memory, world
    <3>2. Data'
      <4>1. \/ \E t \in Tasks : Skip(t)
            \/ StartScholar \/ SaveScholar \/ DropTemp \/ \E a \in Authors : ScrapeAuthor(a)
            \/ (\E got \in SUBSET Exported : ExtractScopus(got)) \/ ProcessScopus \/ DropRaw
            \/ Merge
            \/ StartEnrich \/ EnrichBatch \/ FinishEnrich \/ Load
        BY <2>2 DEF Work
      <4>2. QED
        BY <3>1, <4>1, ScholarData, ScopusData, EnrichData
    <3>3. QED
      BY <2>1, <2>2, <3>2, WorkControl DEF EtlTypeOK, Control, Data, Steps
  <2>3. CASE Schedule
    BY <2>1, <2>3, StartRunTypes DEF Schedule, Data
  <2>4. CASE Trigger
    <3>1. triggers' \in 0..MaxTriggers
      BY <2>1, <2>4, EtlAssumption DEF Trigger, Data
    <3>2. QED
      BY <2>4, <3>1, StartRunTypes DEF Trigger
  <2>5. ASSUME NEW t \in Tasks, Crash(t)
        PROVE  EtlTypeOK'
    <3>1. Control'
      BY <2>1, <2>5, TaskNames, FailControl DEF Crash
    <3>2. Data'
      BY <2>1, <2>5 DEF Crash, Data, files, memory, world
    <3>3. QED
      BY <3>1, <3>2 DEF EtlTypeOK, Control, Data, Steps
  <2>6. ASSUME NEW t \in AllTitles, Publish(t)
        PROVE  EtlTypeOK'
    <3>1. UNCHANGED <<files, mode, at, tries, memory, faults, triggers>>
      BY <2>6 DEF Publish
    <3>2. listed' \subseteq AllTitles
      BY <2>1, <2>6 DEF Publish, Data
    <3>3. scholar.rows \cup temp.rows \cup scrape.rows \subseteq Row
      BY <2>1, ArtifactTypes DEF Data
    <3>4. DoneAuthors(scholar.rows \cup temp.rows \cup scrape.rows) \subseteq Authors
      BY <3>3 DEF DoneAuthors, Row
    <3> DEFINE marked == DoneAuthors(scholar.rows \cup temp.rows \cup scrape.rows)
               late == {<<a, t>> : a \in {b \in marked : t \in Profile[b]}}
    <3>5. omitted' \subseteq Authors \X AllTitles
      <4>1. omitted' = omitted \cup late
        BY <2>6 DEF Publish
      <4>2. marked \subseteq Authors
        BY <3>4
      <4> HIDE DEF marked
      <4>3. late \subseteq Authors \X AllTitles
        BY <4>2
      <4> HIDE DEF late
      <4>4. QED
        BY <2>1, <4>1, <4>3 DEF Data
    <3>6. QED
      BY <3>1, <3>2, <3>5 DEF EtlTypeOK, files, memory
  <2>7. CASE UNCHANGED vars
    BY <2>7 DEF vars, files, memory, world, EtlTypeOK
  <2>8. QED
    BY <2>2, <2>3, <2>4, <2>5, <2>6, <2>7 DEF Next
<1>3. QED
  BY <1>1, <1>2, PTL DEF Spec

-----------------------------------------------------------------------------
(* Every title of an author marked as complete is kept, but for those an    *)
(* answer omitted.                                                          *)

\* Covered, with the titles that have come out and the omitted ones as parameters.
CoveredBy(R, L, O) ==
  \A a \in DoneAuthors(R) : \A p \in Profile[a] \cap L : p \in Titles(R) \/ <<a, p>> \in O

\* CoveredAuthor in these terms.
LEMMA CoveredAuthorBy ==
  CoveredAuthor <=> /\ CoveredBy(scholar.rows, listed, omitted)
                    /\ CoveredBy(temp.rows, listed, omitted)
                    /\ CoveredBy(scrape.rows, listed, omitted)
  BY DEF CoveredAuthor, Covered, CoveredBy, OnProfile

\* Rows that are put together, and rows that one merge keeps of them, cover what
\* they covered; more omissions do no harm.
LEMMA CoveredRows ==
  ASSUME NEW L, NEW O
  PROVE  /\ CoveredBy({}, L, O)
         /\ \A R1, R2 : CoveredBy(R1, L, O) /\ CoveredBy(R2, L, O) =>
              /\ CoveredBy(R1 \cup R2, L, O)
              /\ \A R \in Merges(R1, R2) : CoveredBy(R, L, O)
         /\ \A R, O1 : CoveredBy(R, L, O) /\ O \subseteq O1 => CoveredBy(R, L, O1)
<1>1. CoveredBy({}, L, O)
  BY DEF CoveredBy, DoneAuthors
<1>2. ASSUME NEW R1, NEW R2, CoveredBy(R1, L, O), CoveredBy(R2, L, O)
      PROVE  CoveredBy(R1 \cup R2, L, O)
  <2>1. /\ DoneAuthors(R1 \cup R2) \subseteq DoneAuthors(R1) \cup DoneAuthors(R2)
        /\ Titles(R1) \cup Titles(R2) \subseteq Titles(R1 \cup R2)
    BY DEF DoneAuthors, Titles
  <2>2. QED
    BY <1>2, <2>1 DEF CoveredBy
<1>3. ASSUME NEW R1, NEW R2, CoveredBy(R1, L, O), CoveredBy(R2, L, O), NEW R \in Merges(R1, R2)
      PROVE  CoveredBy(R, L, O)
  <2>1. R \subseteq R1 \cup R2 /\ Titles(R) = Titles(R1 \cup R2)
    BY MergesKeepTitles
  <2>2. DoneAuthors(R) \subseteq DoneAuthors(R1 \cup R2)
    BY <2>1 DEF DoneAuthors
  <2>3. QED
    BY <1>2, <1>3, <2>1, <2>2 DEF CoveredBy
<1>4. ASSUME NEW R, NEW O1, CoveredBy(R, L, O), O \subseteq O1
      PROVE  CoveredBy(R, L, O1)
  BY <1>4 DEF CoveredBy
<1>5. QED
  BY <1>1, <1>2, <1>3, <1>4

\* Articles that are marked as complete are the profile; an answer cut short is
\* the profile without what it omits.
LEMMA CoveredArticles ==
  ASSUME NEW a \in Authors, NEW O
  PROVE  /\ CoveredBy(Articles(a), listed, O)
         /\ \A got \in CutShort(a) :
              CoveredBy(got, listed, O \cup ({a} \X (OnProfile(a) \ Titles(got))))
<1>1. CoveredBy(Articles(a), listed, O)
  <2>1. SUFFICES ASSUME NEW r \in Articles(a), r.done
                 PROVE  OnProfile(a) \subseteq Titles(Articles(a)) /\ r.author = a
    BY DEF CoveredBy, DoneAuthors, OnProfile
  <2>2. r.author = a /\ Cardinality(OnProfile(a)) <= Limit
    <3>1. r.author = a
      BY ScrapedRows
    <3>2. \A q \in Answer(a, Limit, FALSE) : q.done = FALSE
      BY AnswersAreRows
    <3>3. QED
      BY <2>1, <3>1, <3>2, ArticlesAreAnswers
  <2>3. OnProfile(a) \in SUBSET AllTitles
    BY EtlAssumption DEF OnProfile
  <2>4. Window(OnProfile(a), 0, Limit) = OnProfile(a)
    BY <2>2, <2>3, WholeWindow, EtlAssumption
  <2>5. QED
    BY <2>2, <2>4, ArticlesAreAnswers, AnswersAreRows
<1>2. ASSUME NEW got \in CutShort(a)
      PROVE  CoveredBy(got, listed, O \cup ({a} \X (OnProfile(a) \ Titles(got))))
  <2>1. \A r \in got : r.author = a
    BY ScrapedRows
  <2>2. DoneAuthors(got) \subseteq {a}
    BY <2>1 DEF DoneAuthors
  <2>3. QED
    BY <2>2 DEF CoveredBy, OnProfile
<1>3. QED
  BY <1>1, <1>2

\* The three places that mark authors are changed by these steps only.
LEMMA CoveredKept ==
  ASSUME CoveredAuthor, UNCHANGED <<scholar, temp, world>>, UNCHANGED scrape \/ scrape' = NoScrape
  PROVE  CoveredAuthor'
<1>1. CoveredBy(NoScrape.rows, listed, omitted)
  BY CoveredRows DEF NoScrape
<1>2. QED
  BY <1>1, CoveredAuthorBy DEF world, CoveredAuthor, Covered, CoveredBy, OnProfile

\* What is left to show of a step after which the three places have these rows.
LEMMA CoveredThen ==
  ASSUME CoveredBy(scholar'.rows, listed', omitted'), CoveredBy(temp'.rows, listed', omitted'),
         CoveredBy(scrape'.rows, listed', omitted')
  PROVE  CoveredAuthor'
  BY DEF CoveredAuthor, Covered, CoveredBy, OnProfile

\* Scholar extraction marks only authors whose titles it has, or knows to omit.
LEMMA CoveredByScholar ==
  ASSUME CoveredAuthor,
         StartScholar \/ SaveScholar \/ DropTemp \/ \E a \in Authors : ScrapeAuthor(a)
  PROVE  CoveredAuthor'
<1> Torn.rows = {} /\ Absent.rows = {} /\ \A R : File(R).rows = R
  BY ArtifactTypes
<1> DEFINE Safe(R) == CoveredBy(R, listed, omitted)
<1>1. Safe(scholar.rows) /\ Safe(temp.rows) /\ Safe(scrape.rows)
  BY CoveredAuthorBy
<1>2. /\ Safe({})
      /\ \A R1, R2 : Safe(R1) /\ Safe(R2) =>
           Safe(R1 \cup R2) /\ \A R \in Merges(R1, R2) : Safe(R)
  BY CoveredRows
<1>3. ASSUME UNCHANGED world, Safe(scholar'.rows), Safe(temp'.rows), Safe(scrape'.rows)
      PROVE  CoveredAuthor'
  BY <1>3, CoveredThen DEF world
<1> HIDE DEF Safe
<1>4. CASE StartScholar
  <2>1. /\ temp' \in {temp, Absent} /\ scholar' = scholar /\ UNCHANGED world
        /\ scrape' = scrape \/ scrape'.rows \in {temp.rows, Absent.rows}
    BY <1>4 DEF StartScholar, ReadLecturers
  <2>2. QED
    BY <1>1, <1>2, <1>3, <2>1
<1>5. CASE SaveScholar
  <2>1. /\ UNCHANGED <<temp, scrape, world>>
        /\ \/ scholar' \in {scholar, Torn, File(scrape.rows)}
           \/ \E R \in Merges(scholar.rows, scrape.rows) : scholar' = File(R)
    BY <1>5 DEF SaveScholar, memory
  <2>2. Safe(scholar'.rows)
    BY <1>1, <1>2, <2>1
  <2>3. QED
    BY <1>1, <1>3, <2>1, <2>2
<1>6. CASE DropTemp
  <2>1. temp'.rows = {} /\ scrape'.rows = {} /\ scholar' = scholar /\ UNCHANGED world
    BY <1>6 DEF DropTemp, NoScrape
  <2>2. QED
    BY <1>1, <1>2, <1>3, <2>1
<1>7. ASSUME NEW a \in Authors, ScrapeAuthor(a)
      PROVE  CoveredAuthor'
  <2>1. PICK got \in {Articles(a), {}} \cup CutShort(a) :
           /\ scrape' = [todo |-> scrape.todo \ {a}, rows |-> scrape.rows \cup got,
                         new |-> scrape.new + 1]
           /\ temp' \in {temp, Torn, File(scrape.rows \cup got)} /\ UNCHANGED <<scholar, listed>>
           /\ \/ got \in {Articles(a), {}} /\ omitted' = omitted
              \/ /\ got \in CutShort(a)
                 /\ omitted' \in {omitted \cup ({a} \X (OnProfile(a) \ Titles(got))), omitted}
                 /\ got # {} => omitted' = omitted \cup ({a} \X (OnProfile(a) \ Titles(got)))
    BY <1>7 DEF ScrapeAuthor
  <2> DEFINE Now(R) == CoveredBy(R, listed', omitted')
  <2>2. omitted \subseteq omitted' /\ listed' = listed
    BY <2>1
  <2>3. Now(got)
    <3>1. CASE got = {}
      BY <3>1, CoveredRows
    <3>2. CASE got = Articles(a)
      BY <2>2, <3>2, CoveredArticles
    <3>3. CASE got \in CutShort(a) /\ got # {}
      <4>1. \/ omitted' = omitted \cup ({a} \X (OnProfile(a) \ Titles(got)))
            \/ got = Articles(a)
        BY <2>1, <3>3
      <4>2. QED
        BY <2>2, <3>2, <3>3, <4>1, CoveredArticles
    <3>4. QED
      BY <3>1, <3>2, <3>3
  <2>4. Now(scholar.rows) /\ Now(temp.rows) /\ Now(scrape.rows) /\ Now({})
    BY <1>1, <2>2, CoveredRows DEF Safe
  <2>5. Now(scrape.rows \cup got) /\ scrape'.rows = scrape.rows \cup got
    BY <2>1, <2>3, <2>4, CoveredRows
  <2> HIDE DEF Now
  <2>6. Now(temp'.rows) /\ Now(scholar'.rows) /\ Now(scrape'.rows)
    BY <2>1, <2>4, <2>5
  <2>7. QED
    BY <2>6, CoveredThen DEF Now
<1>8. QED
  BY <1>4, <1>5, <1>6, <1>7

\* A title that comes out late is omitted by all authors marked by then.
LEMMA CoveredByPublish ==
  ASSUME CoveredAuthor, NEW t, Publish(t)
  PROVE  CoveredAuthor'
<1> DEFINE all == scholar.rows \cup temp.rows \cup scrape.rows
<1>1. /\ UNCHANGED <<scholar, temp, scrape>> /\ listed' = listed \cup {t}
      /\ omitted \subseteq omitted'
      /\ \A a \in DoneAuthors(all) : t \in Profile[a] => <<a, t>> \in omitted'
  BY DEF Publish, files, memory
<1> HIDE DEF all
<1>2. ASSUME NEW R \in SUBSET all, CoveredBy(R, listed, omitted)
      PROVE  CoveredBy(R, listed', omitted')
  <2>1. DoneAuthors(R) \subseteq DoneAuthors(all)
    BY DEF DoneAuthors
  <2>2. QED
    BY <1>1, <1>2, <2>1 DEF CoveredBy
<1>3. scholar.rows \subseteq all /\ temp.rows \subseteq all /\ scrape.rows \subseteq all
  BY DEF all
<1>4. QED
  BY <1>1, <1>2, <1>3, CoveredAuthorBy, CoveredThen

\* Whatever is merged, cut short, retried or lost, an author marked as complete
\* has in the artifact that marks it every title of the profile that no complete
\* answer omitted and that did not come out too late.
THEOREM CompleteAuthorsCovered == Spec => []CoveredAuthor
<1>1. Init => CoveredAuthor
  <2>1. CoveredBy({}, listed, omitted)
    BY CoveredRows
  <2>2. QED
    BY <2>1, CoveredAuthorBy DEF Init, Absent, NoScrape
<1>2. CoveredAuthor /\ [Next]_vars => CoveredAuthor'
  <2> SUFFICES ASSUME CoveredAuthor, [Next]_vars
               PROVE  CoveredAuthor'
    OBVIOUS
  <2>1. CASE StartScholar \/ SaveScholar \/ DropTemp \/ \E a \in Authors : ScrapeAuthor(a)
    BY <2>1, CoveredByScholar
  <2>2. CASE \/ \E t \in Tasks : Skip(t) \/ Crash(t)
             \/ Schedule \/ Trigger \/ UNCHANGED vars
    BY <2>2, CoveredKept DEF Skip, Crash, Schedule, Trigger, StartRun, files, memory, vars
  <2>3. CASE (\E got \in SUBSET Exported : ExtractScopus(got)) \/ ProcessScopus \/ DropRaw \/ Merge
    BY <2>3, CoveredKept DEF ExtractScopus, ProcessScopus, DropRaw, Merge, Unreadable, files, memory
  <2>4. CASE StartEnrich \/ EnrichBatch \/ FinishEnrich \/ Load
    BY <2>4, CoveredKept
       DEF StartEnrich, EnrichBatch, FinishEnrich, Load, Unreadable, files, memory
  <2>5. CASE \E t \in AllTitles : Publish(t)
    BY <2>5, CoveredByPublish
  <2>6. QED
    BY <2>1, <2>2, <2>3, <2>4, <2>5 DEF Next, Work
<1>3. QED
  BY <1>1, <1>2, PTL DEF Spec

-----------------------------------------------------------------------------
(* The Scopus export is not lost.                                          *)

\* A torn or absent artifact has no rows; between the write of the master and
\* the deletion of the export, the extraction is over and the master has it.
ExportInv ==
  /\ raw.st # "whole" => raw.rows = {}
  /\ master.st # "whole" => master.rows = {}
  /\ at["transform"] \in {"go", "saved"} => at["scopus"] = "ok"
  /\ at["transform"] = "saved" => raw.rows \subseteq master.rows

\* Another task, or the same one, goes to a step that holds no obligation.
LEMMA ExportElsewhere ==
  ASSUME ExportInv, UNCHANGED <<raw, master>>, EtlTypeOK, NEW t \in Tasks, NEW step,
         at' = [at EXCEPT ![t] = step], step \notin {"go", "saved"} \/ t # "transform",
         t = "scopus" => at["scopus"] # "ok"
  PROVE  ExportInv'
<1>1. at \in [Tasks -> Steps] /\ "scopus" \in Tasks /\ "transform" \in Tasks
  BY TaskNames DEF EtlTypeOK, Steps
<1>2. /\ at'["transform"] = IF t = "transform" THEN step ELSE at["transform"]
      /\ at'["scopus"] = IF t = "scopus" THEN step ELSE at["scopus"]
  BY <1>1
<1>3. QED
  BY <1>2 DEF ExportInv

\* What an attempt does to the step of its task.
LEMMA StepOf ==
  ASSUME NEW t, NEW step, NEW f, Go(t, step) \/ Fail(t) \/ Saved(t, step, f)
  PROVE  \E s \in {step, "idle", "failed"} : at' = [at EXCEPT ![t] = s]
  BY DEF Go, Fail, Saved

\* Steps that leave the export and the master alone.
LEMMA ExportUntouched ==
  ASSUME ExportInv, EtlTypeOK, UNCHANGED <<raw, master>>, NEW t \in Tasks \ {"transform"},
         NEW step, NEW f, Go(t, step) \/ Fail(t) \/ Saved(t, step, f),
         t = "scopus" => at["scopus"] # "ok"
  PROVE  ExportInv'
<1>1. PICK s : at' = [at EXCEPT ![t] = s]
  BY StepOf
<1>2. QED
  BY <1>1, ExportElsewhere

\* The export, its processing and the transformation.
LEMMA ExportSteps ==
  ASSUME ExportInv, EtlTypeOK,
         (\E got \in SUBSET Exported : ExtractScopus(got)) \/ ProcessScopus \/ DropRaw \/ Merge
  PROVE  /\ ExportInv'
         /\ raw'.st = "absent" => raw.rows \subseteq master'.rows
         /\ master'.st = "whole" => master.rows \subseteq master'.rows
<1>1. at \in [Tasks -> Steps] /\ "scopus" \in Tasks /\ "transform" \in Tasks
  BY TaskNames DEF EtlTypeOK, Steps
<1> Torn.rows = {} /\ Absent.rows = {} /\ Torn.st = "torn" /\ Absent.st = "absent"
      /\ \A R : File(R).rows = R /\ File(R).st = "whole"
  BY ArtifactTypes
<1>2. ASSUME NEW got \in SUBSET Exported, ExtractScopus(got)
      PROVE  /\ ExportInv'
             /\ raw'.st = "absent" => raw.rows = {}
             /\ master' = master
  <2>1. /\ at["scopus"] = "idle" /\ master' = master /\ raw' \in {raw, Torn, File(got)}
    BY <1>2 DEF ExtractScopus, Ready
  <2>2. PICK s : at' = [at EXCEPT !["scopus"] = s]
    <3>1. PICK f : Go("scopus", "ok") \/ Saved("scopus", "ok", f)
      BY <1>2 DEF ExtractScopus
    <3>2. QED
      BY <3>1, StepOf
  <2>3. at["transform"] \notin {"go", "saved"} /\ at'["transform"] = at["transform"]
    BY <1>1, <2>1, <2>2 DEF ExportInv
  <2>4. QED
    BY <2>1, <2>3 DEF ExportInv
<1>3. CASE ProcessScopus
  <2>1. Ready("transform") /\ raw' = raw
    BY <1>3 DEF ProcessScopus, Unreadable, files
  <2>2. at["scopus"] = "ok"
    BY <2>1 DEF Ready, Upstream
  <2>3. \/ Fail("transform") /\ master' = master
        \/ \E f \in {File(NewMaster), Torn} : master' = f /\ Saved("transform", "saved", f)
    BY <1>3 DEF ProcessScopus, Unreadable, files
  <2>4. PICK s \in {"saved", "idle", "failed"} :
          at' = [at EXCEPT !["transform"] = s] /\ (s = "saved" => master' = File(NewMaster))
    BY <2>3 DEF Fail, Saved, Go
  <2>5. at'["scopus"] = "ok" /\ at'["transform"] = s
    BY <1>1, <2>2, <2>4
  <2>6. master' \in {master, File(NewMaster), Torn}
    BY <2>3
  <2>7. raw.rows \subseteq NewMaster /\ master.rows \subseteq NewMaster
    BY DEF NewMaster
  <2>8. ExportInv'
    BY <2>1, <2>4, <2>5, <2>6, <2>7 DEF ExportInv
  <2>9. raw'.st = "absent" => raw.rows = {}
    BY <2>1 DEF ExportInv
  <2>10. QED
    BY <2>6, <2>7, <2>8, <2>9
<1>4. CASE DropRaw
  <2>1. /\ raw' = Absent /\ master' = master /\ at["transform"] = "saved"
        /\ at' = [at EXCEPT !["transform"] = "go"]
    BY <1>4 DEF DropRaw, Go
  <2>2. at'["scopus"] = "ok" /\ at'["transform"] = "go"
    BY <1>1, <2>1 DEF ExportInv
  <2>3. QED
    BY <2>1, <2>2 DEF ExportInv
<1>5. CASE Merge
  <2>1. UNCHANGED <<raw, master>>
    BY <1>5 DEF Merge, Unreadable, files
  <2>2. PICK s \in {"ok", "idle", "failed"} : at' = [at EXCEPT !["transform"] = s]
    <3>1. CASE Go("transform", "ok") \/ Fail("transform")
      BY <3>1 DEF Go, Fail
    <3>2. CASE \E f : Saved("transform", "ok", f)
      BY <3>2, StepOf
    <3>3. Unreadable("transform") => Fail("transform")
      BY DEF Unreadable
    <3>4. QED
      BY <1>5, <3>1, <3>2, <3>3 DEF Merge
  <2>3. ExportInv'
    BY <1>1, <2>1, <2>2, ExportElsewhere
  <2>4. QED
    BY <2>1, <2>3 DEF ExportInv
<1>6. QED
  BY <1>2, <1>3, <1>4, <1>5

\* Every step keeps ExportInv, and the papers of the export and of the master.
LEMMA ExportNext ==
  ASSUME ExportInv, EtlTypeOK, [Next]_vars
  PROVE  /\ ExportInv'
         /\ raw'.st = "absent" => raw.rows \subseteq master'.rows
         /\ master'.st = "whole" => master.rows \subseteq master'.rows
<1>1. CASE (\E got \in SUBSET Exported : ExtractScopus(got)) \/ ProcessScopus \/ DropRaw \/ Merge
  BY <1>1, ExportSteps
<1>2. UNCHANGED <<raw, master>> =>
        /\ raw'.st = "absent" => raw.rows \subseteq master'.rows
        /\ master'.st = "whole" => master.rows \subseteq master'.rows
  BY DEF ExportInv
<1>3. CASE UNCHANGED vars
  BY <1>2, <1>3 DEF vars, files, ExportInv
<1>4. CASE Schedule \/ Trigger
  <2>1. UNCHANGED <<raw, master>> /\ at' = [t \in Tasks |-> "idle"]
    BY <1>4 DEF Schedule, Trigger, StartRun
  <2>2. at'["transform"] = "idle"
    BY <2>1, TaskNames
  <2>3. QED
    BY <1>2, <2>1, <2>2 DEF ExportInv
<1>5. ASSUME NEW t \in Tasks, Crash(t) \/ Skip(t)
      PROVE  UNCHANGED <<raw, master>> /\ ExportInv'
  <2>1. UNCHANGED <<raw, master>> /\ at[t] # "ok"
    BY <1>5 DEF Crash, Skip, files, Ready, Running
  <2>2. PICK s \in {"ok", "idle", "failed"} : at' = [at EXCEPT ![t] = s]
    BY <1>5, StepOf DEF Crash, Skip
  <2>3. QED
    BY <2>1, <2>2, ExportElsewhere
<1>6. CASE StartScholar \/ SaveScholar \/ DropTemp \/ \E a \in Authors : ScrapeAuthor(a)
  <2>1. UNCHANGED <<raw, master>>
    BY <1>6 DEF StartScholar, SaveScholar, DropTemp, ScrapeAuthor
  <2>2. PICK step, f : Go("scholar", step) \/ Fail("scholar") \/ Saved("scholar", step, f)
    BY <1>6 DEF StartScholar, ReadLecturers, SaveScholar, DropTemp, ScrapeAuthor
  <2>3. QED
    BY <1>2, <2>1, <2>2, ExportUntouched, TaskNames
<1>7. CASE StartEnrich \/ EnrichBatch \/ FinishEnrich
  <2>1. UNCHANGED <<raw, master>>
    BY <1>7 DEF StartEnrich, EnrichBatch, FinishEnrich, Unreadable, files
  <2>2. PICK step, f : Go("enrich", step) \/ Fail("enrich") \/ Saved("enrich", step, f)
    BY <1>7 DEF StartEnrich, EnrichBatch, FinishEnrich, Unreadable
  <2>3. QED
    BY <1>2, <2>1, <2>2, ExportUntouched, TaskNames
<1>8. CASE Load
  <2>1. UNCHANGED <<raw, master>>
    BY <1>8 DEF Load, Unreadable, files
  <2>2. Go("load", "ok") \/ Fail("load")
    BY <1>8 DEF Load, Unreadable
  <2>3. QED
    BY <1>2, <2>1, <2>2, ExportUntouched, TaskNames
<1>9. ASSUME NEW t \in AllTitles, Publish(t)
      PROVE  UNCHANGED <<raw, master>> /\ ExportInv'
  BY <1>9 DEF Publish, files, ExportInv
<1>10. QED
  BY <1>1, <1>2, <1>3, <1>4, <1>5, <1>6, <1>7, <1>8, <1>9 DEF Next, Work

\* No failure or repetition loses a paper of the export or of the master.
THEOREM ScopusPapersKept == Spec => ScopusKept
<1>1. Init => ExportInv
  BY TaskNames DEF Init, ExportInv, Absent
<1>2. ExportInv /\ EtlTypeOK /\ [Next]_vars => ExportInv'
  BY ExportNext
<1>3. ExportInv /\ EtlTypeOK /\ [Next]_vars =>
        [/\ raw'.st = "absent" => raw.rows \subseteq master'.rows
         /\ master'.st = "whole" => master.rows \subseteq master'.rows]_vars
  BY ExportNext
<1>4. QED
  BY <1>1, <1>2, <1>3, EtlTypeCorrect, PTL DEF Spec, ScopusKept

-----------------------------------------------------------------------------
(* Paid enrichment: what is complete stays complete, and is not asked again. *)

\* While the enrichment runs the transformation is over; its memory has the
\* complete rows of the checkpoint, and the rows tried are the first ones of the
\* list of the start.
EnrichInv ==
  /\ enriched.st # "whole" => enriched.rows = {}
  /\ at["enrich"] # "saved"
  /\ at["enrich"] = "go" =>
       /\ at["transform"] = "ok" /\ enriched.rows \cap merged.rows \subseteq df.done
       /\ df.before \subseteq df.done /\ df.done \subseteq df.rows
       /\ df.done \ df.before \subseteq df.tried
       /\ df.tried = Window(df.rows \ df.before, 0, df.attempted)

\* Steps of another task that leave the enrichment alone.
LEMMA EnrichElsewhere ==
  ASSUME EnrichInv, EtlTypeOK, UNCHANGED <<merged, enriched, df>>, NEW t \in Tasks \ {"enrich"},
         NEW step, at' = [at EXCEPT ![t] = step], t = "transform" => at["transform"] # "ok"
  PROVE  EnrichInv'
<1>1. at \in [Tasks -> Steps] /\ "enrich" \in Tasks /\ "transform" \in Tasks
  BY TaskNames DEF EtlTypeOK, Steps
<1>2. /\ at'["enrich"] = at["enrich"]
      /\ at'["transform"] = IF t = "transform" THEN step ELSE at["transform"]
  BY <1>1
<1>3. QED
  BY <1>2 DEF EnrichInv

\* The enrichment is not running, or stops.
LEMMA EnrichStopped ==
  ASSUME enriched'.st # "whole" => enriched'.rows = {}, at'["enrich"] \notin {"go", "saved"}
  PROVE  EnrichInv'
  BY DEF EnrichInv

\* The same for the rows R of which B were complete at the start and D are now.
BatchContinuesIn(R, D, B, k, n) ==
  /\ Cardinality(D) - Cardinality(B) \in 0..k
  /\ Window(R \ B, 0, k) \cup Window(R \ D, k - (Cardinality(D) - Cardinality(B)), n)
       = Window(R \ B, 0, k + n)

\* It follows from the number of rows in D and not in B.
LEMMA BatchWindow ==
  ASSUME NEW R \in SUBSET AllTitles, NEW D \in SUBSET R, NEW B \in SUBSET D,
         NEW k \in Nat, NEW n \in Nat, D \ B \subseteq Window(R \ B, 0, k)
  PROVE  BatchContinuesIn(R, D, B, k, n)
<1>1. R \ B \in SUBSET AllTitles /\ D \in SUBSET AllTitles /\ D \ B \in SUBSET Window(R \ B, 0, k)
  OBVIOUS
<1>2. IsFiniteSet(D)
  BY <1>1, PapersFinite
<1>3. Cardinality(D \ B) = Cardinality(D) - Cardinality(D \cap B) /\ D \cap B = B
  BY <1>2, FS_Difference
<1>4. (R \ B) \ (D \ B) = R \ D
  OBVIOUS
<1>5. Continues(R \ B, D \ B, k, n)
  BY <1>1, WindowContinues
<1>6. QED
  BY <1>3, <1>4, <1>5 DEF Continues, BatchContinuesIn

\* The start index of a batch makes it continue the rows that were tried.
LEMMA BatchContinues ==
  ASSUME EnrichInv, EtlTypeOK, at["enrich"] = "go", df.attempted < Target
  PROVE  df.tried \cup Pending =
           Window(df.rows \ df.before, 0, df.attempted + BatchSize)
<1>1. df.rows \in SUBSET AllTitles /\ df.attempted \in Nat /\ BatchSize \in Nat
  BY BatchTypes
<1>2. /\ df.before \in SUBSET df.done /\ df.done \in SUBSET df.rows
      /\ df.done \ df.before \subseteq Window(df.rows \ df.before, 0, df.attempted)
      /\ df.tried = Window(df.rows \ df.before, 0, df.attempted)
  BY DEF EnrichInv
<1>3. BatchContinuesIn(df.rows, df.done, df.before, df.attempted, BatchSize)
  BY <1>1, <1>2, BatchWindow
<1>4. StartIndex = df.attempted - (Cardinality(df.done) - Cardinality(df.before))
  BY <1>1, <1>3 DEF StartIndex, BatchContinuesIn
<1>5. QED
  BY <1>2, <1>3, <1>4 DEF Pending, BatchContinuesIn

\* What the tasks of the enrichment do.
LEMMA EnrichSteps ==
  ASSUME EnrichInv, EtlTypeOK, StartEnrich \/ EnrichBatch \/ FinishEnrich
  PROVE  /\ EnrichInv'
         /\ enriched'.st = "whole" => (enriched.rows \cap merged.rows) \subseteq enriched'.rows
<1>1. at \in [Tasks -> Steps] /\ "enrich" \in Tasks /\ "transform" \in Tasks
  BY TaskNames DEF EtlTypeOK, Steps
<1> Torn.rows = {} /\ Torn.st = "torn" /\ \A R : File(R).rows = R /\ File(R).st = "whole"
  BY ArtifactTypes
<1>2. CASE StartEnrich
  <2>1. UNCHANGED <<merged, enriched>> /\ at["transform"] = "ok"
    BY <1>2 DEF StartEnrich, Unreadable, files, Ready, Upstream
  <2>2. CASE Go("enrich", "go") /\ Restore
    <3>1. at'["enrich"] = "go" /\ at'["transform"] = "ok"
      BY <1>1, <2>1, <2>2 DEF Go
    <3>2. /\ df'.rows = merged.rows /\ df'.before = enriched.rows \cap merged.rows
          /\ df'.done = enriched.rows \cap merged.rows
          /\ df'.tried = {} /\ df'.attempted = 0
      BY <2>2 DEF Restore
    <3>3. Window(df'.rows \ df'.before, 0, 0) = {}
      <4> DEFINE S == df'.rows \ df'.before
      <4>1. \A p : Rank(S, p) \notin 0..(0 + 0 - 1)
        OBVIOUS
      <4> HIDE DEF S
      <4>2. Window(S, 0, 0) = {}
        BY <4>1 DEF Window
      <4>3. QED
        BY <4>2 DEF S
    <3>4. QED
      BY <2>1, <3>1, <3>2, <3>3 DEF EnrichInv
  <2>3. CASE Go("enrich", "ok") \/ Fail("enrich")
    <3>1. at'["enrich"] \in {"ok", "idle", "failed"}
      BY <1>1, <2>3 DEF Go, Fail
    <3>2. EnrichInv'
      BY <2>1, <3>1, EnrichStopped DEF EnrichInv
    <3>3. QED
      BY <2>1, <3>2
  <2>4. QED
    BY <1>2, <2>2, <2>3 DEF StartEnrich, Unreadable
<1>3. CASE EnrichBatch
  <2>1. PICK new, f :
          /\ new \in SUBSET (Pending \cap Completable)
          /\ f \in {File(df.done \cup new), Torn}
          /\ df' = [df EXCEPT !.done = df.done \cup new, !.tried = df.tried \cup Pending,
                              !.attempted = df.attempted + BatchSize]
          /\ enriched' = f
          /\ Saved("enrich", "go", f) \/ (f.st = "whole" /\ Go("enrich", "go"))
    BY <1>3 DEF EnrichBatch
  <2>2. at["enrich"] = "go" /\ df.attempted < Target /\ merged' = merged
    BY <1>3 DEF EnrichBatch
  <2>3. /\ df'.rows = df.rows /\ df'.before = df.before /\ df'.done = df.done \cup new
        /\ df'.tried = df.tried \cup Pending /\ df'.attempted = df.attempted + BatchSize
    BY <2>1 DEF EtlTypeOK
  <2>4. df'.tried = Window(df'.rows \ df'.before, 0, df'.attempted)
    BY <2>2, <2>3, BatchContinues
  <2>5. /\ at["transform"] = "ok" /\ enriched.rows \cap merged.rows \subseteq df.done
        /\ df.before \subseteq df.done /\ df.done \subseteq df.rows
        /\ df.done \ df.before \subseteq df.tried
    BY <2>2 DEF EnrichInv
  <2>6. new \subseteq Pending /\ Pending \subseteq df.rows
    BY <2>1, BatchTypes
  <2>7. enriched'.st = "whole" => enriched'.rows = df'.done
    BY <2>1, <2>3
  <2>8. \/ f.st = "whole" /\ at' = [at EXCEPT !["enrich"] = "go"]
        \/ \E s \in {"idle", "failed"} : at' = [at EXCEPT !["enrich"] = s]
    BY <2>1 DEF Saved, Go, Fail
  <2>9. CASE f.st = "whole" /\ at' = [at EXCEPT !["enrich"] = "go"]
    <3>1. at'["enrich"] = "go" /\ at'["transform"] = "ok" /\ enriched'.st = "whole"
      BY <1>1, <2>1, <2>5, <2>9
    <3>2. enriched'.rows \cap merged'.rows \subseteq df'.done
      BY <2>7, <3>1
    <3>3. df'.done \ df'.before \subseteq df'.tried
      BY <2>3, <2>5, <2>6
    <3>4. df'.before \subseteq df'.done /\ df'.done \subseteq df'.rows
      BY <2>3, <2>5, <2>6
    <3>5. EnrichInv'
      BY <2>4, <3>1, <3>2, <3>3, <3>4 DEF EnrichInv
    <3>6. QED
      BY <2>3, <2>5, <2>7, <3>5
  <2>10. CASE \E s \in {"idle", "failed"} : at' = [at EXCEPT !["enrich"] = s]
    <3>1. at'["enrich"] \notin {"go", "saved"}
      BY <1>1, <2>10
    <3>2. QED
      BY <2>1, <2>3, <2>5, <2>7, <3>1, EnrichStopped
  <2>11. QED
    BY <2>8, <2>9, <2>10
<1>4. CASE FinishEnrich
  <2>1. PICK f \in {File(df.done), Torn} : enriched' = f /\ Saved("enrich", "ok", f)
    BY <1>4 DEF FinishEnrich
  <2>2. \E s \in {"ok", "idle", "failed"} : at' = [at EXCEPT !["enrich"] = s]
    BY <2>1, StepOf
  <2>3. at'["enrich"] \notin {"go", "saved"}
    BY <1>1, <2>2
  <2>4. enriched.rows \cap merged.rows \subseteq df.done
    BY <1>4 DEF FinishEnrich, EnrichInv
  <2>5. QED
    BY <2>1, <2>3, <2>4, EnrichStopped
<1>5. QED
  BY <1>2, <1>3, <1>4

\* Every step keeps EnrichInv, and the complete rows of a checkpoint.
LEMMA EnrichNext ==
  ASSUME EnrichInv, EtlTypeOK, [Next]_vars
  PROVE  /\ EnrichInv'
         /\ enriched'.st = "whole" => (enriched.rows \cap merged.rows) \subseteq enriched'.rows
<1>1. CASE StartEnrich \/ EnrichBatch \/ FinishEnrich
  BY <1>1, EnrichSteps
<1>2. CASE UNCHANGED vars
  BY <1>2 DEF vars, files, memory, EnrichInv
<1>3. at \in [Tasks -> Steps] /\ "enrich" \in Tasks /\ "transform" \in Tasks
  BY TaskNames DEF EtlTypeOK, Steps
<1>4. CASE Schedule \/ Trigger
  <2>1. enriched' = enriched /\ at' = [t \in Tasks |-> "idle"]
    BY <1>4 DEF Schedule, Trigger, StartRun
  <2>2. at'["enrich"] = "idle"
    BY <1>3, <2>1
  <2>3. QED
    BY <2>1, <2>2, EnrichStopped DEF EnrichInv
<1>5. ASSUME NEW t \in Tasks, Crash(t) \/ Skip(t)
      PROVE  enriched' = enriched /\ EnrichInv'
  <2>1. UNCHANGED <<merged, enriched, df>> /\ at[t] # "ok"
    BY <1>5 DEF Crash, Skip, files, memory, Ready, Running
  <2>2. PICK s \in {"ok", "idle", "failed"} : at' = [at EXCEPT ![t] = s]
    BY <1>5, StepOf DEF Crash, Skip
  <2>3. CASE t = "enrich"
    BY <1>3, <2>1, <2>2, <2>3, EnrichStopped DEF EnrichInv
  <2>4. CASE t # "enrich"
    BY <2>1, <2>2, <2>4, EnrichElsewhere
  <2>5. QED
    BY <2>1, <2>3, <2>4
<1>6. CASE StartScholar \/ SaveScholar \/ DropTemp \/ \E a \in Authors : ScrapeAuthor(a)
  <2>1. UNCHANGED <<merged, enriched, df>>
    BY <1>6 DEF StartScholar, SaveScholar, DropTemp, ScrapeAuthor, memory
  <2>2. PICK step, f : Go("scholar", step) \/ Fail("scholar") \/ Saved("scholar", step, f)
    BY <1>6 DEF StartScholar, ReadLecturers, SaveScholar, DropTemp, ScrapeAuthor
  <2>3. PICK s : at' = [at EXCEPT !["scholar"] = s]
    BY <2>2, StepOf
  <2>4. QED
    BY <2>1, <2>3, EnrichElsewhere, TaskNames
<1>7. ASSUME NEW got \in SUBSET Exported, ExtractScopus(got)
      PROVE  enriched' = enriched /\ EnrichInv'
  <2>1. UNCHANGED <<merged, enriched, df>>
    BY <1>7 DEF ExtractScopus, memory
  <2>2. PICK f : Go("scopus", "ok") \/ Saved("scopus", "ok", f)
    BY <1>7 DEF ExtractScopus
  <2>3. PICK s : at' = [at EXCEPT !["scopus"] = s]
    BY <2>2, StepOf
  <2>4. QED
    BY <2>1, <2>3, EnrichElsewhere, TaskNames
<1>8. CASE ProcessScopus \/ DropRaw \/ Merge
  <2>1. enriched' = enriched
    BY <1>8 DEF ProcessScopus, DropRaw, Merge, Unreadable, files
  <2>2. at["transform"] # "ok"
    BY <1>8 DEF ProcessScopus, DropRaw, Merge, Ready
  <2>3. \E s : at' = [at EXCEPT !["transform"] = s]
    <3>1. Unreadable("transform") \/ DropRaw => \E s : at' = [at EXCEPT !["transform"] = s]
      BY DEF Unreadable, DropRaw, Go, Fail
    <3>2. ASSUME NEW step, NEW f, Go("transform", step) \/ Saved("transform", step, f)
          PROVE  \E s : at' = [at EXCEPT !["transform"] = s]
      BY <3>2, StepOf
    <3>3. QED
      BY <1>8, <3>1, <3>2 DEF ProcessScopus, Merge
  <2>4. at'["enrich"] = at["enrich"] /\ at["enrich"] # "go"
    BY <1>3, <2>2, <2>3 DEF EnrichInv
  <2>5. QED
    BY <2>1, <2>4, EnrichStopped DEF EnrichInv
<1>9. CASE Load
  <2>1. UNCHANGED <<merged, enriched, df>>
    BY <1>9 DEF Load, Unreadable, files, memory
  <2>2. \E s : at' = [at EXCEPT !["load"] = s]
    BY <1>9 DEF Load, Unreadable, Go, Fail
  <2>3. QED
    BY <2>1, <2>2, EnrichElsewhere, TaskNames
<1>10. ASSUME NEW t \in AllTitles, Publish(t)
       PROVE  enriched' = enriched /\ EnrichInv'
  BY <1>10 DEF Publish, files, memory, EnrichInv
<1>11. QED
  BY <1>1, <1>2, <1>4, <1>5, <1>6, <1>7, <1>8, <1>9, <1>10 DEF Next, Work

\* EnrichInv holds at all times.
LEMMA EnrichInvariant == Spec => []EnrichInv
<1>1. Init => EnrichInv
  BY TaskNames DEF Init, EnrichInv, Absent
<1>2. EnrichInv /\ EtlTypeOK /\ [Next]_vars => EnrichInv'
  BY EnrichNext
<1>3. QED
  BY <1>1, <1>2, EtlTypeCorrect, PTL DEF Spec

\* In any order of batches, completions and provider failures, the rows tried are
\* the first ones of the list, each of them once.
THEOREM RowsTriedOnce == Spec => []OncePerRun
<1>1. EnrichInv => OncePerRun
  BY DEF EnrichInv, OncePerRun
<1>2. QED
  BY <1>1, EnrichInvariant, PTL

\* A complete row of the checkpoint survives every crash, retry and run as long as
\* the transformed data have its paper, and have it under the same title.
THEOREM PaidWorkSurvives == Spec => PaidWorkKept
<1>1. EnrichInv /\ EtlTypeOK /\ [Next]_vars =>
        [enriched'.st = "whole" =>
           \A t \in enriched.rows : Paper[t] \in PapersOf(merged.rows) =>
               t \in enriched'.rows \/ Retitled(t)]_vars
  <2>1. ASSUME NEW t \in enriched.rows, Paper[t] \in PapersOf(merged.rows), ~Retitled(t)
        PROVE  t \in merged.rows
    BY <2>1 DEF Retitled
  <2>2. QED
    BY <2>1, EnrichNext
<1>2. QED
  BY <1>1, EnrichInvariant, EtlTypeCorrect, PTL DEF Spec, PaidWorkKept
=============================================================================
