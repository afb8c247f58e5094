------------------------------- MODULE PaperEtl -------------------------------
(***************************************************************************)
(* The papers pipeline (Airflow DAG unesa_papers_etl and its task handlers *)
(* in the ETL worker): Scopus and Scholar extraction side by side, then    *)
(* transform, enrich and load.  The tasks share nothing but the artifacts  *)
(* on the storage, which are written in place and outlive attempts, runs   *)
(* and containers: what one attempt leaves behind is what the next one     *)
(* finds.                                                                  *)
(*                                                                         *)
(* A row is known by its title.  Scopus and Scholar may title one paper    *)
(* differently: the transformation, which compares titles loosely, keeps   *)
(* one row of such a paper; everything else goes by the exact title.       *)
(* Sample mode writes other artifacts and is left out.                     *)
(***************************************************************************)
EXTENDS Integers, FiniteSets

CONSTANTS
    Authors,         \* lecturers with a Scholar profile
    NumTitles,       \* titles, numbered in the row order of the artifacts
    Paper,           \* title -> the paper it is taken for
    Profile,         \* author -> titles of the Scholar profile
    Indexed,         \* titles Scopus exports for the lecturers
    Later,           \* titles that come out while the pipeline is in use
    Completable,     \* titles for which every required field can be found
    Limit,           \* limit_per_author
    Batch,           \* rows per enrichment batch
    CheckpointEvery, \* scraped authors between two checkpoints
    MaxPerRun,       \* ETL_ENRICH_MAX_PAPERS_PER_RUN, 0 for all
    Retries,         \* retries of an Airflow task
    MaxFaults,       \* bound: failures of any kind
    MaxTriggers      \* bound: runs triggered with mode full

AllTitles == 1..NumTitles

ASSUME EtlAssumption ==
    /\ NumTitles \in Nat /\ IsFiniteSet(Authors)
    /\ Profile \in [Authors -> SUBSET AllTitles]
    /\ Paper \in [AllTitles -> AllTitles] /\ Later \subseteq AllTitles
    /\ Indexed \subseteq AllTitles /\ Completable \subseteq AllTitles
    /\ \A t, u \in Indexed : Paper[t] = Paper[u] => t = u
    /\ Limit \in Nat \ {0} /\ Batch \in Nat \ {0} /\ CheckpointEvery \in Nat \ {0}
    /\ MaxPerRun \in Nat /\ Retries \in Nat /\ MaxFaults \in Nat /\ MaxTriggers \in Nat

VARIABLES
    raw, master,      \* Scopus: the last export; everything processed so far
    scholar, temp,    \* Scholar: rows of all runs; rows of an unfinished extraction
    merged,           \* the transformed papers
    enriched,         \* the enrichment checkpoint: its complete rows
    table,            \* the papers table
    fresh,            \* extractions with an artifact in the freshness window
    mode,             \* mode of the current run
    at, tries,        \* step and failed attempts of each task
    scrape,           \* memory of the Scholar extraction
    df,               \* memory of the enrichment
    faults, triggers, \* failures and runs by hand so far
    listed,           \* titles that have come out
    omitted           \* history: author and title of the profile that an answer
                      \* taken for the whole profile did not have

files == <<raw, master, scholar, temp, merged, enriched, table, fresh>>
memory == <<scrape, df>>
world == <<listed, omitted>>
vars == <<files, mode, at, tries, memory, faults, triggers, world>>

-----------------------------------------------------------------------------
(* Artifacts and rows.                                                     *)

Row == [title : AllTitles, author : Authors, done : BOOLEAN]
Titles(R) == {r.title : r \in R}
DoneAuthors(R) == {r.author : r \in {q \in R : q.done}}

\* A torn artifact was being written when its writer died: it exists and cannot
\* be read.
Artifact(S) == [st : {"absent", "torn", "whole"}, rows : SUBSET S]
Absent == [st |-> "absent", rows |-> {}]
Torn == [st |-> "torn", rows |-> {}]
File(R) == [st |-> "whole", rows |-> R]

\* Rows from..from+n-1 of S; the rank of a row is the number of rows before it.
Rank(S, p) == Cardinality({q \in S : q < p})
Window(S, from, n) == {p \in S : Rank(S, p) \in from..(from + n - 1)}

OnProfile(a) == Profile[a] \cap listed

\* Mutant: a profile that was cut at the limit counts as scraped.
ArticlesAllDone(a) ==
    {[title |-> p, author |-> a, done |-> TRUE] : p \in Window(OnProfile(a), 0, Limit)}

\* The articles of a profile as get_papers returns them, and whether they are all.
Articles(a) ==
    {[title |-> p, author |-> a, done |-> Cardinality(OnProfile(a)) <= Limit] :
        p \in Window(OnProfile(a), 0, Limit)}

\* Answers that pass for the whole profile and are not: a later page was empty or
\* named no next one, or the last page was cut at the limit.
CutShort(a) ==
    {{[title |-> p, author |-> a, done |-> TRUE] : p \in Window(OnProfile(a), 0, n)} :
        n \in {k \in 1..Limit : k < Cardinality(OnProfile(a))}}

\* drop_duplicates on the title after the stable sort by completeness: complete
\* rows first, old rows before new ones.
Leading(old, new, t) ==
    LET of(R, d) == {r \in R : r.title = t /\ r.done = d} IN
    IF of(old, TRUE) # {} THEN of(old, TRUE)
    ELSE IF of(new, TRUE) # {} THEN of(new, TRUE)
    ELSE IF of(old, FALSE) # {} THEN of(old, FALSE)
    ELSE of(new, FALSE)

Merges(old, new) ==
    LET T == Titles(old \cup new)
    IN  {{f[t] : t \in T} : f \in {g \in [T -> old \cup new] :
                                     \A t \in T : g[t] \in Leading(old, new, t)}}

\* deduplicate_papers: of the titles of one paper the first stays; the rows of
\* Scopus come before those of Scholar.
Deduplicated(S, G) ==
    S \cup {t \in G : /\ \A s \in S : Paper[s] # Paper[t]
                     /\ \A u \in G : Paper[u] = Paper[t] => t <= u}

-----------------------------------------------------------------------------
(* Tasks and attempts.                                                     *)

Tasks == {"scopus", "scholar", "transform", "enrich", "load"}

Upstream(t) ==
    CASE t \in {"scopus", "scholar"} -> {}
      [] t = "transform" -> {"scopus", "scholar"}
      [] t = "enrich" -> {"transform"}
      [] t = "load" -> {"enrich"}

NoScrape == [todo |-> {}, rows |-> {}, new |-> 0]
NoDf == [rows |-> {}, before |-> {}, done |-> {}, tried |-> {}, attempted |-> 0]

Ready(t) == at[t] = "idle" /\ \A u \in Upstream(t) : at[u] = "ok"
Running(t) == at[t] \in {"go", "saved"}
RunOver == \A t \in Tasks : ~Running(t) /\ ~Ready(t)

Fault == faults < MaxFaults /\ faults' = faults + 1

Go(t, step) == at' = [at EXCEPT ![t] = step] /\ UNCHANGED tries

\* Mutant: one retry too many.
FailAndRetry(t) ==
    /\ at' = [at EXCEPT ![t] = IF tries[t] <= Retries THEN "idle" ELSE "failed"]
    /\ tries' = [tries EXCEPT ![t] = @ + 1]

\* The container exits with an error: Airflow tries again or gives up.
Fail(t) ==
    /\ at' = [at EXCEPT ![t] = IF tries[t] < Retries THEN "idle" ELSE "failed"]
    /\ tries' = [tries EXCEPT ![t] = @ + 1]

\* t has written f: it goes on, or it died during the write or right after it.
Saved(t, step, f) ==
    \/ f.st = "whole" /\ Go(t, step) /\ UNCHANGED faults
    \/ Fail(t) /\ Fault

-----------------------------------------------------------------------------
EtlTypeOK ==
    /\ raw \in Artifact(AllTitles) /\ master \in Artifact(AllTitles)
    /\ scholar \in Artifact(Row) /\ temp \in Artifact(Row)
    /\ merged \in Artifact(AllTitles) /\ enriched \in Artifact(Completable)
    /\ table \subseteq Completable
    /\ fresh \subseteq {"scopus", "scholar"}
    /\ mode \in {"incremental", "full"}
    /\ at \in [Tasks -> {"idle", "go", "saved", "ok", "failed"}]
    /\ tries \in [Tasks -> 0..(Retries + 1)]
    /\ \A t \in Tasks : tries[t] = Retries + 1 => at[t] = "failed"
    /\ scrape \in [todo : SUBSET Authors, rows : SUBSET Row, new : Nat]
    /\ df \in [rows : SUBSET AllTitles, before : SUBSET Completable,
               done : SUBSET Completable, tried : SUBSET AllTitles, attempted : Nat]
    /\ faults \in 0..MaxFaults /\ triggers \in 0..MaxTriggers
    /\ listed \subseteq AllTitles /\ omitted \subseteq Authors \X AllTitles

Init ==
    /\ raw = Absent /\ master = Absent /\ scholar = Absent /\ temp = Absent
    /\ merged = Absent /\ enriched = Absent /\ table = {} /\ fresh = {}
    /\ mode = "incremental"
    /\ at = [t \in Tasks |-> "idle"] /\ tries = [t \in Tasks |-> 0]
    /\ scrape = NoScrape /\ df = NoDf /\ faults = 0 /\ triggers = 0
    /\ listed = AllTitles \ Later /\ omitted = {}

\* One run at a time, of the whole DAG.
StartRun(m, f) ==
    /\ RunOver
    /\ mode' = m /\ fresh' = f
    /\ at' = [t \in Tasks |-> "idle"] /\ tries' = [t \in Tasks |-> 0]
    /\ scrape' = NoScrape /\ df' = NoDf
    /\ UNCHANGED <<raw, master, scholar, temp, merged, enriched, table, faults, world>>

\* The weekly run: what the last one wrote has left the window of 72 hours.
Schedule == StartRun("incremental", {}) /\ UNCHANGED triggers

\* A run by hand, in any mode and at any time.
Trigger ==
    /\ triggers < MaxTriggers /\ triggers' = triggers + 1
    /\ \E m \in {"incremental", "full"}, f \in SUBSET fresh : StartRun(m, f)

\* The container of t cannot be started or dies, or a service raises, between
\* two writes.
Crash(t) ==
    /\ Ready(t) \/ Running(t)
    /\ Fail(t) /\ Fault
    /\ UNCHANGED <<files, mode, memory, triggers, world>>

\* Scopus or Scholar lists a title from now on.  Authors that are marked as
\* complete by then are not asked for it.
Publish(t) ==
    /\ t \notin listed /\ listed' = listed \cup {t}
    /\ omitted' = omitted \cup
         {<<a, t>> : a \in {b \in DoneAuthors(scholar.rows \cup temp.rows \cup scrape.rows) :
                              t \in Profile[b]}}
    /\ UNCHANGED <<files, mode, at, tries, memory, faults, triggers>>

-----------------------------------------------------------------------------
(* Extraction.                                                             *)

\* Mutant: the age of the artifact is not looked at.
ReusableAtAnyAge(t) ==
    /\ mode = "incremental"
    /\ IF t = "scopus" THEN raw.st # "absent" \/ master.st # "absent"
       ELSE scholar.st # "absent"

\* Only incremental runs reuse what is inside the freshness window.
Reusable(t) == mode = "incremental" /\ t \in fresh

Skip(t) ==
    /\ t \in {"scopus", "scholar"} /\ Ready(t) /\ Reusable(t)
    /\ Go(t, "ok")
    /\ UNCHANGED <<files, mode, memory, faults, triggers, world>>

Exported == Indexed \cap listed

\* Authors whose export fails are left out; an empty result is not written.
ExtractScopus(got) ==
    /\ Ready("scopus") /\ ~Reusable("scopus")
    /\ \/ /\ got = {} /\ Go("scopus", "ok") /\ UNCHANGED <<raw, fresh>>
          /\ IF Exported = {} THEN UNCHANGED faults ELSE Fault
       \/ \E f \in {File(got), Torn} :
            /\ got # {} /\ raw' = f /\ fresh' = fresh \cup {"scopus"}
            /\ \/ got = Exported /\ Saved("scopus", "ok", f)
               \/ f.st = "whole" /\ Go("scopus", "ok") /\ Fault
    /\ UNCHANGED <<master, scholar, temp, merged, enriched, table, mode, memory, triggers, world>>

\* Full mode starts from scratch; incremental mode skips the authors that are
\* complete in the artifact.  The checkpoint of an unfinished extraction is
\* taken up; a torn one is ignored.
ReadLecturers ==
    LET kept == IF mode = "full" THEN Absent ELSE temp
        already == IF mode = "incremental" THEN DoneAuthors(scholar.rows) ELSE {}
        todo == Authors \ already
    IN  /\ temp' = kept
        /\ IF todo = {} /\ already # {}
           THEN Go("scholar", "ok") /\ UNCHANGED scrape
           ELSE /\ scrape' = [todo |-> todo \ DoneAuthors(kept.rows),
                              rows |-> kept.rows, new |-> 0]
                /\ Go("scholar", "go")

\* The loader of the lecturers answers a failed query with no lecturers.
StartScholar ==
    /\ Ready("scholar") /\ ~Reusable("scholar")
    /\ \/ ReadLecturers /\ UNCHANGED faults
       \/ /\ temp' = IF mode = "full" THEN Absent ELSE temp
          /\ Go("scholar", "ok") /\ Fault /\ UNCHANGED scrape
    /\ UNCHANGED <<raw, master, scholar, merged, enriched, table, fresh, mode, df, triggers, world>>

\* A failed request returns no article; an answer cut short counts as complete.
\* Every few authors the rows are saved.
ScrapeAuthor(a) ==
    /\ at["scholar"] = "go" /\ a \in scrape.todo
    /\ \E got \in {Articles(a), {}} \cup CutShort(a) :
        LET rows == scrape.rows \cup got
            due == (scrape.new + 1) % CheckpointEvery = 0
        IN  /\ scrape' = [todo |-> scrape.todo \ {a}, rows |-> rows, new |-> scrape.new + 1]
            /\ \E f \in IF due THEN {File(rows), Torn} ELSE {temp} :
                /\ temp' = f
                /\ \/ /\ got = Articles(a) /\ UNCHANGED omitted
                      /\ \/ ~due /\ Go("scholar", "go") /\ UNCHANGED faults
                         \/ due /\ Saved("scholar", "go", f)
                   \/ /\ got \in {{}} \cup CutShort(a)
                      /\ (due => f.st = "whole") /\ Go("scholar", "go") /\ Fault
                      /\ omitted' = IF got = {} THEN omitted
                                    ELSE omitted \cup ({a} \X (OnProfile(a) \ Titles(got)))
    /\ UNCHANGED <<raw, master, scholar, merged, enriched, table, fresh, mode, df, triggers,
                   listed>>

\* Nothing scraped: nothing is written.  Otherwise an incremental run merges the
\* rows into the artifact; when that cannot be read they replace it.
SaveScholar ==
    /\ at["scholar"] = "go" /\ scrape.todo = {}
    /\ \/ /\ scrape.rows = {} /\ Go("scholar", "ok")
          /\ UNCHANGED <<scholar, fresh, faults>>
       \/ \E R \in IF mode = "incremental" /\ scholar.st = "whole"
                   THEN Merges(scholar.rows, scrape.rows) ELSE {scrape.rows} :
            \E f \in {File(R), Torn} :
                /\ scrape.rows # {} /\ scholar' = f /\ Saved("scholar", "saved", f)
                /\ fresh' = fresh \cup {"scholar"}
       \/ /\ scrape.rows # {} /\ mode = "incremental" /\ scholar.st = "whole"
          /\ scholar' = File(scrape.rows) /\ fresh' = fresh \cup {"scholar"}
          /\ Go("scholar", "saved") /\ Fault
    /\ UNCHANGED <<raw, master, temp, merged, enriched, table, mode, memory, triggers, world>>

DropTemp ==
    /\ at["scholar"] = "saved" /\ temp' = Absent /\ scrape' = NoScrape
    /\ Go("scholar", "ok")
    /\ UNCHANGED <<raw, master, scholar, merged, enriched, table, fresh, mode, df,
                   faults, triggers, world>>

-----------------------------------------------------------------------------
(* Transform, enrich, load.                                                *)

\* An exception: t cannot read what it needs.
Unreadable(t) ==
    /\ Fail(t)
    /\ UNCHANGED <<files, mode, memory, faults, triggers, world>>

\* Mutant: the export replaces the master.
MasterReplaced == raw.rows

NewMaster == master.rows \cup raw.rows

ProcessScopus ==
    /\ Ready("transform") /\ raw.st # "absent"
    /\ \/ (raw.st = "torn" \/ master.st = "torn") /\ Unreadable("transform")
       \/ \E f \in {File(NewMaster), Torn} :
            /\ raw.st = "whole" /\ master.st # "torn"
            /\ master' = f /\ fresh' = fresh \cup {"scopus"}
            /\ Saved("transform", "saved", f)
            /\ UNCHANGED <<raw, scholar, temp, merged, enriched, table, mode, memory, triggers, world>>

DropRaw ==
    /\ at["transform"] = "saved" /\ raw' = Absent /\ Go("transform", "go")
    /\ UNCHANGED <<master, scholar, temp, merged, enriched, table, fresh, mode, memory,
                   faults, triggers, world>>

Merge ==
    /\ at["transform"] = "go" \/ (Ready("transform") /\ raw.st = "absent")
    /\ \/ (master.st = "torn" \/ scholar.st = "torn") /\ Unreadable("transform")
       \/ /\ master.st = "absent" /\ scholar.st = "absent" /\ Go("transform", "ok")
          /\ UNCHANGED <<files, mode, memory, faults, triggers, world>>
       \/ \E f \in {File(Deduplicated(master.rows, Titles(scholar.rows))), Torn} :
            /\ "torn" \notin {master.st, scholar.st} /\ "whole" \in {master.st, scholar.st}
            /\ merged' = f /\ Saved("transform", "ok", f)
            /\ UNCHANGED <<raw, master, scholar, temp, enriched, table, fresh, mode,
                           memory, triggers, world>>

\* Mutant: the checkpoint is not restored.
StartEnrichAfresh ==
    df' = [rows |-> merged.rows, before |-> {}, done |-> {}, tried |-> {}, attempted |-> 0]

\* Rows of the checkpoint are restored onto the transformed papers by title.
Restore ==
    LET done == enriched.rows \cap merged.rows
    IN  df' = [rows |-> merged.rows, before |-> done, done |-> done,
               tried |-> {}, attempted |-> 0]

StartEnrich ==
    /\ Ready("enrich")
    /\ \/ merged.st # "torn" /\ merged.rows = {} /\ Go("enrich", "ok")
          /\ UNCHANGED <<files, mode, memory, faults, triggers, world>>
       \/ merged.st = "torn" /\ Unreadable("enrich")
       \/ merged.rows # {} /\ enriched.st = "torn" /\ Unreadable("enrich")
       \/ /\ merged.rows # {} /\ enriched.st # "torn" /\ Restore /\ Go("enrich", "go")
          /\ UNCHANGED <<files, mode, scrape, faults, triggers, world>>

Target ==
    LET pending == Cardinality(df.rows \ df.before)
    IN  IF MaxPerRun = 0 \/ pending < MaxPerRun THEN pending ELSE MaxPerRun

BatchSize == IF Target - df.attempted < Batch THEN Target - df.attempted ELSE Batch

\* Mutant: the rows that left the pending list are forgotten.
StartIndexAbsolute == df.attempted

\* Completed rows leave the pending list: the next batch starts that much earlier.
StartIndex ==
    LET completed == Cardinality(df.done) - Cardinality(df.before)
    IN  IF completed < df.attempted THEN df.attempted - completed ELSE 0

\* The rows of the next batch; a provider may fail to answer for some of them.
Pending == Window(df.rows \ df.done, StartIndex, BatchSize)

EnrichBatch ==
    /\ at["enrich"] = "go" /\ df.attempted < Target
    /\ \E new \in SUBSET (Pending \cap Completable) :
        LET done == df.done \cup new IN
        \E f \in {File(done), Torn} :
            /\ df' = [df EXCEPT !.done = done, !.tried = @ \cup Pending,
                                !.attempted = @ + BatchSize]
            /\ enriched' = f
            /\ \/ new = Pending \cap Completable /\ Saved("enrich", "go", f)
               \/ new # Pending \cap Completable /\ f.st = "whole"
                  /\ Go("enrich", "go") /\ Fault
    /\ UNCHANGED <<raw, master, scholar, temp, merged, table, fresh, mode, scrape, triggers, world>>

FinishEnrich ==
    /\ at["enrich"] = "go" /\ df.attempted >= Target
    /\ \E f \in {File(df.done), Torn} : enriched' = f /\ Saved("enrich", "ok", f)
    /\ UNCHANGED <<raw, master, scholar, temp, merged, table, fresh, mode, memory, triggers, world>>

\* The complete rows are upserted in order, with a commit every thousand.
Load ==
    /\ Ready("load")
    /\ \/ enriched.st = "torn" /\ Unreadable("load")
       \/ /\ enriched.st # "torn" /\ table' = table \cup enriched.rows
          /\ Go("load", "ok") /\ UNCHANGED faults
          /\ UNCHANGED <<raw, master, scholar, temp, merged, enriched, fresh, mode,
                         memory, triggers, world>>
       \/ \E n \in 0..NumTitles :
            /\ enriched.st # "torn" /\ table' = table \cup Window(enriched.rows, 0, n)
            /\ Fail("load") /\ Fault
            /\ UNCHANGED <<raw, master, scholar, temp, merged, enriched, fresh, mode,
                           memory, triggers, world>>

-----------------------------------------------------------------------------
Work ==
    \/ \E t \in Tasks : Skip(t)
    \/ \E got \in SUBSET Exported : ExtractScopus(got)
    \/ StartScholar \/ SaveScholar \/ DropTemp
    \/ \E a \in Authors : ScrapeAuthor(a)
    \/ ProcessScopus \/ DropRaw \/ Merge
    \/ StartEnrich \/ EnrichBatch \/ FinishEnrich \/ Load

Next ==
    \/ Work
    \/ Schedule
    \/ Trigger
    \/ \E t \in Tasks : Crash(t)
    \/ \E t \in AllTitles : Publish(t)

Spec == Init /\ [][Next]_vars

\* Airflow runs what is ready and starts the weekly run; nothing else is promised.
FairSpec == Spec /\ WF_vars(Work) /\ WF_vars(Schedule)

-----------------------------------------------------------------------------
(* Properties.                                                             *)

Covered(R) ==
    \A a \in DoneAuthors(R) : \A p \in OnProfile(a) : p \in Titles(R) \/ <<a, p>> \in omitted

\* Incremental runs skip the authors marked as complete (unesa_papers.py
\* 576-617, 641-643): every title of the profile of such an author is in the
\* artifact that marks it, through merges, checkpoints, retries and crashes,
\* although a merge keeps one row per title and drops the author's own rows.
\* Two kinds of titles are excepted: those that an answer of get_papers left out
\* and still called complete (scholar_client.py 397-432), and those that came out
\* after the author was marked.  Nothing but --mode full asks for them again.
CoveredAuthor == Covered(scholar.rows) /\ Covered(temp.rows) /\ Covered(scrape.rows)

\* The index arithmetic of the enrichment loop (unesa_papers.py 991-1013): the
\* pending list shrinks as rows become complete, and still every run hands each
\* row to the paid providers once, in order, and skips none.
OncePerRun ==
    at["enrich"] = "go" =>
        df.tried = Window(df.rows \ df.before, 0, df.attempted)

\* The raw export is deleted only when the master has every paper of it, and a
\* paper never leaves a master that can be read (unesa_papers.py 384-413).
ScopusKept ==
    [][/\ raw'.st = "absent" => raw.rows \subseteq master'.rows
       /\ master'.st = "whole" => master.rows \subseteq master'.rows]_vars

PapersOf(T) == {Paper[t] : t \in T}

\* The transformed data have the paper of t under another title by now.
Retitled(t) == t \notin merged.rows /\ Paper[t] \in PapersOf(merged.rows)

\* Paid work is not done twice: a complete row of the checkpoint whose paper is
\* in the transformed data stays complete, unless the write itself is torn
\* (unesa_papers.py 191-251, 1003).  Rows are restored by their exact title
\* (139-148), so a row that was paid for under its Scholar title is lost when
\* Scopus comes to list the paper under another one.
PaidWorkKept ==
    [][enriched'.st = "whole" =>
         \A t \in enriched.rows : Paper[t] \in PapersOf(merged.rows) =>
             t \in enriched'.rows \/ Retitled(t)]_vars

\* The services list t for some lecturer who has not been marked as complete
\* without it.
Demanded(t) ==
    /\ t \in listed
    /\ t \in Indexed \/ \E a \in Authors : t \in Titles(Articles(a)) /\ <<a, t>> \notin omitted

\* The artifacts whose readers have no way around a torn file.
Stuck == "torn" \in {master.st, enriched.st}

\* Titles of papers whose fields can be found, whatever the title.
Findable == {t \in AllTitles : \A u \in AllTitles : Paper[u] = Paper[t] => u \in Completable}

\* Every paper whose fields can be found and that stays demanded reaches the
\* table under one of its titles, whatever failed on the way, unless a checkpoint
\* that nothing repairs was torn, or the rows that never become complete fill the
\* quota of every run (services/unesa_papers.py 391-394, 559-625, 860-884,
\* 991-1013; retries of the DAG).
EventuallyLoaded ==
    (MaxPerRun = 0 \/ Cardinality(AllTitles \ Completable) < MaxPerRun) =>
        \A t \in Findable :
            <>[](~Stuck /\ Demanded(t)) => <>(Paper[t] \in PapersOf(table))
=============================================================================
