---------------------------- MODULE KgConstruction ----------------------------
(***************************************************************************)
(* The knowledge graph pipeline (Airflow DAG unesa_kg_construction): load, *)
(* extract, build, write Neo4j, write Milvus, each in a container of its   *)
(* own with retries.  The tasks share artifacts that are written in place, *)
(* and the build summary, in which each write task keeps its report.  Both *)
(* stores hold graphs under names; neither write is a transaction.         *)
(*                                                                         *)
(* A graph is its nodes and the edges between them; year nodes, which have *)
(* no vector, are left out.  PaperChunk and ContentKeyword are written     *)
(* like the two collections modelled here.                                 *)
(***************************************************************************)
EXTENDS Integers

CONSTANTS
    Nodes,       \* node ids, the same in every graph that has the entity
    Graphs,      \* graphs that the source tables may yield
    Passing,     \* those that pass the quality gates
    Names,       \* graph names
    Dims,        \* dimensions of the embedding models
    Nobody,      \* no graph name, no dimension
    Confs,       \* what a run may be triggered with
    Retries,     \* retries of an Airflow task
    MaxFaults,   \* bound: failures of any kind
    MaxRuns      \* bound: runs

Edges == Nodes \X Nodes
Items == Nodes \cup Edges
Stores == {"neo4j", "milvus"}
Graph == [nodes : SUBSET Nodes, edges : SUBSET Edges]
Conf == [name : Names, dim : Dims, gated : BOOLEAN, enabled : SUBSET Stores,
         clear : SUBSET Stores]

ASSUME KgAssumption ==
    /\ Graphs \subseteq Graph /\ Passing \subseteq Graphs
    /\ \A g \in Graphs : g.edges \subseteq g.nodes \X g.nodes
    /\ Nodes \cap Edges = {} /\ Nobody \notin Names /\ Nobody \notin Dims
    /\ Confs \subseteq Conf
    /\ Retries \in Nat /\ MaxFaults \in Nat /\ MaxRuns \in Nat

VARIABLES
    art,       \* artifact -> the file on the shared volume
    summary,   \* the build summary with the reports of the write tasks
    owner,     \* Neo4j: node id -> graph_name of the node
    links,     \* Neo4j: graph_name and end points of each relation
    dims,      \* Milvus: collection -> dimension
    vectors,   \* Milvus: graphName and item -> number of rows
    run,       \* what the current run was triggered with
    task, step, tries,  \* its task, the step of the attempt, failed attempts
    job,       \* memory of the write task
    taken,     \* history: nodes that went from one graph name to another
    faults, runs

stores == <<owner, links, dims, vectors, taken>>
attempt == <<task, step, tries>>
vars == <<art, summary, stores, run, attempt, job, faults, runs>>

-----------------------------------------------------------------------------
Artifacts == {"input", "entities", "graph"}
Empty == [nodes |-> {}, edges |-> {}]
Absent == [st |-> "absent", graph |-> Empty]
Torn == [st |-> "torn", graph |-> Empty]
File(g) == [st |-> "whole", graph |-> g]

NoReport == [status |-> "none", clear |-> FALSE, undeleted |-> FALSE]
Unwritten(st) == [st |-> st, graph |-> Empty, name |-> Nobody,
                  neo4j |-> NoReport, milvus |-> NoReport]

\* Collections in the order they are written.
Collections == {"EntityEmbedding", "RelationshipEmbedding"}
Rows(c, g) == IF c = "EntityEmbedding" THEN g.nodes ELSE g.edges
RowsOf(g) == g.nodes \cup g.edges
ItemsOf(c) == IF c = "EntityEmbedding" THEN Nodes ELSE Edges

NoJob == [todo |-> {}, coll |-> "EntityEmbedding", undeleted |-> FALSE]

Tasks == {"load", "extract", "build", "neo4j", "milvus"}
After(t) == CASE t = "load" -> "extract" [] t = "extract" -> "build"
              [] t = "build" -> "neo4j" [] t = "neo4j" -> "milvus"
              [] t = "milvus" -> "over"

Fault == faults < MaxFaults /\ faults' = faults + 1

\* The task goes on with another step, or is done and the next one starts.
Goto(s) == step' = s /\ UNCHANGED <<task, tries>>
Done == task' = After(task) /\ step' = "start" /\ tries' = 0

\* Mutant: one retry too many.
FailAndRetry ==
    /\ step' = "start" /\ tries' = tries + 1
    /\ task' = IF tries <= Retries THEN task ELSE "over"

\* The container exits with an error: the task is tried again, or the run is over.
Fail ==
    /\ step' = "start"
    /\ IF tries < Retries THEN tries' = tries + 1 /\ UNCHANGED task
                          ELSE tries' = 0 /\ task' = "over"

-----------------------------------------------------------------------------
Report == [status : {"none", "skipped", "running", "failed", "success"},
           clear : BOOLEAN, undeleted : BOOLEAN]

KgTypeOK ==
    /\ art \in [Artifacts -> [st : {"absent", "torn", "whole"}, graph : Graph]]
    /\ summary \in [st : {"absent", "torn", "whole"}, graph : Graph,
                    name : Names \cup {Nobody}, neo4j : Report, milvus : Report]
    /\ owner \in [Nodes -> Names \cup {Nobody}]
    /\ links \subseteq Names \X Edges
    /\ dims \in [Collections -> Dims \cup {Nobody}]
    /\ vectors \in [Names \X Items -> Nat]
    /\ run \in Conf
    /\ task \in Tasks \cup {"over"} /\ step \in {"start", "made", "clear", "write"}
    /\ tries \in 0..Retries
    /\ job \in [todo : SUBSET Items, coll : Collections, undeleted : BOOLEAN]
    /\ taken \subseteq Nodes
    /\ faults \in 0..MaxFaults /\ runs \in Nat

Init ==
    /\ art = [a \in Artifacts |-> Absent] /\ summary = Unwritten("absent")
    /\ owner = [n \in Nodes |-> Nobody] /\ links = {}
    /\ dims = [c \in Collections |-> Nobody]
    /\ vectors = [v \in Names \X Items |-> 0]
    /\ run \in Confs /\ task = "load" /\ step = "start" /\ tries = 0
    /\ job = NoJob /\ taken = {} /\ faults = 0 /\ runs = 1

\* Runs are triggered by hand, one at a time.
TriggerRun(c) ==
    /\ task = "over" /\ runs < MaxRuns /\ runs' = runs + 1
    /\ run' = c /\ task' = "load" /\ step' = "start" /\ tries' = 0
    /\ UNCHANGED <<art, summary, stores, job, faults>>

\* The container cannot be started or dies, or a service raises.
Crash ==
    /\ task # "over" /\ Fail /\ Fault
    /\ UNCHANGED <<art, summary, stores, run, job, runs>>

-----------------------------------------------------------------------------
(* Load, extract, build.                                                   *)

\* Writes artifact a; the writer may die during the write or right after it.
Produce(a, g, next) ==
    /\ \/ art' = [art EXCEPT ![a] = File(g)] /\ next /\ UNCHANGED faults
       \/ \E f \in {File(g), Torn} : art' = [art EXCEPT ![a] = f] /\ Fail /\ Fault
    /\ UNCHANGED <<stores, run, job, runs>>

\* PostgreSQL or, when that fails, Supabase.
Load ==
    /\ task = "load" /\ step = "start"
    /\ \E g \in Graphs : Produce("input", g, Done)
    /\ UNCHANGED summary

Extract ==
    /\ task = "extract" /\ step = "start"
    /\ Produce("entities", art["input"].graph, Done)
    /\ UNCHANGED summary

BuildGraph ==
    /\ task = "build" /\ step = "start"
    /\ Produce("graph", art["input"].graph, Goto("made"))
    /\ UNCHANGED summary

\* Writes the summary, as r or torn.
Save(r, next) ==
    \/ summary' = r /\ next /\ UNCHANGED faults
    \/ summary' \in {r, Unwritten("torn")} /\ Fail /\ Fault

\* Mutant: the sections of the write tasks survive a build.
SummaryUpdated ==
    [summary EXCEPT !.st = "whole", !.graph = art["graph"].graph, !.name = run.name]

NewSummary ==
    [Unwritten("whole") EXCEPT !.graph = art["graph"].graph, !.name = run.name]

\* The summary of the build has no storage section.  With alias suggestions it
\* is written a second time.
BuildSummary ==
    /\ task = "build" /\ step = "made"
    /\ Save(NewSummary, Done)
    /\ UNCHANGED <<art, stores, run, job, runs>>

-----------------------------------------------------------------------------
(* The write tasks.                                                        *)

\* _update_storage_summary for the current task.
Reported(status, undeleted) ==
    LET r == [status |-> status, clear |-> task \in run.clear, undeleted |-> undeleted]
    IN  [summary EXCEPT !.name = run.name,
                        !.neo4j = IF task = "neo4j" THEN r ELSE @,
                        !.milvus = IF task = "milvus" THEN r ELSE @]

\* A torn summary, or a graph that fails a gate.
Refuse ==
    /\ task \in Stores /\ step = "start"
    /\ summary.st = "torn" \/ (run.gated /\ summary.graph \notin Passing)
    /\ Fail
    /\ UNCHANGED <<art, summary, stores, run, job, faults, runs>>

StartWrite ==
    /\ task \in Stores /\ step = "start"
    /\ summary.st = "whole" /\ (run.gated => summary.graph \in Passing)
    /\ IF task \in run.enabled
       THEN Save(Reported("running", FALSE), Goto("clear"))
       ELSE Save(Reported("skipped", FALSE), Done)
    /\ job' = NoJob
    /\ UNCHANGED <<art, stores, run, runs>>

\* The write raises and the report says so.
Raise ==
    /\ task \in Stores /\ step \in {"clear", "write"} /\ Fault
    /\ summary' \in {Reported("failed", FALSE), Unwritten("torn")} /\ Fail
    /\ UNCHANGED <<art, stores, run, job, runs>>

Succeed ==
    /\ task \in Stores /\ step = "write" /\ job.todo = {}
    /\ task = "milvus" => job.coll = "RelationshipEmbedding"
    /\ Save(Reported("success", job.undeleted), Done)
    /\ UNCHANGED <<art, stores, run, job, runs>>

\* MATCH (n:KGNode {graph_name}) DETACH DELETE n: the relations of a node go with
\* it, whatever their graph_name.
ClearGraph ==
    /\ task = "neo4j" /\ step = "clear"
    /\ IF "neo4j" \in run.clear
       THEN LET gone == {n \in Nodes : owner[n] = run.name}
            IN  /\ owner' = [n \in Nodes |-> IF n \in gone THEN Nobody ELSE owner[n]]
                /\ links' = {l \in links : l[2][1] \notin gone /\ l[2][2] \notin gone}
       ELSE UNCHANGED <<owner, links>>
    /\ job' = [job EXCEPT !.todo = RowsOf(art["graph"].graph)] /\ Goto("write")
    /\ UNCHANGED <<art, summary, dims, vectors, taken, run, faults, runs>>

\* MERGE by id alone, then SET: the node is now of this graph.
WriteNode(n) ==
    /\ task = "neo4j" /\ step = "write" /\ n \in job.todo
    /\ owner' = [owner EXCEPT ![n] = run.name]
    /\ taken' = IF owner[n] \in {run.name, Nobody} THEN taken ELSE taken \cup {n}
    /\ job' = [job EXCEPT !.todo = @ \ {n}]
    /\ UNCHANGED <<art, summary, links, dims, vectors, run, attempt, faults, runs>>

\* MATCH both ends within the graph, then MERGE; without a match nothing happens.
Linked(e) ==
    /\ links' = IF owner[e[1]] = run.name /\ owner[e[2]] = run.name
                THEN links \cup {<<run.name, e>>} ELSE links
    /\ job' = [job EXCEPT !.todo = @ \ {e}]

WriteEdge(e) ==
    /\ task = "neo4j" /\ step = "write" /\ e \in job.todo
    /\ job.todo \cap Nodes = {} /\ Linked(e)
    /\ UNCHANGED <<art, summary, owner, dims, vectors, taken, run, attempt, faults, runs>>

\* The rows of the collection that keep their number.
Without(gone) == [v \in Names \X Items |-> IF v \in gone THEN 0 ELSE vectors[v]]

Prepared(d, undeleted) ==
    /\ dims' = [dims EXCEPT ![job.coll] = d]
    /\ job' = [job EXCEPT !.todo = Rows(job.coll, art["graph"].graph),
                          !.undeleted = @ \/ undeleted]
    /\ Goto("write")
    /\ UNCHANGED <<art, summary, owner, links, taken, run, runs>>

\* Mutant: only the first attempt deletes.
PrepareOnce ==
    /\ task = "milvus" /\ step = "clear" /\ dims[job.coll] \in {Nobody, run.dim}
    /\ vectors' = IF "milvus" \in run.clear /\ tries = 0
                  THEN Without({run.name} \X ItemsOf(job.coll)) ELSE vectors
    /\ Prepared(run.dim, FALSE) /\ UNCHANGED faults

\* The collection is created or found, and the rows of the graph are deleted.
Prepare ==
    /\ task = "milvus" /\ step = "clear" /\ dims[job.coll] \in {Nobody, run.dim}
    /\ vectors' = IF "milvus" \in run.clear
                  THEN Without({run.name} \X ItemsOf(job.coll)) ELSE vectors
    /\ Prepared(run.dim, FALSE) /\ UNCHANGED faults

\* A deletion that fails is only mentioned in the report.
KeepOldRows ==
    /\ task = "milvus" /\ step = "clear" /\ dims[job.coll] = run.dim
    /\ "milvus" \in run.clear /\ Fault
    /\ Prepared(run.dim, TRUE) /\ UNCHANGED vectors

\* Another dimension, or a description that cannot be fetched and so has no
\* graphName: a clearing run drops the collection with every graph in it, and
\* then creates it.
DropCollection ==
    /\ task = "milvus" /\ step = "clear" /\ "milvus" \in run.clear
    /\ \/ dims[job.coll] \notin {Nobody, run.dim} /\ UNCHANGED faults
       \/ dims[job.coll] = run.dim /\ Fault
    /\ vectors' = Without(Names \X ItemsOf(job.coll))
    /\ dims' = [dims EXCEPT ![job.coll] = Nobody]
    /\ UNCHANGED <<art, summary, owner, links, taken, run, attempt, job, runs>>

\* Without clearing, another dimension raises.
RefuseDimension ==
    /\ task = "milvus" /\ step = "clear" /\ dims[job.coll] \notin {Nobody, run.dim}
    /\ "milvus" \notin run.clear
    /\ Save(Reported("failed", FALSE), Fail)
    /\ UNCHANGED <<art, stores, run, job, runs>>

\* Keys are generated: a row that is there already is inserted once more.
Insert(i) ==
    /\ task = "milvus" /\ step = "write" /\ i \in job.todo
    /\ vectors' = [vectors EXCEPT ![<<run.name, i>>] = @ + 1]
    /\ job' = [job EXCEPT !.todo = @ \ {i}]
    /\ UNCHANGED <<art, summary, owner, links, dims, taken, run, attempt, faults, runs>>

NextCollection ==
    /\ task = "milvus" /\ step = "write" /\ job.todo = {} /\ job.coll = "EntityEmbedding"
    /\ job' = [job EXCEPT !.coll = "RelationshipEmbedding"] /\ Goto("clear")
    /\ UNCHANGED <<art, summary, stores, run, faults, runs>>

-----------------------------------------------------------------------------
Next ==
    \/ \E c \in Confs : TriggerRun(c)
    \/ Crash \/ Load \/ Extract \/ BuildGraph \/ BuildSummary
    \/ Refuse \/ StartWrite \/ Raise \/ Succeed
    \/ ClearGraph
    \/ \E n \in Nodes : WriteNode(n)
    \/ \E e \in Edges : WriteEdge(e)
    \/ Prepare \/ KeepOldRows \/ DropCollection \/ RefuseDimension
    \/ \E i \in Items : Insert(i)
    \/ NextCollection

Spec == Init /\ [][Next]_vars

-----------------------------------------------------------------------------
(* Properties.                                                             *)

GraphWritten == summary.st = "whole" /\ summary.neo4j.status = "success"
VectorsWritten == summary.st = "whole" /\ summary.milvus.status = "success"

\* A report of success is true and stays true until a build replaces the
\* summary: the store has every node and relation, or row, of the graph the
\* summary describes, whatever attempts, runs and other graphs came before
\* (kg_storage_service.py 70-168, yunesa_academic_kg.py 4137-4175, 3897-3945).
ReportHonest ==
    LET g == summary.graph IN
    /\ GraphWritten =>
           /\ \A n \in g.nodes : owner[n] = summary.name
           /\ \A e \in g.edges : <<summary.name, e>> \in links
    /\ VectorsWritten => \A i \in RowsOf(g) : vectors[<<summary.name, i>>] >= 1

\* A rebuild leaves nothing behind: after a clearing run that reports success
\* without an undeleted collection, the graph of that name is the one that was
\* built and each vector is there once, although attempts died half way.  Only
\* relations between nodes another graph had taken survive (kg_service.py
\* 412-445, yunesa_academic_kg.py 4119-4125, 3743-3770, 3915-3933).
RebuildAgrees ==
    LET g == summary.graph
        name == summary.name
    IN
    /\ GraphWritten /\ summary.neo4j.clear =>
           /\ {n \in Nodes : owner[n] = name} = g.nodes
           /\ \A e \in Edges :
                  <<name, e>> \in links => e \in g.edges \/ e \in taken \X taken
    /\ VectorsWritten /\ summary.milvus.clear /\ ~summary.milvus.undeleted =>
           \A i \in Items : vectors[<<name, i>>] = IF i \in RowsOf(g) THEN 1 ELSE 0

\* "Or create a new namespace GRAPH_NAME" instead of a clean rebuild when the
\* model changes (notebooks/README.md:26-28): a run leaves the graphs of other
\* names alone, in both stores.
NamespacesSeparate ==
    [][\A m \in Names \ {run.name} :
          /\ \A n \in Nodes : owner[n] = m => owner'[n] = m
          /\ \A e \in Edges : <<m, e>> \in links => <<m, e>> \in links'
          /\ \A i \in Items : vectors'[<<m, i>>] >= vectors[<<m, i>>]]_vars
=============================================================================
