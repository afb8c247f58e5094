------------------------- MODULE KgConstructionProofs -------------------------
(***************************************************************************)
(* What the knowledge graph pipeline keeps, for any graphs, names,         *)
(* dimensions, retries and failures.                                       *)
(***************************************************************************)
EXTENDS KgConstruction, TLAPS

-----------------------------------------------------------------------------
(* The inductive invariant.                                                *)

WellFormed(g) == g.edges \subseteq g.nodes \X g.nodes

\* What the write tasks find: a graph without dangling edges, which is the one
\* the summary describes, and their own section open while they write.
Stage ==
    /\ \A a \in Artifacts : WellFormed(art[a].graph)
    /\ step = "made" => task = "build"
    /\ step \in {"clear", "write"} =>
           /\ task \in Stores /\ summary.st = "whole"
           /\ task = "neo4j" => summary.neo4j.status = "running"
           /\ task = "milvus" => summary.milvus.status = "running"
    /\ task \in Stores /\ summary.st = "whole" =>
           summary.graph = art["graph"].graph /\ summary.name = run.name

\* An end of a relation belongs to the graph of the relation or was taken by
\* another one.
Ends ==
    \A m \in Names, e \in Edges : <<m, e>> \in links =>
        /\ owner[e[1]] = m \/ e[1] \in taken
        /\ owner[e[2]] = m \/ e[2] \in taken

\* How far the write of the graph is, and that a clearing one leaves no more.
GraphSoFar(g) ==
    /\ job.todo \subseteq RowsOf(g)
    /\ \A n \in g.nodes : n \in job.todo \/ owner[n] = run.name
    /\ \A e \in g.edges : e \in job.todo \/ <<run.name, e>> \in links
    /\ "neo4j" \in run.clear =>
           /\ \A n \in Nodes : owner[n] = run.name => n \in g.nodes
           /\ \A e \in Edges :
                  <<run.name, e>> \in links => e \in g.edges \/ e \in taken \X taken

\* The rows of collection c apart from todo are there, once after a deletion.
Filled(c, g, todo) ==
    /\ \A i \in Rows(c, g) \ todo : vectors[<<run.name, i>>] >= 1
    /\ "milvus" \in run.clear /\ ~job.undeleted =>
           \A i \in ItemsOf(c) :
               vectors[<<run.name, i>>] = IF i \in Rows(c, g) \ todo THEN 1 ELSE 0

VectorsSoFar(g) ==
    /\ job.coll = "RelationshipEmbedding" => Filled("EntityEmbedding", g, {})
    /\ step = "write" => job.todo \subseteq Rows(job.coll, g) /\ Filled(job.coll, g, job.todo)

StoreInv ==
    /\ Ends
    /\ task = "neo4j" /\ step = "write" => GraphSoFar(art["graph"].graph)
    /\ task = "milvus" /\ step \in {"clear", "write"} => VectorsSoFar(art["graph"].graph)

KgInv == KgTypeOK /\ Stage /\ StoreInv /\ ReportHonest /\ RebuildAgrees

-----------------------------------------------------------------------------
(* Types.                                                                  *)

File3 == [st : {"absent", "torn", "whole"}, graph : Graph]
Summary == [st : {"absent", "torn", "whole"}, graph : Graph,
            name : Names \cup {Nobody}, neo4j : Report, milvus : Report]
Steps == {"start", "made", "clear", "write"}
Job == [todo : SUBSET Items, coll : Collections, undeleted : BOOLEAN]

\* The variables of an attempt keep their types.
AttemptType ==
    task \in Tasks \cup {"over"} /\ step \in Steps /\ tries \in 0..Retries

\* The stores keep their types.
StoreType ==
    /\ owner \in [Nodes -> Names \cup {Nobody}] /\ links \subseteq Names \X Edges
    /\ dims \in [Collections -> Dims \cup {Nobody}]
    /\ vectors \in [Names \X Items -> Nat] /\ taken \subseteq Nodes

\* KgTypeOK by parts.
LEMMA TypeParts ==
    KgTypeOK <=> /\ art \in [Artifacts -> File3] /\ summary \in Summary
                 /\ StoreType /\ AttemptType /\ run \in Conf /\ job \in Job
                 /\ faults \in 0..MaxFaults /\ runs \in Nat
BY DEF KgTypeOK, File3, Summary, StoreType, AttemptType, Steps, Job

\* The same for the next state.
LEMMA TypePartsNext ==
    KgTypeOK' <=> /\ art' \in [Artifacts -> File3] /\ summary' \in Summary
                  /\ StoreType' /\ AttemptType' /\ run' \in Conf /\ job' \in Job
                  /\ faults' \in 0..MaxFaults /\ runs' \in Nat
BY DEF KgTypeOK, File3, Summary, StoreType, AttemptType, Steps, Job

\* A failure within the bound.
LEMMA FaultType == ASSUME KgTypeOK, Fault PROVE faults' \in 0..MaxFaults
BY KgAssumption DEF KgTypeOK, Fault

\* Every way an attempt goes on keeps the types of its variables.
LEMMA AttemptTypes ==
    ASSUME KgTypeOK,
           Fail \/ (task # "over" /\ Done) \/ Goto("made") \/ Goto("clear") \/ Goto("write")
    PROVE  AttemptType'
<1>1. CASE Fail
  BY <1>1, KgAssumption DEF Fail, KgTypeOK, AttemptType, Steps
<1>2. CASE task # "over" /\ Done
  <2>1. task \in Tasks BY <1>2 DEF KgTypeOK
  <2>2. After(task) \in Tasks \cup {"over"} BY <2>1 DEF After, Tasks
  <2> QED BY <1>2, <2>2, KgAssumption DEF Done, AttemptType, Steps
<1>3. CASE Goto("made") \/ Goto("clear") \/ Goto("write")
  BY <1>3 DEF Goto, KgTypeOK, AttemptType, Steps
<1> QED BY <1>1, <1>2, <1>3

\* Graphs and the records of the model are well typed.
LEMMA Values ==
    /\ Empty \in Graph /\ Torn \in File3 /\ NoReport \in Report /\ NoJob \in Job
    /\ \A g \in Graph : File(g) \in File3
    /\ \A g \in Graph : RowsOf(g) \subseteq Items
    /\ \A c \in Collections, g \in Graph : Rows(c, g) \subseteq Items
BY DEF Empty, Torn, NoReport, NoJob, File, File3, Graph, Report, Job, Collections, RowsOf,
       Rows, Items

\* A file that is read holds a graph.
LEMMA ArtGraph == ASSUME KgTypeOK, NEW a \in Artifacts PROVE art[a].graph \in Graph
<1>1. art \in [Artifacts -> File3] BY TypeParts
<1>2. art[a] \in File3 BY <1>1
<1> QED BY <1>2 DEF File3

\* Producing a file keeps the types.
LEMMA ProduceType ==
    ASSUME KgTypeOK, task # "over", NEW a \in Artifacts, NEW g \in Graph, UNCHANGED summary,
           \/ Produce(a, g, Done) \/ Produce(a, g, Goto("made"))
    PROVE  KgTypeOK'
<1>1. art \in [Artifacts -> File3] BY TypeParts
<1>2. File(g) \in File3 /\ Torn \in File3 BY Values
<1>3. art' \in [Artifacts -> File3] BY <1>1, <1>2 DEF Produce
<1>4. AttemptType' BY AttemptTypes DEF Produce
<1>5. faults' \in 0..MaxFaults BY FaultType DEF Produce, KgTypeOK
<1>6. UNCHANGED <<stores, run, job, runs, summary>> BY DEF Produce
<1>7. StoreType' BY <1>6, TypeParts DEF stores, StoreType
<1> QED BY <1>3, <1>4, <1>5, <1>6, <1>7, TypeParts, TypePartsNext

\* A report replaces one section of the summary and nothing else.
LEMMA ReportedFacts ==
    ASSUME KgTypeOK, task \in Stores, NEW s \in {"running", "skipped", "failed", "success"},
           NEW u \in BOOLEAN
    PROVE  /\ Reported(s, u) \in Summary
           /\ Reported(s, u).st = summary.st /\ Reported(s, u).graph = summary.graph
           /\ Reported(s, u).name = run.name
           /\ task = "neo4j" =>
                  /\ Reported(s, u).neo4j.status = s
                  /\ Reported(s, u).neo4j.clear = ("neo4j" \in run.clear)
                  /\ Reported(s, u).milvus = summary.milvus
           /\ task = "milvus" =>
                  /\ Reported(s, u).milvus.status = s
                  /\ Reported(s, u).milvus.clear = ("milvus" \in run.clear)
                  /\ Reported(s, u).milvus.undeleted = u
                  /\ Reported(s, u).neo4j = summary.neo4j
<1> DEFINE r == [status |-> s, clear |-> task \in run.clear, undeleted |-> u]
<1>1. (task \in run.clear) \in BOOLEAN OBVIOUS
<1>2. r \in Report BY <1>1 DEF Report
<1>3. r.status = s /\ r.clear = (task \in run.clear) /\ r.undeleted = u OBVIOUS
<1>4. summary \in Summary /\ run.name \in Names BY TypeParts DEF Conf
<1>5. Reported(s, u) = [summary EXCEPT !.name = run.name,
                            !.neo4j = IF task = "neo4j" THEN r ELSE @,
                            !.milvus = IF task = "milvus" THEN r ELSE @]
  BY DEF Reported
<1> HIDE DEF r
<1>6. Reported(s, u) \in Summary BY <1>2, <1>4, <1>5 DEF Summary
<1>7. /\ Reported(s, u).st = summary.st /\ Reported(s, u).graph = summary.graph
      /\ Reported(s, u).name = run.name
      /\ Reported(s, u).neo4j = IF task = "neo4j" THEN r ELSE summary.neo4j
      /\ Reported(s, u).milvus = IF task = "milvus" THEN r ELSE summary.milvus
  BY <1>4, <1>5 DEF Summary
<1> QED BY <1>3, <1>6, <1>7

\* Saving a summary keeps the types.
LEMMA SaveType ==
    ASSUME KgTypeOK, task # "over", NEW r \in Summary, StoreType', run' \in Conf, job' \in Job,
           runs' \in Nat, UNCHANGED art,
           \/ Save(r, Done) \/ Save(r, Goto("clear")) \/ Save(r, Fail)
    PROVE  KgTypeOK'
<1>1. Unwritten("torn") \in Summary
  BY Values DEF Unwritten, Summary
<1>2. summary' \in Summary BY <1>1 DEF Save
<1>3. AttemptType' BY AttemptTypes DEF Save
<1>4. faults' \in 0..MaxFaults BY FaultType DEF Save, KgTypeOK
<1>5. art' \in [Artifacts -> File3] BY TypeParts
<1> QED BY <1>2, <1>3, <1>4, <1>5, TypePartsNext

\* The initial state is well typed.
LEMMA KgTypeInit == ASSUME Init PROVE KgTypeOK
<1>1. Absent \in File3 BY Values DEF Absent, File3
<1>2. art \in [Artifacts -> File3] BY <1>1 DEF Init
<1>3. summary \in Summary BY Values DEF Init, Unwritten, Summary
<1>4. StoreType BY DEF Init, StoreType
<1>5. AttemptType BY KgAssumption DEF Init, AttemptType, Tasks, Steps
<1>6. run \in Conf BY KgAssumption DEF Init
<1>7. job \in Job /\ faults \in 0..MaxFaults /\ runs \in Nat
  BY Values, KgAssumption DEF Init
<1> QED BY <1>2, <1>3, <1>4, <1>5, <1>6, <1>7, TypeParts

\* Actions that touch neither the summary nor the stores.
Quiet ==
    \/ \E c \in Confs : TriggerRun(c)
    \/ Crash \/ Load \/ Extract \/ BuildGraph \/ Refuse \/ NextCollection

\* They keep the types.
LEMMA QuietType == ASSUME KgTypeOK, Quiet PROVE KgTypeOK'
<1> USE TypeParts
<1>1. ASSUME NEW c \in Confs, TriggerRun(c) PROVE KgTypeOK'
  <2>1. AttemptType' BY <1>1, KgAssumption DEF TriggerRun, AttemptType, Tasks, Steps
  <2>2. run' \in Conf /\ runs' \in Nat BY <1>1, KgAssumption DEF TriggerRun
  <2>3. StoreType' BY <1>1 DEF TriggerRun, stores, StoreType
  <2> QED BY <1>1, <2>1, <2>2, <2>3, TypePartsNext DEF TriggerRun
<1>2. CASE Crash
  <2>1. AttemptType' BY <1>2, AttemptTypes DEF Crash
  <2>2. StoreType' BY <1>2 DEF Crash, stores, StoreType
  <2>3. faults' \in 0..MaxFaults BY <1>2, FaultType DEF Crash
  <2> QED BY <1>2, <2>1, <2>2, <2>3, TypePartsNext DEF Crash
<1>3. CASE Load
  <2>1. PICK g \in Graphs : Produce("input", g, Done) BY <1>3 DEF Load
  <2>2. g \in Graph /\ "input" \in Artifacts BY KgAssumption DEF Artifacts
  <2> QED BY <1>3, <2>1, <2>2, ProduceType DEF Load
<1>4. CASE Extract
  <2>1. "input" \in Artifacts /\ "entities" \in Artifacts BY DEF Artifacts
  <2>2. art["input"].graph \in Graph BY <2>1, ArtGraph
  <2> QED BY <1>4, <2>1, <2>2, ProduceType DEF Extract
<1>5. CASE BuildGraph
  <2>1. "input" \in Artifacts /\ "graph" \in Artifacts BY DEF Artifacts
  <2>2. art["input"].graph \in Graph BY <2>1, ArtGraph
  <2> QED BY <1>5, <2>1, <2>2, ProduceType DEF BuildGraph
<1>6. CASE Refuse
  <2>1. AttemptType' BY <1>6, AttemptTypes DEF Refuse
  <2>2. StoreType' BY <1>6 DEF Refuse, stores, StoreType
  <2> QED BY <1>6, <2>1, <2>2, TypePartsNext DEF Refuse
<1>7. CASE NextCollection
  <2>1. AttemptType' BY <1>7, AttemptTypes DEF NextCollection
  <2>2. StoreType' BY <1>7 DEF NextCollection, stores, StoreType
  <2>3. job' \in Job BY <1>7 DEF NextCollection, Job, Collections
  <2> QED BY <1>7, <2>1, <2>2, <2>3, TypePartsNext DEF NextCollection
<1> QED BY <1>1, <1>2, <1>3, <1>4, <1>5, <1>6, <1>7 DEF Quiet

\* Actions that write the summary.
Records == BuildSummary \/ StartWrite \/ Raise \/ Succeed \/ RefuseDimension

\* They keep the types.
LEMMA RecordsType == ASSUME KgTypeOK, Records PROVE KgTypeOK'
<1> USE TypeParts
<1>0. StoreType' /\ run' \in Conf /\ runs' \in Nat /\ UNCHANGED art
  BY DEF Records, BuildSummary, StartWrite, Raise, Succeed, RefuseDimension, stores, StoreType
<1>1. CASE BuildSummary
  <2>1. "graph" \in Artifacts BY DEF Artifacts
  <2>2. art["graph"].graph \in Graph /\ run.name \in Names BY <2>1, ArtGraph DEF Conf
  <2>3. NewSummary \in Summary BY <2>2, Values DEF NewSummary, Unwritten, Summary
  <2> QED BY <1>0, <1>1, <2>3, SaveType DEF BuildSummary
<1>2. CASE StartWrite
  <2>1. Reported("running", FALSE) \in Summary /\ Reported("skipped", FALSE) \in Summary
    BY <1>2, ReportedFacts DEF StartWrite
  <2>2. task # "over" BY <1>2 DEF StartWrite, Stores
  <2>3. job' \in Job BY <1>2, Values DEF StartWrite
  <2> QED BY <1>0, <1>2, <2>1, <2>2, <2>3, SaveType DEF StartWrite
<1>3. CASE Raise
  <2>1. Reported("failed", FALSE) \in Summary /\ Unwritten("torn") \in Summary
    BY <1>3, ReportedFacts, Values DEF Raise, Unwritten, Summary
  <2>2. AttemptType' BY <1>3, AttemptTypes DEF Raise
  <2>3. faults' \in 0..MaxFaults BY <1>3, FaultType DEF Raise
  <2> QED BY <1>0, <1>3, <2>1, <2>2, <2>3, TypePartsNext DEF Raise
<1>4. CASE Succeed
  <2>1. Reported("success", job.undeleted) \in Summary
    <3>1. job.undeleted \in BOOLEAN BY DEF Job
    <3> QED BY <1>4, <3>1, ReportedFacts DEF Succeed
  <2>2. task # "over" BY <1>4 DEF Succeed, Stores
  <2> QED BY <1>0, <1>4, <2>1, <2>2, SaveType DEF Succeed
<1>5. CASE RefuseDimension
  <2>1. task \in Stores /\ task # "over" BY <1>5 DEF RefuseDimension, Stores
  <2>2. Reported("failed", FALSE) \in Summary BY <2>1, ReportedFacts
  <2> QED BY <1>0, <1>5, <2>1, <2>2, SaveType DEF RefuseDimension
<1> QED BY <1>1, <1>2, <1>3, <1>4, <1>5 DEF Records

\* Actions that write a store.
Writes ==
    \/ ClearGraph \/ (\E n \in Nodes : WriteNode(n)) \/ (\E e \in Edges : WriteEdge(e))
    \/ Prepare \/ KeepOldRows \/ DropCollection \/ (\E i \in Items : Insert(i))

\* A write leaves the artifacts, the summary and the run alone.
LEMMA WritesFrame ==
    ASSUME KgTypeOK, Writes
    PROVE  /\ UNCHANGED <<art, summary, run, runs, task>> /\ faults' \in 0..MaxFaults
           /\ AttemptType' /\ task \in Stores /\ step \in {"clear", "write"}
           /\ step' \in {"clear", "write"}
<1>1. UNCHANGED <<art, summary, run, runs>>
  BY DEF Writes, ClearGraph, WriteNode, WriteEdge, Prepare, KeepOldRows, DropCollection, Insert,
         Prepared
<1>2. faults' \in 0..MaxFaults
  <2>1. UNCHANGED faults \/ Fault
    BY DEF Writes, ClearGraph, WriteNode, WriteEdge, Prepare, KeepOldRows, DropCollection, Insert
  <2> QED BY <2>1, FaultType DEF KgTypeOK
<1>3. Goto("write") \/ (UNCHANGED attempt /\ step \in {"clear", "write"})
  BY DEF Writes, ClearGraph, WriteNode, WriteEdge, Prepare, KeepOldRows, DropCollection, Insert,
         Prepared
<1>4. AttemptType' BY <1>3, AttemptTypes, TypeParts DEF attempt, AttemptType
<1>5. task \in Stores /\ step \in {"clear", "write"}
  BY DEF Writes, ClearGraph, WriteNode, WriteEdge, Prepare, KeepOldRows, DropCollection, Insert,
         Stores
<1> QED BY <1>1, <1>2, <1>3, <1>4, <1>5 DEF Goto, attempt

\* Writes keep the types.
LEMMA WritesType == ASSUME KgTypeOK, Writes PROVE KgTypeOK'
<1> USE TypeParts
<1>0. SUFFICES StoreType' /\ job' \in Job BY WritesFrame, TypePartsNext
<1>r. run.name \in Names /\ run.dim \in Dims BY DEF Conf
<1>g. art["graph"].graph \in Graph
  <2>1. "graph" \in Artifacts BY DEF Artifacts
  <2> QED BY <2>1, ArtGraph
<1>1. CASE ClearGraph
  <2>1. RowsOf(art["graph"].graph) \subseteq Items BY <1>g, Values
  <2>2. job' \in Job BY <1>1, <2>1 DEF ClearGraph, Job
  <2>3. owner' \in [Nodes -> Names \cup {Nobody}] /\ links' \subseteq Names \X Edges
    BY <1>1 DEF ClearGraph, StoreType
  <2> QED BY <1>1, <2>2, <2>3 DEF ClearGraph, StoreType
<1>2. ASSUME NEW n \in Nodes, WriteNode(n) PROVE StoreType' /\ job' \in Job
  BY <1>2, <1>r DEF WriteNode, StoreType, Job
<1>3. ASSUME NEW e \in Edges, WriteEdge(e) PROVE StoreType' /\ job' \in Job
  BY <1>3, <1>r DEF WriteEdge, Linked, StoreType, Job
<1>p. ASSUME NEW u \in BOOLEAN, Prepared(run.dim, u) PROVE
        /\ dims' \in [Collections -> Dims \cup {Nobody}] /\ job' \in Job
        /\ UNCHANGED <<owner, links, taken>>
  <2>1. job.coll \in Collections BY DEF Job
  <2>2. Rows(job.coll, art["graph"].graph) \subseteq Items BY <2>1, <1>g, Values
  <2>3. job' \in Job BY <1>p, <2>2 DEF Prepared, Job
  <2> QED BY <1>p, <1>r, <2>1, <2>3 DEF Prepared, StoreType
<1>w. ASSUME NEW S PROVE Without(S) \in [Names \X Items -> Nat]
  BY DEF Without, StoreType
<1>4. CASE Prepare
  BY <1>4, <1>p, <1>w DEF Prepare, StoreType
<1>5. CASE KeepOldRows
  BY <1>5, <1>p DEF KeepOldRows, StoreType
<1>6. CASE DropCollection
  <2>1. job.coll \in Collections /\ job' = job BY <1>6 DEF DropCollection, Job
  <2> QED BY <1>6, <1>w, <2>1 DEF DropCollection, StoreType
<1>7. ASSUME NEW i \in Items, Insert(i) PROVE StoreType' /\ job' \in Job
  <2>1. job' \in Job BY <1>7 DEF Insert, Job
  <2>2. vectors' \in [Names \X Items -> Nat] BY <1>7, <1>r DEF Insert, StoreType
  <2> QED BY <1>7, <2>1, <2>2 DEF Insert, StoreType
<1> QED BY <1>1, <1>2, <1>3, <1>4, <1>5, <1>6, <1>7 DEF Writes

\* The three groups are all actions.
LEMMA Grouped == Next => Quiet \/ Records \/ Writes
BY DEF Next, Quiet, Records, Writes

\* Type correctness of the knowledge graph pipeline.
THEOREM KgTypeCorrect == Spec => []KgTypeOK
<1>1. Init => KgTypeOK BY KgTypeInit
<1>2. KgTypeOK /\ [Next]_vars => KgTypeOK'
  <2>1. ASSUME KgTypeOK, UNCHANGED vars PROVE KgTypeOK'
    BY <2>1 DEF vars, stores, attempt, KgTypeOK
  <2> QED BY <2>1, QuietType, RecordsType, WritesType, Grouped
<1> QED BY <1>1, <1>2, PTL DEF Spec

-----------------------------------------------------------------------------
(* The stages of a run.                                                    *)

\* A file that is produced holds a graph without dangling edges.
LEMMA ProduceFormed ==
    ASSUME KgTypeOK, Stage, NEW a \in Artifacts, NEW g, WellFormed(g),
           Produce(a, g, Done) \/ Produce(a, g, Goto("made"))
    PROVE  \A b \in Artifacts : WellFormed(art'[b].graph)
<1>1. WellFormed(File(g).graph) /\ WellFormed(Torn.graph)
  BY DEF File, Torn, Empty, WellFormed
<1>2. PICK f \in {File(g), Torn} : art' = [art EXCEPT ![a] = f] BY DEF Produce
<1>3. art \in [Artifacts -> File3] BY TypeParts
<1>4. WellFormed(f.graph) BY <1>1, <1>2
<1>5. \A b \in Artifacts : art'[b] = IF b = a THEN f ELSE art[b] BY <1>2, <1>3
<1> QED BY <1>4, <1>5 DEF Stage

\* Quiet actions keep the stages.
LEMMA QuietStage == ASSUME KgTypeOK, Stage, Quiet PROVE Stage'
<1>1. ASSUME NEW c \in Confs, TriggerRun(c) PROVE Stage'
  BY <1>1 DEF TriggerRun, Stage, Stores
<1>2. CASE Crash \/ Refuse
  BY <1>2 DEF Crash, Refuse, Fail, Stage, Stores
<1>3. CASE Load
  <2>1. PICK g \in Graphs : Produce("input", g, Done) BY <1>3 DEF Load
  <2>2. WellFormed(g) /\ "input" \in Artifacts BY KgAssumption DEF WellFormed, Artifacts
  <2>3. \A b \in Artifacts : WellFormed(art'[b].graph) BY <2>1, <2>2, ProduceFormed
  <2>4. step' = "start" /\ task' \notin Stores
    BY <1>3, <2>1 DEF Load, Produce, Done, Fail, After, Stores
  <2> QED BY <2>3, <2>4 DEF Stage
<1>4. CASE Extract
  <2>1. WellFormed(art["input"].graph) /\ "entities" \in Artifacts BY DEF Stage, Artifacts
  <2>2. Produce("entities", art["input"].graph, Done) BY <1>4 DEF Extract
  <2>3. \A b \in Artifacts : WellFormed(art'[b].graph) BY <2>1, <2>2, ProduceFormed
  <2>4. step' = "start" /\ task' \notin Stores
    BY <1>4 DEF Extract, Produce, Done, Fail, After, Stores
  <2> QED BY <2>3, <2>4 DEF Stage
<1>5. CASE BuildGraph
  <2>1. WellFormed(art["input"].graph) /\ "graph" \in Artifacts BY DEF Stage, Artifacts
  <2>2. Produce("graph", art["input"].graph, Goto("made")) BY <1>5 DEF BuildGraph
  <2>3. \A b \in Artifacts : WellFormed(art'[b].graph) BY <2>1, <2>2, ProduceFormed
  <2>4. /\ task' \notin Stores
        /\ step' = "start" \/ (step' = "made" /\ task' = "build")
    BY <1>5 DEF BuildGraph, Produce, Goto, Fail, Stores
  <2> QED BY <2>3, <2>4 DEF Stage
<1>6. CASE NextCollection
  BY <1>6 DEF NextCollection, Goto, Stage, Stores, stores
<1> QED BY <1>1, <1>2, <1>3, <1>4, <1>5, <1>6 DEF Quiet

\* A report of a write task keeps the stages; only a start leaves the section open.
LEMMA SaveStage ==
    ASSUME KgTypeOK, Stage, task \in Stores, summary.st = "whole", UNCHANGED <<art, run>>,
           NEW s \in {"running", "skipped", "failed", "success"}, NEW u \in BOOLEAN,
           \/ Save(Reported(s, u), Done) \/ Save(Reported(s, u), Fail)
           \/ s = "running" /\ Save(Reported(s, u), Goto("clear"))
           \/ summary' \in {Reported(s, u), Unwritten("torn")} /\ Fail
    PROVE  Stage'
<1>1. /\ step' = "start" \/ (step' = "clear" /\ s = "running" /\ summary' = Reported(s, u))
      /\ task' \in Stores => task' = task \/ task = "neo4j"
      /\ step' = "clear" => task' = task
      /\ summary' = Reported(s, u) \/ summary' = Unwritten("torn")
  BY DEF Save, Done, Fail, Goto, After, Stores
<1>2. Unwritten("torn").st # "whole" BY DEF Unwritten
<1>3. summary.graph = art["graph"].graph BY DEF Stage
<1> QED BY <1>1, <1>2, <1>3, ReportedFacts DEF Stage

\* A task that writes has an open section in a readable summary.
LEMMA Writing ==
    ASSUME KgTypeOK, Stage, step \in {"clear", "write"}
    PROVE  /\ task \in Stores /\ summary.st = "whole"
           /\ summary.graph = art["graph"].graph /\ summary.name = run.name
           /\ task = "neo4j" => ~GraphWritten
           /\ task = "milvus" => ~VectorsWritten
BY DEF Stage, GraphWritten, VectorsWritten

\* Actions that write the summary keep the stages.
LEMMA RecordsStage == ASSUME KgTypeOK, Stage, Records PROVE Stage'
<1>0. UNCHANGED <<art, run>>
  BY DEF Records, BuildSummary, StartWrite, Raise, Succeed, RefuseDimension
<1>1. CASE BuildSummary
  <2>1. step' = "start" BY <1>1 DEF BuildSummary, Save, Done, Fail
  <2>2. task' \in Stores => summary' = NewSummary
    BY <1>1 DEF BuildSummary, Save, Done, Fail, Stores
  <2>3. NewSummary.graph = art["graph"].graph /\ NewSummary.name = run.name
    BY DEF NewSummary, Unwritten
  <2> QED BY <1>0, <2>1, <2>2, <2>3 DEF Stage
<1>2. CASE StartWrite
  <2>1. \/ Save(Reported("running", FALSE), Goto("clear"))
        \/ Save(Reported("skipped", FALSE), Done)
    BY <1>2 DEF StartWrite
  <2> QED BY <1>0, <1>2, <2>1, SaveStage DEF StartWrite
<1>3. CASE Raise
  <2>1. task \in Stores /\ summary.st = "whole" BY <1>3, Writing DEF Raise
  <2> QED BY <1>0, <1>3, <2>1, SaveStage DEF Raise
<1>4. CASE Succeed
  <2>1. task \in Stores /\ summary.st = "whole" BY <1>4, Writing DEF Succeed
  <2>2. job.undeleted \in BOOLEAN BY TypeParts DEF Job
  <2> QED BY <1>0, <1>4, <2>1, <2>2, SaveStage DEF Succeed
<1>5. CASE RefuseDimension
  <2>1. task \in Stores /\ summary.st = "whole" BY <1>5, Writing DEF RefuseDimension
  <2> QED BY <1>0, <1>5, <2>1, SaveStage DEF RefuseDimension
<1> QED BY <1>1, <1>2, <1>3, <1>4, <1>5 DEF Records

\* So do writes.
LEMMA WritesStage == ASSUME KgTypeOK, Stage, Writes PROVE Stage'
BY WritesFrame DEF Stage

-----------------------------------------------------------------------------
(* What is in the stores.                                                  *)

\* The invariant holds at the start of an attempt, whatever the stores hold.
LEMMA AtStart == ASSUME Ends, UNCHANGED stores, step' \in {"start", "made"} PROVE StoreInv'
BY DEF Ends, stores, StoreInv

\* Quiet actions keep what is known of the stores.
LEMMA QuietStores == ASSUME KgTypeOK, StoreInv, Quiet PROVE StoreInv'
<1>1. UNCHANGED stores
  BY DEF Quiet, TriggerRun, Crash, Load, Extract, BuildGraph, Refuse, NextCollection, Produce
<1>2. Ends BY DEF StoreInv
<1>3. CASE NextCollection
  <2>1. VectorsSoFar(art["graph"].graph) BY <1>3 DEF StoreInv, NextCollection
  <2>2. job.coll = "EntityEmbedding" /\ job.todo = {} /\ step = "write"
    BY <1>3 DEF NextCollection
  <2>3. Filled("EntityEmbedding", art["graph"].graph, {}) BY <2>1, <2>2 DEF VectorsSoFar
  <2>4. job'.undeleted = job.undeleted BY <1>3, TypeParts DEF NextCollection, Job
  <2>5. UNCHANGED <<art, run, vectors>> BY <1>1, <1>3 DEF NextCollection, stores
  <2>6. Filled("EntityEmbedding", art["graph"].graph, {})'
    BY <2>3, <2>4, <2>5 DEF Filled
  <2>7. task' = "milvus" /\ step' = "clear" BY <1>3 DEF NextCollection, Goto
  <2>8. Ends' BY <1>1, <1>2 DEF Ends, stores
  <2> QED BY <2>6, <2>7, <2>8 DEF StoreInv, VectorsSoFar
<1>4. CASE ~NextCollection
  <2>1. step' \in {"start", "made"}
    BY <1>4 DEF Quiet, TriggerRun, Crash, Load, Extract, BuildGraph, Refuse, Produce, Goto,
                Fail, Done
  <2> QED BY <1>1, <1>2, <2>1, AtStart
<1> QED BY <1>3, <1>4

\* So do actions that write the summary.
LEMMA RecordsStores == ASSUME KgTypeOK, StoreInv, Records PROVE StoreInv'
<1>1. UNCHANGED stores
  BY DEF Records, BuildSummary, StartWrite, Raise, Succeed, RefuseDimension
<1>2. Ends BY DEF StoreInv
<1>3. step' = "start" \/ (step' = "clear" /\ job' = NoJob)
  BY DEF Records, BuildSummary, StartWrite, Raise, Succeed, RefuseDimension, Save, Done, Fail,
         Goto
<1>4. CASE step' = "start" BY <1>1, <1>2, <1>4, AtStart
<1>5. CASE step' = "clear" /\ job' = NoJob
  <2>1. job'.coll = "EntityEmbedding" BY <1>5 DEF NoJob
  <2>2. Ends' BY <1>1, <1>2 DEF Ends, stores
  <2> QED BY <1>5, <2>1, <2>2 DEF StoreInv, VectorsSoFar
<1> QED BY <1>3, <1>4, <1>5

\* The graph that is written, by its parts.
LEMMA TheGraph ==
    ASSUME KgTypeOK, Stage
    PROVE  /\ art["graph"].graph.nodes \subseteq Nodes
           /\ art["graph"].graph.edges \subseteq Edges
           /\ \A e \in art["graph"].graph.edges :
                  e[1] \in art["graph"].graph.nodes /\ e[2] \in art["graph"].graph.nodes
<1>1. "graph" \in Artifacts BY DEF Artifacts
<1>2. art["graph"].graph \in Graph BY <1>1, ArtGraph
<1>3. WellFormed(art["graph"].graph) BY <1>1 DEF Stage
<1> QED BY <1>2, <1>3 DEF Graph, WellFormed

\* Clearing leaves only relations between nodes that another graph has taken.
LEMMA ClearStores == ASSUME KgTypeOK, Stage, StoreInv, ClearGraph PROVE StoreInv'
<1> DEFINE g == art["graph"].graph
<1>0. UNCHANGED <<art, run, taken, task>> /\ task = "neo4j" BY DEF ClearGraph, Goto
<1>1. /\ owner \in [Nodes -> Names \cup {Nobody}] /\ run.name \in Names /\ links \subseteq Names \X Edges
      /\ Nobody \notin Names /\ job \in Job
  BY TypeParts, KgAssumption DEF StoreType, Conf
<1>2. Ends BY DEF StoreInv
<1>3. CASE "neo4j" \in run.clear
  <2> DEFINE gone == {n \in Nodes : owner[n] = run.name}
  <2>1. /\ owner' = [n \in Nodes |-> IF n \in gone THEN Nobody ELSE owner[n]]
        /\ links' = {l \in links : l[2][1] \notin gone /\ l[2][2] \notin gone}
    BY <1>3 DEF ClearGraph
  <2>2. \A e \in Edges : e[1] \in Nodes /\ e[2] \in Nodes /\ e = <<e[1], e[2]>> BY DEF Edges
  <2>3. ASSUME NEW m \in Names, NEW e \in Edges, <<m, e>> \in links'
        PROVE  /\ <<m, e>> \in links /\ owner'[e[1]] = owner[e[1]] /\ owner'[e[2]] = owner[e[2]]
               /\ owner[e[1]] # run.name /\ owner[e[2]] # run.name
    BY <2>1, <2>2, <2>3
  <2>4. Ends' BY <1>0, <1>2, <2>3 DEF Ends
  <2>5. \A n \in Nodes : owner'[n] # run.name BY <1>1, <2>1
  <2>6. ASSUME NEW e \in Edges, <<run.name, e>> \in links' PROVE e \in taken \X taken
    <3>1. e[1] \in taken /\ e[2] \in taken BY <1>1, <1>2, <2>3, <2>6 DEF Ends
    <3> QED BY <2>2, <3>1
  <2>7. job'.todo = RowsOf(g) BY <1>1 DEF ClearGraph, Job
  <2>8. GraphSoFar(g)' BY <1>0, <2>5, <2>6, <2>7 DEF GraphSoFar, RowsOf
  <2> QED BY <1>0, <2>4, <2>8 DEF StoreInv
<1>4. CASE "neo4j" \notin run.clear
  <2>1. UNCHANGED <<owner, links>> BY <1>4 DEF ClearGraph
  <2>2. Ends' BY <1>0, <1>2, <2>1 DEF Ends
  <2>3. job'.todo = RowsOf(g) BY <1>1 DEF ClearGraph, Job
  <2>4. GraphSoFar(g)' BY <1>0, <1>4, <2>3 DEF GraphSoFar, RowsOf
  <2> QED BY <1>0, <2>2, <2>4 DEF StoreInv
<1> QED BY <1>3, <1>4

\* A node that is written belongs to the graph; if it was another's it is taken.
LEMMA NodeStores ==
    ASSUME KgTypeOK, Stage, StoreInv, NEW n \in Nodes, WriteNode(n) PROVE StoreInv'
<1> DEFINE g == art["graph"].graph
<1>0. UNCHANGED <<art, run, links, task, step>> /\ task = "neo4j" /\ step = "write" /\ n \in job.todo
  BY DEF WriteNode, attempt
<1>1. /\ owner \in [Nodes -> Names \cup {Nobody}] /\ run.name \in Names
      /\ Nobody \notin Names /\ job \in Job /\ Nodes \cap Edges = {}
  BY TypeParts, KgAssumption DEF StoreType, Conf
<1>2. Ends /\ GraphSoFar(g) BY <1>0 DEF StoreInv
<1>3. /\ owner' = [owner EXCEPT ![n] = run.name]
      /\ taken' = IF owner[n] \in {run.name, Nobody} THEN taken ELSE taken \cup {n}
  BY DEF WriteNode
<1>4. job'.todo = job.todo \ {n} BY <1>1 DEF WriteNode, Job
<1>5. ASSUME NEW m \in Names, NEW k \in Nodes, owner[k] = m \/ k \in taken
      PROVE  owner'[k] = m \/ k \in taken'
  BY <1>1, <1>3, <1>5
<1>6. \A e \in Edges : e[1] \in Nodes /\ e[2] \in Nodes BY DEF Edges
<1>7. Ends' BY <1>0, <1>2, <1>5, <1>6 DEF Ends
<1>8. g.nodes \subseteq Nodes /\ g.edges \subseteq Edges BY TheGraph
<1>9. n \in g.nodes BY <1>0, <1>1, <1>2, <1>8 DEF GraphSoFar, RowsOf
<1>10. taken \subseteq taken' BY <1>3
<1>11. \A k \in Nodes : owner'[k] = IF k = n THEN run.name ELSE owner[k] BY <1>1, <1>3
<1>12. GraphSoFar(g)'
  BY <1>0, <1>1, <1>2, <1>4, <1>8, <1>9, <1>10, <1>11 DEF GraphSoFar
<1> QED BY <1>0, <1>7, <1>12 DEF StoreInv

\* A relation is written after its nodes, so that both ends are found.
LEMMA EdgeStores ==
    ASSUME KgTypeOK, Stage, StoreInv, NEW e \in Edges, WriteEdge(e) PROVE StoreInv'
<1> DEFINE g == art["graph"].graph
<1>0. /\ UNCHANGED <<art, run, owner, taken, task, step>> /\ task = "neo4j" /\ step = "write"
      /\ e \in job.todo /\ job.todo \cap Nodes = {} /\ Linked(e)
  BY DEF WriteEdge, attempt
<1>1. job \in Job /\ Nodes \cap Edges = {} BY TypeParts, KgAssumption
<1>2. Ends /\ GraphSoFar(g) BY <1>0 DEF StoreInv
<1>3. g.nodes \subseteq Nodes /\ g.edges \subseteq Edges BY TheGraph
<1>4. e \in g.edges BY <1>0, <1>1, <1>2, <1>3 DEF GraphSoFar, RowsOf
<1>5. e[1] \in g.nodes /\ e[2] \in g.nodes BY <1>4, TheGraph
<1>6. owner[e[1]] = run.name /\ owner[e[2]] = run.name
  BY <1>0, <1>2, <1>3, <1>5 DEF GraphSoFar
<1>7. links' = links \cup {<<run.name, e>>} BY <1>0, <1>6 DEF Linked
<1>8. job'.todo = job.todo \ {e} BY <1>0, <1>1 DEF Linked, Job
<1>9. Ends' BY <1>0, <1>2, <1>6, <1>7 DEF Ends
<1>10. GraphSoFar(g)' BY <1>0, <1>2, <1>3, <1>4, <1>7, <1>8 DEF GraphSoFar
<1> QED BY <1>0, <1>9, <1>10 DEF StoreInv

\* A collection that is prepared is empty of the graph, unless the deletion failed.
LEMMA PrepareStores ==
    ASSUME KgTypeOK, Stage, StoreInv, Prepare \/ KeepOldRows PROVE StoreInv'
<1> DEFINE g == art["graph"].graph
           c == job.coll
<1>0. /\ UNCHANGED <<art, run, owner, links, taken, task>> /\ task = "milvus" /\ step = "clear"
      /\ step' = "write"
  BY DEF Prepare, KeepOldRows, Prepared, Goto
<1>1. /\ job \in Job /\ Nodes \cap Edges = {} /\ run.name \in Names
      /\ vectors \in [Names \X Items -> Nat]
  BY TypeParts, KgAssumption DEF StoreType, Conf
<1>2. Ends /\ VectorsSoFar(g) BY <1>0 DEF StoreInv
<1>3. g.nodes \subseteq Nodes /\ g.edges \subseteq Edges BY TheGraph
<1>4. job'.todo = Rows(c, g) /\ job'.coll = c
  BY <1>1 DEF Prepare, KeepOldRows, Prepared, Job
<1>5. ~job'.undeleted => ~job.undeleted /\ Prepare
  BY <1>1 DEF Prepare, KeepOldRows, Prepared, Job
<1>6. ASSUME NEW i \in Items, i \notin ItemsOf(c)
      PROVE  vectors'[<<run.name, i>>] = vectors[<<run.name, i>>]
  BY <1>1, <1>6 DEF Prepare, KeepOldRows, Without
<1>7. ASSUME NEW i \in Items, i \in ItemsOf(c), Prepare, "milvus" \in run.clear
      PROVE  vectors'[<<run.name, i>>] = 0
  BY <1>1, <1>7 DEF Prepare, Without
<1>8. Filled(job.coll, g, job.todo)'
  <2>1. ItemsOf(c) \subseteq Items BY DEF ItemsOf, Items
  <2>2. Rows(c, g) \ Rows(c, g) = {} OBVIOUS
  <2>3. Rows(job'.coll, art'["graph"].graph) \ job'.todo = {} BY <1>0, <1>4, <2>2
  <2>4. ASSUME "milvus" \in run'.clear, ~job'.undeleted, NEW i \in ItemsOf(job'.coll)
        PROVE  vectors'[<<run'.name, i>>] = 0
    BY <1>0, <1>4, <1>5, <1>7, <2>1, <2>4
  <2> QED BY <2>3, <2>4 DEF Filled
<1>9. c = "RelationshipEmbedding" => Filled("EntityEmbedding", g, {})'
  <2>1. SUFFICES ASSUME c = "RelationshipEmbedding" PROVE Filled("EntityEmbedding", g, {})'
    OBVIOUS
  <2>2. Filled("EntityEmbedding", g, {}) BY <1>2, <2>1 DEF VectorsSoFar
  <2>3. \A i \in Nodes : i \in Items /\ i \notin ItemsOf(c) BY <1>1, <2>1 DEF ItemsOf, Items
  <2>4. \A i \in Nodes : vectors'[<<run.name, i>>] = vectors[<<run.name, i>>] BY <1>6, <2>3
  <2>5. Rows("EntityEmbedding", g) \subseteq Nodes /\ ItemsOf("EntityEmbedding") = Nodes
    BY <1>3 DEF Rows, ItemsOf
  <2> QED BY <1>0, <1>5, <2>2, <2>4, <2>5 DEF Filled
<1>10. VectorsSoFar(g)' BY <1>0, <1>4, <1>8, <1>9 DEF VectorsSoFar
<1>11. Ends' BY <1>0, <1>2 DEF Ends
<1> QED BY <1>0, <1>10, <1>11 DEF StoreInv

\* A collection that is dropped was not written yet in this attempt.
LEMMA DropStores == ASSUME KgTypeOK, Stage, StoreInv, DropCollection PROVE StoreInv'
<1> DEFINE g == art["graph"].graph
           c == job.coll
<1>0. /\ UNCHANGED <<art, run, owner, links, taken, task, job, step>> /\ task = "milvus"
      /\ step = "clear" /\ vectors' = Without(Names \X ItemsOf(c))
  BY DEF DropCollection, attempt
<1>1. /\ Nodes \cap Edges = {} /\ run.name \in Names
      /\ vectors \in [Names \X Items -> Nat]
  BY TypeParts, KgAssumption DEF StoreType, Conf
<1>2. Ends /\ VectorsSoFar(g) BY <1>0 DEF StoreInv
<1>3. g.nodes \subseteq Nodes /\ g.edges \subseteq Edges BY TheGraph
<1>4. c = "RelationshipEmbedding" => Filled("EntityEmbedding", g, {})'
  <2>1. SUFFICES ASSUME c = "RelationshipEmbedding" PROVE Filled("EntityEmbedding", g, {})'
    OBVIOUS
  <2>2. Filled("EntityEmbedding", g, {}) BY <1>2, <2>1 DEF VectorsSoFar
  <2>3. \A i \in Nodes : i \in Items /\ i \notin ItemsOf(c) BY <1>1, <2>1 DEF ItemsOf, Items
  <2>4. \A i \in Nodes : vectors'[<<run.name, i>>] = vectors[<<run.name, i>>]
    BY <1>0, <1>1, <2>3 DEF Without
  <2>5. Rows("EntityEmbedding", g) \subseteq Nodes /\ ItemsOf("EntityEmbedding") = Nodes
    BY <1>3 DEF Rows, ItemsOf
  <2> QED BY <1>0, <2>2, <2>4, <2>5 DEF Filled
<1>5. VectorsSoFar(g)' BY <1>0, <1>4 DEF VectorsSoFar
<1>6. Ends' BY <1>0, <1>2 DEF Ends
<1> QED BY <1>0, <1>5, <1>6 DEF StoreInv

\* A row is inserted once in an attempt.
LEMMA InsertStores ==
    ASSUME KgTypeOK, Stage, StoreInv, NEW j \in Items, Insert(j) PROVE StoreInv'
<1> DEFINE g == art["graph"].graph
           c == job.coll
<1>0. /\ UNCHANGED <<art, run, owner, links, taken, task, step>> /\ task = "milvus"
      /\ step = "write" /\ j \in job.todo
  BY DEF Insert, attempt
<1>1. /\ job \in Job /\ Nodes \cap Edges = {} /\ run.name \in Names
      /\ vectors \in [Names \X Items -> Nat] /\ c \in Collections
  BY TypeParts, KgAssumption DEF StoreType, Conf, Job
<1>2. Ends /\ VectorsSoFar(g) BY <1>0 DEF StoreInv
<1>3. g.nodes \subseteq Nodes /\ g.edges \subseteq Edges BY TheGraph
<1>4. job'.todo = job.todo \ {j} /\ job'.coll = c /\ job'.undeleted = job.undeleted
  BY <1>1 DEF Insert, Job
<1>5. \A i \in Items : vectors'[<<run.name, i>>] =
          IF i = j THEN vectors[<<run.name, i>>] + 1 ELSE vectors[<<run.name, i>>]
  <2>1. vectors' = [vectors EXCEPT ![<<run.name, j>>] = @ + 1] BY DEF Insert
  <2> QED BY <1>1, <2>1
<1>6. Filled(c, g, job.todo) /\ job.todo \subseteq Rows(c, g) BY <1>0, <1>2 DEF VectorsSoFar
<1>7. Rows(c, g) \subseteq ItemsOf(c) /\ ItemsOf(c) \subseteq Items
  BY <1>1, <1>3 DEF Rows, ItemsOf, Items, Collections
<1>8. \A i \in Items : vectors[<<run.name, i>>] \in Nat BY <1>1
<1>9. Filled(job.coll, g, job.todo)'
  <2>1. ASSUME NEW i \in Rows(c, g) \ (job.todo \ {j}) PROVE vectors'[<<run.name, i>>] >= 1
    BY <1>5, <1>6, <1>7, <1>8 DEF Filled
  <2>2. ASSUME "milvus" \in run.clear, ~job.undeleted, NEW i \in ItemsOf(c)
        PROVE  vectors'[<<run.name, i>>] = IF i \in Rows(c, g) \ (job.todo \ {j}) THEN 1 ELSE 0
    <3>1. vectors[<<run.name, i>>] = IF i \in Rows(c, g) \ job.todo THEN 1 ELSE 0
      BY <1>6, <2>2 DEF Filled
    <3> QED BY <1>0, <1>5, <1>6, <1>7, <3>1
  <2>3. /\ Rows(job'.coll, art'["graph"].graph) \ job'.todo = Rows(c, g) \ (job.todo \ {j})
        /\ ItemsOf(job'.coll) = ItemsOf(c) /\ run' = run
    BY <1>0, <1>4
  <2>4. \A i \in Rows(job'.coll, art'["graph"].graph) \ job'.todo :
            vectors'[<<run'.name, i>>] >= 1
    BY <2>1, <2>3
  <2>5. ASSUME "milvus" \in run'.clear, ~job'.undeleted, NEW i \in ItemsOf(job'.coll)
        PROVE  vectors'[<<run'.name, i>>] =
                   IF i \in Rows(job'.coll, art'["graph"].graph) \ job'.todo THEN 1 ELSE 0
    BY <1>4, <2>2, <2>3, <2>5
  <2> QED BY <2>4, <2>5 DEF Filled
<1>10. c = "RelationshipEmbedding" => Filled("EntityEmbedding", g, {})'
  <2>1. SUFFICES ASSUME c = "RelationshipEmbedding" PROVE Filled("EntityEmbedding", g, {})'
    OBVIOUS
  <2>2. Filled("EntityEmbedding", g, {}) BY <1>2, <2>1 DEF VectorsSoFar
  <2>3. j \notin Nodes BY <1>0, <1>1, <1>6, <1>7, <2>1 DEF ItemsOf
  <2>4. \A i \in Nodes : vectors'[<<run.name, i>>] = vectors[<<run.name, i>>]
    BY <1>5, <2>3 DEF Items
  <2>5. Rows("EntityEmbedding", g) \subseteq Nodes /\ ItemsOf("EntityEmbedding") = Nodes
    BY <1>3 DEF Rows, ItemsOf
  <2> QED BY <1>0, <1>4, <2>2, <2>4, <2>5 DEF Filled
<1>11. VectorsSoFar(g)'
  <2>1. job'.todo \subseteq Rows(c, g) BY <1>4, <1>6
  <2> QED BY <1>0, <1>4, <1>9, <1>10, <2>1 DEF VectorsSoFar
<1>12. Ends' BY <1>0, <1>2 DEF Ends
<1> QED BY <1>0, <1>11, <1>12 DEF StoreInv

\* Every write keeps what is known of the stores.
LEMMA WritesStores == ASSUME KgTypeOK, Stage, StoreInv, Writes PROVE StoreInv'
BY ClearStores, NodeStores, EdgeStores, PrepareStores, DropStores, InsertStores DEF Writes

-----------------------------------------------------------------------------
(* The reports.                                                            *)

Reports == ReportHonest /\ RebuildAgrees

\* Nothing is reported before a build.
LEMMA Unreported ==
    ASSUME summary' \in {NewSummary, Unwritten("torn")} PROVE Reports'
<1>1. \A st : Unwritten(st).neo4j.status = "none" /\ Unwritten(st).milvus.status = "none"
  BY DEF Unwritten, NoReport
<1>2. NewSummary.neo4j = Unwritten("whole").neo4j /\ NewSummary.milvus = Unwritten("whole").milvus
  BY DEF NewSummary, Unwritten
<1>3. summary'.neo4j.status = "none" /\ summary'.milvus.status = "none" BY <1>1, <1>2
<1>4. ~GraphWritten' /\ ~VectorsWritten' BY <1>3 DEF GraphWritten, VectorsWritten
<1> QED BY <1>4 DEF Reports, ReportHonest, RebuildAgrees

\* Reports about stores that do not change stay true.
LEMMA QuietReports == ASSUME KgTypeOK, Reports, Quiet PROVE Reports'
<1>1. UNCHANGED stores /\ UNCHANGED summary
  BY DEF Quiet, TriggerRun, Crash, Load, Extract, BuildGraph, Refuse, NextCollection, Produce
<1> QED BY <1>1 DEF stores, Reports, ReportHonest, RebuildAgrees, GraphWritten, VectorsWritten

\* A write is reported by nobody: its section is open.
LEMMA WritesReports == ASSUME KgTypeOK, Stage, Reports, Writes PROVE Reports'
<1>1. UNCHANGED summary /\ step \in {"clear", "write"} BY WritesFrame
<1>2. CASE task = "neo4j"
  <2>1. UNCHANGED vectors
    BY <1>2 DEF Writes, ClearGraph, WriteNode, WriteEdge, Prepare, KeepOldRows, DropCollection,
                Insert
  <2>2. ~GraphWritten BY <1>1, <1>2, Writing
  <2> QED BY <1>1, <2>1, <2>2 DEF Reports, ReportHonest, RebuildAgrees, GraphWritten,
                                  VectorsWritten
<1>3. CASE task # "neo4j"
  <2>1. UNCHANGED <<owner, links, taken>>
    BY <1>3 DEF Writes, ClearGraph, WriteNode, WriteEdge, Prepare, KeepOldRows, DropCollection,
                Insert, Prepared
  <2>2. task = "milvus" BY <1>1, <1>3, Writing DEF Stores
  <2>3. ~VectorsWritten BY <1>1, <2>2, Writing
  <2> QED BY <1>1, <2>1, <2>3 DEF Reports, ReportHonest, RebuildAgrees, GraphWritten,
                                  VectorsWritten
<1> QED BY <1>2, <1>3

\* A report other than success says nothing of its store and keeps the other section.
LEMMA OtherReports ==
    ASSUME KgTypeOK, Stage, Reports, task \in Stores, summary.st = "whole", UNCHANGED stores,
           NEW s \in {"running", "skipped", "failed"}, summary' = Reported(s, FALSE)
    PROVE  Reports'
<1>1. summary.name = run.name BY DEF Stage
<1>2. s # "success" /\ s \in {"running", "skipped", "failed", "success"} OBVIOUS
<1>3. /\ summary'.st = "whole" /\ summary'.graph = summary.graph /\ summary'.name = summary.name
      /\ task = "neo4j" => summary'.neo4j.status = s /\ summary'.milvus = summary.milvus
      /\ task = "milvus" => summary'.milvus.status = s /\ summary'.neo4j = summary.neo4j
  BY <1>1, <1>2, ReportedFacts
<1>4. UNCHANGED <<owner, links, vectors, taken>> BY DEF stores
<1>5. CASE task = "neo4j"
  BY <1>2, <1>3, <1>4, <1>5 DEF Reports, ReportHonest, RebuildAgrees, GraphWritten,
                                VectorsWritten
<1>6. CASE task = "milvus"
  BY <1>2, <1>3, <1>4, <1>6 DEF Reports, ReportHonest, RebuildAgrees, GraphWritten,
                                VectorsWritten
<1> QED BY <1>5, <1>6 DEF Stores

\* A finished graph is what the summary describes.
LEMMA GraphDone ==
    ASSUME KgTypeOK, Stage, StoreInv, task = "neo4j", step = "write", job.todo = {}
    PROVE  /\ \A n \in summary.graph.nodes : owner[n] = run.name
           /\ \A e \in summary.graph.edges : <<run.name, e>> \in links
           /\ "neo4j" \in run.clear =>
                  /\ {n \in Nodes : owner[n] = run.name} = summary.graph.nodes
                  /\ \A e \in Edges : <<run.name, e>> \in links =>
                         e \in summary.graph.edges \/ e \in taken \X taken
<1>1. GraphSoFar(art["graph"].graph) BY DEF StoreInv
<1>2. summary.graph = art["graph"].graph BY Writing
<1>3. summary.graph.nodes \subseteq Nodes BY <1>2, TheGraph
<1> QED BY <1>1, <1>2, <1>3 DEF GraphSoFar

\* So are finished collections.
LEMMA VectorsDone ==
    ASSUME KgTypeOK, Stage, StoreInv, task = "milvus", step = "write", job.todo = {},
           job.coll = "RelationshipEmbedding"
    PROVE  /\ \A i \in RowsOf(summary.graph) : vectors[<<run.name, i>>] >= 1
           /\ "milvus" \in run.clear /\ ~job.undeleted =>
                  \A i \in Items :
                      vectors[<<run.name, i>>] = IF i \in RowsOf(summary.graph) THEN 1 ELSE 0
<1> DEFINE g == summary.graph
<1>1. VectorsSoFar(g) BY Writing DEF StoreInv
<1>2. Filled("EntityEmbedding", g, {}) /\ Filled("RelationshipEmbedding", g, {})
  BY <1>1 DEF VectorsSoFar
<1>3. /\ Rows("EntityEmbedding", g) \ {} = g.nodes /\ ItemsOf("EntityEmbedding") = Nodes
      /\ Rows("RelationshipEmbedding", g) \ {} = g.edges
      /\ ItemsOf("RelationshipEmbedding") = Edges
  BY DEF Rows, ItemsOf
<1>4. g.nodes \subseteq Nodes /\ g.edges \subseteq Edges BY Writing, TheGraph
<1>5. Nodes \cap Edges = {} BY KgAssumption
<1>6. \A i \in g.nodes \cup g.edges : vectors[<<run.name, i>>] >= 1 BY <1>2, <1>3 DEF Filled
<1>7. ASSUME "milvus" \in run.clear, ~job.undeleted, NEW i \in Items
      PROVE  vectors[<<run.name, i>>] = IF i \in RowsOf(g) THEN 1 ELSE 0
  <2>1. CASE i \in Nodes
    <3>1. vectors[<<run.name, i>>] = IF i \in g.nodes THEN 1 ELSE 0
      BY <1>2, <1>3, <1>7, <2>1 DEF Filled
    <3> QED BY <1>4, <1>5, <2>1, <3>1 DEF RowsOf
  <2>2. CASE i \in Edges
    <3>1. vectors[<<run.name, i>>] = IF i \in g.edges THEN 1 ELSE 0
      BY <1>2, <1>3, <1>7, <2>2 DEF Filled
    <3> QED BY <1>4, <1>5, <2>2, <3>1 DEF RowsOf
  <2> QED BY <2>1, <2>2 DEF Items
<1> QED BY <1>6, <1>7 DEF RowsOf

\* A success is reported of a store that holds the graph.
LEMMA SuccessReports ==
    ASSUME KgTypeOK, Stage, StoreInv, Reports, Succeed,
           summary' = Reported("success", job.undeleted)
    PROVE  Reports'
<1>1. /\ task \in Stores /\ step = "write" /\ job.todo = {}
      /\ task = "milvus" => job.coll = "RelationshipEmbedding"
      /\ UNCHANGED <<owner, links, vectors, taken>>
  BY DEF Succeed, stores
<1>2. job.undeleted \in BOOLEAN BY TypeParts DEF Job
<1>3. summary.st = "whole" /\ summary.name = run.name BY <1>1, Writing
<1>4. /\ summary'.st = "whole" /\ summary'.graph = summary.graph /\ summary'.name = run.name
      /\ task = "neo4j" => /\ summary'.neo4j.clear = ("neo4j" \in run.clear)
                           /\ summary'.milvus = summary.milvus
      /\ task = "milvus" => /\ summary'.milvus.clear = ("milvus" \in run.clear)
                            /\ summary'.milvus.undeleted = job.undeleted
                            /\ summary'.neo4j = summary.neo4j
  BY <1>1, <1>2, <1>3, ReportedFacts
<1>5. CASE task = "neo4j"
  <2>1. VectorsWritten' <=> VectorsWritten BY <1>3, <1>4, <1>5 DEF VectorsWritten
  <2>2. summary'.neo4j.clear => "neo4j" \in run.clear BY <1>4, <1>5
  <2>3. summary'.milvus = summary.milvus BY <1>4, <1>5
  <2>4. ReportHonest'
    BY <1>1, <1>3, <1>4, <1>5, <2>1, GraphDone DEF Reports, ReportHonest
  <2>5. RebuildAgrees'
    BY <1>1, <1>3, <1>4, <1>5, <2>1, <2>2, <2>3, GraphDone DEF Reports, RebuildAgrees
  <2> QED BY <2>4, <2>5 DEF Reports
<1>6. CASE task = "milvus"
  <2>1. GraphWritten' <=> GraphWritten BY <1>3, <1>4, <1>6 DEF GraphWritten
  <2>2. summary'.milvus.clear => "milvus" \in run.clear BY <1>4, <1>6
  <2>3. summary'.neo4j = summary.neo4j BY <1>4, <1>6
  <2>4. ReportHonest'
    BY <1>1, <1>3, <1>4, <1>6, <2>1, VectorsDone DEF Reports, ReportHonest
  <2>5. RebuildAgrees'
    BY <1>1, <1>3, <1>4, <1>6, <2>1, <2>2, <2>3, VectorsDone DEF Reports, RebuildAgrees
  <2> QED BY <2>4, <2>5 DEF Reports
<1> QED BY <1>1, <1>5, <1>6 DEF Stores

\* Writing the summary keeps the reports true.
LEMMA RecordsReports == ASSUME KgTypeOK, Stage, StoreInv, Reports, Records PROVE Reports'
<1>1. UNCHANGED stores
  BY DEF Records, BuildSummary, StartWrite, Raise, Succeed, RefuseDimension
<1>2. CASE BuildSummary
  BY <1>2, Unreported DEF BuildSummary, Save
<1>3. CASE StartWrite
  <2>1. /\ task \in Stores /\ summary.st = "whole"
        /\ summary' \in {Reported("running", FALSE), Reported("skipped", FALSE),
                         Unwritten("torn")}
    BY <1>3 DEF StartWrite, Save
  <2> QED BY <1>1, <2>1, OtherReports, Unreported
<1>4. CASE Raise
  <2>1. /\ task \in Stores /\ summary.st = "whole"
        /\ summary' \in {Reported("failed", FALSE), Unwritten("torn")}
    BY <1>4, Writing DEF Raise
  <2> QED BY <1>1, <2>1, OtherReports, Unreported
<1>5. CASE Succeed
  <2>1. summary' \in {Reported("success", job.undeleted), Unwritten("torn")}
    BY <1>5 DEF Succeed, Save
  <2> QED BY <1>5, <2>1, SuccessReports, Unreported
<1>6. CASE RefuseDimension
  <2>1. /\ task \in Stores /\ summary.st = "whole"
        /\ summary' \in {Reported("failed", FALSE), Unwritten("torn")}
    BY <1>6, Writing DEF RefuseDimension, Save
  <2> QED BY <1>1, <2>1, OtherReports, Unreported
<1> QED BY <1>2, <1>3, <1>4, <1>5, <1>6 DEF Records

-----------------------------------------------------------------------------
(* The invariant.                                                          *)

\* It holds at the start.
LEMMA KgInvInit == ASSUME Init PROVE KgInv
<1>1. KgTypeOK BY KgTypeInit
<1>2. Stage
  <2>1. WellFormed(Empty) BY DEF WellFormed, Empty
  <2>2. \A a \in Artifacts : art[a].graph = Empty BY DEF Init, Absent
  <2> QED BY <2>1, <2>2 DEF Init, Stage, Stores
<1>3. StoreInv BY DEF Init, StoreInv, Ends
<1>4. ~GraphWritten /\ ~VectorsWritten BY DEF Init, Unwritten, GraphWritten, VectorsWritten
<1> QED BY <1>1, <1>2, <1>3, <1>4 DEF KgInv, ReportHonest, RebuildAgrees

\* Every step keeps it.
LEMMA KgInvStep == ASSUME KgInv, [Next]_vars PROVE KgInv'
<1> USE DEF KgInv
<1>1. Reports BY DEF Reports
<1>2. CASE Quiet
  BY <1>1, <1>2, QuietType, QuietStage, QuietStores, QuietReports DEF Reports
<1>3. CASE Records
  BY <1>1, <1>3, RecordsType, RecordsStage, RecordsStores, RecordsReports DEF Reports
<1>4. CASE Writes
  BY <1>1, <1>4, WritesType, WritesStage, WritesStores, WritesReports DEF Reports
<1>5. CASE UNCHANGED vars
  <2>1. UNCHANGED <<art, summary, owner, links, dims, vectors, taken, run, task, step, tries, job,
                    faults, runs>>
    BY <1>5 DEF vars, stores, attempt
  <2>2. KgTypeOK' BY <2>1 DEF KgTypeOK
  <2>3. Stage' BY <2>1 DEF Stage
  <2>4. StoreInv' BY <2>1 DEF StoreInv, Ends, GraphSoFar, VectorsSoFar, Filled
  <2>5. Reports' BY <1>1, <2>1 DEF Reports, ReportHonest, RebuildAgrees, GraphWritten,
                                   VectorsWritten
  <2> QED BY <2>2, <2>3, <2>4, <2>5 DEF Reports
<1> QED BY <1>2, <1>3, <1>4, <1>5, Grouped

\* A report of success is true until a build replaces the summary.
THEOREM ReportsTrue == Spec => []ReportHonest
<1>1. Init => KgInv BY KgInvInit
<1>2. KgInv /\ [Next]_vars => KgInv' BY KgInvStep
<1>3. KgInv => ReportHonest BY DEF KgInv
<1> QED BY <1>1, <1>2, <1>3, PTL DEF Spec

\* A clearing write that succeeds leaves exactly the graph that was built.
THEOREM RebuildsExact == Spec => []RebuildAgrees
<1>1. Init => KgInv BY KgInvInit
<1>2. KgInv /\ [Next]_vars => KgInv' BY KgInvStep
<1>3. KgInv => RebuildAgrees BY DEF KgInv
<1> QED BY <1>1, <1>2, <1>3, PTL DEF Spec
=============================================================================
