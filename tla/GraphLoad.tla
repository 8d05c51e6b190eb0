----------------------------- MODULE GraphLoad -----------------------------
(***************************************************************************)
(* From the merged records to the graph.  `sg-ingest` dumps a pipeline     *)
(* result as one JSON file per kind of record (ingestion/cli.py); then     *)
(* `sg-graph load` reads the files back, brings the Neo4j schema up to     *)
(* date (migrator.py) and MERGEs nodes, resolver edges and LLM suggestions *)
(* in batches (loader.py).  The two are separate commands that nothing     *)
(* keeps apart: a load may read while a dump is writing.  Every statement  *)
(* is a transaction of its own, and either command may die between two.    *)
(*                                                                         *)
(* A record is its label, its id and a version of its properties; the      *)
(* foreign keys of the records are the links of the result, each with the  *)
(* label of the record it was read from.                                   *)
(***************************************************************************)
EXTENDS Naturals, FiniteSets

CONSTANTS
    Results,      \* the results that runs of the pipeline produce
    Missing,      \* a file that does not exist
    Torn,         \* a file that was truncated and not yet written
    Labels,       \* the node labels that the results have records of
    Ids,          \* the ids of records
    Versions,     \* the values the properties of a record may have
    Nodes,        \* the records of a result: sets of [key, props]
    Links,        \* its foreign keys: sets of edges
    Suggestions,  \* its LLM suggestions: sets of [edge, confidence]
    BatchSize     \* the rows of a statement (500 in the code)

VARIABLES
    out,          \* the JSON files in ./out
    dump,         \* the files a dump under way has still to write
    result,       \* the result it writes
    job,          \* the sg-graph command that runs
    unread,       \* the files its load has still to read
    merged,       \* what it read: the result each file held
    version,      \* the migration it is at
    ddl,          \* the constraints of that migration it has still to create
    toNodes, toEdges, toLLM,  \* the rows its load has still to merge
    nodes, edges, \* the graph: properties by key, provenance by edge
    constraints,  \* the labels with a uniqueness constraint
    tracker,      \* the versions that have a _SchemaMigration node
    loaded,       \* history: the graph is as the load of `merged` left it
    settled       \* history: {} or the last completed load and its graph

writer == <<out, dump, result>>
rows == <<toNodes, toEdges, toLLM>>
command == <<job, unread, merged, version, ddl, rows>>
schema == <<constraints, tracker>>
graph == <<nodes, edges>>
history == <<loaded, settled>>
vars == <<writer, command, graph, schema, history>>

-----------------------------------------------------------------------------
NodeOrder == <<"Service", "CodeArtifact", "TestCase", "ExternalConnection", "Endpoint",
               "DataModel", "Query", "KafkaTopic", "KafkaProducer", "KafkaConsumer", "Mock">>

Shape(src, rel, dst, owner) == [src |-> src, rel |-> rel, dst |-> dst, owner |-> owner]

(* The statements of load() for edges, in their order, and the kind of     *)
(* record that each gets its rows from.                                    *)
EdgeOrder == <<
    Shape("Service", "CONTAINS", "CodeArtifact", "CodeArtifact"),
    Shape("Service", "DEFINES", "TestCase", "TestCase"),
    Shape("TestCase", "COVERS", "CodeArtifact", "TestCase"),
    Shape("Service", "INITIATES", "ExternalConnection", "ExternalConnection"),
    Shape("ExternalConnection", "TARGETS", "Service", "ExternalConnection"),
    Shape("ExternalConnection", "TARGETS_ENDPOINT", "Endpoint", "ExternalConnection"),
    Shape("CodeArtifact", "EXPOSES", "ExternalConnection", "CodeArtifact"),
    Shape("CodeArtifact", "CALLS", "CodeArtifact", "CodeArtifact"),
    Shape("CodeArtifact", "READS", "CodeArtifact", "CodeArtifact"),
    Shape("CodeArtifact", "WRITES", "CodeArtifact", "CodeArtifact"),
    Shape("Service", "CONTAINS", "Endpoint", "Endpoint"),
    Shape("Service", "CONTAINS", "DataModel", "DataModel"),
    Shape("Service", "CONTAINS", "Query", "Query"),
    Shape("Endpoint", "HANDLED_BY", "CodeArtifact", "Endpoint"),
    Shape("CodeArtifact", "EXECUTES", "Query", "Query"),
    Shape("KafkaProducer", "PRODUCES", "KafkaTopic", "KafkaProducer"),
    Shape("KafkaConsumer", "CONSUMES", "KafkaTopic", "KafkaConsumer"),
    Shape("TestCase", "MOCKS", "CodeArtifact", "Mock")>>

Rels == {EdgeOrder[i].rel : i \in DOMAIN EdgeOrder}

Key == [label : Labels, id : Ids]
NodeRow == [key : Key, props : Versions]
Edge == [from : Key, rel : Rels, to : Key]
Stamp == [source : {"resolver", "llm"}, confidence : 0 .. 10]
Suggestion == [edge : Edge, confidence : 0 .. 10]

Resolved == [source |-> "resolver", confidence |-> 10]
(* Variant: a row without a source gets the default.                       *)
SuggestedByDefault(s) == Resolved

Suggested(s) == [source |-> "llm", confidence |-> s.confidence]

HasShape(e, s) == e.from.label = s.src /\ e.rel = s.rel /\ e.to.label = s.dst
ShapeOf(e) == CHOOSE i \in DOMAIN EdgeOrder : HasShape(e, EdgeOrder[i])
Owner(e) == EdgeOrder[ShapeOf(e)].owner

ASSUME ContentOK ==
    /\ Missing \notin Results /\ Torn \notin Results /\ Missing # Torn
    /\ Labels \subseteq {NodeOrder[i] : i \in DOMAIN NodeOrder}
    /\ Nodes \in [Results -> SUBSET NodeRow]
    /\ Links \in [Results -> SUBSET Edge]
    /\ Suggestions \in [Results -> SUBSET Suggestion]
    /\ BatchSize \in Nat \ {0}

(* Records are kept by id and suggestions by what they link.               *)
ASSUME ContentIsKeyed ==
    /\ \A res \in Results : \A m, n \in Nodes[res] : m.key = n.key => m = n
    /\ \A res \in Results : \A s, t \in Suggestions[res] : s.edge = t.edge => s = t
    /\ \A res \in Results :
          \A e \in Links[res] \cup {s.edge : s \in Suggestions[res]} :
             \E i \in DOMAIN EdgeOrder : HasShape(e, EdgeOrder[i])

-----------------------------------------------------------------------------
(* The files, in the order they are written and read in.  A file has the   *)
(* name of the label whose records it holds.                               *)
FileOrder == <<"Service", "ExternalConnection", "CodeArtifact", "TestCase", "Endpoint",
               "DataModel", "Query", "KafkaTopic", "KafkaProducer", "KafkaConsumer", "Mock",
               "suggestions">>
Files == Labels \cup {"suggestions"}
NoFiles == [f \in Files |-> Missing]
GitHubFiles == {"Service", "CodeArtifact"} \cap Labels
DatadogFiles == {"Service", "ExternalConnection"} \cap Labels
Dumps == {Files, GitHubFiles, DatadogFiles} \ {{}}

FileTurn(f) == CHOOSE i \in DOMAIN FileOrder : FileOrder[i] = f
NodeTurn(n) == CHOOSE i \in DOMAIN NodeOrder : NodeOrder[i] = n.key.label

(* What comes next of what is pending.                                     *)
Now(pending, Turn(_)) == {x \in pending : \A y \in pending : Turn(x) <= Turn(y)}

(* What the rows of a load are made from.                                  *)
NodeRows(m) == UNION {{n \in Nodes[m[l]] : n.key.label = l} : l \in {k \in Labels : m[k] \in Results}}
LinkRows(m) == UNION {{e \in Links[m[l]] : Owner(e) = l} : l \in {k \in Labels : m[k] \in Results}}
SuggestionRows(m) == IF m["suggestions"] \in Results THEN Suggestions[m["suggestions"]] ELSE {}

(* The next transaction takes BatchSize rows of the statement whose turn   *)
(* it is, or what is left of them.                                         *)
Chunks(now) ==
    {b \in SUBSET now :
        /\ b # {}
        /\ Cardinality(b) = BatchSize \/ (b = now /\ Cardinality(b) < BatchSize)}

(* Variant: ON CREATE SET.                                                 *)
OverlayOnCreate(old, new) ==
    [k \in DOMAIN old \cup DOMAIN new |-> IF k \in DOMAIN old THEN old[k] ELSE new[k]]

(* SET on what a MERGE has found or made.                                  *)
Overlay(old, new) ==
    [k \in DOMAIN old \cup DOMAIN new |-> IF k \in DOMAIN new THEN new[k] ELSE old[k]]

(* MATCH both ends: an edge one of whose ends is not in the graph is       *)
(* passed over in silence.                                                 *)
HasEnds(e) == e.from \in DOMAIN nodes /\ e.to \in DOMAIN nodes

(* The labels each migration constrains, those of the instance only.       *)
V1 == {"Service", "CodeArtifact", "TestCase", "ExternalConnection"} \cap Labels
V2 == Labels \ V1
Migration == [v \in {1, 2} |-> IF v = 1 THEN V1 ELSE V2]

-----------------------------------------------------------------------------
Jobs == {"none", "init", "read", "migrate", "load"}

TypeOK ==
    /\ out \in [Files -> Results \cup {Missing, Torn}]
    /\ dump \subseteq Files
    /\ result \in Results \cup {Missing}
    /\ dump # {} => result \in Results
    /\ job \in Jobs
    /\ unread \subseteq Files
    /\ merged \in [Files -> Results \cup {Missing}]
    /\ version \in 1 .. 3
    /\ ddl \subseteq Labels
    /\ toNodes \subseteq NodeRow /\ toEdges \subseteq Edge /\ toLLM \subseteq Suggestion
    /\ DOMAIN nodes \subseteq Key /\ \A k \in DOMAIN nodes : nodes[k] \in Versions
    /\ DOMAIN edges \subseteq Edge /\ \A e \in DOMAIN edges : edges[e] \in Stamp
    /\ constraints \subseteq Labels
    /\ tracker \subseteq {1, 2}
    /\ loaded \in BOOLEAN

Empty == [k \in {} |-> 0]

Init ==
    /\ out = NoFiles
    /\ dump = {}
    /\ result = Missing
    /\ job = "none"
    /\ unread = {}
    /\ merged = NoFiles
    /\ version = 1
    /\ ddl = {}
    /\ toNodes = {} /\ toEdges = {} /\ toLLM = {}
    /\ nodes = Empty /\ edges = Empty
    /\ constraints = {}
    /\ tracker = {}
    /\ loaded = FALSE
    /\ settled = {}

-----------------------------------------------------------------------------
(* sg-ingest run writes every file, sg-ingest github ingest the two of the *)
(* GitHub adapter and sg-ingest datadog-parse the two of the Datadog       *)
(* adapter; none asks what the validator said.                             *)
StartDump(res, files) ==
    /\ dump = {}
    /\ dump' = files
    /\ result' = res
    /\ UNCHANGED <<out, command, graph, schema, history>>

(* write_text opens the file, which truncates it, and then writes.         *)
Truncate(f) ==
    /\ f \in Now(dump, FileTurn)
    /\ out[f] # Torn
    /\ out' = [out EXCEPT ![f] = Torn]
    /\ UNCHANGED <<dump, result, command, graph, schema, history>>

(* Variant: the records are let go of with the first file.                 *)
WriteFileForgets(f) ==
    /\ f \in Now(dump, FileTurn)
    /\ out[f] = Torn
    /\ out' = [out EXCEPT ![f] = result]
    /\ dump' = dump \ {f}
    /\ result' = Missing
    /\ UNCHANGED <<command, graph, schema, history>>

WriteFile(f) ==
    /\ f \in Now(dump, FileTurn)
    /\ out[f] = Torn
    /\ out' = [out EXCEPT ![f] = result]
    /\ dump' = dump \ {f}
    /\ result' = IF dump = {f} THEN Missing ELSE result
    /\ UNCHANGED <<command, graph, schema, history>>

DumpDies ==
    /\ dump # {}
    /\ dump' = {}
    /\ result' = Missing
    /\ UNCHANGED <<out, command, graph, schema, history>>

-----------------------------------------------------------------------------
(* sg-graph load: _read_merged, one file after the other; a file that is   *)
(* not there is passed over, one that does not parse ends the command.     *)
StartLoad ==
    /\ job = "none"
    /\ job' = "read"
    /\ unread' = Files
    /\ merged' = NoFiles
    /\ loaded' = FALSE
    /\ UNCHANGED <<writer, version, ddl, rows, graph, schema, settled>>

ReadFile(f) ==
    /\ job = "read"
    /\ f \in Now(unread, FileTurn)
    /\ out[f] # Torn
    /\ merged' = [merged EXCEPT ![f] = out[f]]
    /\ unread' = unread \ {f}
    /\ UNCHANGED <<writer, job, version, ddl, rows, graph, schema, history>>

ReadTornFile(f) ==
    /\ job = "read"
    /\ f \in Now(unread, FileTurn)
    /\ out[f] = Torn
    /\ job' = "none"
    /\ unread' = {}
    /\ merged' = NoFiles
    /\ UNCHANGED <<writer, version, ddl, rows, graph, schema, history>>

(* apply_pending, for load and for sg-graph init: version 1 always, later  *)
(* ones when the tracker does not have them.                               *)
BeginVersion(v) ==
    /\ version' = v
    /\ ddl' = Migration[v]

StartInit ==
    /\ job = "none"
    /\ job' = "init"
    /\ BeginVersion(1)
    /\ UNCHANGED <<writer, unread, merged, rows, graph, schema, history>>

StartMigrate ==
    /\ job = "read"
    /\ unread = {}
    /\ job' = "migrate"
    /\ BeginVersion(1)
    /\ UNCHANGED <<writer, unread, merged, rows, graph, schema, history>>

CreateConstraint(l) ==
    /\ job \in {"init", "migrate"}
    /\ l \in ddl
    /\ constraints' = constraints \cup {l}
    /\ ddl' = ddl \ {l}
    /\ UNCHANGED <<writer, job, unread, merged, version, rows, graph, tracker, history>>

(* Variants: the tracker is written first; version 2 is never begun.       *)
RecordVersionFirst ==
    /\ job \in {"init", "migrate"}
    /\ version \in {1, 2}
    /\ tracker' = tracker \cup {version}
    /\ IF version \in tracker /\ ddl = {}
          THEN IF version = 1 /\ 2 \notin tracker THEN BeginVersion(2) ELSE version' = 3 /\ ddl' = {}
          ELSE UNCHANGED <<version, ddl>>
    /\ UNCHANGED <<writer, job, unread, merged, rows, graph, constraints, history>>

RecordVersionAndStop ==
    /\ job \in {"init", "migrate"}
    /\ version \in {1, 2}
    /\ ddl = {}
    /\ tracker' = tracker \cup {version}
    /\ version' = 3 /\ ddl' = {}
    /\ UNCHANGED <<writer, job, unread, merged, rows, graph, constraints, history>>

(* The statements of a version are through: MERGE its tracker node.  The   *)
(* second is skipped when the tracker has it, and applied again when       *)
(* applied_versions could not read that, which it takes for an empty       *)
(* tracker.                                                                *)
RecordVersion ==
    /\ job \in {"init", "migrate"}
    /\ version \in {1, 2}
    /\ ddl = {}
    /\ tracker' = tracker \cup {version}
    /\ \/ version = 1 /\ BeginVersion(2)
       \/ (version = 2 \/ 2 \in tracker) /\ version' = 3 /\ ddl' = {}
    /\ UNCHANGED <<writer, job, unread, merged, rows, graph, constraints, history>>

InitDone ==
    /\ job = "init" /\ version = 3
    /\ job' = "none"
    /\ version' = 1
    /\ UNCHANGED <<writer, unread, merged, ddl, rows, graph, schema, history>>

(* GraphLoader.load turns the records into rows ...                        *)
StartMerge ==
    /\ job = "migrate" /\ version = 3
    /\ job' = "load"
    /\ version' = 1
    /\ toNodes' = NodeRows(merged)
    /\ toEdges' = LinkRows(merged)
    /\ toLLM' = SuggestionRows(merged)
    /\ settled' = {s \in settled : s.merged = merged}
    /\ UNCHANGED <<writer, unread, merged, ddl, graph, schema, loaded>>

(* ... and merges the nodes of every label, ...                            *)
MergeNodes ==
    /\ job = "load"
    /\ \E b \in Chunks(Now(toNodes, NodeTurn)) :
          /\ nodes' = Overlay(nodes, [k \in {n.key : n \in b} |-> (CHOOSE n \in b : n.key = k).props])
          /\ toNodes' = toNodes \ b
    /\ UNCHANGED <<writer, job, unread, merged, version, ddl, toEdges, toLLM, edges, schema, history>>

(* Variant: the edges of a record are merged along with the nodes.         *)
MergeEdgesEarly ==
    /\ job = "load"
    /\ \E b \in Chunks(Now(toEdges, ShapeOf)) :
          /\ edges' = Overlay(edges, [e \in {x \in b : HasEnds(x)} |-> Resolved])
          /\ toEdges' = toEdges \ b
    /\ UNCHANGED <<writer, job, unread, merged, version, ddl, toNodes, toLLM, nodes, schema, history>>

(* ... the edges of every shape, stamped as the resolver's, ...            *)
MergeEdges ==
    /\ job = "load"
    /\ toNodes = {}
    /\ \E b \in Chunks(Now(toEdges, ShapeOf)) :
          /\ edges' = Overlay(edges, [e \in {x \in b : HasEnds(x)} |-> Resolved])
          /\ toEdges' = toEdges \ b
    /\ UNCHANGED <<writer, job, unread, merged, version, ddl, toNodes, toLLM, nodes, schema, history>>

(* ... and the suggestions, grouped by shape in no particular order.       *)
SuggestedAs(i) == {s \in toLLM : ShapeOf(s.edge) = i}

MergeSuggestions ==
    /\ job = "load"
    /\ toNodes = {} /\ toEdges = {}
    /\ \E i \in DOMAIN EdgeOrder : \E b \in Chunks(SuggestedAs(i)) :
          /\ edges' = Overlay(edges, [e \in {s.edge : s \in {t \in b : HasEnds(t.edge)}} |->
                                         Suggested(CHOOSE s \in b : s.edge = e)])
          /\ toLLM' = toLLM \ b
    /\ UNCHANGED <<writer, job, unread, merged, version, ddl, toNodes, toEdges, nodes, schema, history>>

LoadDone ==
    /\ job = "load"
    /\ toNodes = {} /\ toEdges = {} /\ toLLM = {}
    /\ job' = "none"
    /\ loaded' = TRUE
    /\ settled' = {[merged |-> merged, nodes |-> nodes, edges |-> edges]}
    /\ UNCHANGED <<writer, unread, merged, version, ddl, rows, graph, schema>>

(* sg-graph clear: every node goes, tracker nodes included; constraints    *)
(* stay.                                                                   *)
Clear ==
    /\ job = "none"
    /\ nodes' = Empty /\ edges' = Empty
    /\ tracker' = {}
    /\ merged' = NoFiles
    /\ loaded' = FALSE
    /\ settled' = {}
    /\ UNCHANGED <<writer, job, unread, version, ddl, rows, constraints>>

(* The command is killed, or a statement fails and raises through it.      *)
CommandDies ==
    /\ job # "none"
    /\ job' = "none"
    /\ unread' = {}
    /\ merged' = IF loaded THEN merged ELSE NoFiles
    /\ version' = 1 /\ ddl' = {}
    /\ toNodes' = {} /\ toEdges' = {} /\ toLLM' = {}
    /\ UNCHANGED <<writer, graph, schema, history>>

-----------------------------------------------------------------------------
IngestStep ==
    \/ \E res \in Results, files \in Dumps : StartDump(res, files)
    \/ \E f \in Files : Truncate(f) \/ WriteFile(f)
    \/ DumpDies

GraphStep ==
    \/ StartLoad
    \/ \E f \in Files : ReadFile(f) \/ ReadTornFile(f)
    \/ StartInit
    \/ StartMigrate
    \/ \E l \in Labels : CreateConstraint(l)
    \/ RecordVersion
    \/ InitDone
    \/ StartMerge
    \/ MergeNodes
    \/ MergeEdges
    \/ MergeSuggestions
    \/ LoadDone
    \/ Clear
    \/ CommandDies

Next == IngestStep \/ GraphStep

Spec == Init /\ [][Next]_vars

-----------------------------------------------------------------------------
(* A version is in the tracker only when all its constraints exist,        *)
(* whatever died or was cleared on the way: skipping it is safe.           *)
TrackerNeverAhead == \A v \in tracker : Migration[v] \subseteq constraints

(* No row is merged before every label has its uniqueness constraint.      *)
MergeUnderConstraints == job = "load" => Labels \subseteq constraints

(* When a load is through, every record is a node with the properties it   *)
(* has in the files, and every link and every suggestion whose ends are in *)
(* the graph, from this load or from an earlier one, is an edge with the   *)
(* stamp of one that gave it.                                              *)
GivenBy(e) ==
    (IF e \in LinkRows(merged) THEN {Resolved} ELSE {})
    \cup {Suggested(s) : s \in {t \in SuggestionRows(merged) : t.edge = e}}

CompletedLoadHasEverything ==
    loaded =>
       /\ \A n \in NodeRows(merged) : n.key \in DOMAIN nodes /\ nodes[n.key] = n.props
       /\ \A e \in LinkRows(merged) \cup {s.edge : s \in SuggestionRows(merged)} :
             HasEnds(e) => e \in DOMAIN edges /\ edges[e] \in GivenBy(e)

(* enhance.py:6, the LLM "NEVER overrides resolver-emitted edges": after a *)
(* load every link is the resolver's.  The code does not do so.            *)
ResolverEdgesStay ==
    loaded => \A e \in LinkRows(merged) : HasEnds(e) => edges[e] = Resolved

(* loader.py:3, "re-running load(merged) against the same MergedResult     *)
(* produces an identical graph": also after loads of it that died half way *)
(* and whatever was in the graph before the first.                         *)
ReloadIsIdempotent ==
    [][~loaded /\ loaded' =>
          \A s \in settled : s.merged = merged => nodes' = s.nodes /\ edges' = s.edges]_vars

(* An edge that is stamped as the resolver's is a foreign key of a record  *)
(* some run of the pipeline produced: suggestions never pass for it.       *)
ResolverEdgesAreResolved ==
    \A e \in DOMAIN edges : edges[e].source = "resolver" => \E res \in Results : e \in Links[res]

-----------------------------------------------------------------------------
(* The inductive strengthening of the first two: what a migration has not  *)
(* constrained yet is still in ddl, and version 1 is through before the    *)
(* second begins.                                                          *)
SchemaInv ==
    /\ TrackerNeverAhead
    /\ MergeUnderConstraints
    /\ job \in {"init", "migrate"} =>
          /\ version \in {1, 2} => Migration[version] \subseteq constraints \cup ddl
          /\ version \in {2, 3} => V1 \subseteq constraints
          /\ version = 3 => V2 \subseteq constraints

(* The inductive strengthening of the other two: a row of the result is    *)
(* either still to be merged or in the graph, and a phase begins only when *)
(* the phase before it has no row left, so that the edges merged so far    *)
(* have met every node and the suggestions every edge.                     *)
RowsInv ==
    /\ job # "load" => toNodes = {} /\ toEdges = {} /\ toLLM = {}
    /\ toNodes \subseteq NodeRows(merged)
    /\ toEdges \subseteq LinkRows(merged)
    /\ toLLM \subseteq SuggestionRows(merged)
    /\ loaded => job \in {"none", "init"}

PhasesInv ==
    job = "load" =>
       /\ toNodes # {} => toEdges = LinkRows(merged)
       /\ toNodes # {} \/ toEdges # {} => toLLM = SuggestionRows(merged)

MergedInv ==
    job = "load" \/ loaded =>
       /\ \A n \in NodeRows(merged) \ toNodes : n.key \in DOMAIN nodes /\ nodes[n.key] = n.props
       /\ \A s \in SuggestionRows(merged) \ toLLM :
             HasEnds(s.edge) => s.edge \in DOMAIN edges /\ edges[s.edge] = Suggested(s)
       /\ \A e \in LinkRows(merged) \ toEdges :
             HasEnds(e) =>
                /\ e \in DOMAIN edges
                /\ edges[e] = Resolved \/ \E s \in SuggestionRows(merged) : s.edge = e

LoadInv == RowsInv /\ PhasesInv /\ MergedInv /\ ResolverEdgesAreResolved

(* The inductive strengthening of ReloadIsIdempotent.  The graph of the    *)
(* last completed load has everything that its files have, so that merging *)
(* those files again adds no node and no edge; what it may change for a    *)
(* while is the stamp of an edge that the LLM suggested, from the moment   *)
(* the edge is merged as a link until the suggestion is merged after it.   *)
HasEverything(s) ==
    /\ \A n \in NodeRows(s.merged) : n.key \in DOMAIN s.nodes /\ s.nodes[n.key] = n.props
    /\ \A t \in SuggestionRows(s.merged) :
          HasEnds(t.edge) => t.edge \in DOMAIN s.edges /\ s.edges[t.edge] = Suggested(t)
    /\ \A e \in LinkRows(s.merged) :
          HasEnds(e) =>
             /\ e \in DOMAIN s.edges
             /\ s.edges[e] = Resolved \/ \E t \in SuggestionRows(s.merged) : t.edge = e

StillAs(s) ==
    /\ nodes = s.nodes
    /\ DOMAIN edges = DOMAIN s.edges
    /\ job = "load" => s.merged = merged
    /\ \A e \in DOMAIN edges :
          \/ edges[e] = s.edges[e]
          \/ \E t \in (IF job = "load" THEN toLLM ELSE SuggestionRows(s.merged)) : t.edge = e

IsFunction(f) == f = [k \in DOMAIN f |-> f[k]]

ReloadInv ==
    /\ IsFunction(nodes) /\ IsFunction(edges)
    /\ \A e \in DOMAIN edges : HasEnds(e)
    /\ \A s \in settled :
          /\ s.merged \in [Files -> Results \cup {Missing}]
          /\ IsFunction(s.edges)
          /\ HasEverything(s)
          /\ StillAs(s)
=============================================================================
