-------------------------- MODULE GraphLoadProofs --------------------------
(***************************************************************************)
(* Theorems about GraphLoad for every set of results, every batch size and *)
(* every interleaving of a dump with a load, crashes of both included.     *)
(***************************************************************************)
EXTENDS GraphLoad, TLAPS

-----------------------------------------------------------------------------
(* What the rows of a load are.                                            *)
LEMMA RowTypes ==
  ASSUME NEW m \in [Files -> Results \cup {Missing}]
  PROVE  /\ NodeRows(m) \subseteq NodeRow
         /\ LinkRows(m) \subseteq Edge
         /\ SuggestionRows(m) \subseteq Suggestion
         /\ \A e \in LinkRows(m) : \E res \in Results : e \in Links[res]
BY ContentOK DEF NodeRows, LinkRows, SuggestionRows, Files

LEMMA RowsAreKeyed ==
  ASSUME NEW m \in [Files -> Results \cup {Missing}]
  PROVE  /\ \A n, o \in NodeRows(m) : n.key = o.key => n = o
         /\ \A s, t \in SuggestionRows(m) : s.edge = t.edge => s = t
<1>1. ASSUME NEW n \in NodeRows(m), NEW o \in NodeRows(m), n.key = o.key
      PROVE  n = o
  <2>1. PICK l \in Labels : m[l] \in Results /\ n \in Nodes[m[l]] /\ n.key.label = l
    BY DEF NodeRows
  <2>2. PICK k \in Labels : m[k] \in Results /\ o \in Nodes[m[k]] /\ o.key.label = k
    BY DEF NodeRows
  <2> QED
    BY <1>1, <2>1, <2>2, ContentIsKeyed
<1> QED
  BY <1>1, ContentIsKeyed DEF SuggestionRows

LEMMA OverlayTypes ==
  ASSUME NEW old, NEW new, NEW K, NEW V,
         DOMAIN old \subseteq K, \A k \in DOMAIN old : old[k] \in V,
         DOMAIN new \subseteq K, \A k \in DOMAIN new : new[k] \in V
  PROVE  /\ DOMAIN Overlay(old, new) \subseteq K
         /\ \A k \in DOMAIN Overlay(old, new) : Overlay(old, new)[k] \in V
BY DEF Overlay

LEMMA OverlayValues ==
  ASSUME NEW old, NEW new
  PROVE  /\ DOMAIN Overlay(old, new) = DOMAIN old \cup DOMAIN new
         /\ \A k \in DOMAIN new : Overlay(old, new)[k] = new[k]
         /\ \A k \in DOMAIN old \ DOMAIN new : Overlay(old, new)[k] = old[k]
BY DEF Overlay

(* The same of a graph that an overlay left behind.                        *)
OverlayOf(all, old, new) ==
    /\ DOMAIN all = DOMAIN old \cup DOMAIN new
    /\ \A k \in DOMAIN new : all[k] = new[k]
    /\ \A k \in DOMAIN old \ DOMAIN new : all[k] = old[k]

LEMMA Overlaid ==
  ASSUME NEW old, NEW new
  PROVE  OverlayOf(Overlay(old, new), old, new)
BY OverlayValues DEF OverlayOf

LEMMA EmptyFunction == DOMAIN Empty = {}
BY DEF Empty

-----------------------------------------------------------------------------
(* Type correctness.                                                       *)
LEMMA InitTypeOK == Init => TypeOK
<1> SUFFICES ASSUME Init PROVE TypeOK
  OBVIOUS
<1>1. DOMAIN nodes = {} /\ DOMAIN edges = {}
  BY EmptyFunction DEF Init
<1>2. out \in [Files -> Results \cup {Missing, Torn}] /\ merged \in [Files -> Results \cup {Missing}]
  BY DEF Init, NoFiles
<1>3. /\ DOMAIN nodes \subseteq Key /\ \A k \in DOMAIN nodes : nodes[k] \in Versions
      /\ DOMAIN edges \subseteq Edge /\ \A e \in DOMAIN edges : edges[e] \in Stamp
  BY <1>1
<1>4. /\ dump = {} /\ result = Missing /\ unread = {} /\ version = 1 /\ ddl = {}
      /\ toNodes = {} /\ toEdges = {} /\ toLLM = {}
      /\ constraints = {} /\ tracker = {}
  BY DEF Init
<1>5. job \in Jobs
  BY DEF Init, Jobs
<1>6. loaded \in BOOLEAN
  BY DEF Init
<1> QED
  BY <1>2, <1>3, <1>4, <1>5, <1>6 DEF TypeOK

LEMMA IngestTypeOK == TypeOK /\ IngestStep => TypeOK'
<1> SUFFICES ASSUME TypeOK, IngestStep PROVE TypeOK'
  OBVIOUS
<1> USE DEF TypeOK, command, rows, graph, schema, history
<1>1. ASSUME NEW res \in Results, NEW files \in Dumps, StartDump(res, files)
      PROVE  TypeOK'
  <2>1. files \subseteq Files
    BY DEF Dumps, GitHubFiles, DatadogFiles, Files
  <2> QED
    BY <1>1, <2>1 DEF StartDump
<1>2. ASSUME NEW f \in Files, Truncate(f) PROVE TypeOK'
  BY <1>2 DEF Truncate
<1>3. ASSUME NEW f \in Files, WriteFile(f) PROVE TypeOK'
  BY <1>3 DEF WriteFile, Now
<1>4. CASE DumpDies
  BY <1>4 DEF DumpDies
<1> QED
  BY <1>1, <1>2, <1>3, <1>4 DEF IngestStep

LEMMA CommandTypeOK ==
  ASSUME TypeOK,
         \/ StartLoad
         \/ \E f \in Files : ReadFile(f) \/ ReadTornFile(f)
         \/ StartInit \/ StartMigrate
         \/ \E l \in Labels : CreateConstraint(l)
         \/ RecordVersion \/ InitDone \/ LoadDone \/ Clear \/ CommandDies
  PROVE  TypeOK'
<1> USE DEF TypeOK, writer, rows, graph, schema, history, Jobs
<1>1. CASE StartLoad
  BY <1>1 DEF StartLoad, NoFiles
<1>2. ASSUME NEW f \in Files, ReadFile(f) PROVE TypeOK'
  BY <1>2 DEF ReadFile
<1>3. ASSUME NEW f \in Files, ReadTornFile(f) PROVE TypeOK'
  BY <1>3 DEF ReadTornFile, NoFiles
<1>4. Migration[1] \subseteq Labels /\ Migration[2] \subseteq Labels
  BY DEF Migration, V1, V2
<1>5. CASE StartInit
  BY <1>4, <1>5 DEF StartInit, BeginVersion
<1>6. CASE StartMigrate
  BY <1>4, <1>6 DEF StartMigrate, BeginVersion
<1>7. ASSUME NEW l \in Labels, CreateConstraint(l) PROVE TypeOK'
  BY <1>7 DEF CreateConstraint
<1>8. CASE RecordVersion
  BY <1>4, <1>8 DEF RecordVersion, BeginVersion
<1>9. CASE InitDone
  BY <1>9 DEF InitDone
<1>10. CASE LoadDone
  BY <1>10 DEF LoadDone
<1>11. CASE Clear
  BY <1>11, EmptyFunction DEF Clear, NoFiles
<1>12. CASE CommandDies
  BY <1>12 DEF CommandDies, NoFiles
<1> QED
  BY <1>1, <1>2, <1>3, <1>5, <1>6, <1>7, <1>8, <1>9, <1>10, <1>11, <1>12

(* What a transaction writes, by the rows it was given.                    *)
NodesOf(b) == [k \in {n.key : n \in b} |-> (CHOOSE n \in b : n.key = k).props]
EdgesOf(b) == [e \in {x \in b : HasEnds(x)} |-> Resolved]
SuggestedBy(b) ==
    [e \in {s.edge : s \in {t \in b : HasEnds(t.edge)}} |-> Suggested(CHOOSE s \in b : s.edge = e)]

LEMMA NodesOfTypes ==
  ASSUME NEW b, b \subseteq NodeRow
  PROVE  DOMAIN NodesOf(b) \subseteq Key /\ \A k \in DOMAIN NodesOf(b) : NodesOf(b)[k] \in Versions
<1>1. ASSUME NEW k \in {n.key : n \in b}
      PROVE  (CHOOSE n \in b : n.key = k) \in b
  BY <1>1
<1> QED
  BY <1>1 DEF NodesOf, NodeRow

LEMMA SuggestedByTypes ==
  ASSUME NEW b, b \subseteq Suggestion
  PROVE  /\ DOMAIN SuggestedBy(b) \subseteq Edge
         /\ \A e \in DOMAIN SuggestedBy(b) : SuggestedBy(b)[e] \in Stamp
<1>1. ASSUME NEW e \in {s.edge : s \in {t \in b : HasEnds(t.edge)}}
      PROVE  (CHOOSE s \in b : s.edge = e) \in b
  BY <1>1
<1>2. \A s \in b : Suggested(s) \in Stamp /\ s.edge \in Edge
  BY DEF Suggested, Suggestion, Stamp
<1> QED
  BY <1>1, <1>2 DEF SuggestedBy

LEMMA MergeTypeOK ==
  ASSUME TypeOK, StartMerge \/ MergeNodes \/ MergeEdges \/ MergeSuggestions
  PROVE  TypeOK'
<1> USE DEF writer, schema, history, Jobs
<1>1. CASE StartMerge
  BY <1>1, RowTypes DEF StartMerge, TypeOK, graph
<1>2. CASE MergeNodes
  <2>1. PICK b \in Chunks(Now(toNodes, NodeTurn)) :
           nodes' = Overlay(nodes, NodesOf(b)) /\ toNodes' = toNodes \ b
    BY <1>2 DEF MergeNodes, NodesOf
  <2>2. b \subseteq NodeRow
    BY DEF Chunks, Now, TypeOK
  <2>3. DOMAIN nodes' \subseteq Key /\ \A k \in DOMAIN nodes' : nodes'[k] \in Versions
    BY <2>1, <2>2, NodesOfTypes, OverlayTypes DEF TypeOK
  <2> QED
    BY <1>2, <2>1, <2>3 DEF MergeNodes, TypeOK
<1>3. CASE MergeEdges
  <2>1. PICK b \in Chunks(Now(toEdges, ShapeOf)) :
           edges' = Overlay(edges, EdgesOf(b)) /\ toEdges' = toEdges \ b
    BY <1>3 DEF MergeEdges, EdgesOf
  <2>2. DOMAIN EdgesOf(b) \subseteq Edge /\ \A e \in DOMAIN EdgesOf(b) : EdgesOf(b)[e] \in Stamp
    BY DEF Chunks, Now, TypeOK, EdgesOf, Resolved, Stamp
  <2>3. DOMAIN edges' \subseteq Edge /\ \A e \in DOMAIN edges' : edges'[e] \in Stamp
    BY <2>1, <2>2, OverlayTypes DEF TypeOK
  <2> QED
    BY <1>3, <2>1, <2>3 DEF MergeEdges, TypeOK
<1>4. CASE MergeSuggestions
  <2>1. PICK i \in DOMAIN EdgeOrder : \E b \in Chunks(SuggestedAs(i)) :
           edges' = Overlay(edges, SuggestedBy(b)) /\ toLLM' = toLLM \ b
    BY <1>4 DEF MergeSuggestions, SuggestedBy
  <2>2. PICK b \in Chunks(SuggestedAs(i)) :
           edges' = Overlay(edges, SuggestedBy(b)) /\ toLLM' = toLLM \ b
    BY <2>1
  <2>3. b \subseteq Suggestion
    BY DEF Chunks, SuggestedAs, TypeOK
  <2>4. DOMAIN edges' \subseteq Edge /\ \A e \in DOMAIN edges' : edges'[e] \in Stamp
    BY <2>2, <2>3, SuggestedByTypes, OverlayTypes DEF TypeOK
  <2> QED
    BY <1>4, <2>2, <2>4 DEF MergeSuggestions, TypeOK
<1> QED
  BY <1>1, <1>2, <1>3, <1>4

(* Files, rows, graph and schema always have their types.                  *)
THEOREM TypeCorrect == Spec => []TypeOK
<1>1. TypeOK /\ [Next]_vars => TypeOK'
  <2> SUFFICES ASSUME TypeOK, [Next]_vars PROVE TypeOK'
    OBVIOUS
  <2>1. CASE UNCHANGED vars
    BY <2>1 DEF TypeOK, vars, writer, command, rows, graph, schema, history
  <2> QED
    BY <2>1, IngestTypeOK, CommandTypeOK, MergeTypeOK DEF Next, GraphStep
<1> QED
  BY <1>1, InitTypeOK, PTL DEF Spec

-----------------------------------------------------------------------------
(* The schema.                                                             *)
LEMMA MigrationsCover == Migration[1] = V1 /\ Migration[2] = V2 /\ V1 \cup V2 = Labels
BY DEF Migration, V1, V2

LEMMA SchemaStep == TypeOK /\ SchemaInv /\ [Next]_vars => SchemaInv'
<1> SUFFICES ASSUME TypeOK, SchemaInv, [Next]_vars PROVE SchemaInv'
  OBVIOUS
<1> USE MigrationsCover DEF SchemaInv, TrackerNeverAhead, MergeUnderConstraints, writer, rows, graph, history
<1>1. CASE IngestStep
  BY <1>1 DEF IngestStep, StartDump, Truncate, WriteFile, DumpDies, command, schema
<1>2. CASE StartLoad \/ (\E f \in Files : ReadFile(f) \/ ReadTornFile(f))
  BY <1>2 DEF StartLoad, ReadFile, ReadTornFile, schema
<1>3. CASE StartInit \/ StartMigrate
  BY <1>3 DEF StartInit, StartMigrate, BeginVersion, schema
<1>4. ASSUME NEW l \in Labels, CreateConstraint(l) PROVE SchemaInv'
  BY <1>4 DEF CreateConstraint
<1>5. CASE RecordVersion
  <2>1. CASE version = 1 /\ BeginVersion(2)
    BY <1>5, <2>1 DEF RecordVersion, BeginVersion
  <2>2. CASE version = 1 /\ 2 \in tracker /\ version' = 3
    BY <1>5, <2>2 DEF RecordVersion
  <2>3. CASE version = 2
    BY <1>5, <2>3 DEF RecordVersion
  <2> QED
    BY <1>5, <2>1, <2>2, <2>3 DEF RecordVersion
<1>6. CASE InitDone \/ StartMerge
  BY <1>6 DEF InitDone, StartMerge, schema
<1>7. CASE MergeNodes \/ MergeEdges \/ MergeSuggestions
  BY <1>7 DEF MergeNodes, MergeEdges, MergeSuggestions, schema
<1>8. CASE LoadDone \/ Clear \/ CommandDies
  BY <1>8 DEF LoadDone, Clear, CommandDies, schema
<1>9. CASE UNCHANGED vars
  BY <1>9 DEF vars, command, schema
<1> QED
  BY <1>1, <1>2, <1>3, <1>4, <1>5, <1>6, <1>7, <1>8, <1>9 DEF Next, GraphStep

(* What a migration has not yet constrained is still to do.                *)
THEOREM SchemaInvariant == Spec => []SchemaInv
<1>1. Init => SchemaInv
  BY DEF Init, SchemaInv, TrackerNeverAhead, MergeUnderConstraints
<1> QED
  BY <1>1, SchemaStep, TypeCorrect, PTL DEF Spec

(* A migration the tracker has is one whose constraints all exist, even    *)
(* when the command died between a statement and the tracker, or when      *)
(* sg-graph clear took the tracker away.                                   *)
THEOREM TrackerIsSafe == Spec => []TrackerNeverAhead
<1>1. SchemaInv => TrackerNeverAhead
  BY DEF SchemaInv
<1> QED
  BY <1>1, SchemaInvariant, PTL

(* No load merges a row into a label without its uniqueness constraint.    *)
THEOREM MergesAreConstrained == Spec => []MergeUnderConstraints
<1>1. SchemaInv => MergeUnderConstraints
  BY DEF SchemaInv
<1> QED
  BY <1>1, SchemaInvariant, PTL

-----------------------------------------------------------------------------
(* The rows of a load.                                                     *)
LEMMA ChunkIsOf == ASSUME NEW now, NEW b \in Chunks(now) PROVE b \subseteq now
BY DEF Chunks

LEMMA LoadInit == Init => LoadInv
<1> SUFFICES ASSUME Init PROVE LoadInv
  OBVIOUS
<1>1. DOMAIN edges = {}
  BY EmptyFunction DEF Init
<1>2. job = "none" /\ toNodes = {} /\ toEdges = {} /\ toLLM = {} /\ loaded = FALSE
  BY DEF Init
<1>3. RowsInv /\ PhasesInv /\ MergedInv
  BY <1>2 DEF RowsInv, PhasesInv, MergedInv
<1> QED
  BY <1>1, <1>3 DEF LoadInv, ResolverEdgesAreResolved

(* Steps that leave the graph alone and merge nothing.                     *)
LEMMA QuietStep ==
  ASSUME LoadInv, UNCHANGED <<job, merged, rows, graph, loaded>>
  PROVE  LoadInv'
BY DEF LoadInv, RowsInv, PhasesInv, MergedInv, ResolverEdgesAreResolved, rows, graph, HasEnds,
       NodeRows, LinkRows, SuggestionRows

LEMMA UnloadedStep ==
  ASSUME LoadInv, loaded' = FALSE, job' # "load", UNCHANGED <<rows, edges>>,
         toNodes = {} /\ toEdges = {} /\ toLLM = {}
  PROVE  LoadInv'
BY DEF LoadInv, RowsInv, PhasesInv, MergedInv, ResolverEdgesAreResolved, rows

LEMMA OutsideMergeStep ==
  ASSUME TypeOK, LoadInv,
         \/ IngestStep \/ StartLoad
         \/ \E f \in Files : ReadFile(f) \/ ReadTornFile(f)
         \/ StartInit \/ StartMigrate
         \/ \E l \in Labels : CreateConstraint(l)
         \/ RecordVersion \/ InitDone
         \/ UNCHANGED vars
  PROVE  LoadInv'
<1> USE DEF writer, graph, history
<1>1. CASE IngestStep \/ UNCHANGED vars
  BY <1>1, QuietStep DEF IngestStep, StartDump, Truncate, WriteFile, DumpDies, command, vars
<1>2. CASE StartLoad
  BY <1>2, UnloadedStep DEF StartLoad, LoadInv, RowsInv
<1>3. ASSUME NEW f \in Files, ReadFile(f) \/ ReadTornFile(f) PROVE LoadInv'
  <2>1. loaded = FALSE /\ toNodes = {} /\ toEdges = {} /\ toLLM = {}
    BY <1>3 DEF ReadFile, ReadTornFile, LoadInv, RowsInv, TypeOK
  <2> QED
    BY <1>3, <2>1, UnloadedStep DEF ReadFile, ReadTornFile
<1>4. CASE StartMigrate
  <2>1. loaded = FALSE /\ toNodes = {} /\ toEdges = {} /\ toLLM = {}
    BY <1>4 DEF StartMigrate, LoadInv, RowsInv, TypeOK
  <2> QED
    BY <1>4, <2>1, UnloadedStep DEF StartMigrate
<1>5. CASE (\E l \in Labels : CreateConstraint(l)) \/ RecordVersion
  BY <1>5, QuietStep DEF CreateConstraint, RecordVersion
<1>6. CASE StartInit \/ InitDone
  <2>1. /\ toNodes = {} /\ toEdges = {} /\ toLLM = {}
        /\ job # "load" /\ job' \in {"none", "init"}
        /\ UNCHANGED <<merged, toNodes, toEdges, toLLM, nodes, edges, loaded>>
    BY <1>6 DEF StartInit, InitDone, LoadInv, RowsInv, rows
  <2> QED
    BY <2>1 DEF LoadInv, RowsInv, PhasesInv, MergedInv, ResolverEdgesAreResolved, HasEnds,
                NodeRows, LinkRows, SuggestionRows
<1> QED
  BY <1>1, <1>2, <1>3, <1>4, <1>5, <1>6

LEMMA NodesOfValues ==
  ASSUME NEW b, \A n, o \in b : n.key = o.key => n = o
  PROVE  /\ DOMAIN NodesOf(b) = {n.key : n \in b}
         /\ \A n \in b : NodesOf(b)[n.key] = n.props
<1>1. ASSUME NEW n \in b PROVE (CHOOSE o \in b : o.key = n.key) = n
  OBVIOUS
<1> QED
  BY <1>1 DEF NodesOf

LEMMA SuggestedByValues ==
  ASSUME NEW b, \A s, t \in b : s.edge = t.edge => s = t
  PROVE  /\ DOMAIN SuggestedBy(b) = {s.edge : s \in {t \in b : HasEnds(t.edge)}}
         /\ \A s \in b : HasEnds(s.edge) => SuggestedBy(b)[s.edge] = Suggested(s)
<1>1. ASSUME NEW s \in b PROVE (CHOOSE t \in b : t.edge = s.edge) = s
  OBVIOUS
<1> QED
  BY <1>1 DEF SuggestedBy

LEMMA MergeNodesStep == ASSUME TypeOK, LoadInv, MergeNodes PROVE LoadInv'
<1> USE DEF schema, history, writer
<1>1. PICK b \in Chunks(Now(toNodes, NodeTurn)) :
         nodes' = Overlay(nodes, NodesOf(b)) /\ toNodes' = toNodes \ b
  BY DEF MergeNodes, NodesOf
<1>2. b \subseteq toNodes /\ toNodes # {}
  BY DEF Chunks, Now
<1>a. /\ DOMAIN nodes' = DOMAIN nodes \cup DOMAIN NodesOf(b)
      /\ \A k \in DOMAIN NodesOf(b) : nodes'[k] = NodesOf(b)[k]
      /\ \A k \in DOMAIN nodes \ DOMAIN NodesOf(b) : nodes'[k] = nodes[k]
  <2>1. OverlayOf(nodes', nodes, NodesOf(b))
    BY <1>1, Overlaid, Zenon
  <2> QED
    BY <2>1, Zenon DEF OverlayOf
<1>3. /\ job = "load" /\ job' = "load"
      /\ UNCHANGED <<merged, toEdges, toLLM, edges, loaded>>
  BY DEF MergeNodes
<1>4. merged \in [Files -> Results \cup {Missing}] /\ b \subseteq NodeRows(merged)
  BY <1>2 DEF TypeOK, LoadInv, RowsInv
<1>5. toEdges = LinkRows(merged) /\ toLLM = SuggestionRows(merged)
  BY <1>2, <1>3 DEF LoadInv, PhasesInv
<1>6. DOMAIN NodesOf(b) = {n.key : n \in b} /\ \A n \in b : NodesOf(b)[n.key] = n.props
  BY <1>4, RowsAreKeyed, NodesOfValues
<1>7. ASSUME NEW n \in NodeRows(merged) \ toNodes'
      PROVE  n.key \in DOMAIN nodes' /\ nodes'[n.key] = n.props
  <2>1. CASE n \in b
    BY <1>1, <1>6, <2>1, <1>a
  <2>2. CASE n \notin b
    <3>1. n.key \notin DOMAIN NodesOf(b)
      BY <1>4, <1>6, <2>2, RowsAreKeyed
    <3>2. n.key \in DOMAIN nodes /\ nodes[n.key] = n.props
      BY <1>1, <1>3, <2>2 DEF LoadInv, MergedInv
    <3> QED
      BY <1>1, <3>1, <3>2, <1>a
  <2> QED
    BY <2>1, <2>2
<1>8. MergedInv'
  BY <1>3, <1>5, <1>7 DEF MergedInv, NodeRows, LinkRows, SuggestionRows
<1>9. RowsInv' /\ PhasesInv'
  BY <1>1, <1>3, <1>5 DEF LoadInv, RowsInv, PhasesInv, NodeRows, LinkRows, SuggestionRows
<1> QED
  BY <1>3, <1>8, <1>9 DEF LoadInv, ResolverEdgesAreResolved

LEMMA MergeEdgesStep == ASSUME TypeOK, LoadInv, MergeEdges PROVE LoadInv'
<1> USE DEF schema, history, writer
<1>1. PICK b \in Chunks(Now(toEdges, ShapeOf)) :
         edges' = Overlay(edges, EdgesOf(b)) /\ toEdges' = toEdges \ b
  BY DEF MergeEdges, EdgesOf
<1>2. b \subseteq toEdges /\ toEdges # {}
  BY DEF Chunks, Now
<1>a. /\ DOMAIN edges' = DOMAIN edges \cup DOMAIN EdgesOf(b)
      /\ \A k \in DOMAIN EdgesOf(b) : edges'[k] = EdgesOf(b)[k]
      /\ \A k \in DOMAIN edges \ DOMAIN EdgesOf(b) : edges'[k] = edges[k]
  <2>1. OverlayOf(edges', edges, EdgesOf(b))
    BY <1>1, Overlaid, Zenon
  <2> QED
    BY <2>1, Zenon DEF OverlayOf
<1>3. /\ job = "load" /\ job' = "load" /\ toNodes = {}
      /\ UNCHANGED <<merged, toNodes, toLLM, nodes, loaded>>
  BY DEF MergeEdges
<1>4. merged \in [Files -> Results \cup {Missing}] /\ b \subseteq LinkRows(merged)
  BY <1>2 DEF TypeOK, LoadInv, RowsInv
<1>5. toLLM = SuggestionRows(merged)
  BY <1>2, <1>3 DEF LoadInv, PhasesInv
<1>6. DOMAIN EdgesOf(b) = {e \in b : HasEnds(e)} /\ \A e \in DOMAIN EdgesOf(b) : EdgesOf(b)[e] = Resolved
  BY DEF EdgesOf
<1>7. ASSUME NEW e \in LinkRows(merged) \ toEdges', HasEnds(e)
      PROVE  /\ e \in DOMAIN edges'
             /\ edges'[e] = Resolved \/ \E s \in SuggestionRows(merged) : s.edge = e
  <2>1. CASE e \in b
    BY <1>1, <1>6, <1>7, <2>1, <1>a
  <2>2. CASE e \notin b
    BY <1>1, <1>3, <1>6, <1>7, <2>2, <1>a DEF LoadInv, MergedInv
  <2> QED
    BY <2>1, <2>2
<1>8. MergedInv'
  BY <1>3, <1>5, <1>7 DEF LoadInv, MergedInv, NodeRows, LinkRows, SuggestionRows, HasEnds
<1>9. RowsInv' /\ PhasesInv'
  BY <1>1, <1>3, <1>5 DEF LoadInv, RowsInv, PhasesInv, NodeRows, LinkRows, SuggestionRows
<1>10. ASSUME NEW e \in DOMAIN edges', edges'[e].source = "resolver"
       PROVE  \E res \in Results : e \in Links[res]
  <2>1. CASE e \in DOMAIN EdgesOf(b)
    BY <1>4, <1>6, <2>1, RowTypes
  <2>2. CASE e \notin DOMAIN EdgesOf(b)
    BY <1>1, <1>10, <2>2, <1>a DEF LoadInv, ResolverEdgesAreResolved
  <2> QED
    BY <2>1, <2>2
<1> QED
  BY <1>8, <1>9, <1>10 DEF LoadInv, ResolverEdgesAreResolved

LEMMA MergeSuggestionsStep == ASSUME TypeOK, LoadInv, MergeSuggestions PROVE LoadInv'
<1> USE DEF schema, history, writer
<1>1. PICK i \in DOMAIN EdgeOrder : \E b \in Chunks(SuggestedAs(i)) :
         edges' = Overlay(edges, SuggestedBy(b)) /\ toLLM' = toLLM \ b
  BY DEF MergeSuggestions, SuggestedBy
<1>2. PICK b \in Chunks(SuggestedAs(i)) :
         edges' = Overlay(edges, SuggestedBy(b)) /\ toLLM' = toLLM \ b
  BY <1>1
<1>a. /\ DOMAIN edges' = DOMAIN edges \cup DOMAIN SuggestedBy(b)
      /\ \A k \in DOMAIN SuggestedBy(b) : edges'[k] = SuggestedBy(b)[k]
      /\ \A k \in DOMAIN edges \ DOMAIN SuggestedBy(b) : edges'[k] = edges[k]
  <2>1. OverlayOf(edges', edges, SuggestedBy(b))
    BY <1>2, Overlaid, Zenon
  <2> QED
    BY <2>1, Zenon DEF OverlayOf
<1>3. /\ job = "load" /\ job' = "load" /\ toNodes = {} /\ toEdges = {}
      /\ UNCHANGED <<merged, toNodes, toEdges, nodes, loaded>>
  BY DEF MergeSuggestions
<1>4. merged \in [Files -> Results \cup {Missing}] /\ b \subseteq SuggestionRows(merged)
  BY DEF Chunks, SuggestedAs, TypeOK, LoadInv, RowsInv
<1>5. /\ DOMAIN SuggestedBy(b) = {s.edge : s \in {t \in b : HasEnds(t.edge)}}
      /\ \A s \in b : HasEnds(s.edge) => SuggestedBy(b)[s.edge] = Suggested(s)
  BY <1>4, RowsAreKeyed, SuggestedByValues
<1>6. ASSUME NEW s \in SuggestionRows(merged) \ toLLM', HasEnds(s.edge)
      PROVE  s.edge \in DOMAIN edges' /\ edges'[s.edge] = Suggested(s)
  <2>1. CASE s \in b
    BY <1>2, <1>5, <1>6, <2>1, <1>a
  <2>2. CASE s \notin b
    <3>1. s.edge \notin DOMAIN SuggestedBy(b)
      BY <1>4, <1>5, <2>2, RowsAreKeyed
    <3>2. s.edge \in DOMAIN edges /\ edges[s.edge] = Suggested(s)
      BY <1>2, <1>3, <1>6, <2>2 DEF LoadInv, MergedInv
    <3> QED
      BY <1>2, <3>1, <3>2, <1>a
  <2> QED
    BY <2>1, <2>2
<1>7. ASSUME NEW e \in LinkRows(merged), HasEnds(e)
      PROVE  /\ e \in DOMAIN edges'
             /\ edges'[e] = Resolved \/ \E s \in SuggestionRows(merged) : s.edge = e
  <2>1. /\ e \in DOMAIN edges
        /\ edges[e] = Resolved \/ \E s \in SuggestionRows(merged) : s.edge = e
    BY <1>3, <1>7 DEF LoadInv, MergedInv
  <2>2. CASE e \in DOMAIN SuggestedBy(b)
    BY <1>2, <1>4, <1>5, <2>2, <1>a
  <2>3. CASE e \notin DOMAIN SuggestedBy(b)
    BY <1>2, <2>1, <2>3, <1>a
  <2> QED
    BY <2>2, <2>3
<1>8. MergedInv'
  BY <1>3, <1>6, <1>7 DEF LoadInv, MergedInv, NodeRows, LinkRows, SuggestionRows, HasEnds
<1>9. RowsInv' /\ PhasesInv'
  BY <1>2, <1>3 DEF LoadInv, RowsInv, PhasesInv, NodeRows, LinkRows, SuggestionRows
<1>10. ASSUME NEW e \in DOMAIN edges', edges'[e].source = "resolver"
       PROVE  \E res \in Results : e \in Links[res]
  <2>1. CASE e \in DOMAIN SuggestedBy(b)
    <3>1. PICK s \in b : HasEnds(s.edge) /\ e = s.edge
      BY <1>5, <2>1
    <3>2. edges'[e] = Suggested(s)
      BY <1>2, <1>5, <2>1, <3>1, <1>a
    <3> QED
      BY <1>10, <3>2 DEF Suggested
  <2>2. CASE e \notin DOMAIN SuggestedBy(b)
    BY <1>2, <1>10, <2>2, <1>a DEF LoadInv, ResolverEdgesAreResolved
  <2> QED
    BY <2>1, <2>2
<1> QED
  BY <1>8, <1>9, <1>10 DEF LoadInv, ResolverEdgesAreResolved

LEMMA EndsStep ==
  ASSUME TypeOK, LoadInv, StartMerge \/ LoadDone \/ Clear \/ CommandDies
  PROVE  LoadInv'
<1> USE DEF schema, graph, rows, writer
<1>1. CASE StartMerge
  <2>1. loaded = FALSE
    BY <1>1 DEF StartMerge, LoadInv, RowsInv, TypeOK
  <2>2. /\ job' = "load" /\ UNCHANGED <<merged, nodes, edges, loaded>>
        /\ toNodes' = NodeRows(merged) /\ toEdges' = LinkRows(merged) /\ toLLM' = SuggestionRows(merged)
    BY <1>1 DEF StartMerge
  <2>3. RowsInv' /\ PhasesInv' /\ MergedInv'
    BY <2>1, <2>2 DEF RowsInv, PhasesInv, MergedInv, NodeRows, LinkRows, SuggestionRows
  <2> QED
    BY <2>2, <2>3 DEF LoadInv, ResolverEdgesAreResolved
<1>2. CASE LoadDone
  <2>1. /\ job = "load" /\ job' = "none" /\ toNodes = {} /\ toEdges = {} /\ toLLM = {}
        /\ UNCHANGED <<merged, toNodes, toEdges, toLLM, nodes, edges>>
    BY <1>2 DEF LoadDone
  <2>2. MergedInv'
    BY <2>1 DEF LoadInv, MergedInv, NodeRows, LinkRows, SuggestionRows, HasEnds
  <2>3. RowsInv' /\ PhasesInv'
    BY <2>1 DEF RowsInv, PhasesInv
  <2> QED
    BY <2>1, <2>2, <2>3 DEF LoadInv, ResolverEdgesAreResolved
<1>3. CASE Clear
  <2>1. /\ job' = "none" /\ loaded' = FALSE /\ DOMAIN edges' = {}
        /\ toNodes' = {} /\ toEdges' = {} /\ toLLM' = {}
    BY <1>3, EmptyFunction DEF Clear, LoadInv, RowsInv
  <2> QED
    BY <2>1 DEF LoadInv, RowsInv, PhasesInv, MergedInv, ResolverEdgesAreResolved
<1>4. CASE CommandDies
  <2>1. /\ job' = "none" /\ UNCHANGED <<nodes, edges, loaded>>
        /\ toNodes' = {} /\ toEdges' = {} /\ toLLM' = {}
    BY <1>4 DEF CommandDies, history
  <2>2. CASE loaded
    <3>1. merged' = merged /\ toNodes = {} /\ toEdges = {} /\ toLLM = {}
      BY <1>4, <2>2 DEF CommandDies, LoadInv, RowsInv
    <3> QED
      BY <2>1, <2>2, <3>1 DEF LoadInv, RowsInv, PhasesInv, MergedInv, ResolverEdgesAreResolved,
         NodeRows, LinkRows, SuggestionRows, HasEnds
  <2>3. CASE ~loaded
    BY <2>1, <2>3 DEF LoadInv, RowsInv, PhasesInv, MergedInv, ResolverEdgesAreResolved
  <2> QED
    BY <2>2, <2>3
<1> QED
  BY <1>1, <1>2, <1>3, <1>4

(* At every moment of a load a row is still to be merged or in the graph.  *)
THEOREM LoadInvariant == Spec => []LoadInv
<1>1. TypeOK /\ LoadInv /\ [Next]_vars => LoadInv'
  BY OutsideMergeStep, MergeNodesStep, MergeEdgesStep, MergeSuggestionsStep, EndsStep
     DEF Next, GraphStep
<1> QED
  BY <1>1, LoadInit, TypeCorrect, PTL DEF Spec

(* A load that ends has put every record and every link whose ends exist   *)
(* into the graph, with the stamp of a link or a suggestion that gave it,  *)
(* whatever mix of files it read and whatever crashed loads left there.    *)
THEOREM LoadIsComplete == Spec => []CompletedLoadHasEverything
<1>1. TypeOK /\ LoadInv => CompletedLoadHasEverything
  <2> SUFFICES ASSUME TypeOK, LoadInv, loaded PROVE CompletedLoadHasEverything
    BY DEF CompletedLoadHasEverything
  <2>1. toNodes = {} /\ toEdges = {} /\ toLLM = {}
    BY DEF LoadInv, RowsInv
  <2>2. ASSUME NEW n \in NodeRows(merged) PROVE n.key \in DOMAIN nodes /\ nodes[n.key] = n.props
    BY <2>1 DEF LoadInv, MergedInv
  <2>3. ASSUME NEW s \in SuggestionRows(merged), HasEnds(s.edge)
        PROVE  s.edge \in DOMAIN edges /\ edges[s.edge] \in GivenBy(s.edge)
    <3>1. s.edge \in DOMAIN edges /\ edges[s.edge] = Suggested(s)
      BY <2>1, <2>3 DEF LoadInv, MergedInv
    <3>2. Suggested(s) \in GivenBy(s.edge)
      BY Zenon DEF GivenBy
    <3> QED
      BY <3>1, <3>2
  <2>4. ASSUME NEW e \in LinkRows(merged), HasEnds(e)
        PROVE  e \in DOMAIN edges /\ edges[e] \in GivenBy(e)
    <3>1. CASE \E s \in SuggestionRows(merged) : s.edge = e
      BY <2>3, <2>4, <3>1
    <3>2. CASE ~\E s \in SuggestionRows(merged) : s.edge = e
      BY <2>1, <2>4, <3>2 DEF LoadInv, MergedInv, GivenBy
    <3> QED
      BY <3>1, <3>2
  <2> QED
    BY <2>2, <2>3, <2>4 DEF CompletedLoadHasEverything
<1> QED
  BY <1>1, LoadInvariant, TypeCorrect, PTL

(* An edge stamped source = "resolver" is one that some resolver emitted.  *)
THEOREM ProvenanceIsHonest == Spec => []ResolverEdgesAreResolved
<1>1. LoadInv => ResolverEdgesAreResolved
  BY DEF LoadInv
<1> QED
  BY <1>1, LoadInvariant, PTL

-----------------------------------------------------------------------------
(* Reloading the files of a completed load gives the graph it left.        *)
LEMMA SameFunction ==
  ASSUME NEW f, NEW g, IsFunction(f), IsFunction(g), DOMAIN f = DOMAIN g,
         \A k \in DOMAIN f : f[k] = g[k]
  PROVE  f = g
<1>1. [k \in DOMAIN f |-> f[k]] = [k \in DOMAIN g |-> g[k]]
  OBVIOUS
<1> QED
  BY <1>1 DEF IsFunction

LEMMA OverlayIsFunction == ASSUME NEW old, NEW new PROVE IsFunction(Overlay(old, new))
BY DEF Overlay, IsFunction

LEMMA EmptyIsFunction == IsFunction(Empty)
BY DEF Empty, IsFunction

LEMMA ReloadInit == Init => ReloadInv
BY EmptyIsFunction, EmptyFunction DEF Init, ReloadInv

(* The variables of ReloadInv, but for the job: a step that leaves them    *)
(* alone and neither begins nor ends a merge.                              *)
LEMMA IdleReload ==
  ASSUME ReloadInv, UNCHANGED <<graph, settled>>, job' # "load",
         job = "load" => toLLM \subseteq SuggestionRows(merged)
  PROVE  ReloadInv'
<1>1. UNCHANGED <<nodes, edges, settled>>
  BY DEF graph
<1>2. ASSUME NEW s \in settled PROVE HasEverything(s)' /\ StillAs(s)'
  <2>1. HasEverything(s) /\ StillAs(s)
    BY DEF ReloadInv
  <2>2. HasEverything(s)'
    BY <1>1, <2>1 DEF HasEverything, HasEnds, NodeRows, LinkRows, SuggestionRows
  <2>3. StillAs(s)'
    BY <1>1, <2>1 DEF StillAs, SuggestionRows
  <2> QED
    BY <2>2, <2>3
<1> QED
  BY <1>1, <1>2 DEF ReloadInv, HasEnds

LEMMA OutsideMergeReload ==
  ASSUME TypeOK, LoadInv, ReloadInv,
         \/ IngestStep \/ StartLoad
         \/ \E f \in Files : ReadFile(f) \/ ReadTornFile(f)
         \/ StartInit \/ StartMigrate
         \/ \E l \in Labels : CreateConstraint(l)
         \/ RecordVersion \/ InitDone \/ CommandDies
         \/ UNCHANGED vars
  PROVE  ReloadInv'
<1> USE DEF graph, history
<1>0. job = "load" => toLLM \subseteq SuggestionRows(merged)
  BY DEF LoadInv, RowsInv
<1>1. ASSUME UNCHANGED <<graph, settled, job, merged, toLLM>> PROVE ReloadInv'
  <2>1. ASSUME NEW s \in settled PROVE HasEverything(s)' /\ StillAs(s)'
    BY <1>1 DEF ReloadInv, HasEverything, StillAs, HasEnds, NodeRows, LinkRows, SuggestionRows
  <2> QED
    BY <1>1, <2>1 DEF ReloadInv, HasEnds
<1>2. CASE IngestStep \/ UNCHANGED vars
  BY <1>1, <1>2 DEF IngestStep, StartDump, Truncate, WriteFile, DumpDies, command, vars, rows
<1>3. CASE StartLoad \/ (\E f \in Files : ReadFile(f) \/ ReadTornFile(f)) \/ CommandDies
           \/ StartInit \/ StartMigrate \/ InitDone
  BY <1>0, <1>3, IdleReload DEF StartLoad, ReadFile, ReadTornFile, CommandDies, StartInit,
     StartMigrate, InitDone
<1>4. CASE (\E l \in Labels : CreateConstraint(l)) \/ RecordVersion
  BY <1>1, <1>4 DEF CreateConstraint, RecordVersion, rows
<1> QED
  BY <1>2, <1>3, <1>4

LEMMA MergeNodesReload == ASSUME TypeOK, LoadInv, ReloadInv, MergeNodes PROVE ReloadInv'
<1>1. PICK b \in Chunks(Now(toNodes, NodeTurn)) : nodes' = Overlay(nodes, NodesOf(b))
  BY DEF MergeNodes, NodesOf
<1>2. job = "load" /\ job' = "load" /\ UNCHANGED <<merged, toLLM, edges, settled>>
  BY DEF MergeNodes, history
<1>3. merged \in [Files -> Results \cup {Missing}] /\ b \subseteq NodeRows(merged)
  BY DEF Chunks, Now, TypeOK, LoadInv, RowsInv
<1>4. DOMAIN NodesOf(b) = {n.key : n \in b} /\ \A n \in b : NodesOf(b)[n.key] = n.props
  BY <1>3, RowsAreKeyed, NodesOfValues
<1>5. /\ DOMAIN nodes' = DOMAIN nodes \cup DOMAIN NodesOf(b)
      /\ \A k \in DOMAIN NodesOf(b) : nodes'[k] = NodesOf(b)[k]
      /\ \A k \in DOMAIN nodes \ DOMAIN NodesOf(b) : nodes'[k] = nodes[k]
      /\ IsFunction(nodes')
  <2>1. OverlayOf(nodes', nodes, NodesOf(b))
    BY <1>1, Overlaid, Zenon
  <2>2. IsFunction(nodes')
    BY <1>1, OverlayIsFunction, Zenon
  <2> QED
    BY <2>1, <2>2, Zenon DEF OverlayOf
<1>6. ASSUME NEW s \in settled PROVE nodes' = nodes
  <2>1. \A n \in b : n.key \in DOMAIN nodes /\ nodes[n.key] = n.props
    BY <1>2, <1>3 DEF ReloadInv, HasEverything, StillAs
  <2>2. ASSUME NEW k \in DOMAIN NodesOf(b)
        PROVE  k \in DOMAIN nodes /\ NodesOf(b)[k] = nodes[k]
    <3>1. PICK n \in b : k = n.key
      BY <1>4
    <3> QED
      BY <1>4, <2>1, <3>1
  <2>3. DOMAIN nodes' = DOMAIN nodes /\ \A k \in DOMAIN nodes' : nodes'[k] = nodes[k]
    BY <1>5, <2>2
  <2> QED
    BY <1>5, <2>3, SameFunction DEF ReloadInv
<1>7. \A e \in DOMAIN edges' : HasEnds(e)'
  BY <1>2, <1>5 DEF ReloadInv, HasEnds
<1>8. ASSUME NEW s \in settled PROVE HasEverything(s)' /\ StillAs(s)'
  BY <1>2, <1>6
     DEF ReloadInv, HasEverything, StillAs, HasEnds, NodeRows, LinkRows, SuggestionRows
<1> QED
  BY <1>2, <1>5, <1>7, <1>8 DEF ReloadInv

LEMMA MergeEdgesReload == ASSUME TypeOK, LoadInv, ReloadInv, MergeEdges PROVE ReloadInv'
<1>1. PICK b \in Chunks(Now(toEdges, ShapeOf)) : edges' = Overlay(edges, EdgesOf(b))
  BY DEF MergeEdges, EdgesOf
<1>2. job = "load" /\ job' = "load" /\ UNCHANGED <<merged, toLLM, nodes, settled>>
  BY DEF MergeEdges, history
<1>3. b \subseteq LinkRows(merged) /\ toEdges # {}
  BY DEF Chunks, Now, LoadInv, RowsInv
<1>4. toLLM = SuggestionRows(merged)
  BY <1>2, <1>3 DEF LoadInv, PhasesInv
<1>5. DOMAIN EdgesOf(b) = {e \in b : HasEnds(e)} /\ \A e \in DOMAIN EdgesOf(b) : EdgesOf(b)[e] = Resolved
  BY DEF EdgesOf
<1>6. /\ DOMAIN edges' = DOMAIN edges \cup DOMAIN EdgesOf(b)
      /\ \A e \in DOMAIN EdgesOf(b) : edges'[e] = EdgesOf(b)[e]
      /\ \A e \in DOMAIN edges \ DOMAIN EdgesOf(b) : edges'[e] = edges[e]
      /\ IsFunction(edges')
  <2>1. OverlayOf(edges', edges, EdgesOf(b))
    BY <1>1, Overlaid, Zenon
  <2>2. IsFunction(edges')
    BY <1>1, OverlayIsFunction, Zenon
  <2> QED
    BY <2>1, <2>2, Zenon DEF OverlayOf
<1>7. \A e \in DOMAIN edges' : HasEnds(e)'
  BY <1>2, <1>5, <1>6 DEF ReloadInv, HasEnds
<1>8. ASSUME NEW s \in settled PROVE HasEverything(s)' /\ StillAs(s)'
  <2>1. HasEverything(s) /\ StillAs(s) /\ s.merged = merged
    BY <1>2 DEF ReloadInv, StillAs
  <2>2. \A e \in DOMAIN EdgesOf(b) :
           /\ e \in DOMAIN s.edges
           /\ s.edges[e] = Resolved \/ \E t \in SuggestionRows(merged) : t.edge = e
    BY <1>3, <1>5, <2>1 DEF HasEverything
  <2>3. DOMAIN edges' = DOMAIN s.edges
    BY <1>6, <2>1, <2>2 DEF StillAs
  <2>4. ASSUME NEW e \in DOMAIN edges'
        PROVE  edges'[e] = s.edges[e] \/ \E t \in toLLM : t.edge = e
    <3>1. CASE e \in DOMAIN EdgesOf(b)
      BY <1>4, <1>5, <1>6, <2>2, <3>1
    <3>2. CASE e \notin DOMAIN EdgesOf(b)
      BY <1>2, <1>6, <2>1, <3>2 DEF StillAs
    <3> QED
      BY <3>1, <3>2
  <2>5. HasEverything(s)'
    BY <1>2, <2>1 DEF HasEverything, HasEnds, NodeRows, LinkRows, SuggestionRows
  <2> QED
    BY <1>2, <2>1, <2>3, <2>4, <2>5 DEF StillAs
<1> QED
  BY <1>2, <1>6, <1>7, <1>8 DEF ReloadInv

LEMMA MergeSuggestionsReload ==
  ASSUME TypeOK, LoadInv, ReloadInv, MergeSuggestions
  PROVE  ReloadInv'
<1>1. PICK i \in DOMAIN EdgeOrder : \E b \in Chunks(SuggestedAs(i)) :
         edges' = Overlay(edges, SuggestedBy(b)) /\ toLLM' = toLLM \ b
  BY DEF MergeSuggestions, SuggestedBy
<1>2. PICK b \in Chunks(SuggestedAs(i)) :
         edges' = Overlay(edges, SuggestedBy(b)) /\ toLLM' = toLLM \ b
  BY <1>1
<1>3. job = "load" /\ job' = "load" /\ UNCHANGED <<merged, nodes, settled>>
  BY DEF MergeSuggestions, history
<1>4. merged \in [Files -> Results \cup {Missing}] /\ b \subseteq SuggestionRows(merged)
  BY DEF Chunks, SuggestedAs, TypeOK, LoadInv, RowsInv
<1>5. /\ DOMAIN SuggestedBy(b) = {s.edge : s \in {t \in b : HasEnds(t.edge)}}
      /\ \A s \in b : HasEnds(s.edge) => SuggestedBy(b)[s.edge] = Suggested(s)
  BY <1>4, RowsAreKeyed, SuggestedByValues
<1>6. /\ DOMAIN edges' = DOMAIN edges \cup DOMAIN SuggestedBy(b)
      /\ \A e \in DOMAIN SuggestedBy(b) : edges'[e] = SuggestedBy(b)[e]
      /\ \A e \in DOMAIN edges \ DOMAIN SuggestedBy(b) : edges'[e] = edges[e]
      /\ IsFunction(edges')
  <2>1. OverlayOf(edges', edges, SuggestedBy(b))
    BY <1>2, Overlaid, Zenon
  <2>2. IsFunction(edges')
    BY <1>2, OverlayIsFunction, Zenon
  <2> QED
    BY <2>1, <2>2, Zenon DEF OverlayOf
<1>7. \A e \in DOMAIN edges' : HasEnds(e)'
  BY <1>3, <1>5, <1>6 DEF ReloadInv, HasEnds
<1>8. ASSUME NEW s \in settled PROVE HasEverything(s)' /\ StillAs(s)'
  <2>1. HasEverything(s) /\ StillAs(s) /\ s.merged = merged
    BY <1>3 DEF ReloadInv, StillAs
  <2>2. ASSUME NEW e \in DOMAIN SuggestedBy(b)
        PROVE  e \in DOMAIN s.edges /\ SuggestedBy(b)[e] = s.edges[e]
    <3>1. PICK t \in b : HasEnds(t.edge) /\ e = t.edge
      BY <1>5
    <3> QED
      BY <1>4, <1>5, <2>1, <3>1 DEF HasEverything
  <2>3. DOMAIN edges' = DOMAIN s.edges
    BY <1>6, <2>1, <2>2 DEF StillAs
  <2>4. ASSUME NEW e \in DOMAIN edges'
        PROVE  edges'[e] = s.edges[e] \/ \E t \in toLLM' : t.edge = e
    <3>1. CASE e \in DOMAIN SuggestedBy(b)
      BY <1>6, <2>2, <3>1
    <3>2. CASE e \notin DOMAIN SuggestedBy(b)
      <4>1. e \in DOMAIN edges /\ edges'[e] = edges[e] /\ HasEnds(e)
        BY <1>6, <3>2 DEF ReloadInv
      <4>2. CASE edges[e] = s.edges[e]
        BY <4>1, <4>2
      <4>3. CASE edges[e] # s.edges[e]
        <5>1. PICK t \in toLLM : t.edge = e
          BY <1>3, <2>1, <4>1, <4>3 DEF StillAs
        <5>2. t \notin b
          BY <1>5, <3>2, <4>1, <5>1
        <5> QED
          BY <1>2, <5>1, <5>2
      <4> QED
        BY <4>2, <4>3
    <3> QED
      BY <3>1, <3>2
  <2>5. HasEverything(s)'
    BY <1>3, <2>1 DEF HasEverything, HasEnds, NodeRows, LinkRows, SuggestionRows
  <2> QED
    BY <1>3, <2>1, <2>3, <2>4, <2>5 DEF StillAs
<1> QED
  BY <1>3, <1>6, <1>7, <1>8 DEF ReloadInv

LEMMA EndsReload ==
  ASSUME TypeOK, LoadInv, ReloadInv, StartMerge \/ LoadDone \/ Clear
  PROVE  ReloadInv'
<1> USE DEF graph, rows
<1>1. CASE StartMerge
  <2>1. /\ UNCHANGED <<nodes, edges, merged>> /\ job' = "load" /\ job = "migrate"
        /\ toLLM' = SuggestionRows(merged)
        /\ settled' = {s \in settled : s.merged = merged}
    BY <1>1 DEF StartMerge
  <2>2. ASSUME NEW s \in settled'
        PROVE  /\ s.merged \in [Files -> Results \cup {Missing}] /\ IsFunction(s.edges)
               /\ HasEverything(s)' /\ StillAs(s)'
    <3>1. s \in settled /\ s.merged = merged
      BY <2>1
    <3>2. HasEverything(s)'
      BY <2>1, <3>1 DEF ReloadInv, HasEverything, HasEnds, NodeRows, LinkRows, SuggestionRows
    <3>3. StillAs(s)'
      BY <2>1, <3>1 DEF ReloadInv, StillAs
    <3> QED
      BY <3>1, <3>2, <3>3 DEF ReloadInv
  <2> QED
    BY <2>1, <2>2 DEF ReloadInv, HasEnds
<1>2. CASE LoadDone
  <2> DEFINE done == [merged |-> merged, nodes |-> nodes, edges |-> edges]
  <2>1. /\ UNCHANGED <<nodes, edges, merged>> /\ job = "load" /\ job' = "none"
        /\ toNodes = {} /\ toEdges = {} /\ toLLM = {}
        /\ settled' = {done}
    BY <1>2 DEF LoadDone
  <2>2. merged \in [Files -> Results \cup {Missing}] /\ MergedInv
    BY DEF TypeOK, LoadInv
  <2>3. HasEverything(done)'
    BY <2>1, <2>2 DEF MergedInv, HasEverything, HasEnds, NodeRows, LinkRows, SuggestionRows
  <2>4. StillAs(done)'
    BY <2>1 DEF StillAs
  <2> QED
    BY <2>1, <2>2, <2>3, <2>4 DEF ReloadInv, HasEnds
<1>3. CASE Clear
  <2>1. nodes' = Empty /\ edges' = Empty /\ settled' = {}
    BY <1>3 DEF Clear
  <2> QED
    BY <2>1, EmptyIsFunction, EmptyFunction DEF ReloadInv
<1> QED
  BY <1>1, <1>2, <1>3

(* The graph keeps everything of the last completed load, and only stamps  *)
(* of suggested edges change while its files are merged again.             *)
THEOREM ReloadInvariant == Spec => []ReloadInv
<1>1. TypeOK /\ LoadInv /\ ReloadInv /\ [Next]_vars => ReloadInv'
  BY OutsideMergeReload, MergeNodesReload, MergeEdgesReload, MergeSuggestionsReload, EndsReload
     DEF Next, GraphStep
<1> QED
  BY <1>1, ReloadInit, TypeCorrect, LoadInvariant, PTL DEF Spec

(* "Re-running load(merged) against the same MergedResult produces an      *)
(* identical graph" (loader.py:3), whatever loads of it died in between.   *)
THEOREM ReloadGivesTheSameGraph == Spec => ReloadIsIdempotent
<1>1. ASSUME TypeOK, LoadInv, ReloadInv, [Next]_vars, ~loaded, loaded',
             NEW s \in settled, s.merged = merged
      PROVE  nodes' = s.nodes /\ edges' = s.edges
  <2>1. LoadDone
    BY <1>1 DEF Next, IngestStep, StartDump, Truncate, WriteFile, DumpDies, GraphStep, StartLoad,
       ReadFile, ReadTornFile, StartInit, StartMigrate, CreateConstraint, RecordVersion, InitDone,
       StartMerge, MergeNodes, MergeEdges, MergeSuggestions, Clear, CommandDies, history, vars
  <2>2. job = "load" /\ toLLM = {} /\ nodes' = nodes /\ edges' = edges
    BY <2>1 DEF LoadDone, graph
  <2>3. DOMAIN edges = DOMAIN s.edges /\ \A e \in DOMAIN edges : edges[e] = s.edges[e]
    BY <1>1, <2>2 DEF ReloadInv, StillAs
  <2>4. edges = s.edges
    BY <1>1, <2>3, SameFunction DEF ReloadInv
  <2> QED
    BY <1>1, <2>2, <2>4 DEF ReloadInv, StillAs
<1>2. TypeOK /\ LoadInv /\ ReloadInv /\ [Next]_vars
         => [~loaded /\ loaded' =>
                \A s \in settled : s.merged = merged => nodes' = s.nodes /\ edges' = s.edges]_vars
  BY <1>1
<1> QED
  BY <1>2, TypeCorrect, LoadInvariant, ReloadInvariant, PTL DEF Spec, ReloadIsIdempotent
=============================================================================
