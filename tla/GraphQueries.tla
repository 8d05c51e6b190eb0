---------------------------- MODULE GraphQueries ----------------------------
(***************************************************************************)
(* What is asked of the graph: the hops of `sg-graph query` (queries.py)   *)
(* and of the explorer (graph_service.py), as functions of a graph.        *)
(*                                                                         *)
(* A graph has nodes, with a label and an id each, and relationships.      *)
(* MERGE keeps one relationship of a type between two nodes.  A pattern of *)
(* variable length matches the trails: the paths that take no relationship *)
(* twice.                                                                  *)
(***************************************************************************)
EXTENDS SequencesExt

(* The relationships that an impact follows, in either direction.          *)
ImpactRels == {"CALLS", "READS", "WRITES", "EXPOSES", "CONTAINS", "DEFINES", "COVERS", "EXECUTES",
               "PRODUCES", "CONSUMES", "HANDLED_BY", "INITIATES", "TARGETS"}

(* The ways along a relationship, as [rel, from, to]: with its arrow,      *)
(* against it or either.                                                   *)
Along(rels) == {[rel |-> r, from |-> r.from, to |-> r.to] : r \in rels}
Against(rels) == {[rel |-> r, from |-> r.to, to |-> r.from] : r \in rels}

Ways(rels, direction) ==
    CASE direction = "downstream" -> Along(rels)
      [] direction = "upstream" -> Against(rels)
      [] direction = "both" -> Along(rels) \cup Against(rels)

(* Where a trail has come to from its root, and the trails that go one way *)
(* further.                                                                *)
End(root, t) == IF t = <<>> THEN root ELSE Last(t).to
Onward(ways, root, t) ==
    {Append(t, w) : w \in {v \in ways : v.from = End(root, t) /\ \A i \in DOMAIN t : t[i].rel # v.rel}}

(* The trails from a node with at least one and at most n relationships.   *)
Trails(ways, root, n) ==
    LET trails[k \in 0 .. n] ==
            IF k = 0 THEN {<<>>} ELSE UNION {Onward(ways, root, t) : t \in trails[k - 1]}
    IN  UNION {trails[k] : k \in 1 .. n}

OfTypes(g, types) == {r \in g.rels : r.type \in types}
Clamp(n, low, high) == IF n < low THEN low ELSE IF n > high THEN high ELSE n

-----------------------------------------------------------------------------
(* GraphService.impact: what is reached, at the length of its shortest     *)
(* trail and by the types of all of them, and all that relates these nodes *)
(* and the root.                                                           *)
LongestTrail(trails) == Max({Len(t) : t \in trails})
ShortestTrail(trails) == Min({Len(t) : t \in trails})

Impact(g, root, direction, depth) ==
    LET trails == Trails(Ways(OfTypes(g, ImpactRels), direction), root, Clamp(depth, 1, 8))
        to(n) == {t \in trails : Last(t).to = n}
        impacted == {Last(t).to : t \in trails} \ {root}
    IN  [nodes |-> {[node |-> n, depth |-> ShortestTrail(to(n)),
                     via |-> UNION {{t[i].rel.type : i \in DOMAIN t} : t \in to(n)}] : n \in impacted},
         edges |-> IF impacted = {} THEN {}
                   ELSE {r \in g.rels : {r.from, r.to} \subseteq impacted \cup {root}}]

(* GraphService.neighborhood: what is within so many hops either way, and  *)
(* the relationships of the paths there.                                   *)
Neighborhood(g, root, depth) ==
    LET trails == Trails(Ways(g.rels, "both"), root, Clamp(depth, 1, 3))
    IN  [nodes |-> {root} \cup {Last(t).to : t \in trails},
         edges |-> UNION {{t[i].rel : i \in DOMAIN t} : t \in trails}]

-----------------------------------------------------------------------------
(* One service calls another where it initiates a connection that targets  *)
(* it.                                                                     *)
Calls(g) ==
    {<<p[1].from, p[2].to>> : p \in
        {q \in OfTypes(g, {"INITIATES"}) \X OfTypes(g, {"TARGETS"}) : q[1].to = q[2].from}}

(* GraphService.service_overview and GraphQueries.services_calling leave   *)
(* out what a service calls of itself.                                     *)
Overview(g) == {c \in Calls(g) : c[1] # c[2]}
Calling(g, id) == {c[1] : c \in {d \in Calls(g) : d[2] = id /\ d[1] # id}}

(* A call is two relationships.                                            *)
RelsOfOneHop(calls) == calls
RelsOf(calls) == calls * 2

(* GraphQueries.transitive_dependents: a row for every length of a trail   *)
(* from the service that depends to the one that is depended on.           *)
Dependents(g, id, maxDepth) ==
    LET trails == Trails(Ways(OfTypes(g, {"INITIATES", "TARGETS"}), "upstream"), id, RelsOf(maxDepth))
    IN  {[service |-> Last(t).to, depth |-> Len(t) \div 2] :
            t \in {u \in trails : Last(u).to # id /\ Last(u).to.label = "Service"}}
=============================================================================
