----------------------------- MODULE ServiceMap -----------------------------
(***************************************************************************)
(* From traces to answers: the services and connections of a rollup, with  *)
(* what static analysis found of the services, as the loader puts them     *)
(* into the graph, and what is then asked of it.                           *)
(***************************************************************************)
EXTENDS TraceRollup, GraphQueries

CONSTANTS
    StaticNodes,  \* artifacts, tests and endpoints: [label, id, repo]
    StaticRels,   \* how they are related
    Depths        \* the depths that are asked for

(* A depth is a whole number.  Of all that the loader relates only         *)
(* INITIATES, TARGETS and EXPOSES end at a service or a connection, and    *)
(* the external connections that EXPOSES is for come from the mapper,      *)
(* which no command calls.                                                 *)
ASSUME DepthsOK == Depths \subseteq Int
ASSUME StaticOK ==
    /\ \A n \in StaticNodes : n.label \notin {"Service", "ExternalConnection"}
    /\ \A r \in StaticRels :
          /\ r.type \notin {"INITIATES", "TARGETS"}
          /\ r.to.label \notin {"Service", "ExternalConnection"}

ServiceNode(id) == [label |-> "Service", id |-> id]
ConnectionNode(k) == [label |-> "ExternalConnection", id |-> k]
Rel(a, type, b) == [from |-> a, type |-> type, to |-> b]

(* GraphLoader.load: a relationship needs both its ends.                   *)
Graph ==
    LET inventory == {ServiceNode(v.id) : v \in services}
        nodes == inventory \cup {ConnectionNode(c.id) : c \in connections}
                   \cup {[label |-> n.label, id |-> n.id] : n \in StaticNodes}
        rels == {Rel(ServiceNode(c.source), "INITIATES", ConnectionNode(c.id)) : c \in connections}
                  \cup {Rel(ConnectionNode(c.id), "TARGETS", ServiceNode(c.target)) :
                           c \in {d \in connections : d.target # None}}
                  \cup {Rel(ServiceNode(n.repo), IF n.label = "TestCase" THEN "DEFINES" ELSE "CONTAINS",
                            [label |-> n.label, id |-> n.id]) : n \in StaticNodes}
                  \cup StaticRels
    IN  [nodes |-> nodes, rels |-> {r \in rels : {r.from, r.to} \subseteq nodes}]

-----------------------------------------------------------------------------
(* The pairs of a root and a node at most k ways apart, for every k that   *)
(* an impact may be asked for.                                             *)
Further(ways, near) ==
    near \cup UNION {{<<p[1], w.to>> : w \in {v \in ways : v.from = p[2]}} : p \in near}

Near(g, ways) ==
    LET near[k \in 0 .. 8] ==
            IF k = 0 THEN {<<m, m>> : m \in g.nodes} ELSE Further(ways, near[k - 1])
    IN  near

(* Every row of every answer to one kind of question.                      *)
Rows(g, direction, depth) ==
    UNION {{<<root, n.node, n.depth, n.via>> : n \in Impact(g, root, direction, depth).nodes} :
              root \in g.nodes}

(* An impact is the neighbourhood by distance, cut at the depth asked for  *)
(* and never below one hop or beyond eight: whatever the trails, every     *)
(* node is listed once, at its distance, and comes with a relationship     *)
(* from a node one hop nearer, so that the explorer can draw a way to it;  *)
(* and who is impacted downstream of a node is impacted by it upstream, at *)
(* the same depth and by the same relationships.                           *)
ImpactIsByDistance ==
    pc = "done" =>
       LET g == Graph
           near == Near(g, Ways(OfTypes(g, ImpactRels), "downstream"))
       IN  \A depth \in Depths :
              LET down == Rows(g, "downstream", depth)
                  up == Rows(g, "upstream", depth)
              IN  /\ {<<row[1], row[2], row[3]>> : row \in down}
                        = UNION {{<<p[1], p[2], k>> : p \in near[k] \ near[k - 1]} :
                                    k \in {i \in 1 .. 8 : i <= depth \/ i = 1}}
                  /\ {<<row[2], row[1], row[3], row[4]>> : row \in up} = down
                  /\ \A root \in g.nodes :
                        LET answer == Impact(g, root, "downstream", depth)
                        IN  \A n \in answer.nodes :
                               \E r \in answer.edges :
                                  /\ r.to = n.node
                                  /\ \/ n.depth = 1 /\ r.from = root
                                     \/ \E m \in answer.nodes : m.node = r.from /\ m.depth = n.depth - 1

(* The four answers about who depends on a service agree: who calls it is  *)
(* who depends on it at depth one and who has an edge to it in the         *)
(* overview; who depends on it at a least depth of k is impacted by it     *)
(* upstream at a depth of 2k, and no other service is.  Impact ends at     *)
(* eight relationships whatever it is asked for, so that from a depth of   *)
(* five on, the default of dependents, it leaves out exactly those who     *)
(* depend at more than four calls.                                         *)
DependentsAgree ==
    pc = "done" =>
       LET g == Graph
           least(rows, a) == Min({r.depth : r \in {q \in rows : q.service = a}})
       IN  \A v \in {n \in g.nodes : n.label = "Service"} :
              /\ Calling(g, v) = {r.service : r \in Dependents(g, v, 1)}
              /\ Calling(g, v) = {c[1] : c \in {d \in Overview(g) : d[2] = v}}
              /\ \A k \in {d \in Depths : d >= 1} :
                    LET rows == Dependents(g, v, k)
                    IN  {[node |-> r.service, depth |-> 2 * least(rows, r.service)] :
                            r \in {q \in rows : least(rows, q.service) <= 4}}
                          = {[node |-> n.node, depth |-> n.depth] :
                                n \in {m \in Impact(g, v, "upstream", 2 * k).nodes :
                                          m.node.label = "Service"}}

(* graph_service.py:28-32, the impact walker treats a call from service to *)
(* service as a single hop: who calls a service is impacted by it at a     *)
(* depth of one.  The code does not do so.                                 *)
ACallIsOneHop ==
    pc = "done" =>
       LET g == Graph
       IN  \A v \in {n \in g.nodes : n.label = "Service"} :
              Calling(g, v) \subseteq {n.node : n \in Impact(g, v, "upstream", 1).nodes}
=============================================================================
