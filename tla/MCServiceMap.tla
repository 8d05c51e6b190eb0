---------------------------- MODULE MCServiceMap ----------------------------
(* Three services that call each other in a circle and back, one call      *)
(* observed with two protocols at once, one name that is a cache in one    *)
(* span and a service in another, calls within a service and to none; a    *)
(* catalog with a service that no span has; and of one service an          *)
(* endpoint, its handler, a helper and a test.  And, for the questions     *)
(* that are asked of the graph, six services that call each other in a     *)
(* ring with a short cut: more calls away than an impact goes.             *)
EXTENDS ServiceMap

Tag(k, v) == [t \in {k} |-> v]
NoTags == [t \in {} |-> ""]
Op(name, words) == [name |-> name, words |-> words]
Span(service, tags, type, resource, operation, start, error) ==
    [service |-> service, tags |-> tags, type |-> type, resource |-> resource,
     operation |-> operation, start |-> start, error |-> error]

Peer(a, b, start) == Span(a, Tag("peer.service", b), "https", "GET /", Op("call", {}), start, FALSE)
MCSpans ==
    {Span("web", Tag("peer.service", "api"), "", "GET /", Op("call", {"grpc", "http"}), 1, TRUE),
     Peer("web", "api", 1), Peer("web", "api", 4),
     Peer("api", "pay", 2), Peer("api", "pay", 3),
     Span("pay", Tag("out.host", "web"), "redis", "", Op("get", {}), 3, FALSE),
     Span("pay", Tag("out.host", "web"), "", "", Op("get", {}), 3, FALSE),
     Span("pay", Tag("http.host", "api"), "", "", Op("", {}), 2, FALSE),
     Span("pay", Tag("http.host", "api"), "", "", Op("", {}), 4, TRUE),
     Span("api", Tag("http.host", "api"), "http", "", Op("", {}), 5, FALSE)}
MCCatalog == [s \in {"web", "old"} |-> "team"]

(* The two spans of a call of the ring are in a window or not, together.   *)
Twice(a, b, start) == {Peer(a, b, start), Peer(a, b, start + 1)}
MCRing ==
    {Twice("web", "api", 1), Twice("api", "pay", 3), Twice("pay", "bank", 5), Twice("bank", "log", 7),
     Twice("log", "box", 9), Twice("box", "web", 11), Twice("web", "pay", 13)}

MCAllSpans == MCSpans \cup UNION MCRing
MCWindows == SUBSET MCSpans \cup {UNION calls : calls \in SUBSET MCRing}

Static(label, id) == [label |-> label, id |-> id, repo |-> "api"]
Node(label, id) == [label |-> label, id |-> id]
MCStaticNodes == {Static("Endpoint", "GET /"), Static("CodeArtifact", "handler"),
                  Static("CodeArtifact", "helper"), Static("TestCase", "test")}
MCStaticRels ==
    {Rel(Node("ExternalConnection", <<"web", "api", "GET /">>), "TARGETS_ENDPOINT", Node("Endpoint", "GET /")),
     Rel(Node("Endpoint", "GET /"), "HANDLED_BY", Node("CodeArtifact", "handler")),
     Rel(Node("CodeArtifact", "handler"), "CALLS", Node("CodeArtifact", "helper")),
     Rel(Node("CodeArtifact", "helper"), "CALLS", Node("CodeArtifact", "helper")),
     Rel(Node("TestCase", "test"), "COVERS", Node("CodeArtifact", "handler")),
     Rel(Node("TestCase", "test"), "MOCKS", Node("CodeArtifact", "helper"))}
=============================================================================
