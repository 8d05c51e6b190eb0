------------------------------- MODULE Pipeline -------------------------------
(***************************************************************************)
(* One `sg-ingest run`: the adapters are registered, each extracts its     *)
(* result or fails (AdapterRegistry), the results are merged               *)
(* (ResultMerger), traced connections are joined to the endpoints that     *)
(* static analysis found (link_connections_to_endpoints), and the merged   *)
(* result is validated (ResultValidator).  What it writes is GraphLoad's   *)
(* input.                                                                  *)
(*                                                                         *)
(* An adapter is what it may return: sequences of items.  An item has a    *)
(* kind and an id; a connection also the service it starts from, the       *)
(* service it goes to and the route that was traced; an endpoint its       *)
(* repository and its route.  A path is the sequence of its segments.      *)
(***************************************************************************)
EXTENDS Naturals, Sequences

CONSTANTS
    Adapters,
    Priority,     \* of each adapter
    Items,        \* the records there may be
    Outputs,      \* the results that each adapter may return
    None,         \* no service, no route, no endpoint
    Upper,        \* methods as str.upper writes them
    Placeholders  \* segments that stand for an unresolved prefix

ASSUME AdaptersOK ==
    /\ Priority \in [Adapters -> Nat]
    /\ Outputs \in [Adapters -> SUBSET Seq(Items)]

ASSUME NoneIsNoExitCode == None \notin {0, 1}

(* Every adapter that emits a connection emits the service it starts from: *)
(* TraceParser.parse notes the service of every span, _extract_repo        *)
(* appends the repository's before it resolves config bindings.            *)
ASSUME SourcesTravelAlong ==
    \A a \in Adapters : \A r \in Outputs[a] : \A i \in DOMAIN r :
        r[i].kind = "connection" =>
           \E j \in DOMAIN r : r[j].kind = "service" /\ r[j].id = r[i].source

VARIABLES
    registered,   \* the adapters, in the order of their registration
    enabled,      \* those that are to run
    results,      \* what the adapters returned, in the order they ran
    failures,     \* those that raised
    at,           \* the item that is merged next
    merged,       \* where the records that were kept come from, in dict order
    conflicts,    \* where those that were skipped come from
    links,        \* target_endpoint_id by connection
    errors,       \* the connections that the validator rejects
    exit,         \* the exit code
    pc

registry == <<registered, enabled>>
report == <<results, failures>>
merging == <<at, merged, conflicts>>
vars == <<registry, report, merging, links, errors, exit, pc>>

-----------------------------------------------------------------------------
Registered == {registered[i] : i \in DOMAIN registered}

(* Where an item of a result is.                                           *)
Positions ==
    UNION {{[result |-> i, item |-> j] : j \in DOMAIN results[i].items} : i \in DOMAIN results}

Before(p, q) == p.result < q.result \/ (p.result = q.result /\ p.item < q.item)

Item(p) == results[p.result].items[p.item]

(* Every kind of record has a bucket of its own, keyed by id.              *)
Key(p) == <<Item(p).kind, Item(p).id>>

Kept == {merged[i] : i \in DOMAIN merged}
KeptOf(kind) == {p \in Kept : Item(p).kind = kind}

-----------------------------------------------------------------------------
Init ==
    /\ registered = <<>> /\ enabled = {}
    /\ results = <<>> /\ failures = {}
    /\ at = [result |-> 1, item |-> 1] /\ merged = <<>> /\ conflicts = {}
    /\ links = [c \in {} |-> None]
    /\ errors = {}
    /\ exit = None
    /\ pc = "register"

(* A second registration under the same name is refused.                   *)
Register(a) ==
    /\ pc = "register"
    /\ a \notin Registered
    /\ registered' = Append(registered, a)
    /\ enabled' = enabled \cup {a}
    /\ UNCHANGED <<report, merging, links, errors, exit, pc>>

Unregister(a) ==
    /\ pc = "register"
    /\ \E i \in DOMAIN registered :
          /\ registered[i] = a
          /\ registered' = [j \in 1 .. Len(registered) - 1 |->
                               registered[IF j < i THEN j ELSE j + 1]]
    /\ enabled' = enabled \ {a}
    /\ UNCHANGED <<report, merging, links, errors, exit, pc>>

Enable(a) ==
    /\ pc = "register"
    /\ a \in Registered
    /\ enabled' = enabled \cup {a}
    /\ UNCHANGED <<registered, report, merging, links, errors, exit, pc>>

Disable(a) ==
    /\ pc = "register"
    /\ a \in Registered
    /\ enabled' = enabled \ {a}
    /\ UNCHANGED <<registered, report, merging, links, errors, exit, pc>>

(* Without an adapter there is nothing to run.                             *)
NothingConfigured ==
    /\ pc = "register"
    /\ registered = <<>>
    /\ pc' = "done" /\ exit' = 1
    /\ UNCHANGED <<registry, report, merging, links, errors>>

RunAll ==
    /\ pc = "register"
    /\ registered # <<>>
    /\ pc' = "extract"
    /\ UNCHANGED <<registry, report, merging, links, errors, exit>>

-----------------------------------------------------------------------------
Ran == failures \cup {results[i].adapter : i \in DOMAIN results}
ToRun == enabled \ Ran

(* Variant: the adapters run as they were registered.                      *)
RunsNextAsRegistered(a) ==
    /\ a \in ToRun
    /\ \E i \in DOMAIN registered :
          registered[i] = a /\ \A j \in 1 .. i - 1 : registered[j] \notin ToRun

(* sorted by descending priority, adapters of the same priority as they    *)
(* were registered.                                                        *)
RunsNext(a) ==
    /\ a \in ToRun
    /\ \A b \in ToRun : Priority[b] <= Priority[a]
    /\ \E i \in DOMAIN registered :
          /\ registered[i] = a
          /\ \A j \in 1 .. i - 1 : registered[j] \in ToRun => Priority[registered[j]] < Priority[a]

Extract(a) ==
    /\ pc = "extract"
    /\ RunsNext(a)
    /\ \E r \in Outputs[a] : results' = Append(results, [adapter |-> a, items |-> r])
    /\ UNCHANGED <<registry, failures, merging, links, errors, exit, pc>>

(* Variant: a failure ends the loop.                                       *)
FailStops(a) ==
    /\ pc = "extract"
    /\ RunsNext(a)
    /\ failures' = failures \cup {a}
    /\ pc' = "merge"
    /\ UNCHANGED <<registry, results, merging, links, errors, exit>>

(* Whatever an adapter raises is noted, and the others go on.              *)
Fail(a) ==
    /\ pc = "extract"
    /\ RunsNext(a)
    /\ failures' = failures \cup {a}
    /\ UNCHANGED <<registry, results, merging, links, errors, exit, pc>>

AllRan ==
    /\ pc = "extract"
    /\ ToRun = {}
    /\ pc' = "merge"
    /\ UNCHANGED <<registry, report, merging, links, errors, exit>>

-----------------------------------------------------------------------------
(* _accumulate keeps the first record of an id and notes the others, but   *)
(* for topics, which adapters share.                                       *)
MergeItem ==
    /\ pc = "merge"
    /\ at \in Positions
    /\ at' = [at EXCEPT !.item = at.item + 1]
    /\ IF \E q \in Kept : Key(q) = Key(at)
          THEN /\ conflicts' = IF Item(at).kind = "kafka_topic" THEN conflicts
                                                                ELSE conflicts \cup {at}
               /\ UNCHANGED merged
          ELSE merged' = Append(merged, at) /\ UNCHANGED conflicts
    /\ UNCHANGED <<registry, report, links, errors, exit, pc>>

(* Variant: the next result is entered where this one was left.            *)
MergeResultMidway ==
    /\ pc = "merge"
    /\ at.result \in DOMAIN results /\ at \notin Positions
    /\ at' = [at EXCEPT !.result = at.result + 1]
    /\ UNCHANGED <<registry, report, merged, conflicts, links, errors, exit, pc>>

MergeResult ==
    /\ pc = "merge"
    /\ at.result \in DOMAIN results /\ at \notin Positions
    /\ at' = [result |-> at.result + 1, item |-> 1]
    /\ UNCHANGED <<registry, report, merged, conflicts, links, errors, exit, pc>>

Merged ==
    /\ pc = "merge"
    /\ at.result \notin DOMAIN results
    /\ pc' = "link"
    /\ UNCHANGED <<registry, report, merging, links, errors, exit>>

-----------------------------------------------------------------------------
(* The index of the endpoints by route: the service, the method and the    *)
(* path.  A route keeps its first place and takes its last endpoint.       *)
Route(e) == <<Item(e).repo, Upper[Item(e).method], Item(e).path>>
Routes == {Route(e) : e \in KeptOf("endpoint")}
Place(route) ==
    CHOOSE i \in DOMAIN merged :
        /\ merged[i] \in KeptOf("endpoint") /\ Route(merged[i]) = route
        /\ \A j \in 1 .. i - 1 : ~(merged[j] \in KeptOf("endpoint") /\ Route(merged[j]) = route)
EndpointOf(route) ==
    LET i == CHOOSE i \in DOMAIN merged :
                 /\ merged[i] \in KeptOf("endpoint") /\ Route(merged[i]) = route
                 /\ \A j \in i + 1 .. Len(merged) :
                       ~(merged[j] \in KeptOf("endpoint") /\ Route(merged[j]) = route)
    IN  Item(merged[i]).id

EndsWith(path, suffix) ==
    /\ Len(suffix) <= Len(path)
    /\ SubSeq(path, Len(path) - Len(suffix) + 1, Len(path)) = suffix

(* Variant: any route that ends like the traced path will do.              *)
SuffixRoutesOfAny(c) ==
    {r \in Routes : r[1] = c.target /\ r[2] = Upper[c.method] /\ EndsWith(r[3], c.path)}

(* Routes whose prefix was not resolved and that end like the traced path. *)
SuffixRoutes(c) ==
    {r \in Routes :
        /\ r[1] = c.target /\ r[2] = Upper[c.method]
        /\ r[3] # <<>> /\ Head(r[3]) \in Placeholders
        /\ EndsWith(r[3], c.path)}

(* Only a connection to a service whose text has the shape of a route.     *)
Traced(c) == c.target # None /\ c.path # None

Linked(c) ==
    LET exact == <<c.target, Upper[c.method], c.path>> IN
    IF exact \in Routes THEN EndpointOf(exact)
    ELSE IF SuffixRoutes(c) = {} THEN None
    ELSE EndpointOf(CHOOSE r \in SuffixRoutes(c) :
                       \A s \in SuffixRoutes(c) : Place(r) <= Place(s))

(* No adapter sets target_endpoint_id: every connection is still to link.  *)
Link ==
    /\ pc = "link"
    /\ pc' = "validate"
    /\ LET linkable == {p \in KeptOf("connection") : Traced(Item(p)) /\ Linked(Item(p)) # None}
       IN  links' = [c \in {Item(p).id : p \in linkable} |->
                       Linked(Item(CHOOSE p \in linkable : Item(p).id = c))]
    /\ UNCHANGED <<registry, report, merging, errors, exit>>

(* Variant: the other end is looked up.                                    *)
DanglingTargets ==
    {p \in KeptOf("connection") : \A s \in KeptOf("service") : Item(s).id # Item(p).target}

(* An unknown source is an error; everything else is a warning.            *)
Dangling == {p \in KeptOf("connection") : \A s \in KeptOf("service") : Item(s).id # Item(p).source}

Validate ==
    /\ pc = "validate"
    /\ pc' = "done"
    /\ errors' = {Item(p).id : p \in Dangling}
    /\ exit' = IF failures = {} /\ errors' = {} THEN 0 ELSE 1
    /\ UNCHANGED <<registry, report, merging, links>>

-----------------------------------------------------------------------------
Next ==
    \/ \E a \in Adapters : Register(a) \/ Unregister(a) \/ Enable(a) \/ Disable(a)
    \/ NothingConfigured \/ RunAll
    \/ \E a \in Adapters : Extract(a) \/ Fail(a)
    \/ AllRan
    \/ MergeItem \/ MergeResult \/ Merged
    \/ Link \/ Validate

Spec == Init /\ [][Next]_vars

-----------------------------------------------------------------------------
TypeOK ==
    /\ registered \in Seq(Adapters) /\ enabled \subseteq Registered
    /\ results \in Seq([adapter : Adapters, items : Seq(Items)])
    /\ \A i \in DOMAIN results : results[i].items \in Outputs[results[i].adapter]
    /\ failures \subseteq Adapters
    /\ at.result \in 1 .. Len(results) + 1
    /\ at.item \in 1 .. (IF at.result \in DOMAIN results THEN Len(results[at.result].items) ELSE 0) + 1
    /\ at = [result |-> at.result, item |-> at.item]
    /\ merged \in Seq(Positions) /\ conflicts \subseteq Positions
    /\ exit \in {None, 0, 1}
    /\ pc \in {"register", "extract", "merge", "link", "validate", "done"}

AfterMerge == pc \in {"link", "validate", "done"}

(* merger.py:74, "on conflict, the higher-priority adapter wins": whatever *)
(* the order of registration, whoever failed and however often an id comes *)
(* back, no kept record gives way to one of a lesser adapter.              *)
WinnersOutrank ==
    \A q \in Kept, p \in Positions :
        Key(p) = Key(q) =>
           Priority[results[p.result].adapter] <= Priority[results[q.result].adapter]

(* One adapter's failure and one id's conflict cost nothing else: of every *)
(* adapter that did not raise, all that it returned has a record under its *)
(* id in what goes on to the graph.                                        *)
NothingIsLost ==
    AfterMerge =>
        \A a \in enabled \ failures :
            \E i \in DOMAIN results :
                /\ results[i].adapter = a
                /\ \A j \in DOMAIN results[i].items :
                      \E q \in Kept : Key(q) = Key([result |-> i, item |-> j])

(* Connections and the services they start from are dropped and replaced   *)
(* together: the validator has nothing to reject, and only a failed        *)
(* adapter makes the command fail.                                         *)
NoDanglingSource ==
    /\ AfterMerge => Dangling = {}
    /\ errors = {}
    /\ exit # 1 \/ failures # {} \/ registered = <<>>
    /\ pc # "done" => exit = None

(* A traced connection is joined to an endpoint of the service it goes to: *)
(* by the very path where there is such an endpoint, else only across a    *)
(* prefix that static analysis left open.                                  *)
LinksAreJustified ==
    \A p \in KeptOf("connection") :
        Item(p).id \in DOMAIN links =>
           \E e \in KeptOf("endpoint") :
              /\ links[Item(p).id] = Item(e).id
              /\ Item(e).repo = Item(p).target
              /\ Upper[Item(e).method] = Upper[Item(p).method]
              /\ \/ Item(e).path = Item(p).path
                 \/ /\ Item(e).path # <<>> /\ Head(Item(e).path) \in Placeholders
                    /\ EndsWith(Item(e).path, Item(p).path)
                    /\ \A x \in KeptOf("endpoint") :
                          Route(x) # <<Item(p).target, Upper[Item(p).method], Item(p).path>>

-----------------------------------------------------------------------------
(* The inductive strengthening.  Adapters run in the order of their        *)
(* priority, and none is left out.                                         *)
OrderInv ==
    /\ \A i, j \in DOMAIN results :
          i <= j => Priority[results[j].adapter] <= Priority[results[i].adapter]
    /\ pc \in {"register", "extract"} =>
          \A i \in DOMAIN results, b \in ToRun : Priority[b] <= Priority[results[i].adapter]
    /\ pc = "register" => results = <<>>
    /\ pc \notin {"register", "extract"} => ToRun = {}

(* What was merged has a record, and the record is the first of its key.   *)
MergeInv ==
    /\ pc \in {"register", "extract"} => merged = <<>> /\ at = [result |-> 1, item |-> 1]
    /\ \A p \in Positions : Before(p, at) => \E q \in Kept : Key(q) = Key(p)
    /\ \A q \in Kept, p \in Positions : Before(p, q) => Key(p) # Key(q)
    /\ \A q \in Kept : Before(q, at)
    /\ AfterMerge => at.result \notin DOMAIN results

(* Nothing is joined before everything is merged.                          *)
LinkInv ==
    /\ LinksAreJustified
    /\ pc \in {"register", "extract", "merge", "link"} => DOMAIN links = {}
=============================================================================
