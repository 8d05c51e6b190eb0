----------------------------- MODULE TraceRollup -----------------------------
(***************************************************************************)
(* The staged spans of a window, rolled up into services and connections   *)
(* (DatadogParser, TraceParser).  The spans are read one by one, the       *)
(* oldest first; those of one source, target and endpoint fill one bucket, *)
(* and every bucket with enough of them becomes a connection.  Then the    *)
(* service catalog is laid over the services that were seen.               *)
(*                                                                         *)
(* A span has a service, tags, a type, a resource, an operation (its name  *)
(* and the words in it that tell a protocol), a start and an error flag.   *)
(***************************************************************************)
EXTENDS Naturals, FiniteSets

CONSTANTS
    Spans,         \* the spans there may be in the store
    Windows,       \* the sets of them that a window may select
    Catalog,       \* the definitions by service name
    LookbackHours,
    MinSpanCount,
    Now,
    None

ASSUME ConfigOK ==
    /\ LookbackHours \in Nat /\ MinSpanCount \in Nat
    /\ Now \in Nat
    /\ Windows \subseteq SUBSET Spans
    /\ \A s \in Spans : s.start \in Nat

VARIABLES
    window,   \* the spans that read_spans selects
    read,     \* those it has yielded
    seen,     \* when each service was last seen
    buckets,  \* by source, target and endpoint
    services, \* the result
    connections,
    pc

result == <<services, connections>>
vars == <<window, read, seen, buckets, result, pc>>

-----------------------------------------------------------------------------
InfraTypes == {"db", "sql", "postgres", "mysql", "mongodb", "elasticsearch", "cassandra",
               "cache", "redis", "memcached",
               "queue", "kafka", "rabbitmq", "amqp", "sqs", "sns"}
InfraTags == <<"db.instance", "db.name", "messaging.destination", "kafka.topic", "topic",
               "cache.host", "out.host", "peer.hostname">>
HostTags == <<"out.host", "http.host">>

(* The value of the first of these tags that a span has.                   *)
Tagged(s, keys) == {i \in DOMAIN keys : keys[i] \in DOMAIN s.tags}
FirstTag(s, keys) ==
    IF Tagged(s, keys) = {} THEN None
    ELSE s.tags[keys[CHOOSE i \in Tagged(s, keys) : \A j \in Tagged(s, keys) : i <= j]]

IsInfra(s) == "peer.service" \notin DOMAIN s.tags /\ s.type \in InfraTypes

(* RawSpan.resolve_target: whom the span calls, and whether that is a      *)
(* service or a piece of infrastructure.                                   *)
Target(s) ==
    IF "peer.service" \in DOMAIN s.tags THEN s.tags["peer.service"]
    ELSE FirstTag(s, IF IsInfra(s) THEN InfraTags ELSE HostTags)

CallsService(s) == ~IsInfra(s) /\ Target(s) # None

(* A span without a target, or within one service, crosses no edge.        *)
Crosses(s) == Target(s) # None /\ Target(s) # s.service

Endpoint(s) ==
    IF s.resource # "" THEN s.resource
    ELSE IF s.operation.name # "" THEN s.operation.name ELSE "unknown"

Words == <<"http", "grpc", "kafka", "sql">>
Protocol(s) ==
    LET found == {i \in DOMAIN Words : Words[i] \in s.operation.words}
    IN  IF s.type # "" THEN s.type
        ELSE IF found = {} THEN "unknown"
        ELSE Words[CHOOSE i \in found : \A j \in found : i <= j]

Key(s) == <<s.service, Target(s), Endpoint(s)>>

-----------------------------------------------------------------------------
Later(m, n) == IF m < n THEN n ELSE m
Earlier(m, n) == IF n < m THEN n ELSE m

(* The services that a span shows to be alive.                             *)
Witnessed(s) == {s.service} \cup (IF Crosses(s) /\ CallsService(s) THEN {Target(s)} ELSE {})

(* Variant: the other end of a call is not remembered.                     *)
RememberSource(s) ==
    [id \in DOMAIN seen \cup {s.service} |->
        IF id \notin DOMAIN seen THEN s.start
        ELSE IF id = s.service THEN Later(seen[id], s.start) ELSE seen[id]]

Remember(s) ==
    [id \in DOMAIN seen \cup Witnessed(s) |->
        IF id \notin DOMAIN seen THEN s.start
        ELSE IF id \in Witnessed(s) THEN Later(seen[id], s.start) ELSE seen[id]]

NewBucket(s) ==
    [protocol |-> Protocol(s), isService |-> CallsService(s),
     count |-> 0, errors |-> 0, first |-> s.start, last |-> s.start]

Counted(b, s) ==
    [b EXCEPT !.count = @ + 1,
              !.errors = @ + (IF s.error THEN 1 ELSE 0),
              !.first = Earlier(@, s.start),
              !.last = Later(@, s.start)]

(* Variant: the span that opens a bucket is not counted in it.             *)
BucketWithoutFirst(s) ==
    IF Key(s) \in DOMAIN buckets THEN Counted(buckets[Key(s)], s) ELSE NewBucket(s)

Bucket(s) ==
    Counted(IF Key(s) \in DOMAIN buckets THEN buckets[Key(s)] ELSE NewBucket(s), s)

Fill(s) ==
    [k \in DOMAIN buckets \cup {Key(s)} |-> IF k = Key(s) THEN Bucket(s) ELSE buckets[k]]

Init ==
    /\ window \in Windows
    /\ read = {}
    /\ seen = [id \in {} |-> 0]
    /\ buckets = [k \in {} |-> 0]
    /\ services = {} /\ connections = {}
    /\ pc = "read"

(* ORDER BY start; which of several that start together comes first is     *)
(* the store's business.                                                   *)
Read(s) ==
    /\ pc = "read"
    /\ s \in window \ read
    /\ \A t \in window \ read : s.start <= t.start
    /\ read' = read \cup {s}
    /\ seen' = Remember(s)
    /\ buckets' = IF Crosses(s) THEN Fill(s) ELSE buckets
    /\ UNCHANGED <<window, result, pc>>

-----------------------------------------------------------------------------
Minutes == Later(1, 60 * LookbackHours)

(* An error rate of five percent or more, or a hundred calls a minute.     *)
Criticality(b) ==
    IF b.count >= 100 * Minutes \/ 20 * b.errors >= b.count THEN "critical"
    ELSE IF b.count >= 10 * Minutes THEN "high"
    ELSE IF b.count >= Minutes THEN "medium"
    ELSE "low"

(* The frequency is the count over the minutes of the window.              *)
Connection(k) ==
    LET b == buckets[k]
    IN  [id |-> k, source |-> k[1], target |-> IF b.isService THEN k[2] ELSE None,
         name |-> k[2], endpoint |-> k[3],
         type |-> IF b.protocol = "https" THEN "http" ELSE b.protocol,
         protocol |-> b.protocol, count |-> b.count, errors |-> b.errors,
         criticality |-> Criticality(b), first |-> b.first, last |-> b.last]

(* merge_catalog_into_services: what was seen is active and takes the      *)
(* metadata of its definition, what is only defined is inactive.           *)
Defined(id) == IF id \in DOMAIN Catalog THEN Catalog[id] ELSE None
Overlaid ==
    {[id |-> id, active |-> TRUE, last |-> seen[id], meta |-> Defined(id)] : id \in DOMAIN seen}
    \cup {[id |-> id, active |-> FALSE, last |-> Now, meta |-> Defined(id)] :
             id \in DOMAIN Catalog \ DOMAIN seen}

Roll ==
    /\ pc = "read"
    /\ read = window
    /\ services' = Overlaid
    /\ connections' = {Connection(k) : k \in {l \in DOMAIN buckets : buckets[l].count >= MinSpanCount}}
    /\ pc' = "done"
    /\ UNCHANGED <<window, read, seen, buckets>>

Next == Roll \/ \E s \in Spans : Read(s)

Spec == Init /\ [][Next]_vars

-----------------------------------------------------------------------------
Names == {s.service : s \in Spans} \cup {Target(s) : s \in Spans}
BucketType ==
    [protocol : {Protocol(s) : s \in Spans}, isService : BOOLEAN,
     count : Nat, errors : Nat, first : Nat, last : Nat]

TypeOK ==
    /\ window \subseteq Spans /\ read \subseteq window
    /\ DOMAIN seen \subseteq Names /\ \A id \in DOMAIN seen : seen[id] \in Nat
    /\ DOMAIN buckets \subseteq {Key(s) : s \in Spans}
    /\ \A k \in DOMAIN buckets : buckets[k] \in BucketType
    /\ pc \in {"read", "done"}

(* The spans of a bucket among those that were read.                       *)
Group(k) == {s \in read : Crosses(s) /\ Key(s) = k}

(* Every bucket is what its spans say as a set, in whatever order they     *)
(* came: none is missing, it counts every span and every error once and    *)
(* spans exactly from the first to the last of them; only what cannot be   *)
(* read off the set, its protocol and the kind of its target, is that of   *)
(* one of its oldest spans.                                                *)
RollupIsFaithful ==
    /\ DOMAIN buckets = {Key(s) : s \in {t \in read : Crosses(t)}}
    /\ \A k \in DOMAIN buckets :
          LET b == buckets[k]
          IN  /\ b.count = Cardinality(Group(k))
              /\ b.errors = Cardinality({s \in Group(k) : s.error})
              /\ \A s \in Group(k) : b.first <= s.start /\ s.start <= b.last
              /\ \E s \in Group(k) : s.start = b.last
              /\ \E s \in Group(k) :
                    s.start = b.first /\ b.protocol = Protocol(s) /\ b.isService = CallsService(s)

(* The result is closed: a connection starts from a service of the result  *)
(* that was alive when the connection was last used, and goes to one or to *)
(* none; a service is active exactly when some span of the window          *)
(* witnesses it, so that neither a database nor a catalog entry passes for *)
(* a living service.                                                       *)
EndsAreServices ==
    pc = "done" =>
       /\ \A c \in connections :
             /\ \E v \in services : v.id = c.source /\ v.active /\ c.last <= v.last
             /\ c.target # None =>
                   \E v \in services : v.id = c.target /\ v.active /\ c.first <= v.last
       /\ {v.id : v \in {w \in services : w.active}} = UNION {Witnessed(s) : s \in window}
       /\ \A v, w \in services : v.id = w.id => v = w

-----------------------------------------------------------------------------
(* The inductive strengthening of these.  The store yields no span before  *)
(* an older one, and what a service was last seen at is no earlier than    *)
(* any span that witnesses it.                                             *)
ReadInOrder ==
    /\ IsFiniteSet(read)
    /\ \A s \in read, t \in window \ read : s.start <= t.start

SeenIsLatest ==
    /\ DOMAIN seen = UNION {Witnessed(s) : s \in read}
    /\ \A s \in read : \A id \in Witnessed(s) : s.start <= seen[id]

RollupInv ==
    /\ TypeOK
    /\ ReadInOrder
    /\ SeenIsLatest
    /\ RollupIsFaithful
=============================================================================
