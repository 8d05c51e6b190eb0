----------------------------- MODULE MCPipeline -----------------------------
(* The three adapters with small results of each.  Traces and a checkout   *)
(* both know the service "orders"; its list route was traced, and was      *)
(* found in the code as it is, under an open prefix, under two, or not at  *)
(* all.                                                                    *)
EXTENDS Pipeline

MCAdapters == {"datadog", "github", "testparser"}
MCPriority == [a \in MCAdapters |->
                 CASE a = "datadog" -> 100 [] a = "github" -> 80 [] OTHER -> 70]
MCUpper == [m \in {"get", "GET", "POST"} |-> IF m = "get" THEN "GET" ELSE m]

Service(id) == [kind |-> "service", id |-> id]
Topic(id) == [kind |-> "kafka_topic", id |-> id]
Artifact(id) == [kind |-> "artifact", id |-> id]
Connection(id, source, target, method, path) ==
    [kind |-> "connection", id |-> id, source |-> source, target |-> target,
     method |-> method, path |-> path]
Endpoint(id, repo, method, path) ==
    [kind |-> "endpoint", id |-> id, repo |-> repo, method |-> method, path |-> path]

billing == Service("billing")
orders == Service("orders")
shop == Service("acme/orders")
list == Connection("c1", "billing", "orders", "GET", <<"items">>)
send == Connection("c2", "billing", "orders", "POST", <<"items">>)
query == Connection("c3", "orders", None, "GET", None)
config == Connection("cfg", "orders", None, "GET", None)
exact == Endpoint("e1", "orders", "GET", <<"items">>)
lower == Endpoint("e2", "orders", "get", <<"items">>)
open == Endpoint("e3", "orders", "GET", <<"<v1>", "items">>)
open2 == Endpoint("e4", "orders", "POST", <<"<v2>", "items">>)
api == Endpoint("e5", "orders", "POST", <<"api", "items">>)
other == Endpoint("e6", "billing", "POST", <<"items">>)
fn == Artifact("fn")
topic == Topic("topic")

MCItems == {billing, orders, shop, list, send, query, config, exact, lower, open, open2, api,
            other, fn, topic}
MCOutputs == [a \in MCAdapters |->
    CASE a = "datadog" -> {<<>>, <<billing, orders, list, send>>, <<orders, query>>}
      [] a = "github" -> {<<shop, fn>>, <<shop, orders, fn, fn>>}
      [] OTHER -> {<<orders, config, exact, lower, fn, topic, topic>>,
                   <<orders, open, exact, api, other>>,
                   <<orders, config, open, open2, fn>>}]
=============================================================================
