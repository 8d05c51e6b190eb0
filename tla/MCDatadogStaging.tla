------------------------- MODULE MCDatadogStaging -------------------------
(* Two spans of production and one of staging, and one service whose       *)
(* catalog entry may change.                                               *)
EXTENDS DatadogStaging, TLC

CONSTANTS p1, p2, s1, prod, staging, v1, v2

MCEnvOf == [s \in Spans |-> IF s = s1 THEN staging ELSE prod]

(* The production spans are interchangeable, and so are the values of a    *)
(* catalog entry.                                                          *)
Interchangeable == Permutations({p1, p2}) \cup Permutations({v1, v2})

(* The two halves of the store have only the schema and the clock in       *)
(* common: in one behaviour services are called or the catalog changes.    *)
(* A shorter window is asked for only with the env of `run`.               *)
Bounded ==
    /\ started = Empty \/ (registry = Empty /\ catalog = Empty /\ changed = [svc \in Services |-> 0])
    /\ window = Lookback \/ env = DDEnv
=============================================================================
