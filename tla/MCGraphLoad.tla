---------------------------- MODULE MCGraphLoad ----------------------------
(* Two results of the pipeline for TLC: a full one, and a partial one from *)
(* a run in which a repository was skipped.                                *)
EXTENDS GraphLoad

A1 == [label |-> "CodeArtifact", id |-> 1]
A2 == [label |-> "CodeArtifact", id |-> 2]
A3 == [label |-> "CodeArtifact", id |-> 3]
P == [label |-> "Endpoint", id |-> 1]

Node(k, v) == [key |-> k, props |-> v]
Link(a, rel, b) == [from |-> a, rel |-> rel, to |-> b]
Guess(a, b, c) == [edge |-> Link(a, "CALLS", b), confidence |-> c]

MCNodes == [r \in {"full", "partial"} |->
    IF r = "full" THEN {Node(A1, 1), Node(A2, 1), Node(A3, 1), Node(P, 1)} ELSE {Node(A1, 2)}]

(* The partial result has an artifact that calls one it does not hold.     *)
MCLinks == [r \in {"full", "partial"} |->
    IF r = "full" THEN {Link(P, "HANDLED_BY", A2), Link(A1, "CALLS", A2), Link(A3, "CALLS", A2)}
                  ELSE {Link(A1, "CALLS", A2)}]

(* The LLM is asked about another call from A1 to A2, and one from A2.     *)
MCSuggestions == [r \in {"full", "partial"} |->
    IF r = "full" THEN {Guess(A1, A2, 8), Guess(A2, A1, 6)} ELSE {Guess(A1, A2, 7)}]
=============================================================================
