---------------------------- MODULE IngestLedger ----------------------------
(***************************************************************************)
(* What incremental ingestion promises: the column last_ingested_sha is a  *)
(* ledger.  An entry names a commit that upstream has reached, it advances *)
(* only, and the content ingested under it is the content of that commit.  *)
(***************************************************************************)
EXTENDS Naturals

CONSTANT Repos

VARIABLES
    upstream,  \* the newest commit of each repository
    ledger,    \* the commit each repository is marked as ingested at, or 0
    content    \* the commit whose tree was ingested under that mark

vars == <<upstream, ledger, content>>

Init ==
    /\ upstream \in [Repos -> Nat \ {0}]
    /\ ledger = [r \in Repos |-> 0]
    /\ content = [r \in Repos |-> 0]

Advance(r) ==
    /\ upstream'[r] \in Nat /\ upstream'[r] > upstream[r]
    /\ upstream' = [upstream EXCEPT ![r] = upstream'[r]]
    /\ UNCHANGED <<ledger, content>>

Mark(r) ==
    /\ \E c \in ledger[r] .. upstream[r] :
          /\ ledger' = [ledger EXCEPT ![r] = c]
          /\ content' = [content EXCEPT ![r] = c]
    /\ UNCHANGED upstream

Forget(r) ==
    /\ ledger' = [ledger EXCEPT ![r] = 0]
    /\ content' = [content EXCEPT ![r] = 0]
    /\ UNCHANGED upstream

Next == \E r \in Repos : Advance(r) \/ Mark(r) \/ Forget(r)

Spec == Init /\ [][Next]_vars
=============================================================================
