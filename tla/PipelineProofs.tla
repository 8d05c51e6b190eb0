---------------------------- MODULE PipelineProofs ----------------------------
(***************************************************************************)
(* Theorems about Pipeline for every set of adapters, priorities and       *)
(* results.                                                                *)
(***************************************************************************)
EXTENDS Pipeline, NaturalLemmas, TLAPS

(* A position is a place in a result.                                      *)
IsPlace(p) ==
  /\ p = [result |-> p.result, item |-> p.item]
  /\ p.result \in DOMAIN results
  /\ p.item \in DOMAIN results[p.result].items

LEMMA InPositions == \A p : p \in Positions <=> IsPlace(p)
<1> TAKE p
<1> USE DEF IsPlace
<1>1. ASSUME p \in Positions
      PROVE  /\ p = [result |-> p.result, item |-> p.item]
             /\ p.result \in DOMAIN results
             /\ p.item \in DOMAIN results[p.result].items
  <2>1. PICK i \in DOMAIN results :
           p \in {[result |-> i, item |-> j] : j \in DOMAIN results[i].items}
    BY <1>1 DEF Positions
  <2>2. PICK j \in DOMAIN results[i].items : p = [result |-> i, item |-> j]
    BY <2>1
  <2> QED
    BY <2>2
<1>2. ASSUME p = [result |-> p.result, item |-> p.item],
             p.result \in DOMAIN results, p.item \in DOMAIN results[p.result].items
      PROVE  p \in Positions
  <2> DEFINE S(i) == {[result |-> i, item |-> j] : j \in DOMAIN results[i].items}
  <2>1. p \in S(p.result)
    BY <1>2
  <2>2. S(p.result) \in {S(i) : i \in DOMAIN results}
    BY <1>2
  <2> QED
    BY <2>1, <2>2 DEF Positions
<1> QED
  BY <1>1, <1>2

LEMMA InPositionsNext == (\A p : p \in Positions <=> IsPlace(p))'
BY InPositions, PTL

LEMMA SamePositions ==
  ASSUME UNCHANGED results
  PROVE  /\ Positions' = Positions
         /\ \A p : Item(p)' = Item(p)
         /\ \A p : Key(p)' = Key(p)
BY DEF Positions, Item, Key

(* A result more leaves the positions there are where they are.            *)
LEMMA MorePositions ==
  ASSUME TypeOK, NEW a, NEW r, results' = Append(results, [adapter |-> a, items |-> r])
  PROVE  Positions \subseteq Positions'
<1> SUFFICES ASSUME NEW p \in Positions PROVE p \in Positions'
  OBVIOUS
<1>1. results \in Seq([adapter : Adapters, items : Seq(Items)])
  BY DEF TypeOK
<1>2. /\ DOMAIN results \subseteq DOMAIN results'
      /\ \A i \in DOMAIN results : results'[i] = results[i]
  BY <1>1
<1>3. /\ p = [result |-> p.result, item |-> p.item]
      /\ p.result \in DOMAIN results'
      /\ p.item \in DOMAIN results'[p.result].items
  BY <1>2, InPositions DEF IsPlace
<1> QED
  BY <1>3, InPositionsNext DEF IsPlace

-----------------------------------------------------------------------------
(* Type correctness.                                                       *)
LEMMA InitTypeOK == Init => TypeOK
<1> SUFFICES ASSUME Init PROVE TypeOK
  OBVIOUS
<1> QED
  BY DEF Init, TypeOK, Registered

LEMMA RegistryTypeOK ==
  ASSUME TypeOK, NEW a \in Adapters, Register(a) \/ Unregister(a) \/ Enable(a) \/ Disable(a)
  PROVE  TypeOK'
<1> USE DEF TypeOK, report, merging, Registered
<1>0. UNCHANGED results
  BY DEF Register, Unregister, Enable, Disable
<1>1. Positions' = Positions
  BY <1>0, SamePositions
<1>2. CASE Register(a)
  <2>1. /\ registered' \in Seq(Adapters)
        /\ DOMAIN registered' = 1 .. Len(registered) + 1
        /\ \A i \in DOMAIN registered : registered'[i] = registered[i]
        /\ registered'[Len(registered) + 1] = a
    BY <1>2 DEF Register
  <2>2. enabled' \subseteq Registered'
    <3> SUFFICES ASSUME NEW b \in enabled' PROVE b \in Registered'
      OBVIOUS
    <3>1. Len(registered) \in Nat /\ DOMAIN registered = 1 .. Len(registered)
      OBVIOUS
    <3>2. CASE b = a
      <4>1. Len(registered) + 1 \in DOMAIN registered'
        BY <2>1, <3>1
      <4> QED
        BY <2>1, <3>2, <4>1
    <3>3. CASE b \in enabled
      <4>1. PICK i \in DOMAIN registered : registered[i] = b
        BY <3>3
      <4> QED
        BY <2>1, <3>1, <4>1
    <3> QED
      BY <1>2, <3>2, <3>3 DEF Register
  <2> QED
    BY <1>1, <1>2, <2>1, <2>2 DEF Register
<1>3. CASE Unregister(a)
  <2>1. PICK i \in DOMAIN registered :
           /\ registered[i] = a
           /\ registered' = [j \in 1 .. Len(registered) - 1 |->
                                registered[IF j < i THEN j ELSE j + 1]]
    BY <1>3 DEF Unregister
  <2>2. Len(registered) \in Nat /\ DOMAIN registered = 1 .. Len(registered)
    OBVIOUS
  <2>3. \A j \in 1 .. Len(registered) - 1 : registered'[j] \in Adapters
    BY <2>1, <2>2
  <2>4. registered' \in Seq(Adapters)
    BY <2>1, <2>2, <2>3
  <2>5. ASSUME NEW b \in enabled, b # a
        PROVE  b \in Registered'
    <3>1. PICK j \in DOMAIN registered : registered[j] = b
      OBVIOUS
    <3>2. j # i
      BY <2>1, <2>5, <3>1
    <3>3. CASE j < i
      BY <2>1, <2>2, <3>1, <3>3
    <3>4. CASE j > i
      <4>1. j - 1 \in 1 .. Len(registered) - 1 /\ ~(j - 1 < i) /\ j - 1 + 1 = j
        BY <2>2, <3>4
      <4>2. registered'[j - 1] = b
        BY <2>1, <3>1, <4>1
      <4> QED
        BY <2>1, <4>1, <4>2
    <3> QED
      BY <2>2, <3>2, <3>3, <3>4
  <2> QED
    BY <1>1, <1>3, <2>4, <2>5 DEF Unregister
<1>4. CASE Enable(a)
  BY <1>1, <1>4 DEF Enable
<1>5. CASE Disable(a)
  BY <1>1, <1>5 DEF Disable
<1> QED
  BY <1>2, <1>3, <1>4, <1>5

LEMMA ExtractTypeOK ==
  ASSUME TypeOK, NEW a \in Adapters, Extract(a)
  PROVE  TypeOK'
<1> USE DEF TypeOK, registry, merging
<1>1. PICK r \in Outputs[a] : results' = Append(results, [adapter |-> a, items |-> r])
  BY DEF Extract
<1>2. r \in Seq(Items)
  BY AdaptersOK
<1>3. results \in Seq([adapter : Adapters, items : Seq(Items)])
  OBVIOUS
<1>4. [adapter |-> a, items |-> r] \in [adapter : Adapters, items : Seq(Items)]
  BY <1>2
<1>5. /\ results' \in Seq([adapter : Adapters, items : Seq(Items)])
      /\ DOMAIN results = 1 .. Len(results) /\ Len(results) \in Nat
      /\ Len(results') = Len(results) + 1
      /\ DOMAIN results' = 1 .. Len(results) + 1
      /\ \A i \in DOMAIN results : results'[i] = results[i]
      /\ results'[Len(results) + 1] = [adapter |-> a, items |-> r]
  BY <1>1, <1>3, <1>4
<1>6. \A i \in DOMAIN results' : results'[i].items \in Outputs[results'[i].adapter]
  <2> SUFFICES ASSUME NEW i \in DOMAIN results'
               PROVE  results'[i].items \in Outputs[results'[i].adapter]
    OBVIOUS
  <2>1. CASE i \in DOMAIN results
    BY <1>5, <2>1
  <2>2. CASE i = Len(results) + 1
    BY <1>1, <1>5, <2>2
  <2> QED
    BY <1>5, <2>1, <2>2
<1>7. merged' \in Seq(Positions') /\ conflicts' \subseteq Positions'
  BY <1>1, MorePositions DEF Extract
<1>8. /\ at'.result \in 1 .. Len(results') + 1
      /\ at' = [result |-> at'.result, item |-> at'.item]
  BY <1>5 DEF Extract
<1>9. at'.item \in 1 .. (IF at'.result \in DOMAIN results' THEN Len(results'[at'.result].items) ELSE 0) + 1
  <2>1. at' = at
    BY DEF Extract
  <2>2. CASE at.result \in DOMAIN results
    BY <1>5, <2>1, <2>2
  <2>3. CASE at.result \notin DOMAIN results
    <3>1. at.result = Len(results) + 1 /\ at.item = 1
      BY <1>5, <2>3
    <3>2. Len(results'[at.result].items) \in Nat
      BY <1>2, <1>5, <3>1
    <3> QED
      BY <1>5, <2>1, <3>1, <3>2
  <2> QED
    BY <2>2, <2>3
<1>10. registered' = registered /\ enabled' = enabled /\ failures' = failures /\ exit' = exit /\ pc' = pc
  BY DEF Extract
<1>11. enabled' \subseteq Registered'
  BY <1>10 DEF Registered
<1> QED
  BY <1>5, <1>6, <1>7, <1>8, <1>9, <1>10, <1>11

LEMMA MergeTypeOK ==
  ASSUME TypeOK, MergeItem \/ MergeResult
  PROVE  TypeOK'
<1> USE DEF TypeOK, registry, report
<1>0. UNCHANGED <<registered, enabled, results, failures, exit, pc>>
  BY DEF MergeItem, MergeResult
<1>1. Positions' = Positions /\ Registered' = Registered
  BY <1>0, SamePositions DEF Registered
<1>2. Len(results) \in Nat /\ DOMAIN results = 1 .. Len(results)
  OBVIOUS
<1>3. \A i \in DOMAIN results : Len(results[i].items) \in Nat
                              /\ DOMAIN results[i].items = 1 .. Len(results[i].items)
  OBVIOUS
<1>4. CASE MergeItem
  <2>1. /\ at.result \in DOMAIN results /\ at.item \in 1 .. Len(results[at.result].items)
    BY <1>3, <1>4, InPositions DEF MergeItem, IsPlace
  <2>2. at' = [result |-> at.result, item |-> at.item + 1]
    BY <1>4 DEF MergeItem
  <2>3. at'.item \in 1 .. Len(results[at.result].items) + 1
    BY <1>3, <2>1, <2>2
  <2>4. merged' \in Seq(Positions) /\ conflicts' \subseteq Positions
    <3>1. /\ at \in Positions
          /\ merged' = merged \/ merged' = Append(merged, at)
          /\ conflicts' = conflicts \/ conflicts' = conflicts \cup {at}
      BY <1>4 DEF MergeItem
    <3>2. merged \in Seq(Positions) /\ conflicts \subseteq Positions
      OBVIOUS
    <3>3. Append(merged, at) \in Seq(Positions)
      BY <3>1, <3>2
    <3> QED
      BY <3>1, <3>2, <3>3
  <2> QED
    BY <1>0, <1>1, <2>1, <2>2, <2>3, <2>4
<1>5. CASE MergeResult
  <2>1. at' = [result |-> at.result + 1, item |-> 1] /\ at.result \in DOMAIN results
    BY <1>5 DEF MergeResult
  <2>2. at'.result \in 1 .. Len(results) + 1
    BY <1>2, <2>1
  <2>3. at'.item \in 1 .. (IF at'.result \in DOMAIN results THEN Len(results[at'.result].items) ELSE 0) + 1
    BY <1>3, <2>1
  <2>4. merged' = merged /\ conflicts' = conflicts
    BY <1>5 DEF MergeResult
  <2> QED
    BY <1>0, <1>1, <2>1, <2>2, <2>3, <2>4
<1> QED
  BY <1>4, <1>5

LEMMA RestTypeOK ==
  ASSUME TypeOK,
         \/ \E a \in Adapters : Fail(a)
         \/ NothingConfigured \/ RunAll \/ AllRan \/ Merged \/ Link \/ Validate
         \/ UNCHANGED vars
  PROVE  TypeOK'
<1> USE DEF TypeOK, registry, report, merging, vars
<1>1. UNCHANGED <<registered, enabled, results, at, merged, conflicts>>
  BY DEF Fail, NothingConfigured, RunAll, AllRan, Merged, Link, Validate
<1>2. Positions' = Positions /\ Registered' = Registered
  BY <1>1, SamePositions DEF Registered
<1>3. failures' \subseteq Adapters
  BY DEF Fail, NothingConfigured, RunAll, AllRan, Merged, Link, Validate
<1>4. exit' \in {None, 0, 1}
  BY DEF Fail, NothingConfigured, RunAll, AllRan, Merged, Link, Validate
<1>5. pc' \in {"register", "extract", "merge", "link", "validate", "done"}
  BY DEF Fail, NothingConfigured, RunAll, AllRan, Merged, Link, Validate
<1> QED
  BY <1>1, <1>2, <1>3, <1>4, <1>5

LEMMA NextTypeOK == TypeOK /\ [Next]_vars => TypeOK'
<1> SUFFICES ASSUME TypeOK, [Next]_vars PROVE TypeOK'
  OBVIOUS
<1> QED
  BY RegistryTypeOK, ExtractTypeOK, MergeTypeOK, RestTypeOK DEF Next

(* Whatever adapters there are and whatever they return, the run is well   *)
(* typed: the merge never leaves the results.                              *)
THEOREM TypeCorrect == Spec => []TypeOK
BY InitTypeOK, NextTypeOK, PTL DEF Spec

-----------------------------------------------------------------------------
(* The order of the runs.                                                  *)
LEMMA RegistryOrderInv ==
  ASSUME TypeOK, OrderInv, NEW a \in Adapters,
         Register(a) \/ Unregister(a) \/ Enable(a) \/ Disable(a)
  PROVE  OrderInv'
<1>1. results = <<>> /\ results' = <<>> /\ pc' = pc /\ pc = "register"
  BY DEF OrderInv, Register, Unregister, Enable, Disable, report
<1> QED
  BY <1>1 DEF OrderInv

LEMMA ExtractOrderInv ==
  ASSUME TypeOK, OrderInv, NEW a \in Adapters, Extract(a)
  PROVE  OrderInv'
<1>1. PICK r \in Outputs[a] : results' = Append(results, [adapter |-> a, items |-> r])
  BY DEF Extract
<1>2. /\ DOMAIN results = 1 .. Len(results) /\ Len(results) \in Nat
      /\ DOMAIN results' = 1 .. Len(results) + 1
      /\ \A i \in DOMAIN results : results'[i] = results[i]
      /\ results'[Len(results) + 1] = [adapter |-> a, items |-> r]
  BY <1>1 DEF TypeOK
<1>3. /\ a \in ToRun /\ \A b \in ToRun : Priority[b] <= Priority[a]
      /\ pc = "extract" /\ pc' = "extract" /\ failures' = failures /\ enabled' = enabled
  BY DEF Extract, RunsNext, registry
<1>4. ToRun' \subseteq ToRun
  BY <1>2, <1>3 DEF ToRun, Ran
<1>5. \A i \in DOMAIN results : Priority[a] <= Priority[results[i].adapter]
  BY <1>3 DEF OrderInv
<1>6. Priority[a] \in Nat
  BY AdaptersOK
<1>7. ASSUME NEW i \in DOMAIN results', NEW j \in DOMAIN results', i <= j
      PROVE  Priority[results'[j].adapter] <= Priority[results'[i].adapter]
  <2>1. CASE j \in DOMAIN results
    <3>1. i \in DOMAIN results
      BY <1>2, <1>7, <2>1
    <3> QED
      BY <1>2, <1>7, <2>1, <3>1 DEF OrderInv
  <2>2. CASE j = Len(results) + 1 /\ i \in DOMAIN results
    BY <1>2, <1>5, <2>2
  <2>3. CASE j = Len(results) + 1 /\ i = Len(results) + 1
    BY <1>2, <1>6, <2>3
  <2> QED
    BY <1>2, <1>7, <2>1, <2>2, <2>3
<1>8. ASSUME NEW i \in DOMAIN results', NEW b \in ToRun'
      PROVE  Priority[b] <= Priority[results'[i].adapter]
  <2>1. CASE i \in DOMAIN results
    BY <1>2, <1>3, <1>4, <2>1 DEF OrderInv
  <2>2. CASE i = Len(results) + 1
    BY <1>2, <1>3, <1>4, <2>2
  <2> QED
    BY <1>2, <2>1, <2>2
<1> QED
  BY <1>3, <1>7, <1>8 DEF OrderInv

LEMMA RestOrderInv ==
  ASSUME TypeOK, OrderInv,
         \/ \E a \in Adapters : Fail(a)
         \/ NothingConfigured \/ RunAll \/ AllRan
         \/ MergeItem \/ MergeResult \/ Merged \/ Link \/ Validate
         \/ UNCHANGED vars
  PROVE  OrderInv'
<1>1. /\ results' = results /\ enabled' = enabled
      /\ failures \subseteq failures'
      /\ pc' # pc =>
            \/ pc = "register" /\ registered = <<>> /\ pc' = "done"
            \/ pc = "register" /\ pc' = "extract"
            \/ pc = "extract" /\ ToRun = {}
            \/ pc \notin {"register", "extract"} /\ pc' \notin {"register", "extract"}
  BY DEF Fail, NothingConfigured, RunAll, AllRan, MergeItem, MergeResult, Merged, Link, Validate,
         registry, report, vars
<1>2. ToRun' \subseteq ToRun
  BY <1>1 DEF ToRun, Ran
<1>3. registered = <<>> => ToRun = {}
  BY DEF TypeOK, Registered, ToRun
<1>4. pc' \notin {"register", "extract"} => ToRun' = {}
  BY <1>1, <1>2, <1>3 DEF OrderInv
<1>5. pc' \in {"register", "extract"} => pc \in {"register", "extract"}
  <2>1. /\ pc = "extract" /\ pc' # pc => pc' = "merge"
    BY DEF Fail, NothingConfigured, RunAll, AllRan, MergeItem, MergeResult, Merged, Link, Validate,
           vars
  <2> QED
    BY <1>1, <2>1
<1>6. pc' = "register" => pc = "register"
  <2>1. pc' # pc => pc' # "register"
    BY DEF Fail, NothingConfigured, RunAll, AllRan, MergeItem, MergeResult, Merged, Link, Validate,
           vars
  <2> QED
    BY <2>1
<1> QED
  BY <1>1, <1>2, <1>4, <1>5, <1>6 DEF OrderInv

LEMMA NextOrderInv == TypeOK /\ OrderInv /\ [Next]_vars => OrderInv'
<1> SUFFICES ASSUME TypeOK, OrderInv, [Next]_vars PROVE OrderInv'
  OBVIOUS
<1> QED
  BY RegistryOrderInv, ExtractOrderInv, RestOrderInv DEF Next

-----------------------------------------------------------------------------
(* The merge.                                                              *)
LEMMA ElementOfSeq ==
  ASSUME NEW S, NEW s \in Seq(S), NEW i \in DOMAIN s
  PROVE  s[i] \in S
OBVIOUS

LEMMA ResultItems ==
  ASSUME TypeOK, NEW i \in DOMAIN results
  PROVE  results[i].items \in Seq(Items)
<1>1. /\ results \in Seq([adapter : Adapters, items : Seq(Items)])
  BY DEF TypeOK
<1>2. results[i] \in [adapter : Adapters, items : Seq(Items)]
  BY <1>1, ElementOfSeq, Zenon
<1> QED
  BY <1>2

LEMMA PlaceTypes ==
  ASSUME TypeOK, NEW p \in Positions
  PROVE  /\ p.result \in Nat \ {0} /\ p.item \in Nat \ {0}
         /\ p = [result |-> p.result, item |-> p.item]
         /\ p.result \in 1 .. Len(results) /\ p.item \in 1 .. Len(results[p.result].items)
<1>1. IsPlace(p)
  BY InPositions
<1>2. results \in Seq([adapter : Adapters, items : Seq(Items)])
  BY DEF TypeOK
<1>3. results[p.result].items \in Seq(Items)
  BY <1>1, ResultItems DEF IsPlace
<1> QED
  BY <1>1, <1>2, <1>3 DEF IsPlace

LEMMA ExtractMergeInv ==
  ASSUME TypeOK, TypeOK', MergeInv, NEW a \in Adapters, Extract(a)
  PROVE  MergeInv'
<1>1. /\ merged' = <<>> /\ at' = [result |-> 1, item |-> 1] /\ pc' = "extract"
  BY DEF Extract, MergeInv, merging
<1>2. Kept' = {}
  BY <1>1 DEF Kept
<1>3. ASSUME NEW p \in Positions' PROVE ~Before(p, at')
  <2>1. p.result \in Nat \ {0} /\ p.item \in Nat \ {0}
    <3>1. IsPlace(p)'
      BY InPositionsNext
    <3>2. results' \in Seq([adapter : Adapters, items : Seq(Items)])
      BY DEF TypeOK
    <3>3. p.result \in DOMAIN results' /\ p.item \in DOMAIN results'[p.result].items
      BY <3>1 DEF IsPlace
    <3>4. results'[p.result] \in [adapter : Adapters, items : Seq(Items)]
      BY <3>2, <3>3, ElementOfSeq, Zenon
    <3>5. results'[p.result].items \in Seq(Items)
      BY <3>4
    <3> QED
      BY <3>2, <3>3, <3>5
  <2> QED
    BY <1>1, <2>1 DEF Before
<1> QED
  BY <1>1, <1>2, <1>3 DEF MergeInv, AfterMerge

LEMMA ItemMergeInv ==
  ASSUME TypeOK, MergeInv, MergeItem
  PROVE  MergeInv'
<1>1. /\ pc = "merge" /\ pc' = "merge" /\ at \in Positions
      /\ UNCHANGED results
      /\ at' = [result |-> at.result, item |-> at.item + 1]
  BY DEF MergeItem, report, TypeOK
<1>2. /\ Positions' = Positions /\ \A p : Item(p)' = Item(p) /\ Key(p)' = Key(p)
  BY <1>1, SamePositions
<1>3. /\ at.result \in Nat /\ at.item \in Nat
      /\ \A p \in Positions : p.result \in Nat /\ p.item \in Nat
                          /\ p = [result |-> p.result, item |-> p.item]
      /\ at = [result |-> at.result, item |-> at.item]
  BY <1>1, PlaceTypes
<1>4. \A p \in Positions : Before(p, at') <=> Before(p, at) \/ p = at
  BY <1>1, <1>3 DEF Before
<1>5. \/ (\E q \in Kept : Key(q) = Key(at)) /\ merged' = merged
      \/ (\A q \in Kept : Key(q) # Key(at)) /\ merged' = Append(merged, at)
  BY DEF MergeItem
<1>6. merged \in Seq(Positions) /\ Kept \subseteq Positions
  BY DEF TypeOK, Kept
<1>7. CASE (\E q \in Kept : Key(q) = Key(at)) /\ merged' = merged
  <2>1. Kept' = Kept
    BY <1>7 DEF Kept
  <2>2. \A p \in Positions' : Before(p, at)' => \E q \in Kept' : Key(q)' = Key(p)'
    BY <1>2, <1>4, <1>7, <2>1 DEF MergeInv, Before
  <2>3. \A q \in Kept', p \in Positions' : Before(p, q)' => Key(p)' # Key(q)'
    BY <1>2, <2>1 DEF MergeInv, Before
  <2>4. \A q \in Kept' : Before(q, at)'
    BY <1>4, <1>6, <2>1 DEF MergeInv, Before
  <2> QED
    BY <1>1, <2>2, <2>3, <2>4 DEF MergeInv, AfterMerge
<1>8. CASE (\A q \in Kept : Key(q) # Key(at)) /\ merged' = Append(merged, at)
  <2>1. Kept' = Kept \cup {at}
    <3>1. /\ DOMAIN merged = 1 .. Len(merged) /\ Len(merged) \in Nat
          /\ DOMAIN merged' = 1 .. Len(merged) + 1
          /\ \A i \in DOMAIN merged : merged'[i] = merged[i]
          /\ merged'[Len(merged) + 1] = at
      BY <1>1, <1>6, <1>8
    <3>2. Len(merged) + 1 \in DOMAIN merged'
      BY <3>1
    <3>3. Kept' \subseteq Kept \cup {at}
      BY <3>1 DEF Kept
    <3>4. Kept \cup {at} \subseteq Kept'
      BY <3>1, <3>2 DEF Kept
    <3> QED
      BY <3>3, <3>4
  <2>2. \A p \in Positions' : Before(p, at)' => \E q \in Kept' : Key(q)' = Key(p)'
    BY <1>2, <1>4, <2>1 DEF MergeInv, Before
  <2>3. \A q \in Kept', p \in Positions' : Before(p, q)' => Key(p)' # Key(q)'
    <3> SUFFICES ASSUME NEW q \in Kept', NEW p \in Positions, Before(p, q)
                 PROVE  Key(p) # Key(q)
      BY <1>2 DEF Before
    <3>1. CASE q \in Kept
      BY <3>1 DEF MergeInv
    <3>2. CASE q = at
      <4>1. PICK r \in Kept : Key(r) = Key(p)
        BY <3>2 DEF MergeInv
      <4> QED
        BY <1>8, <3>2, <4>1
    <3> QED
      BY <2>1, <3>1, <3>2
  <2>4. \A q \in Kept' : Before(q, at)'
    BY <1>1, <1>4, <1>6, <2>1 DEF MergeInv, Before
  <2> QED
    BY <1>1, <2>2, <2>3, <2>4 DEF MergeInv, AfterMerge
<1> QED
  BY <1>5, <1>7, <1>8

LEMMA ResultMergeInv ==
  ASSUME TypeOK, MergeInv, MergeResult
  PROVE  MergeInv'
<1>1. /\ pc = "merge" /\ pc' = "merge" /\ at.result \in DOMAIN results /\ at \notin Positions
      /\ UNCHANGED <<results, merged>>
      /\ at' = [result |-> at.result + 1, item |-> 1]
  BY DEF MergeResult, report
<1>2. /\ Positions' = Positions /\ Kept' = Kept
      /\ \A p : Item(p)' = Item(p) /\ Key(p)' = Key(p)
  BY <1>1, SamePositions DEF Kept
<1>3. /\ results \in Seq([adapter : Adapters, items : Seq(Items)])
      /\ at = [result |-> at.result, item |-> at.item]
      /\ at.item \in 1 .. Len(results[at.result].items) + 1
  BY <1>1 DEF TypeOK
<1>4. results[at.result].items \in Seq(Items)
  BY <1>1, ResultItems
<1>5. at.item = Len(results[at.result].items) + 1 /\ at.item \in Nat /\ at.result \in Nat
  <2>1. at.item \notin DOMAIN results[at.result].items
    BY <1>1, <1>3, InPositions DEF IsPlace
  <2>2. Len(results[at.result].items) \in Nat
    BY <1>4
  <2>3. at.item \notin 1 .. Len(results[at.result].items)
    BY <1>4, <2>1
  <2> QED
    BY <1>1, <1>3, <2>2, <2>3
<1>6. ASSUME NEW p \in Positions
      PROVE  Before(p, at') <=> Before(p, at)
  <2>1. /\ p.result \in Nat /\ p.item \in Nat
        /\ p.item \in 1 .. Len(results[p.result].items)
    BY PlaceTypes
  <2>2. p.result = at.result => p.item < at.item
    BY <1>4, <1>5, <2>1
  <2>3. p.item \in Nat \ {0}
    BY PlaceTypes
  <2> QED
    BY <1>1, <1>5, <2>1, <2>2, <2>3 DEF Before
<1>7. Kept \subseteq Positions
  BY DEF TypeOK, Kept
<1>8. \A p \in Positions' : Before(p, at)' => \E q \in Kept' : Key(q)' = Key(p)'
  BY <1>2, <1>6 DEF MergeInv, Before
<1>9. \A q \in Kept', p \in Positions' : Before(p, q)' => Key(p)' # Key(q)'
  BY <1>2 DEF MergeInv, Before
<1>10. \A q \in Kept' : Before(q, at)'
  BY <1>2, <1>6, <1>7 DEF MergeInv, Before
<1> QED
  BY <1>1, <1>8, <1>9, <1>10 DEF MergeInv, AfterMerge

LEMMA RestMergeInv ==
  ASSUME TypeOK, OrderInv, MergeInv,
         \/ \E a \in Adapters : Register(a) \/ Unregister(a) \/ Enable(a) \/ Disable(a) \/ Fail(a)
         \/ NothingConfigured \/ RunAll \/ AllRan \/ Merged \/ Link \/ Validate
         \/ UNCHANGED vars
  PROVE  MergeInv'
<1> USE DEF Register, Unregister, Enable, Disable, Fail, NothingConfigured, RunAll, AllRan, Merged,
            Link, Validate, report, merging, vars
<1>1. UNCHANGED <<results, merged, at>>
  OBVIOUS
<1>2. /\ Positions' = Positions /\ Kept' = Kept
      /\ \A p : Item(p)' = Item(p) /\ Key(p)' = Key(p)
  BY <1>1, SamePositions DEF Kept
<1>3. pc' \in {"register", "extract"} => pc \in {"register", "extract"}
  OBVIOUS
<1>4. AfterMerge' => AfterMerge \/ at.result \notin DOMAIN results \/ results = <<>>
  BY DEF AfterMerge, OrderInv
<1>5. AfterMerge' => at.result \notin DOMAIN results
  BY <1>4 DEF MergeInv
<1> QED
  BY <1>1, <1>2, <1>3, <1>5 DEF MergeInv, Before

LEMMA NextMergeInv == TypeOK /\ TypeOK' /\ OrderInv /\ MergeInv /\ [Next]_vars => MergeInv'
<1> SUFFICES ASSUME TypeOK, TypeOK', OrderInv, MergeInv, [Next]_vars PROVE MergeInv'
  OBVIOUS
<1> QED
  BY ExtractMergeInv, ItemMergeInv, ResultMergeInv, RestMergeInv DEF Next

LEMMA InitInvs == Init => OrderInv /\ MergeInv
<1> SUFFICES ASSUME Init PROVE OrderInv /\ MergeInv
  OBVIOUS
<1>1. DOMAIN results = {} /\ DOMAIN merged = {}
  BY DEF Init
<1>2. Positions = {} /\ Kept = {}
  BY <1>1 DEF Positions, Kept
<1> QED
  BY <1>1, <1>2 DEF Init, OrderInv, MergeInv, AfterMerge

(* Results lie in the order of their adapters' priority, what was merged   *)
(* has a record, and each record is the first of its key.                  *)
THEOREM PipelineInvariant == Spec => [](OrderInv /\ MergeInv)
<1>1. TypeOK /\ TypeOK' /\ OrderInv /\ MergeInv /\ [Next]_vars => OrderInv' /\ MergeInv'
  BY NextOrderInv, NextMergeInv
<1> QED
  BY <1>1, InitInvs, TypeCorrect, PTL DEF Spec

-----------------------------------------------------------------------------
LEMMA FirstOutranks == TypeOK /\ OrderInv /\ MergeInv => WinnersOutrank
<1> SUFFICES ASSUME TypeOK, OrderInv, MergeInv,
                    NEW q \in Kept, NEW p \in Positions, Key(p) = Key(q)
             PROVE  Priority[results[p.result].adapter] <= Priority[results[q.result].adapter]
  BY DEF WinnersOutrank
<1>1. ~Before(p, q)
  BY DEF MergeInv
<1>2. q \in Positions
  BY DEF TypeOK, Kept
<1>3. /\ p.result \in DOMAIN results /\ q.result \in DOMAIN results
      /\ p.result \in Nat /\ q.result \in Nat
  BY <1>2, PlaceTypes, InPositions DEF IsPlace
<1>4. q.result <= p.result
  BY <1>1, <1>3 DEF Before
<1> QED
  BY <1>3, <1>4 DEF OrderInv

(* On a conflict the higher-priority adapter wins, for any priorities,     *)
(* order of registration, failures and results.                            *)
THEOREM PriorityWins == Spec => []WinnersOutrank
BY FirstOutranks, TypeCorrect, PipelineInvariant, PTL

(* Once the merge is through, every item has a record under its key.       *)
LEMMA AllMerged ==
  ASSUME TypeOK, MergeInv, AfterMerge, NEW p \in Positions
  PROVE  \E q \in Kept : Key(q) = Key(p)
<1>1. at.result \in 1 .. Len(results) + 1 /\ at.result \notin 1 .. Len(results)
  BY DEF TypeOK, MergeInv
<1>2. Len(results) \in Nat /\ p.result \in 1 .. Len(results)
  BY PlaceTypes DEF TypeOK
<1>3. Before(p, at)
  BY <1>1, <1>2 DEF Before
<1> QED
  BY <1>3 DEF MergeInv

LEMMA MergedAll == TypeOK /\ OrderInv /\ MergeInv => NothingIsLost
<1> SUFFICES ASSUME TypeOK, OrderInv, MergeInv, AfterMerge, NEW a \in enabled \ failures
             PROVE  \E i \in DOMAIN results :
                       /\ results[i].adapter = a
                       /\ \A j \in DOMAIN results[i].items :
                             \E q \in Kept : Key(q) = Key([result |-> i, item |-> j])
  BY DEF NothingIsLost
<1>1. a \in Ran
  BY DEF OrderInv, AfterMerge, ToRun
<1>2. PICK i \in DOMAIN results : results[i].adapter = a
  BY <1>1 DEF Ran
<1>3. ASSUME NEW j \in DOMAIN results[i].items
      PROVE  \E q \in Kept : Key(q) = Key([result |-> i, item |-> j])
  <2>1. [result |-> i, item |-> j] \in Positions
    BY <1>2, <1>3, InPositions DEF IsPlace
  <2> QED
    BY <2>1, AllMerged
<1> QED
  BY <1>2, <1>3

(* What an adapter returned is not lost to another one's failure or to a   *)
(* conflict about another id.                                              *)
THEOREM MergeLosesNothing == Spec => []NothingIsLost
BY MergedAll, TypeCorrect, PipelineInvariant, PTL

-----------------------------------------------------------------------------
LEMMA SourcesAreKept ==
  ASSUME TypeOK, MergeInv, AfterMerge
  PROVE  Dangling = {}
<1> SUFFICES ASSUME NEW p \in KeptOf("connection")
             PROVE  \E s \in KeptOf("service") : Item(s).id = Item(p).source
  BY DEF Dangling
<1>1. p \in Positions /\ Item(p).kind = "connection"
  BY DEF TypeOK, Kept, KeptOf
<1>2. IsPlace(p)
  BY <1>1, InPositions
<1> DEFINE r == results[p.result].items
<1>3. results[p.result].adapter \in Adapters /\ r \in Outputs[results[p.result].adapter]
  <2>1. results \in Seq([adapter : Adapters, items : Seq(Items)])
    BY DEF TypeOK
  <2>2. results[p.result] \in [adapter : Adapters, items : Seq(Items)]
    BY <1>2, <2>1, ElementOfSeq, Zenon DEF IsPlace
  <2> QED
    BY <1>2, <2>2 DEF TypeOK, IsPlace
<1>4. PICK j \in DOMAIN r : r[j].kind = "service" /\ r[j].id = r[p.item].source
  BY <1>1, <1>2, <1>3, SourcesTravelAlong DEF IsPlace, Item
<1>5. [result |-> p.result, item |-> j] \in Positions
  BY <1>2, <1>4, InPositions DEF IsPlace
<1>6. PICK s \in Kept : Key(s) = Key([result |-> p.result, item |-> j])
  BY <1>5, AllMerged
<1>7. Item(s).kind = "service" /\ Item(s).id = Item(p).source
  BY <1>4, <1>6 DEF Key, Item
<1> QED
  BY <1>6, <1>7 DEF KeptOf

LEMMA InitNoDanglingSource == Init => NoDanglingSource
<1> SUFFICES ASSUME Init PROVE NoDanglingSource
  OBVIOUS
<1> QED
  BY NoneIsNoExitCode DEF Init, NoDanglingSource, AfterMerge

LEMMA NextNoDanglingSource ==
  TypeOK /\ TypeOK' /\ MergeInv /\ MergeInv' /\ NoDanglingSource /\ [Next]_vars => NoDanglingSource'
<1> SUFFICES ASSUME TypeOK, TypeOK', MergeInv, MergeInv', NoDanglingSource, [Next]_vars
             PROVE  NoDanglingSource'
  OBVIOUS
<1>1. (AfterMerge => Dangling = {})'
  <2>1. (TypeOK /\ MergeInv /\ AfterMerge => Dangling = {})'
    <3>1. TypeOK /\ MergeInv /\ AfterMerge => Dangling = {}
      BY SourcesAreKept
    <3> QED
      BY SourcesAreKept, PTL
  <2> QED
    BY <2>1
<1>2. CASE Validate
  <2>1. Dangling = {}
    BY <1>2, SourcesAreKept DEF Validate, AfterMerge
  <2>2. errors' = {}
    BY <1>2, <2>1 DEF Validate
  <2>3. exit' = 1 => failures' # {}
    BY <1>2, <2>2 DEF Validate, report
  <2>4. pc' = "done"
    BY <1>2 DEF Validate
  <2> QED
    BY <1>1, <2>2, <2>3, <2>4 DEF NoDanglingSource
<1>3. CASE NothingConfigured
  <2>1. registered' = <<>> /\ errors' = errors /\ pc' = "done"
    BY <1>3 DEF NothingConfigured, registry
  <2> QED
    BY <1>1, <2>1 DEF NoDanglingSource
<1>4. CASE ~(Validate \/ NothingConfigured)
  <2>1. exit' = exit /\ errors' = errors /\ (pc = "done" => pc' = "done")
    BY <1>4 DEF Next, Register, Unregister, Enable, Disable, RunAll, Extract, Fail, AllRan,
                MergeItem, MergeResult, Merged, Link, vars
  <2>2. pc = "register" \/ UNCHANGED registered
    BY <1>4 DEF Next, Register, Unregister, Enable, Disable, RunAll, Extract, Fail, AllRan,
                MergeItem, MergeResult, Merged, Link, vars, registry
  <2>3. failures \subseteq failures'
    BY <1>4 DEF Next, Register, Unregister, Enable, Disable, RunAll, Extract, Fail, AllRan,
                MergeItem, MergeResult, Merged, Link, vars, report
  <2>4. pc = "register" => exit = None
    BY DEF NoDanglingSource
  <2> QED
    BY <1>1, <2>1, <2>2, <2>3, <2>4, NoneIsNoExitCode DEF NoDanglingSource
<1> QED
  BY <1>2, <1>3, <1>4

(* The validator never rejects what these adapters return, whichever of    *)
(* them failed and whichever record won: only a failure makes it fail.     *)
THEOREM SourcesStay == Spec => []NoDanglingSource
BY InitNoDanglingSource, NextNoDanglingSource, TypeCorrect, PipelineInvariant, PTL DEF Spec

-----------------------------------------------------------------------------
(* The index of the endpoints is a table: each of its routes has a first   *)
(* place and a last endpoint.                                              *)
Serves(i, route) == merged[i] \in KeptOf("endpoint") /\ Route(merged[i]) = route

LEMMA Served ==
  ASSUME TypeOK, NEW route \in Routes
  PROVE  \E i \in DOMAIN merged : Serves(i, route)
<1>1. PICK e \in KeptOf("endpoint") : route = Route(e)
  BY DEF Routes
<1>2. PICK i \in DOMAIN merged : e = merged[i]
  BY DEF KeptOf, Kept
<1> QED
  BY <1>1, <1>2 DEF Serves

LEMMA FirstPlace ==
  ASSUME TypeOK, NEW route \in Routes
  PROVE  Place(route) \in Nat
<1>1. DOMAIN merged = 1 .. Len(merged) /\ Len(merged) \in Nat
  BY DEF TypeOK
<1> DEFINE T == {i \in DOMAIN merged : Serves(i, route)}
<1>2. PICK i \in T : \A j \in T : i <= j
  <2>1. T # {} /\ T \subseteq Nat
    BY <1>1, Served
  <2> QED
    BY <2>1, Least
<1>3. \A j \in 1 .. i - 1 : ~Serves(j, route)
  <2> SUFFICES ASSUME NEW j \in 1 .. i - 1, Serves(j, route) PROVE FALSE
    OBVIOUS
  <2>1. j \in T /\ i \in 1 .. Len(merged)
    BY <1>1
  <2> QED
    BY <1>1, <1>2, <2>1
<1>4. \E k \in DOMAIN merged : /\ Serves(k, route)
                              /\ \A j \in 1 .. k - 1 : ~Serves(j, route)
  BY <1>2, <1>3
<1>5. Place(route) = CHOOSE k \in DOMAIN merged : /\ Serves(k, route)
                                                  /\ \A j \in 1 .. k - 1 : ~Serves(j, route)
  BY Zenon DEF Place, Serves
<1>6. Place(route) \in DOMAIN merged
  BY <1>4, <1>5, Zenon
<1> QED
  BY <1>1, <1>6

LEMMA LastEndpoint ==
  ASSUME TypeOK, NEW route \in Routes
  PROVE  \E e \in KeptOf("endpoint") : Route(e) = route /\ EndpointOf(route) = Item(e).id
<1>1. DOMAIN merged = 1 .. Len(merged) /\ Len(merged) \in Nat
  BY DEF TypeOK
<1> DEFINE T == {n \in Nat : \E i \in DOMAIN merged : Serves(i, route) /\ n = Len(merged) - i}
<1>2. PICK m \in T : \A n \in T : m <= n
  <2>1. PICK i \in DOMAIN merged : Serves(i, route)
    BY Served
  <2>2. Len(merged) - i \in T
    BY <1>1, <2>1
  <2> QED
    BY <2>2, Least
<1>3. PICK i \in DOMAIN merged : Serves(i, route) /\ m = Len(merged) - i
  BY <1>2
<1>4. \A j \in i + 1 .. Len(merged) : ~Serves(j, route)
  <2> SUFFICES ASSUME NEW j \in i + 1 .. Len(merged), Serves(j, route) PROVE FALSE
    OBVIOUS
  <2>1. j \in DOMAIN merged /\ Len(merged) - j \in Nat /\ i \in 1 .. Len(merged)
    BY <1>1
  <2>2. Len(merged) - j \in T
    BY <2>1
  <2> QED
    BY <1>1, <1>2, <1>3, <2>1, <2>2
<1> DEFINE last == CHOOSE k \in DOMAIN merged :
                      /\ Serves(k, route)
                      /\ \A j \in k + 1 .. Len(merged) : ~Serves(j, route)
<1>5. Serves(last, route)
  BY <1>3, <1>4
<1>6. EndpointOf(route) = Item(merged[last]).id
  BY Zenon DEF EndpointOf, Serves
<1> QED
  BY <1>5, <1>6 DEF Serves

(* Where a suffix will do, the first of the routes that have it is taken.  *)
LEMMA FirstSuffix ==
  ASSUME TypeOK, NEW c, SuffixRoutes(c) # {}
  PROVE  (CHOOSE r \in SuffixRoutes(c) : \A s \in SuffixRoutes(c) : Place(r) <= Place(s))
            \in SuffixRoutes(c)
<1> DEFINE T == {Place(r) : r \in SuffixRoutes(c)}
<1>1. T \subseteq Nat /\ T # {}
  BY FirstPlace DEF SuffixRoutes
<1>2. PICK m \in T : \A n \in T : m <= n
  BY <1>1, Least
<1>3. PICK r \in SuffixRoutes(c) : m = Place(r)
  BY <1>2
<1>4. \A s \in SuffixRoutes(c) : Place(r) <= Place(s)
  BY <1>2, <1>3
<1> QED
  BY <1>3, <1>4

(* What justifies joining the connection c to the endpoint e.              *)
Justifies(e, c) ==
  /\ Item(e).repo = c.target
  /\ Upper[Item(e).method] = Upper[c.method]
  /\ \/ Item(e).path = c.path
     \/ /\ Item(e).path # <<>> /\ Head(Item(e).path) \in Placeholders
        /\ EndsWith(Item(e).path, c.path)
        /\ \A x \in KeptOf("endpoint") :
              Route(x) # <<c.target, Upper[c.method], c.path>>

LEMMA LinkedIsJustified ==
  ASSUME TypeOK, NEW c, Linked(c) # None
  PROVE  \E e \in KeptOf("endpoint") : Linked(c) = Item(e).id /\ Justifies(e, c)
<1> DEFINE exact == <<c.target, Upper[c.method], c.path>>
<1>1. CASE exact \in Routes
  <2>1. PICK e \in KeptOf("endpoint") : Route(e) = exact /\ EndpointOf(exact) = Item(e).id
    BY <1>1, LastEndpoint
  <2>2. Linked(c) = EndpointOf(exact)
    BY <1>1, Zenon DEF Linked
  <2> QED
    BY <2>1, <2>2 DEF Justifies, Route
<1>2. CASE exact \notin Routes
  <2> DEFINE r == CHOOSE r \in SuffixRoutes(c) : \A s \in SuffixRoutes(c) : Place(r) <= Place(s)
  <2>1. SuffixRoutes(c) # {} /\ Linked(c) = EndpointOf(r)
    BY <1>2, Zenon DEF Linked
  <2>2. r \in SuffixRoutes(c)
    BY <2>1, FirstSuffix
  <2> HIDE DEF r
  <2>3. /\ r \in Routes /\ r[1] = c.target /\ r[2] = Upper[c.method]
        /\ r[3] # <<>> /\ Head(r[3]) \in Placeholders
        /\ EndsWith(r[3], c.path)
    BY <2>2 DEF SuffixRoutes
  <2>4. PICK e \in KeptOf("endpoint") : Route(e) = r /\ EndpointOf(r) = Item(e).id
    BY <2>3, LastEndpoint
  <2>5. r[1] = Item(e).repo /\ r[2] = Upper[Item(e).method] /\ r[3] = Item(e).path
    BY <2>4 DEF Route
  <2>6. \A x \in KeptOf("endpoint") : Route(x) # exact
    BY <1>2 DEF Routes
  <2>7. Justifies(e, c)
    BY <2>3, <2>5, <2>6 DEF Justifies
  <2> QED
    BY <2>1, <2>4, <2>7
<1> QED
  BY <1>1, <1>2

(* A key has one record.                                                   *)
LEMMA OneRecord ==
  ASSUME TypeOK, MergeInv, NEW p \in Kept, NEW q \in Kept, Key(p) = Key(q)
  PROVE  p = q
<1>1. p \in Positions /\ q \in Positions
  BY DEF TypeOK, Kept
<1>2. ~Before(p, q) /\ ~Before(q, p)
  BY <1>1 DEF MergeInv
<1>3. /\ p.result \in Nat /\ q.result \in Nat /\ p.item \in Nat /\ q.item \in Nat
      /\ p = [result |-> p.result, item |-> p.item]
      /\ q = [result |-> q.result, item |-> q.item]
  BY <1>1, PlaceTypes, InPositions DEF IsPlace
<1>4. p.result = q.result /\ p.item = q.item
  BY <1>2, <1>3 DEF Before
<1> QED
  BY <1>3, <1>4

LEMMA SameRecords ==
  ASSUME UNCHANGED <<results, merged>>
  PROVE  /\ \A kind : KeptOf(kind)' = KeptOf(kind)
         /\ \A x : Item(x)' = Item(x) /\ Route(x)' = Route(x)
BY DEF Kept, KeptOf, Item, Route

LEMMA LinkJustifies ==
  ASSUME TypeOK, MergeInv, Link
  PROVE  LinksAreJustified'
<1>1. /\ \A kind : KeptOf(kind)' = KeptOf(kind)
      /\ \A x : Item(x)' = Item(x) /\ Route(x)' = Route(x)
  BY SameRecords DEF Link, report, merging
<1> DEFINE linkable == {p \in KeptOf("connection") : Traced(Item(p)) /\ Linked(Item(p)) # None}
<1>2. links' = [c \in {Item(p).id : p \in linkable} |->
                  Linked(Item(CHOOSE p \in linkable : Item(p).id = c))]
  BY DEF Link
<1> SUFFICES ASSUME NEW p \in KeptOf("connection"), Item(p).id \in DOMAIN links'
             PROVE  \E e \in KeptOf("endpoint") :
                       links'[Item(p).id] = Item(e).id /\ Justifies(e, Item(p))
  BY <1>1 DEF LinksAreJustified, Justifies, EndsWith
<1> DEFINE q == CHOOSE q \in linkable : Item(q).id = Item(p).id
<1>3. Item(p).id \in {Item(x).id : x \in linkable} /\ links'[Item(p).id] = Linked(Item(q))
  BY <1>2
<1>4. q \in linkable /\ Item(q).id = Item(p).id
  BY <1>3
<1> HIDE DEF q
<1>5. Key(q) = Key(p) /\ q \in Kept /\ p \in Kept
  BY <1>4 DEF Key, KeptOf
<1>6. q = p
  BY <1>5, OneRecord
<1> QED
  BY <1>3, <1>4, <1>6, LinkedIsJustified

LEMMA NextLinkInv == TypeOK /\ MergeInv /\ LinkInv /\ [Next]_vars => LinkInv'
<1> SUFFICES ASSUME TypeOK, MergeInv, LinkInv, [Next]_vars PROVE LinkInv'
  OBVIOUS
<1>1. CASE Link
  BY <1>1, LinkJustifies DEF Link, LinkInv
<1>2. CASE Validate \/ UNCHANGED vars
  <2>1. results' = results /\ merged' = merged /\ links' = links
    BY <1>2 DEF Validate, vars, report, merging
  <2>2. /\ \A kind : KeptOf(kind)' = KeptOf(kind)
        /\ \A x : Item(x)' = Item(x) /\ Route(x)' = Route(x)
    BY <2>1, SameRecords
  <2>3. LinksAreJustified'
    <3> SUFFICES ASSUME NEW p \in KeptOf("connection"), Item(p).id \in DOMAIN links
                 PROVE  \E e \in KeptOf("endpoint") :
                           links[Item(p).id] = Item(e).id /\ Justifies(e, Item(p))
      BY <2>1, <2>2 DEF LinksAreJustified, Justifies, EndsWith
    <3> QED
      BY DEF LinkInv, LinksAreJustified, Justifies
  <2>4. pc' \in {"register", "extract", "merge", "link"} => pc' = pc
    BY <1>2 DEF Validate, vars
  <2> QED
    BY <2>1, <2>3, <2>4 DEF LinkInv
<1>3. CASE ~(Link \/ Validate \/ UNCHANGED vars)
  <2>1. links' = links /\ pc \in {"register", "extract", "merge", "link"}
    BY <1>3 DEF Next, Register, Unregister, Enable, Disable, NothingConfigured, RunAll, Extract, Fail,
                AllRan, MergeItem, MergeResult, Merged
  <2>2. DOMAIN links' = {}
    BY <2>1 DEF LinkInv
  <2> QED
    BY <2>2 DEF LinkInv, LinksAreJustified
<1> QED
  BY <1>1, <1>2, <1>3

LEMMA InitLinkInv == Init => LinkInv
BY DEF Init, LinkInv, LinksAreJustified

(* A link is set once, after the merge, and is justified by what was kept. *)
THEOREM LinkInvariant == Spec => []LinkInv
BY InitLinkInv, NextLinkInv, TypeCorrect, PipelineInvariant, PTL DEF Spec

(* A traced connection is joined only to an endpoint of the service that   *)
(* it goes to, by its very route or, where no endpoint has it, across a    *)
(* prefix that static analysis left open: for any results, with however    *)
(* many endpoints of the same route and however they were merged.          *)
THEOREM LinksAreHonest == Spec => []LinksAreJustified
<1>1. LinkInv => LinksAreJustified
  BY DEF LinkInv
<1> QED
  BY <1>1, LinkInvariant, PTL
=============================================================================
