--------------------------- MODULE ServiceMapProofs ---------------------------
(***************************************************************************)
(* The service map.  First the rollup of traces, for any spans, catalog,   *)
(* window and thresholds; then, for any graph that the loader can make of  *)
(* it, what the trails of a query are, that an impact goes by distance,    *)
(* and that the answers about who depends on a service agree.              *)
(***************************************************************************)
EXTENDS ServiceMap, NaturalLemmas, FiniteSetTheorems, TLAPS

LEMMA Starts == \A s \in Spans : s.start \in Nat
  BY ConfigOK

(* The later and the earlier of two times.                                 *)
LEMMA LaterEarlier ==
  ASSUME NEW m \in Nat, NEW n \in Nat
  PROVE  /\ Later(m, n) \in {m, n} /\ m <= Later(m, n) /\ n <= Later(m, n)
         /\ Earlier(m, n) \in {m, n} /\ Earlier(m, n) <= m /\ Earlier(m, n) <= n
  BY DEF Later, Earlier

(* The spans of a bucket once one more span was read.                      *)
LEMMA GroupGrows ==
  ASSUME NEW s, read' = read \cup {s}, s \notin read, NEW k
  PROVE  /\ Crosses(s) /\ k = Key(s) => Group(k)' = Group(k) \cup {s} /\ s \notin Group(k)
         /\ ~(Crosses(s) /\ k = Key(s)) => Group(k)' = Group(k)
  BY DEF Group

LEMMA GroupIsFinite ==
  ASSUME IsFiniteSet(read), NEW k
  PROVE  /\ IsFiniteSet(Group(k)) /\ Cardinality(Group(k)) \in Nat
         /\ IsFiniteSet({s \in Group(k) : s.error})
         /\ Cardinality({s \in Group(k) : s.error}) \in Nat
  <1>1. IsFiniteSet(Group(k))
    BY FS_Subset DEF Group
  <1>2. IsFiniteSet({s \in Group(k) : s.error})
    BY <1>1, FS_Subset
  <1>3. QED
    BY <1>1, <1>2, FS_CardinalityType

-----------------------------------------------------------------------------
(* What a read leaves behind, for its own bucket and for the others.       *)
LEMMA BucketIsTyped ==
  ASSUME TypeOK, NEW s \in Spans
  PROVE  Bucket(s) \in BucketType
  <1> DEFINE b == IF Key(s) \in DOMAIN buckets THEN buckets[Key(s)] ELSE NewBucket(s)
  <1>1. s.start \in Nat
    BY Starts
  <1>2. CallsService(s) \in BOOLEAN
    BY DEF CallsService
  <1>3. NewBucket(s) \in BucketType
    BY <1>1, <1>2 DEF NewBucket, BucketType
  <1>4. b \in BucketType
    BY <1>3 DEF TypeOK
  <1>5. /\ b.first \in Nat /\ b.last \in Nat /\ b.count \in Nat /\ b.errors \in Nat
        /\ b.protocol \in {Protocol(t) : t \in Spans} /\ b.isService \in BOOLEAN
    BY <1>4 DEF BucketType
  <1>6. Earlier(b.first, s.start) \in Nat /\ Later(b.last, s.start) \in Nat
    BY <1>1, <1>5, LaterEarlier
  <1>7. b.errors + (IF s.error THEN 1 ELSE 0) \in Nat /\ b.count + 1 \in Nat
    BY <1>5
  <1>8. Counted(b, s) \in BucketType
    <2> HIDE DEF b
    <2> QED BY <1>4, <1>6, <1>7 DEF Counted, BucketType
  <1>9. QED
    BY <1>8 DEF Bucket

(* A bucket's fields after a span was counted in it.                       *)
LEMMA CountedFields ==
  ASSUME NEW b \in BucketType, NEW s
  PROVE  /\ Counted(b, s).count = b.count + 1
         /\ Counted(b, s).errors = b.errors + (IF s.error THEN 1 ELSE 0)
         /\ Counted(b, s).first = Earlier(b.first, s.start)
         /\ Counted(b, s).last = Later(b.last, s.start)
         /\ Counted(b, s).protocol = b.protocol
         /\ Counted(b, s).isService = b.isService
  BY DEF Counted, BucketType

(* The claim of RollupIsFaithful about one bucket.                         *)
Faithful(k) ==
    LET b == buckets[k]
    IN  /\ b.count = Cardinality(Group(k))
        /\ b.errors = Cardinality({s \in Group(k) : s.error})
        /\ \A s \in Group(k) : b.first <= s.start /\ s.start <= b.last
        /\ \E s \in Group(k) : s.start = b.last
        /\ \E s \in Group(k) :
              s.start = b.first /\ b.protocol = Protocol(s) /\ b.isService = CallsService(s)

LEMMA OneSpanCounted ==
  ASSUME IsFiniteSet(read), NEW s, read' = read \cup {s}, s \notin read, Crosses(s)
  PROVE  LET k == Key(s)
         IN  /\ Cardinality(Group(k)') = Cardinality(Group(k)) + 1
             /\ Cardinality({t \in Group(k)' : t.error})
                  = Cardinality({t \in Group(k) : t.error}) + (IF s.error THEN 1 ELSE 0)
  <1> DEFINE g == Group(Key(s))
             e == {t \in g : t.error}
             e2 == {t \in Group(Key(s))' : t.error}
  <1>1. Group(Key(s))' = g \cup {s} /\ s \notin g
    BY GroupGrows
  <1>2. IsFiniteSet(g) /\ IsFiniteSet(e) /\ Cardinality(g) \in Nat /\ Cardinality(e) \in Nat
    BY GroupIsFinite
  <1>3. Cardinality(g \cup {s}) = Cardinality(g) + 1
    BY <1>1, <1>2, FS_AddElement
  <1>4. CASE s.error
    <2>1. e2 = e \cup {s} /\ s \notin e
      BY <1>1, <1>4
    <2>2. Cardinality(e \cup {s}) = Cardinality(e) + 1
      BY <2>1, <1>2, FS_AddElement
    <2> QED BY <1>1, <1>3, <1>4, <2>1, <2>2
  <1>5. CASE ~s.error
    <2>1. e2 = e
      BY <1>1, <1>5
    <2> QED BY <1>1, <1>2, <1>3, <1>5, <2>1
  <1>6. QED
    BY <1>4, <1>5

(* A span is counted in the bucket it opens or finds.                      *)
LEMMA OwnBucketStaysFaithful ==
  ASSUME RollupInv, NEW s \in Spans, Read(s), Crosses(s)
  PROVE  Faithful(Key(s))'
  <1> DEFINE k == Key(s)
             b == IF k \in DOMAIN buckets THEN buckets[k] ELSE NewBucket(s)
             g == Group(k)
  <1>1. read' = read \cup {s} /\ s \in window \ read /\ IsFiniteSet(read) /\ TypeOK
    BY DEF Read, RollupInv, ReadInOrder
  <1>2. Group(k)' = g \cup {s}
    BY <1>1, GroupGrows
  <1>3. buckets'[k] = Counted(b, s)
    BY DEF Read, Fill, Bucket
  <1>4. s.start \in Nat /\ CallsService(s) \in BOOLEAN
    BY Starts DEF CallsService
  <1>5. NewBucket(s) \in BucketType
    BY <1>4 DEF NewBucket, BucketType
  <1>6. b \in BucketType
    BY <1>1, <1>5 DEF TypeOK
  <1>7. b.first \in Nat /\ b.last \in Nat /\ b.count \in Nat /\ b.errors \in Nat
    BY <1>6 DEF BucketType
  <1>8. /\ b.count = Cardinality(g)
        /\ b.errors = Cardinality({t \in g : t.error})
        /\ \A t \in g : b.first <= t.start /\ t.start <= b.last
        /\ b.last = s.start \/ \E t \in g : t.start = b.last
        /\ \E t \in g \cup {s} : t.start = b.first /\ b.protocol = Protocol(t) /\ b.isService = CallsService(t)
        /\ b.first <= s.start
    <2>1. CASE k \in DOMAIN buckets
      <3>1. Faithful(k)
        BY <2>1 DEF RollupInv, RollupIsFaithful, Faithful
      <3>2. PICK t \in g : t.start = b.first /\ b.protocol = Protocol(t) /\ b.isService = CallsService(t)
        BY <2>1, <3>1 DEF Faithful
      <3>3. t \in read
        BY DEF Group
      <3>4. t.start <= s.start
        BY <1>1, <3>3 DEF RollupInv, ReadInOrder
      <3>5. QED
        BY <2>1, <3>1, <3>2, <3>4 DEF Faithful
    <2>2. CASE k \notin DOMAIN buckets
      <3>1. g = {}
        BY <2>2 DEF Group, RollupInv, RollupIsFaithful
      <3>2. Cardinality(g) = 0 /\ Cardinality({t \in g : t.error}) = 0
        BY <3>1, FS_EmptySet
      <3>3. b = NewBucket(s)
        BY <2>2
      <3>4. /\ b.count = 0 /\ b.errors = 0 /\ b.first = s.start /\ b.last = s.start
            /\ b.protocol = Protocol(s) /\ b.isService = CallsService(s)
        BY <3>3 DEF NewBucket
      <3>5. QED
        BY <3>1, <3>2, <3>4, <1>4
    <2>3. QED
      BY <2>1, <2>2
  <1>9. /\ Cardinality(Group(k)') = Cardinality(g) + 1
        /\ Cardinality({t \in Group(k)' : t.error})
              = Cardinality({t \in g : t.error}) + (IF s.error THEN 1 ELSE 0)
    BY <1>1, OneSpanCounted
  <1> DEFINE c == buckets'[k]
  <1>10. /\ c.count = b.count + 1 /\ c.errors = b.errors + (IF s.error THEN 1 ELSE 0)
         /\ c.first = Earlier(b.first, s.start) /\ c.last = Later(b.last, s.start)
         /\ c.protocol = b.protocol /\ c.isService = b.isService
    BY <1>3, <1>6, CountedFields
  <1>11. /\ c.first = b.first /\ c.last \in {b.last, s.start}
         /\ b.last <= c.last /\ s.start <= c.last
    BY <1>4, <1>7, <1>8, <1>10, LaterEarlier DEF Earlier
  <1>12. \A t \in g : t.start \in Nat
    BY Starts, <1>1 DEF Group, TypeOK
  <1>13. \A t \in g \cup {s} : c.first <= t.start /\ t.start <= c.last
    <2> HIDE DEF b, c, g
    <2> SUFFICES ASSUME NEW t \in g \cup {s} PROVE c.first <= t.start /\ t.start <= c.last
      OBVIOUS
    <2>1. t.start \in Nat /\ c.last \in Nat
      BY <1>12, <1>4, <1>7, <1>11
    <2>2. CASE t \in g
      BY <2>1, <2>2, <1>8, <1>11, <1>7
    <2>3. CASE t = s
      BY <2>3, <1>8, <1>11
    <2>4. QED
      BY <2>2, <2>3
  <1>14. \E t \in g \cup {s} : t.start = c.last
    <2> HIDE DEF b, c, g
    <2> QED BY <1>8, <1>11
  <1>15. \E t \in g \cup {s} : t.start = c.first /\ c.protocol = Protocol(t) /\ c.isService = CallsService(t)
    <2> HIDE DEF b, c, g
    <2> QED BY <1>8, <1>10, <1>11
  <1>16. QED
    <2>1. c.count = Cardinality(Group(k)') /\ c.errors = Cardinality({t \in Group(k)' : t.error})
      <3> HIDE DEF b, c, g
      <3> QED BY <1>8, <1>9, <1>10
    <2>2. QED
      BY <2>1, <1>2, <1>13, <1>14, <1>15 DEF Faithful, Protocol, CallsService

(* Every other bucket keeps its spans and what it says of them.            *)
LEMMA OtherBucketsStayFaithful ==
  ASSUME RollupInv, NEW s \in Spans, Read(s), NEW k \in DOMAIN buckets,
         ~(Crosses(s) /\ k = Key(s))
  PROVE  k \in DOMAIN buckets' /\ Faithful(k)'
  <1>1. read' = read \cup {s} /\ s \notin read
    BY DEF Read
  <1>2. Group(k)' = Group(k)
    BY <1>1, GroupGrows
  <1>3. k \in DOMAIN buckets' /\ buckets'[k] = buckets[k]
    BY DEF Read, Fill
  <1>4. Faithful(k)
    BY DEF RollupInv, RollupIsFaithful, Faithful
  <1>5. QED
    BY <1>2, <1>3, <1>4 DEF Faithful

-----------------------------------------------------------------------------
LEMMA TypeStep ==
  ASSUME TypeOK, [Next]_vars
  PROVE  TypeOK'
  <1>1. ASSUME NEW s \in Spans, Read(s) PROVE TypeOK'
    <2>1. /\ window' = window /\ pc' = pc /\ read' = read \cup {s} /\ s \in window
          /\ seen' = Remember(s)
          /\ buckets' = IF Crosses(s) THEN Fill(s) ELSE buckets
      BY <1>1 DEF Read, result
    <2>2. s.start \in Nat
      BY Starts
    <2>3. Witnessed(s) \subseteq Names
      BY DEF Witnessed, Names
    <2>4. DOMAIN seen' = DOMAIN seen \cup Witnessed(s)
      BY <2>1 DEF Remember
    <2>5. \A id \in DOMAIN seen' : seen'[id] \in Nat
      <3> SUFFICES ASSUME NEW id \in DOMAIN seen' PROVE seen'[id] \in Nat
        OBVIOUS
      <3>1. CASE id \notin DOMAIN seen
        BY <3>1, <2>1, <2>2, <2>4 DEF Remember
      <3>2. CASE id \in DOMAIN seen
        <4>1. seen[id] \in Nat
          BY <3>2 DEF TypeOK
        <4>2. Later(seen[id], s.start) \in Nat
          BY <4>1, <2>2, LaterEarlier
        <4>3. QED
          BY <3>2, <4>1, <4>2, <2>1, <2>4 DEF Remember
      <3>3. QED
        BY <3>1, <3>2
    <2>6. DOMAIN buckets' \subseteq {Key(t) : t \in Spans}
      BY <2>1 DEF Fill, TypeOK
    <2>7. \A k \in DOMAIN buckets' : buckets'[k] \in BucketType
      BY <2>1, BucketIsTyped DEF Fill, TypeOK
    <2>8. QED
      BY <2>1, <2>3, <2>4, <2>5, <2>6, <2>7 DEF TypeOK
  <1>2. CASE Roll
    BY <1>2 DEF Roll, TypeOK
  <1>3. CASE UNCHANGED vars
    BY <1>3 DEF vars, TypeOK
  <1>4. QED
    BY <1>1, <1>2, <1>3 DEF Next

LEMMA OrderStep ==
  ASSUME TypeOK, ReadInOrder, NEW s \in Spans, Read(s)
  PROVE  ReadInOrder'
  <1>1. /\ window' = window /\ read' = read \cup {s}
        /\ \A t \in window \ read : s.start <= t.start
    BY DEF Read
  <1>2. IsFiniteSet(read')
    BY <1>1, FS_AddElement DEF ReadInOrder
  <1>3. QED
    BY <1>1, <1>2 DEF ReadInOrder

LEMMA SeenStep ==
  ASSUME TypeOK, SeenIsLatest, NEW s \in Spans, Read(s)
  PROVE  SeenIsLatest'
  <1>1. read' = read \cup {s} /\ seen' = Remember(s)
    BY DEF Read
  <1>2. s.start \in Nat
    BY Starts
  <1>3. DOMAIN seen' = DOMAIN seen \cup Witnessed(s)
    BY <1>1 DEF Remember
  <1>4. DOMAIN seen' = UNION {Witnessed(t) : t \in read'}
    BY <1>1, <1>3 DEF SeenIsLatest
  <1>5. \A id \in DOMAIN seen : seen'[id] \in Nat /\ seen[id] <= seen'[id]
    <2> SUFFICES ASSUME NEW id \in DOMAIN seen PROVE seen'[id] \in Nat /\ seen[id] <= seen'[id]
      OBVIOUS
    <2>1. seen[id] \in Nat
      BY DEF TypeOK
    <2>2. /\ Later(seen[id], s.start) \in Nat
          /\ seen[id] <= Later(seen[id], s.start)
      BY <2>1, <1>2, LaterEarlier
    <2>3. QED
      BY <1>1, <1>3, <2>1, <2>2 DEF Remember
  <1>6. \A id \in Witnessed(s) : s.start <= seen'[id]
    <2> SUFFICES ASSUME NEW id \in Witnessed(s) PROVE s.start <= seen'[id]
      OBVIOUS
    <2>1. CASE id \in DOMAIN seen
      <3>1. seen[id] \in Nat
        BY <2>1 DEF TypeOK
      <3>2. s.start <= Later(seen[id], s.start)
        BY <3>1, <1>2, LaterEarlier
      <3>3. QED
        BY <1>1, <2>1, <3>2 DEF Remember
    <2>2. CASE id \notin DOMAIN seen
      BY <1>1, <1>2, <2>2 DEF Remember
    <2>3. QED
      BY <2>1, <2>2
  <1>7. \A t \in read : \A id \in Witnessed(t) : t.start <= seen'[id]
    <2> SUFFICES ASSUME NEW t \in read, NEW id \in Witnessed(t) PROVE t.start <= seen'[id]
      OBVIOUS
    <2>1. id \in DOMAIN seen /\ t.start <= seen[id]
      BY DEF SeenIsLatest
    <2>2. t.start \in Nat /\ seen[id] \in Nat
      BY <2>1, Starts DEF TypeOK
    <2>3. QED
      BY <2>1, <2>2, <1>5
  <1>8. QED
    BY <1>1, <1>4, <1>6, <1>7 DEF SeenIsLatest

LEMMA FaithfulStep ==
  ASSUME RollupInv, NEW s \in Spans, Read(s)
  PROVE  RollupIsFaithful'
  <1>1. /\ read' = read \cup {s}
        /\ buckets' = IF Crosses(s) THEN Fill(s) ELSE buckets
    BY DEF Read
  <1>2. DOMAIN buckets' = {Key(t) : t \in {u \in read' : Crosses(u)}}
    <2>1. DOMAIN buckets = {Key(t) : t \in {u \in read : Crosses(u)}}
      BY DEF RollupInv, RollupIsFaithful
    <2>2. CASE Crosses(s)
      BY <1>1, <2>1, <2>2 DEF Fill
    <2>3. CASE ~Crosses(s)
      BY <1>1, <2>1, <2>3
    <2>4. QED
      BY <2>2, <2>3
  <1>3. \A k \in DOMAIN buckets' : Faithful(k)'
    <2> SUFFICES ASSUME NEW k \in DOMAIN buckets' PROVE Faithful(k)'
      OBVIOUS
    <2>1. CASE Crosses(s) /\ k = Key(s)
      BY <2>1, OwnBucketStaysFaithful
    <2>2. CASE ~(Crosses(s) /\ k = Key(s))
      <3>1. k \in DOMAIN buckets
        BY <1>1, <2>2 DEF Fill
      <3>2. QED
        BY <2>2, <3>1, OtherBucketsStayFaithful
    <2>3. QED
      BY <2>1, <2>2
  <1>4. QED
    BY <1>2, <1>3 DEF RollupIsFaithful, Faithful

-----------------------------------------------------------------------------
LEMMA InvInit == Init => RollupInv
  <1> SUFFICES ASSUME Init PROVE RollupInv
    OBVIOUS
  <1>1. TypeOK
    BY ConfigOK DEF Init, TypeOK
  <1>2. ReadInOrder
    BY FS_EmptySet DEF Init, ReadInOrder
  <1>3. SeenIsLatest
    BY DEF Init, SeenIsLatest
  <1>4. RollupIsFaithful
    BY DEF Init, RollupIsFaithful
  <1>5. QED
    BY <1>1, <1>2, <1>3, <1>4 DEF RollupInv

LEMMA InvStep == RollupInv /\ [Next]_vars => RollupInv'
  <1> SUFFICES ASSUME RollupInv, [Next]_vars PROVE RollupInv'
    OBVIOUS
  <1>1. TypeOK'
    BY TypeStep DEF RollupInv
  <1>2. ASSUME NEW s \in Spans, Read(s) PROVE RollupInv'
    <2>1. ReadInOrder' /\ SeenIsLatest'
      BY <1>2, OrderStep, SeenStep DEF RollupInv
    <2>2. RollupIsFaithful'
      BY <1>2, FaithfulStep
    <2>3. QED
      BY <1>1, <2>1, <2>2 DEF RollupInv
  <1>3. CASE Roll \/ UNCHANGED vars
    <2>1. read' = read /\ window' = window /\ seen' = seen /\ buckets' = buckets
      BY <1>3 DEF Roll, vars
    <2>2. QED
      BY <1>1, <2>1 DEF RollupInv, ReadInOrder, SeenIsLatest, RollupIsFaithful, Group
  <1>4. QED
    BY <1>2, <1>3 DEF Next

(* The inductive invariant: types, order, what was seen and the buckets.   *)
THEOREM RollupInvariant == Spec => []RollupInv
  BY InvInit, InvStep, PTL DEF Spec

(* Whatever spans the window holds, however many start together, every     *)
(* bucket counts, dates and classifies exactly its own: TraceParser.parse  *)
(* computes a function of the set of spans but for its oldest's protocol.  *)
THEOREM RollupIsRight == Spec => []RollupIsFaithful
  <1>1. RollupInv => RollupIsFaithful
    BY DEF RollupInv
  <1>2. QED
    BY <1>1, RollupInvariant, PTL

-----------------------------------------------------------------------------
LEMMA RollClosesTheResult ==
  ASSUME RollupInv, Roll
  PROVE  EndsAreServices'
  <1>1. /\ read = window /\ services' = Overlaid /\ window' = window
        /\ connections' = {Connection(k) : k \in {l \in DOMAIN buckets : buckets[l].count >= MinSpanCount}}
    BY DEF Roll
  <1>2. \A id \in DOMAIN seen :
           [id |-> id, active |-> TRUE, last |-> seen[id], meta |-> Defined(id)] \in services'
    BY <1>1 DEF Overlaid
  <1>7. \A v \in services' :
           \/ v.id \in DOMAIN seen /\ v.active
              /\ v = [id |-> v.id, active |-> TRUE, last |-> seen[v.id], meta |-> Defined(v.id)]
           \/ v.id \notin DOMAIN seen /\ ~v.active
              /\ v = [id |-> v.id, active |-> FALSE, last |-> Now, meta |-> Defined(v.id)]
    <2> SUFFICES ASSUME NEW v \in services'
                 PROVE  \/ v.id \in DOMAIN seen /\ v.active
                           /\ v = [id |-> v.id, active |-> TRUE, last |-> seen[v.id], meta |-> Defined(v.id)]
                        \/ v.id \notin DOMAIN seen /\ ~v.active
                           /\ v = [id |-> v.id, active |-> FALSE, last |-> Now, meta |-> Defined(v.id)]
      OBVIOUS
    <2>1. CASE \E id \in DOMAIN seen :
                  v = [id |-> id, active |-> TRUE, last |-> seen[id], meta |-> Defined(id)]
      BY <2>1
    <2>2. CASE \E id \in DOMAIN Catalog \ DOMAIN seen :
                  v = [id |-> id, active |-> FALSE, last |-> Now, meta |-> Defined(id)]
      BY <2>2
    <2>3. QED
      BY <1>1, <2>1, <2>2 DEF Overlaid
  <1>3. ASSUME NEW c \in connections'
        PROVE  /\ \E v \in services' : v.id = c.source /\ v.active /\ c.last <= v.last
               /\ c.target # None => \E v \in services' : v.id = c.target /\ v.active /\ c.first <= v.last
    <2>1. PICK k \in DOMAIN buckets : c = Connection(k)
      BY <1>1
    <2>2. Faithful(k)
      BY DEF RollupInv, RollupIsFaithful, Faithful
    <2>3. /\ c.source = k[1] /\ c.last = buckets[k].last /\ c.first = buckets[k].first
          /\ c.target = IF buckets[k].isService THEN k[2] ELSE None
      BY <2>1 DEF Connection
    <2>4. PICK s \in Group(k) : s.start = c.last
      BY <2>2, <2>3 DEF Faithful
    <2>5. s \in read /\ k[1] = s.service /\ k[1] \in Witnessed(s)
      BY <2>4 DEF Group, Key, Witnessed
    <2>6. k[1] \in DOMAIN seen /\ c.last <= seen[k[1]]
      BY <2>4, <2>5 DEF RollupInv, SeenIsLatest
    <2>7. \E v \in services' : v.id = c.source /\ v.active /\ c.last <= v.last
      BY <1>2, <2>3, <2>6
    <2>8. ASSUME c.target # None
          PROVE  \E v \in services' : v.id = c.target /\ v.active /\ c.first <= v.last
      <3>1. buckets[k].isService /\ c.target = k[2]
        BY <2>3, <2>8
      <3>2. PICK t \in Group(k) : t.start = c.first /\ buckets[k].isService = CallsService(t)
        BY <2>2, <2>3 DEF Faithful
      <3>3. t \in read /\ Crosses(t) /\ CallsService(t) /\ k[2] = Target(t)
        BY <3>1, <3>2 DEF Group, Key
      <3>4. k[2] \in Witnessed(t)
        BY <3>3 DEF Witnessed
      <3>5. k[2] \in DOMAIN seen /\ c.first <= seen[k[2]]
        BY <3>2, <3>3, <3>4 DEF RollupInv, SeenIsLatest
      <3>6. QED
        BY <1>2, <3>1, <3>5
    <2>9. QED
      BY <2>7, <2>8
  <1>4. {v.id : v \in {w \in services' : w.active}} = UNION {Witnessed(s) : s \in window'}
    <2>1. {v.id : v \in {w \in services' : w.active}} = DOMAIN seen
      <3>1. \A v \in services' : v.active => v.id \in DOMAIN seen
        BY <1>7
      <3>2. \A id \in DOMAIN seen : \E v \in services' : v.active /\ v.id = id
        BY <1>2
      <3>3. QED
        BY <3>1, <3>2
    <2>2. QED
      BY <1>1, <2>1 DEF RollupInv, SeenIsLatest
  <1>5. \A v, w \in services' : v.id = w.id => v = w
    BY <1>7
  <1>6. QED
    BY <1>3, <1>4, <1>5 DEF EndsAreServices

(* The services and connections that the Datadog adapter hands on are      *)
(* closed: no connection dangles, and only what a span witnesses is        *)
(* active.                                                                 *)
THEOREM ResultIsClosed == Spec => []EndsAreServices
  <1>1. Init => EndsAreServices
    BY DEF Init, EndsAreServices
  <1>2. RollupInv /\ EndsAreServices /\ [Next]_vars => EndsAreServices'
    <2> SUFFICES ASSUME RollupInv, EndsAreServices, [Next]_vars PROVE EndsAreServices'
      OBVIOUS
    <2>1. CASE Roll
      BY <2>1, RollClosesTheResult
    <2>2. ASSUME NEW s \in Spans, Read(s) PROVE EndsAreServices'
      BY <2>2 DEF Read, EndsAreServices
    <2>3. CASE UNCHANGED vars
      BY <2>3 DEF vars, result, EndsAreServices
    <2>4. QED
      BY <2>1, <2>2, <2>3 DEF Next
  <1>3. QED
    BY <1>1, <1>2, RollupInvariant, PTL DEF Spec
-----------------------------------------------------------------------------
(* A trail, way by way: each starts where the one before came to, and no   *)
(* two are of one relationship.                                            *)
Joined(root, t) == \A i \in DOMAIN t : t[i].from = IF i = 1 THEN root ELSE t[i - 1].to
Distinct(t) == \A i, j \in DOMAIN t : t[i].rel = t[j].rel => i = j
Long(ways, root, k) == {t \in Seq(ways) : Len(t) = k /\ Joined(root, t) /\ Distinct(t)}
Unused(t, w) == \A i \in DOMAIN t : t[i].rel # w.rel

LEMMA EndIsLast ==
  ASSUME NEW ways, NEW t \in Seq(ways), NEW root
  PROVE  /\ t = <<>> <=> Len(t) = 0
         /\ t # <<>> => End(root, t) = t[Len(t)].to /\ Len(t) \in DOMAIN t
  BY DEF End, Last

(* One way more makes a trail of a trail, when it starts where that came   *)
(* to and follows a relationship that it did not.                          *)
LEMMA OneMore ==
  ASSUME NEW ways, NEW root, NEW k \in Nat, NEW t \in Long(ways, root, k),
         NEW w \in ways, w.from = End(root, t), Unused(t, w)
  PROVE  Append(t, w) \in Long(ways, root, k + 1)
<1> DEFINE u == Append(t, w)
<1>1. t \in Seq(ways) /\ Len(t) = k /\ Joined(root, t) /\ Distinct(t)
  BY DEF Long
<1>2. /\ u \in Seq(ways) /\ Len(u) = k + 1 /\ u[k + 1] = w
      /\ \A i \in 1 .. k : u[i] = t[i]
      /\ DOMAIN t = 1 .. k /\ DOMAIN u = 1 .. k + 1
  BY <1>1
<1>3. \A i \in 1 .. k + 1 : i \in 1 .. k \/ i = k + 1
  OBVIOUS
<1>4. w.from = IF k = 0 THEN root ELSE t[k].to
  BY <1>1, EndIsLast DEF End
<1> HIDE DEF u
<1>5. Joined(root, u)
  <2> SUFFICES ASSUME NEW i \in 1 .. k + 1 PROVE u[i].from = IF i = 1 THEN root ELSE u[i - 1].to
    BY <1>2 DEF Joined
  <2>1. CASE i \in 1 .. k
    <3>1. t[i].from = IF i = 1 THEN root ELSE t[i - 1].to
      BY <1>1, <1>2, <2>1 DEF Joined
    <3>2. i # 1 => i - 1 \in 1 .. k
      BY <2>1
    <3> QED
      BY <1>2, <2>1, <3>1, <3>2
  <2>2. CASE i = k + 1
    <3>1. k # 0 => k \in 1 .. k /\ i - 1 = k /\ i # 1
      BY <2>2
    <3>2. k = 0 => i = 1
      BY <2>2
    <3> QED
      BY <1>2, <1>4, <2>2, <3>1, <3>2
  <2> QED
    BY <1>3, <2>1, <2>2
<1>6. Distinct(u)
  <2> SUFFICES ASSUME NEW i \in 1 .. k + 1, NEW j \in 1 .. k + 1, u[i].rel = u[j].rel PROVE i = j
    BY <1>2 DEF Distinct
  <2>1. CASE i \in 1 .. k /\ j \in 1 .. k
    BY <1>1, <1>2, <2>1 DEF Distinct
  <2>2. CASE i \in 1 .. k /\ j = k + 1
    BY <1>2, <2>2 DEF Unused
  <2>3. CASE i = k + 1 /\ j \in 1 .. k
    BY <1>2, <2>3 DEF Unused
  <2> QED
    BY <1>3, <2>1, <2>2, <2>3
<1> QED
  BY <1>2, <1>5, <1>6 DEF Long, u

(* A trail of k ways that goes one way further than another.               *)
OneMoreWay(root, t, w, u, k) ==
    /\ u = Append(t, w) /\ w.from = End(root, t) /\ Unused(t, w)
    /\ u[k] = w /\ End(root, u) = w.to /\ \A i \in 1 .. k - 1 : u[i] = t[i]

LEMMA Shortened ==
  ASSUME NEW ways, NEW root, NEW k \in Nat, NEW u \in Long(ways, root, k + 1)
  PROVE  \E t \in Long(ways, root, k) :
            /\ u = Append(t, u[k + 1]) /\ u[k + 1] \in ways
            /\ u[k + 1].from = End(root, t) /\ Unused(t, u[k + 1])
            /\ \A i \in 1 .. k : u[i] = t[i]
<1> DEFINE t == [i \in 1 .. k |-> u[i]]
<1>1. u \in Seq(ways) /\ Len(u) = k + 1 /\ Joined(root, u) /\ Distinct(u)
  BY DEF Long
<1>2. DOMAIN u = 1 .. k + 1 /\ k + 1 \in 1 .. k + 1 /\ \A i \in 1 .. k : i \in 1 .. k + 1 /\ i # k + 1
  BY <1>1
<1>3. \A i \in 1 .. k + 1 : u[i] \in ways
  BY <1>1, <1>2
<1>4. t \in Seq(ways) /\ Len(t) = k /\ DOMAIN t = 1 .. k /\ \A i \in 1 .. k : u[i] = t[i]
  BY <1>2, <1>3
<1>5. u = Append(t, u[k + 1])
  <2> HIDE DEF t
  <2>1. /\ Append(t, u[k + 1]) \in Seq(ways) /\ Len(Append(t, u[k + 1])) = k + 1
        /\ Append(t, u[k + 1])[k + 1] = u[k + 1]
        /\ \A i \in 1 .. k : Append(t, u[k + 1])[i] = t[i]
    BY <1>2, <1>3, <1>4
  <2>2. \A i \in 1 .. k + 1 : i \in 1 .. k \/ i = k + 1
    OBVIOUS
  <2>3. \A i \in 1 .. k + 1 : u[i] = Append(t, u[k + 1])[i]
    BY <1>4, <2>1, <2>2
  <2> QED
    BY <1>1, <2>1, <2>3
<1> HIDE DEF t
<1>6. Joined(root, t)
  <2> SUFFICES ASSUME NEW i \in 1 .. k PROVE t[i].from = IF i = 1 THEN root ELSE t[i - 1].to
    BY <1>4 DEF Joined
  <2>1. u[i].from = IF i = 1 THEN root ELSE u[i - 1].to
    BY <1>1, <1>2 DEF Joined
  <2>2. i # 1 => i - 1 \in 1 .. k
    OBVIOUS
  <2> QED
    BY <1>4, <2>1, <2>2
<1>7. Distinct(t) /\ Unused(t, u[k + 1])
  BY <1>1, <1>2, <1>4 DEF Distinct, Unused
<1>8. u[k + 1].from = End(root, t)
  <2>1. u[k + 1].from = IF k + 1 = 1 THEN root ELSE u[k + 1 - 1].to
    BY <1>1, <1>2 DEF Joined
  <2>2. k # 0 => k \in 1 .. k /\ k + 1 - 1 = k /\ k + 1 # 1
    OBVIOUS
  <2>3. k = 0 => t = <<>>
    BY <1>4, EndIsLast
  <2>4. k # 0 => t # <<>> /\ End(root, t) = t[k].to
    BY <1>4, EndIsLast
  <2> QED
    BY <1>4, <2>1, <2>2, <2>3, <2>4 DEF End
<1> QED
  BY <1>2, <1>3, <1>4, <1>5, <1>6, <1>7, <1>8 DEF Long

(* Every trail of some length is one of a length less and one way more.    *)
LEMMA OneLess ==
  ASSUME NEW ways, NEW root, NEW k \in Nat, k # 0, NEW u \in Long(ways, root, k)
  PROVE  k - 1 \in Nat /\ \E t \in Long(ways, root, k - 1), w \in ways : OneMoreWay(root, t, w, u, k)
<1>1. PICK j \in Nat : j = k - 1 /\ k = j + 1
  <2>1. k - 1 \in Nat /\ k = k - 1 + 1
    OBVIOUS
  <2> QED
    BY <2>1, Zenon
<1>2. u \in Long(ways, root, j + 1)
  BY <1>1
<1>3. PICK t \in Long(ways, root, j) :
        /\ u = Append(t, u[j + 1]) /\ u[j + 1] \in ways
        /\ u[j + 1].from = End(root, t) /\ Unused(t, u[j + 1])
        /\ \A i \in 1 .. j : u[i] = t[i]
  BY ONLY <1>2, Shortened, Zenon
<1>4. PICK w \in ways : w = u[j + 1]
  BY <1>3, Zenon
<1>5. u[k] = w /\ \A i \in 1 .. k - 1 : u[i] = t[i]
  BY <1>1, <1>3, <1>4
<1>6. End(root, u) = w.to
  <2>1. u \in Seq(ways) /\ Len(u) = k
    BY DEF Long
  <2>2. u # <<>>
    BY <2>1, EndIsLast
  <2> QED
    BY <1>5, <2>1, <2>2, EndIsLast
<1>7. OneMoreWay(root, t, w, u, k)
  BY <1>3, <1>4, <1>5, <1>6, Zenon DEF OneMoreWay
<1>8. t \in Long(ways, root, k - 1) /\ k - 1 \in Nat
  BY <1>1
<1> QED
  BY <1>7, <1>8, Zenon

LEMMA NoneLong == ASSUME NEW ways, NEW root PROVE Long(ways, root, 0) = {<<>>}
<1>1. ASSUME NEW t \in Long(ways, root, 0) PROVE t = <<>>
  BY EndIsLast DEF Long
<1>2. <<>> \in Seq(ways) /\ Len(<<>>) = 0 /\ DOMAIN <<>> = {}
  OBVIOUS
<1>3. <<>> \in Long(ways, root, 0)
  BY <1>2 DEF Long, Joined, Distinct
<1> QED
  BY <1>1, <1>3

LEMMA OnwardIsLonger ==
  ASSUME NEW ways, NEW root, NEW k \in Nat
  PROVE  UNION {Onward(ways, root, t) : t \in Long(ways, root, k)} = Long(ways, root, k + 1)
<1>1. ASSUME NEW t \in Long(ways, root, k), NEW u \in Onward(ways, root, t)
      PROVE  u \in Long(ways, root, k + 1)
  <2>1. PICK w \in ways : u = Append(t, w) /\ w.from = End(root, t) /\ \A i \in DOMAIN t : t[i].rel # w.rel
    BY <1>1, Zenon DEF Onward
  <2>2. Unused(t, w)
    BY <2>1, Zenon DEF Unused
  <2> QED
    BY <2>1, <2>2, OneMore, Zenon
<1>2. ASSUME NEW u \in Long(ways, root, k + 1)
      PROVE  \E t \in Long(ways, root, k) : u \in Onward(ways, root, t)
  <2>1. PICK t \in Long(ways, root, k) :
          /\ u = Append(t, u[k + 1]) /\ u[k + 1] \in ways
          /\ u[k + 1].from = End(root, t) /\ Unused(t, u[k + 1])
    BY Shortened, Zenon
  <2>2. u \in Onward(ways, root, t)
    BY <2>1, Zenon DEF Onward, Unused
  <2> QED
    BY <2>2
<1> QED
  BY <1>1, <1>2, Zenon

(* The trails of a query are those of every length that it allows.         *)
LEMMA TrailsAre ==
  ASSUME NEW ways, NEW root, NEW n \in Nat
  PROVE  Trails(ways, root, n) = UNION {Long(ways, root, k) : k \in 1 .. n}
<1> DEFINE Extended(S) == UNION {Onward(ways, root, t) : t \in S}
           Solves(f) == f = [k \in 0 .. n |-> IF k = 0 THEN {<<>>} ELSE Extended(f[k - 1])]
           g == CHOOSE f : Solves(f)
           f == [k \in 0 .. n |-> Long(ways, root, k)]
<1>1. Trails(ways, root, n) = UNION {g[k] : k \in 1 .. n}
  BY Zenon DEF Trails
<1>2. \A k \in 1 .. n : k - 1 \in Nat /\ k - 1 \in 0 .. n /\ k - 1 + 1 = k /\ k \in 0 .. n /\ k # 0
  OBVIOUS
<1>3. \A k \in 1 .. n : Extended(Long(ways, root, k - 1)) = Long(ways, root, k)
  <2> SUFFICES ASSUME NEW k \in 1 .. n PROVE Extended(Long(ways, root, k - 1)) = Long(ways, root, k)
    OBVIOUS
  <2>1. Extended(Long(ways, root, k - 1)) = Long(ways, root, k - 1 + 1)
    BY <1>2, OnwardIsLonger, Zenon
  <2> QED
    BY <1>2, <2>1, Zenon
<1>4. Long(ways, root, 0) = {<<>>}
  BY NoneLong
<1> HIDE DEF Extended
<1>5. Solves(f)
  <2>1. \A k \in 0 .. n : k = 0 \/ k \in 1 .. n
    OBVIOUS
  <2>2. \A k \in 0 .. n : Long(ways, root, k) = IF k = 0 THEN {<<>>} ELSE Extended(f[k - 1])
    <3> SUFFICES ASSUME NEW k \in 0 .. n
                 PROVE  Long(ways, root, k) = IF k = 0 THEN {<<>>} ELSE Extended(f[k - 1])
      OBVIOUS
    <3>1. CASE k = 0
      BY <1>4, <3>1
    <3>2. CASE k # 0
      <4>1. f[k - 1] = Long(ways, root, k - 1)
        BY <1>2, <2>1, <3>2
      <4> HIDE DEF f
      <4> QED
        BY <1>3, <2>1, <3>2, <4>1
    <3> QED
      BY <3>1, <3>2
  <2> QED
    BY <2>2, Zenon
<1>6. Solves(g)
  BY <1>5, Zenon
<1> HIDE DEF g
<1>7. 0 \in 0 .. n /\ g[0] = {<<>>} /\ \A k \in 1 .. n : g[k] = Extended(g[k - 1])
  <2>1. 0 \in 0 .. n
    OBVIOUS
  <2>2. \A k \in 0 .. n : g[k] = IF k = 0 THEN {<<>>} ELSE Extended(g[k - 1])
    BY <1>6, Zenon
  <2> QED
    BY <1>2, <2>1, <2>2, Zenon
<1> HIDE DEF Solves
<1> DEFINE T == {k \in 0 .. n : g[k] = Long(ways, root, k)}
<1>8. 0 \in T
  BY <1>4, <1>7
<1>9. ASSUME NEW k \in 1 .. n, k - 1 \in T PROVE k \in T
  BY <1>2, <1>3, <1>7, <1>9
<1> HIDE DEF T
<1>10. 0 .. n \subseteq T
  BY <1>8, <1>9, UpTo
<1>11. \A k \in 1 .. n : g[k] = Long(ways, root, k)
  BY <1>2, <1>10 DEF T
<1> QED
  BY <1>1, <1>11, Zenon

-----------------------------------------------------------------------------
(* What is near grows hop by hop from the node itself.                     *)
Grows(near, g, ways) ==
    /\ near[0] = {<<m, m>> : m \in g.nodes}
    /\ \A k \in 1 .. 8 : near[k] = Further(ways, near[k - 1])

LEMMA NearGrows ==
  ASSUME NEW g, NEW ways
  PROVE  Grows(Near(g, ways), g, ways)
<1> DEFINE X == g.nodes \X (g.nodes \cup {w.to : w \in ways})
           V == SUBSET X
           base == {<<m, m>> : m \in g.nodes}
           H == [p \in V \X (1 .. 8) |-> Further(ways, p[1])]
           Solves(f) == f = [k \in 0 .. 8 |-> IF k = 0 THEN base ELSE Further(ways, f[k - 1])]
           h == CHOOSE f : Solves(f)
<1>1. Near(g, ways) = h
  BY Zenon DEF Near
<1>2. \A k \in 1 .. 8 : k - 1 \in 0 .. 8 /\ k \in 0 .. 8 /\ k # 0
  OBVIOUS
<1>3. base \in V
  OBVIOUS
<1>4. ASSUME NEW S \in V PROVE Further(ways, S) \in V
  <2>1. ASSUME NEW p \in S, NEW w \in ways PROVE <<p[1], w.to>> \in X
    <3>1. p \in X
      OBVIOUS
    <3> QED
      BY <3>1
  <2> HIDE DEF X
  <2> QED
    BY <2>1 DEF Further
<1> HIDE DEF base, V
<1>5. \A S \in V, k \in 1 .. 8 : H[<<S, k>>] = Further(ways, S)
  OBVIOUS
<1> HIDE DEF H
<1>6. Steps(H, 8, V)
  BY <1>4, <1>5 DEF Steps
<1>7. PICK f : f \in [0 .. 8 -> V] /\ f[0] = base /\ \A k \in 1 .. 8 : f[k] = H[<<f[k - 1], k>>]
  <2>1. 8 \in Nat
    OBVIOUS
  <2>2. \E f : Iterates(f, 8, V, base, H)
    BY <1>3, <1>6, <2>1, Recursion, Zenon
  <2> QED
    BY <2>2, Zenon DEF Iterates
<1>8. Solves(f)
  <2>1. \A k \in 0 .. 8 : k # 0 => k \in 1 .. 8 /\ k - 1 \in 0 .. 8
    OBVIOUS
  <2>2. ASSUME NEW k \in 1 .. 8 PROVE f[k] = Further(ways, f[k - 1])
    <3>1. f[k - 1] \in V
      BY <1>2, <1>7
    <3> QED
      BY <1>5, <1>7, <3>1, Zenon
  <2> QED
    BY <1>7, <2>1, <2>2
<1>9. Solves(h)
  BY <1>8, Zenon
<1> HIDE DEF h
<1>10. h[0] = base /\ \A k \in 1 .. 8 : h[k] = Further(ways, h[k - 1])
  BY <1>2, <1>9
<1> QED
  BY <1>1, <1>10 DEF Grows, base

(* Once near, near at every distance beyond.                               *)
LEMMA NearStays ==
  ASSUME NEW g, NEW ways, NEW near, Grows(near, g, ways),
         NEW i \in 0 .. 8, NEW j \in 0 .. 8, i <= j
  PROVE  near[i] \subseteq near[j]
<1> DEFINE T == {k \in 0 .. 8 : i <= k => near[i] \subseteq near[k]}
<1>1. 0 \in T
  OBVIOUS
<1>2. ASSUME NEW k \in 1 .. 8, k - 1 \in T PROVE k \in T
  <2>1. near[k - 1] \subseteq near[k]
    BY DEF Grows, Further
  <2>2. CASE i <= k - 1
    <3>1. near[i] \subseteq near[k - 1]
      BY <1>2, <2>2
    <3> QED
      BY <2>1, <3>1
  <2>3. CASE ~ (i <= k - 1)
    <3>1. i <= k => i = k
      BY <2>3
    <3> QED
      BY <3>1
  <2> QED
    BY <2>2, <2>3
<1> HIDE DEF T
<1>3. 0 .. 8 \subseteq T
  BY <1>1, <1>2, UpTo
<1> QED
  BY <1>3 DEF T

-----------------------------------------------------------------------------
(* With its arrow, a relationship is one way.                              *)
Single(ways) == \A v, w \in ways : v.rel = w.rel => v = w

(* A node that is k hops away and not fewer.                               *)
At(near, root, x, k) == <<root, x>> \in near[k] /\ (k # 0 => <<root, x>> \notin near[k - 1])

NearAlong(near, root, t, k) ==
    <<root, End(root, t)>> \in near[k] /\ \A i \in 1 .. k : <<root, t[i].to>> \in near[i]

LEMMA StepIsNear ==
  ASSUME NEW g, NEW ways, NEW near, Grows(near, g, ways), NEW k \in 1 .. 8,
         NEW a, NEW b, <<a, b>> \in near[k - 1], NEW w \in ways, w.from = b
  PROVE  <<a, w.to>> \in near[k]
<1> DEFINE S == near[k - 1]
<1>1. near[k] = Further(ways, S)
  BY DEF Grows
<1>2. <<a, b>>[1] = a /\ <<a, b>>[2] = b /\ <<a, b>> \in S
  OBVIOUS
<1> HIDE DEF S
<1>3. <<a, w.to>> \in {<<a, v.to>> : v \in {u \in ways : u.from = b}}
  BY Zenon
<1>4. {<<a, v.to>> : v \in {u \in ways : u.from = b}}
         \in {{<<p[1], v.to>> : v \in {u \in ways : u.from = p[2]}} : p \in S}
  BY <1>2, Zenon
<1> QED
  BY <1>1, <1>3, <1>4, Zenon DEF Further

(* A trail of k ways stays within k hops, and within i after i of them.    *)
LEMMA TrailIsNear ==
  ASSUME NEW g, NEW ways, NEW near, Grows(near, g, ways), NEW root \in g.nodes, NEW n \in 0 .. 8
  PROVE  \A t \in Long(ways, root, n) : NearAlong(near, root, t, n)
<1> DEFINE T == {k \in 0 .. 8 : \A t \in Long(ways, root, k) : NearAlong(near, root, t, k)}
<1>1. 0 \in T
  <2>1. <<root, root>> \in near[0]
    BY DEF Grows
  <2>2. NearAlong(near, root, <<>>, 0)
    BY <2>1 DEF NearAlong, End
  <2> QED
    BY <2>2, NoneLong
<1>2. ASSUME NEW k \in 1 .. 8, k - 1 \in T PROVE k \in T
  <2> SUFFICES ASSUME NEW u \in Long(ways, root, k) PROVE NearAlong(near, root, u, k)
    OBVIOUS
  <2>1. k \in Nat /\ k # 0
    OBVIOUS
  <2>2. PICK t \in Long(ways, root, k - 1), w \in ways : OneMoreWay(root, t, w, u, k)
    BY <2>1, OneLess, Zenon
  <2>3. NearAlong(near, root, t, k - 1)
    BY <1>2
  <2>4. <<root, w.to>> \in near[k]
    <3>1. w.from = End(root, t)
      BY <2>2, Zenon DEF OneMoreWay
    <3>2. <<root, End(root, t)>> \in near[k - 1]
      BY <2>3, Zenon DEF NearAlong
    <3> QED
      BY <3>1, <3>2, StepIsNear
  <2>5. u[k] = w /\ End(root, u) = w.to /\ \A i \in 1 .. k - 1 : u[i] = t[i]
    BY <2>2, Zenon DEF OneMoreWay
  <2>6. \A i \in 1 .. k : i = k \/ i \in 1 .. k - 1
    OBVIOUS
  <2> QED
    BY <2>3, <2>4, <2>5, <2>6 DEF NearAlong
<1> HIDE DEF T
<1>3. 0 .. 8 \subseteq T
  BY <1>1, <1>2, UpTo
<1> QED
  BY <1>3 DEF T

(* To a node that is k hops away there is a trail of k ways: no way of it  *)
(* can be repeated, for the node would have been nearer then.              *)
Reaches(near, ways, root, k) ==
    \A x : At(near, root, x, k) => \E t \in Long(ways, root, k) : End(root, t) = x

LEMMA NearHasTrail ==
  ASSUME NEW g, NEW ways, NEW near, Grows(near, g, ways), Single(ways),
         NEW root \in g.nodes, NEW n \in 0 .. 8
  PROVE  Reaches(near, ways, root, n)
<1> DEFINE T == {k \in 0 .. 8 : Reaches(near, ways, root, k)}
<1>1. 0 \in T
  <2>1. ASSUME NEW x, <<root, x>> \in near[0] PROVE x = root
    BY <2>1 DEF Grows
  <2>2. End(root, <<>>) = root /\ <<>> \in Long(ways, root, 0)
    BY NoneLong DEF End
  <2>3. Reaches(near, ways, root, 0)
    BY <2>1, <2>2, Zenon DEF Reaches, At
  <2> QED
    BY <2>3
<1>2. ASSUME NEW k \in 1 .. 8, k - 1 \in T PROVE k \in T
  <2> SUFFICES ASSUME NEW x, At(near, root, x, k)
               PROVE  \E t \in Long(ways, root, k) : End(root, t) = x
    <3>1. k \in 0 .. 8
      OBVIOUS
    <3> QED
      BY <3>1, Zenon DEF Reaches
  <2>1. <<root, x>> \in Further(ways, near[k - 1]) /\ <<root, x>> \notin near[k - 1]
    BY DEF At, Grows
  <2>2. PICK p \in near[k - 1] : <<root, x>> \in {<<p[1], v.to>> : v \in {u \in ways : u.from = p[2]}}
    BY <2>1, Zenon DEF Further
  <2>3. PICK w \in ways : w.from = p[2] /\ <<root, x>> = <<p[1], w.to>>
    BY <2>2, Zenon
  <2>4. p[1] = root /\ w.to = x
    BY <2>3
  <2> DEFINE y == p[2]
  <2>5. <<root, y>> \in near[k - 1]
    <3>1. \A j \in 0 .. 8 : \A q \in near[j] : q = <<q[1], q[2]>>
      <4> DEFINE U == {j \in 0 .. 8 : \A q \in near[j] : q = <<q[1], q[2]>>}
      <4>1. 0 \in U
        BY DEF Grows
      <4>2. ASSUME NEW j \in 1 .. 8, j - 1 \in U PROVE j \in U
        BY <4>2 DEF Grows, Further
      <4> HIDE DEF U
      <4>3. 0 .. 8 \subseteq U
        BY <4>1, <4>2, UpTo
      <4> QED
        BY <4>3 DEF U
    <3>2. k - 1 \in 0 .. 8
      OBVIOUS
    <3> QED
      BY <2>4, <3>1, <3>2, Zenon
  <2>6. At(near, root, y, k - 1)
    <3>1. SUFFICES ASSUME k - 1 # 0, <<root, y>> \in near[k - 1 - 1] PROVE FALSE
      BY <2>5, Zenon DEF At
    <3>2. k - 1 \in 1 .. 8
      BY <3>1
    <3>3. <<root, w.to>> \in near[k - 1]
      BY <2>3, <3>1, <3>2, StepIsNear
    <3> QED
      BY <2>1, <2>4, <3>3
  <2> HIDE DEF y
  <2>7. PICK t \in Long(ways, root, k - 1) : End(root, t) = y
    <3>1. Reaches(near, ways, root, k - 1)
      BY <1>2
    <3> QED
      BY <2>6, <3>1, Zenon DEF Reaches
  <2>8. k - 1 \in Nat /\ k - 1 + 1 = k /\ k - 1 \in 0 .. 8 /\ k \in 0 .. 8 /\ \A i \in 1 .. k - 1 : i \in 0 .. 8 /\ i <= k - 1
    OBVIOUS
  <2>9. t \in Seq(ways) /\ Len(t) = k - 1 /\ DOMAIN t = 1 .. k - 1
    BY <2>8 DEF Long
  <2>10. Unused(t, w)
    <3> SUFFICES ASSUME NEW i \in DOMAIN t, t[i].rel = w.rel PROVE FALSE
      BY Zenon DEF Unused
    <3>1. i \in 1 .. k - 1 /\ t[i] \in ways
      BY <2>9
    <3>2. t[i] = w
      BY <3>1, Zenon DEF Single
    <3>3. <<root, x>> \in near[i]
      <4>1. NearAlong(near, root, t, k - 1)
        BY <2>8, TrailIsNear
      <4> QED
        BY <2>4, <3>1, <3>2, <4>1, Zenon DEF NearAlong
    <3>4. near[i] \subseteq near[k - 1]
      BY <2>8, <3>1, NearStays
    <3> QED
      BY <2>1, <3>3, <3>4
  <2>11. Append(t, w) \in Long(ways, root, k)
    BY <2>3, <2>7, <2>8, <2>10, OneMore DEF y
  <2>12. End(root, Append(t, w)) = x
    <3>1. Append(t, w) \in Seq(ways) /\ Len(Append(t, w)) = k /\ Append(t, w)[k] = w /\ k # 0
      BY <2>8, <2>9
    <3> QED
      BY <2>4, <3>1, EndIsLast
  <2> QED
    BY <2>11, <2>12
<1> HIDE DEF T
<1>3. 0 .. 8 \subseteq T
  BY <1>1, <1>2, UpTo
<1> QED
  BY <1>3 DEF T

LEMMA MinIsLeast ==
  ASSUME NEW S, S \subseteq Nat, S # {}
  PROVE  Min(S) \in S /\ \A m \in S : Min(S) <= m
<1>1. PICK m \in S : \A n \in S : m <= n
  BY Least, Zenon
<1> QED
  BY <1>1 DEF Min

LEMMA MinIs ==
  ASSUME NEW S, S \subseteq Nat, NEW m \in S, \A n \in S : m <= n
  PROVE  Min(S) = m
<1>1. PICK n \in S : n = Min(S) /\ \A l \in S : n <= l
  <2>1. S # {}
    OBVIOUS
  <2> QED
    BY <2>1, MinIsLeast, Zenon
<1>2. n <= m /\ m <= n /\ n \in Nat /\ m \in Nat
  BY <1>1
<1> QED
  BY <1>1, <1>2

TrailsTo(ways, root, n, x) == {t \in Trails(ways, root, n) : Last(t).to = x}
Ends(ways, root, n) == {Last(t).to : t \in Trails(ways, root, n)}
Lengths(ts) == {Len(t) : t \in ts}

(* A trail of a query is one of one of the lengths that it allows.         *)
LEMMA TrailFacts ==
  ASSUME NEW ways, NEW root, NEW n \in Nat, NEW t \in Trails(ways, root, n)
  PROVE  /\ Len(t) \in 1 .. n /\ t \in Long(ways, root, Len(t))
         /\ Last(t).to = End(root, t)
<1>1. t \in UNION {Long(ways, root, k) : k \in 1 .. n}
  BY TrailsAre, Zenon
<1>2. PICK k \in 1 .. n : t \in Long(ways, root, k)
  BY <1>1, Zenon
<1>3. t \in Seq(ways) /\ Len(t) = k /\ k # 0
  BY <1>2 DEF Long
<1>4. t # <<>>
  BY <1>3, EndIsLast
<1> QED
  BY <1>2, <1>3, <1>4 DEF End

LEMMA TrailIf ==
  ASSUME NEW ways, NEW root, NEW n \in Nat, NEW k \in 1 .. n, NEW t \in Long(ways, root, k)
  PROVE  t \in Trails(ways, root, n) /\ Len(t) = k /\ Last(t).to = End(root, t)
<1>1. t \in UNION {Long(ways, root, j) : j \in 1 .. n}
  BY Zenon
<1>2. t \in Trails(ways, root, n)
  BY <1>1, TrailsAre, Zenon
<1>3. Len(t) = k
  BY Zenon DEF Long
<1> QED
  BY <1>2, <1>3, TrailFacts, Zenon

LEMMA LengthsAreNat ==
  ASSUME NEW ways, NEW root, NEW n \in Nat, NEW x
  PROVE  Lengths(TrailsTo(ways, root, n, x)) \subseteq 1 .. n
<1> SUFFICES ASSUME NEW t \in TrailsTo(ways, root, n, x) PROVE Len(t) \in 1 .. n
  BY Zenon DEF Lengths
<1>1. t \in Trails(ways, root, n)
  BY Zenon DEF TrailsTo
<1> QED
  BY <1>1, TrailFacts, Zenon

LEMMA NearPairs ==
  ASSUME NEW g, NEW ways, NEW near, Grows(near, g, ways), NEW n \in 0 .. 8, NEW p \in near[n]
  PROVE  p = <<p[1], p[2]>> /\ p[1] \in g.nodes
<1> DEFINE U == {j \in 0 .. 8 : \A q \in near[j] : q = <<q[1], q[2]>> /\ q[1] \in g.nodes}
<1>1. 0 \in U
  BY DEF Grows
<1>2. ASSUME NEW j \in 1 .. 8, j - 1 \in U PROVE j \in U
  BY <1>2 DEF Grows, Further
<1> HIDE DEF U
<1>3. 0 .. 8 \subseteq U
  BY <1>1, <1>2, UpTo
<1> QED
  BY <1>3 DEF U

-----------------------------------------------------------------------------
(* The shortest trail to a node is as long as the node is far.             *)
LEMMA FarIsShortest ==
  ASSUME NEW g, NEW ways, NEW near, Grows(near, g, ways), Single(ways),
         NEW root \in g.nodes, NEW c \in 1 .. 8, NEW x, NEW k \in 1 .. c, At(near, root, x, k)
  PROVE  /\ x # root /\ x \in Ends(ways, root, c)
         /\ ShortestTrail(TrailsTo(ways, root, c, x)) = k
<1> DEFINE ls == Lengths(TrailsTo(ways, root, c, x))
<1>1. c \in Nat /\ k \in 0 .. 8 /\ k - 1 \in 0 .. 8 /\ k # 0 /\ 0 \in 0 .. 8 /\ 0 <= k - 1
  OBVIOUS
<1>2. <<root, x>> \in near[k] /\ <<root, x>> \notin near[k - 1]
  BY <1>1 DEF At
<1>3. x # root
  <2>1. near[0] \subseteq near[k - 1]
    BY <1>1, NearStays
  <2>2. <<root, root>> \in near[0]
    BY DEF Grows
  <2> QED
    BY <1>2, <2>1, <2>2
<1>4. PICK t \in Long(ways, root, k) : End(root, t) = x
  <2>1. Reaches(near, ways, root, k)
    BY <1>1, NearHasTrail
  <2> QED
    BY <2>1, Zenon DEF Reaches
<1>5. Len(t) = k /\ t \in TrailsTo(ways, root, c, x)
  <2>1. t \in Trails(ways, root, c) /\ Len(t) = k /\ Last(t).to = End(root, t)
    BY <1>1, TrailIf
  <2>2. Last(t).to = x
    BY <1>4, <2>1
  <2> QED
    BY <2>1, <2>2, Zenon DEF TrailsTo
<1>6. k \in ls
  BY <1>5, Zenon DEF Lengths
<1>7. ASSUME NEW m \in ls PROVE m \in 1 .. c /\ k <= m
  <2>1. PICK u \in TrailsTo(ways, root, c, x) : m = Len(u)
    BY Zenon DEF Lengths
  <2>2. m \in 1 .. c /\ u \in Long(ways, root, m) /\ End(root, u) = x
    <3>1. u \in Trails(ways, root, c) /\ Last(u).to = x
      BY Zenon DEF TrailsTo
    <3> QED
      BY <1>1, <2>1, <3>1, TrailFacts, Zenon
  <2>3. m \in 0 .. 8
    BY <2>2
  <2>4. NearAlong(near, root, u, m)
    BY <2>2, <2>3, TrailIsNear
  <2>5. <<root, x>> \in near[m]
    BY <2>2, <2>4, Zenon DEF NearAlong
  <2>6. SUFFICES ASSUME ~ (k <= m) PROVE FALSE
    BY <2>2
  <2>7. m <= k - 1
    BY <2>2, <2>6
  <2> QED
    BY <1>1, <1>2, <2>3, <2>5, <2>7, NearStays
<1> HIDE DEF ls
<1>8. Min(ls) = k
  <2>1. ls \subseteq Nat
    BY <1>7
  <2> QED
    BY <1>6, <1>7, <2>1, MinIs
<1>9. x \in Ends(ways, root, c)
  BY <1>5, Zenon DEF TrailsTo, Ends
<1> QED
  BY <1>3, <1>8, <1>9, Zenon DEF ShortestTrail, ls, Lengths

LEMMA ShortestIsFar ==
  ASSUME NEW g, NEW ways, NEW near, Grows(near, g, ways), Single(ways),
         NEW root \in g.nodes, NEW c \in 1 .. 8, NEW x \in Ends(ways, root, c), x # root
  PROVE  \E k \in 1 .. c : At(near, root, x, k) /\ ShortestTrail(TrailsTo(ways, root, c, x)) = k
<1>1. c \in Nat /\ c \in 0 .. 8
  OBVIOUS
<1>2. PICK t \in Trails(ways, root, c) : Last(t).to = x
  BY Zenon DEF Ends
<1>3. PICK n \in 1 .. c : t \in Long(ways, root, n) /\ End(root, t) = x
  BY <1>1, <1>2, TrailFacts, Zenon
<1>4. n \in 0 .. 8
  OBVIOUS
<1>5. <<root, x>> \in near[n]
  <2>1. NearAlong(near, root, t, n)
    BY <1>3, <1>4, TrailIsNear
  <2> QED
    BY <1>3, <2>1, Zenon DEF NearAlong
<1> DEFINE D == {j \in 0 .. 8 : <<root, x>> \in near[j]}
<1>6. n \in D /\ D \subseteq Nat
  BY <1>4, <1>5
<1> HIDE DEF D
<1>7. PICK k \in D : \A j \in D : k <= j
  <2>1. D # {}
    BY <1>6
  <2> QED
    BY <1>6, <2>1, Least, Zenon
<1>8. k \in 0 .. 8 /\ <<root, x>> \in near[k] /\ k <= n
  BY <1>6, <1>7 DEF D
<1>9. k # 0
  <2>1. <<root, x>> \notin near[0]
    BY DEF Grows
  <2> QED
    BY <1>8, <2>1
<1>10. k \in 1 .. c /\ k - 1 \in 0 .. 8 /\ ~ (k <= k - 1)
  BY <1>8, <1>9
<1>11. <<root, x>> \notin near[k - 1]
  BY <1>7, <1>10 DEF D
<1>12. At(near, root, x, k)
  BY <1>8, <1>11, Zenon DEF At
<1> QED
  BY <1>10, <1>12, FarIsShortest

Via(ts) == UNION {{t[i].rel.type : i \in DOMAIN t} : t \in ts}
RowOf(ways, c, a, b) ==
    <<a, b, ShortestTrail(TrailsTo(ways, a, c, b)), Via(TrailsTo(ways, a, c, b))>>

(* What an impact answers, of every node that it reaches.                  *)
Reached(ways, c, a, b) ==
    [node |-> b, depth |-> ShortestTrail(TrailsTo(ways, a, c, b)), via |-> Via(TrailsTo(ways, a, c, b))]
ImpactWays(g, direction) == Ways(OfTypes(g, ImpactRels), direction)

LEMMA ImpactNodes ==
  ASSUME NEW g, NEW root, NEW direction, NEW depth
  PROVE  Impact(g, root, direction, depth).nodes
           = {Reached(ImpactWays(g, direction), Clamp(depth, 1, 8), root, n) :
                 n \in Ends(ImpactWays(g, direction), root, Clamp(depth, 1, 8)) \ {root}}
  BY Zenon DEF Impact, Reached, ImpactWays, Ends, TrailsTo, Via

Drawn(g, root, impacted) ==
    IF impacted = {} THEN {} ELSE {r \in g.rels : {r.from, r.to} \subseteq impacted \cup {root}}

LEMMA ImpactEdges ==
  ASSUME NEW g, NEW root, NEW direction, NEW depth
  PROVE  Impact(g, root, direction, depth).edges
           = Drawn(g, root, Ends(ImpactWays(g, direction), root, Clamp(depth, 1, 8)) \ {root})
  BY Zenon DEF Impact, ImpactWays, Ends, Drawn

LEMMA RowsAre ==
  ASSUME NEW g, NEW direction, NEW depth
  PROVE  Rows(g, direction, depth)
           = UNION {{RowOf(ImpactWays(g, direction), Clamp(depth, 1, 8), a, b) :
                        b \in Ends(ImpactWays(g, direction), a, Clamp(depth, 1, 8)) \ {a}} : a \in g.nodes}
<1> DEFINE W == ImpactWays(g, direction)
           c == Clamp(depth, 1, 8)
           F(a) == {<<a, n.node, n.depth, n.via>> : n \in Impact(g, a, direction, depth).nodes}
           G(a) == {RowOf(W, c, a, b) : b \in Ends(W, a, c) \ {a}}
<1>1. ASSUME NEW a PROVE F(a) = G(a)
  <2>1. Impact(g, a, direction, depth).nodes = {Reached(W, c, a, n) : n \in Ends(W, a, c) \ {a}}
    BY ImpactNodes
  <2>2. \A b : <<a, Reached(W, c, a, b).node, Reached(W, c, a, b).depth, Reached(W, c, a, b).via>>
                  = RowOf(W, c, a, b)
    BY DEF Reached, RowOf
  <2> HIDE DEF W, c
  <2>3. ASSUME NEW p \in F(a) PROVE p \in G(a)
    <3>1. PICK n \in Impact(g, a, direction, depth).nodes : p = <<a, n.node, n.depth, n.via>>
      BY Zenon
    <3>2. PICK b \in Ends(W, a, c) \ {a} : n = Reached(W, c, a, b)
      BY <2>1, <3>1, Zenon
    <3>3. p = RowOf(W, c, a, b)
      BY <2>2, <3>1, <3>2, Zenon
    <3> QED
      BY <3>2, <3>3, Zenon
  <2>4. ASSUME NEW p \in G(a) PROVE p \in F(a)
    <3>1. PICK b \in Ends(W, a, c) \ {a} : p = RowOf(W, c, a, b)
      BY Zenon
    <3>2. Reached(W, c, a, b) \in Impact(g, a, direction, depth).nodes
      BY <2>1, <3>1, Zenon
    <3>3. p = <<a, Reached(W, c, a, b).node, Reached(W, c, a, b).depth, Reached(W, c, a, b).via>>
      BY <2>2, <3>1, Zenon
    <3> QED
      BY <3>2, <3>3, Zenon
  <2> HIDE DEF F, G
  <2> QED
    BY <2>3, <2>4, Zenon
<1>2. Rows(g, direction, depth) = UNION {F(a) : a \in g.nodes}
  BY Zenon DEF Rows
<1> HIDE DEF F, G
<1>3. Rows(g, direction, depth) = UNION {G(a) : a \in g.nodes}
  BY <1>1, <1>2, Zenon
<1> QED
  BY <1>3, Zenon DEF G

LEMMA ClampIs ==
  ASSUME NEW depth \in Int
  PROVE  /\ Clamp(depth, 1, 8) \in 1 .. 8
         /\ {i \in 1 .. 8 : i <= depth \/ i = 1} = 1 .. Clamp(depth, 1, 8)
  BY DEF Clamp

LEMMA AlongIsSingle == ASSUME NEW rels PROVE Single(Along(rels))
  BY DEF Single, Along

-----------------------------------------------------------------------------
(* The first claim: every node that is not further than the depth, once    *)
(* and at its distance.                                                    *)
LEMMA RowsAreDistances ==
  ASSUME NEW g, NEW depth \in Int, NEW near, Grows(near, g, ImpactWays(g, "downstream"))
  PROVE  {<<row[1], row[2], row[3]>> : row \in Rows(g, "downstream", depth)}
           = UNION {{<<p[1], p[2], k>> : p \in near[k] \ near[k - 1]} :
                       k \in {i \in 1 .. 8 : i <= depth \/ i = 1}}
<1> DEFINE c == Clamp(depth, 1, 8)
           W == ImpactWays(g, "downstream")
           L == {<<row[1], row[2], row[3]>> : row \in Rows(g, "downstream", depth)}
           R == UNION {{<<p[1], p[2], k>> : p \in near[k] \ near[k - 1]} : k \in 1 .. c}
<1>1. c \in 1 .. 8 /\ {i \in 1 .. 8 : i <= depth \/ i = 1} = 1 .. c
  BY ClampIs
<1>2. Single(W) /\ Grows(near, g, W)
  BY AlongIsSingle DEF ImpactWays, Ways
<1>3. Rows(g, "downstream", depth) = UNION {{RowOf(W, c, a, b) : b \in Ends(W, a, c) \ {a}} : a \in g.nodes}
  BY RowsAre, Zenon
<1> HIDE DEF c, W
<1>4. ASSUME NEW a \in g.nodes, NEW b \in Ends(W, a, c), b # a
      PROVE  <<a, b, ShortestTrail(TrailsTo(W, a, c, b))>> \in R
  <2>1. PICK k \in 1 .. c : At(near, a, b, k) /\ ShortestTrail(TrailsTo(W, a, c, b)) = k
    BY <1>1, <1>2, <1>4, ShortestIsFar
  <2>2. <<a, b>> \in near[k] \ near[k - 1]
    <3>1. k # 0
      BY <1>1
    <3> QED
      BY <2>1, <3>1, Zenon DEF At
  <2>3. <<a, b>>[1] = a /\ <<a, b>>[2] = b
    OBVIOUS
  <2>4. <<a, b, k>> \in {<<p[1], p[2], k>> : p \in near[k] \ near[k - 1]}
    BY <2>2, <2>3, Zenon
  <2>5. <<a, b, k>> \in R
    BY <2>4, Zenon
  <2> HIDE DEF R
  <2> QED
    BY <2>1, <2>5
<1>5. ASSUME NEW row \in Rows(g, "downstream", depth) PROVE <<row[1], row[2], row[3]>> \in R
  <2>1. PICK a \in g.nodes : row \in {RowOf(W, c, a, b) : b \in Ends(W, a, c) \ {a}}
    BY <1>3, Zenon
  <2>2. PICK b \in Ends(W, a, c) : b # a /\ row = RowOf(W, c, a, b)
    BY <2>1, Zenon
  <2>3. row[1] = a /\ row[2] = b /\ row[3] = ShortestTrail(TrailsTo(W, a, c, b))
    BY <2>2 DEF RowOf
  <2> QED
    BY <1>4, <2>2, <2>3, Zenon
<1>6. ASSUME NEW k \in 1 .. c, NEW p \in near[k] \ near[k - 1] PROVE <<p[1], p[2], k>> \in L
  <2>1. k \in 0 .. 8 /\ k \in 1 .. c /\ k # 0
    BY <1>1
  <2>2. p = <<p[1], p[2]>> /\ p[1] \in g.nodes
    BY <1>2, <2>1, NearPairs
  <2>3. PICK a, b : a = p[1] /\ b = p[2] /\ a \in g.nodes
    BY <2>2, Zenon
  <2>4. At(near, a, b, k)
    BY <2>2, <2>3, Zenon DEF At
  <2>5. b # a /\ b \in Ends(W, a, c) /\ ShortestTrail(TrailsTo(W, a, c, b)) = k
    BY <1>1, <1>2, <2>3, <2>4, FarIsShortest
  <2>6. RowOf(W, c, a, b) \in Rows(g, "downstream", depth)
    <3>1. RowOf(W, c, a, b) \in {RowOf(W, c, a, x) : x \in Ends(W, a, c) \ {a}}
      BY <2>5
    <3>2. a \in g.nodes
      BY <2>3
    <3>3. RowOf(W, c, a, b) \in UNION {{RowOf(W, c, y, x) : x \in Ends(W, y, c) \ {y}} : y \in g.nodes}
      BY <3>1, <3>2, Zenon
    <3> QED
      BY <1>3, <3>3, Zenon
  <2>7. RowOf(W, c, a, b)[1] = a /\ RowOf(W, c, a, b)[2] = b /\ RowOf(W, c, a, b)[3] = k
    BY <2>5 DEF RowOf
  <2> QED
    BY <2>3, <2>6, <2>7, Zenon
<1>7. L \subseteq R
  BY <1>5, Zenon
<1>8. R \subseteq L
  <2> SUFFICES ASSUME NEW q \in R PROVE q \in L
    OBVIOUS
  <2>1. PICK k \in 1 .. c : q \in {<<p[1], p[2], k>> : p \in near[k] \ near[k - 1]}
    BY Zenon
  <2>2. PICK p \in near[k] \ near[k - 1] : q = <<p[1], p[2], k>>
    BY <2>1, Zenon
  <2> QED
    BY <1>6, <2>2, Zenon
<1> QED
  BY <1>1, <1>7, <1>8, Zenon

-----------------------------------------------------------------------------
(* The third claim: the last way of a shortest trail is a relationship     *)
(* from a node one hop nearer.                                             *)
LEMMA HopBefore ==
  ASSUME NEW g, NEW depth \in Int, NEW near, Grows(near, g, ImpactWays(g, "downstream")),
         NEW root \in g.nodes, NEW n \in Impact(g, root, "downstream", depth).nodes
  PROVE  \E r \in Impact(g, root, "downstream", depth).edges :
            /\ r.to = n.node
            /\ \/ n.depth = 1 /\ r.from = root
               \/ \E m \in Impact(g, root, "downstream", depth).nodes :
                     m.node = r.from /\ m.depth = n.depth - 1
<1> DEFINE c == Clamp(depth, 1, 8)
           W == ImpactWays(g, "downstream")
           answer == Impact(g, root, "downstream", depth)
<1>1. c \in 1 .. 8 /\ c \in Nat
  BY ClampIs
<1>2. Single(W) /\ Grows(near, g, W)
  BY AlongIsSingle DEF ImpactWays, Ways
<1>3. answer.nodes = {Reached(W, c, root, x) : x \in Ends(W, root, c) \ {root}}
  BY ImpactNodes
<1>3a. answer.edges = Drawn(g, root, Ends(W, root, c) \ {root})
  BY ImpactEdges
<1>4. \A w \in W : w.rel \in g.rels /\ w.from = w.rel.from /\ w.to = w.rel.to
  BY DEF ImpactWays, Ways, Along, OfTypes
<1> HIDE DEF c, W
<1>5. PICK x \in Ends(W, root, c) : x # root /\ n = Reached(W, c, root, x)
  BY <1>3, Zenon
<1>6. PICK k \in 1 .. c : At(near, root, x, k) /\ ShortestTrail(TrailsTo(W, root, c, x)) = k
  BY <1>1, <1>2, <1>5, ShortestIsFar
<1>7. n.node = x /\ n.depth = k
  BY <1>5, <1>6 DEF Reached
<1>8. k \in 0 .. 8 /\ k - 1 \in 0 .. 8 /\ k # 0 /\ k \in 1 .. 8
  BY <1>1
<1>9. PICK u \in Long(W, root, k) : End(root, u) = x
  <2>1. Reaches(near, W, root, k)
    BY <1>2, <1>8, NearHasTrail
  <2> QED
    BY <1>6, <2>1, Zenon DEF Reaches
<1>10. PICK j \in Nat : j = k - 1 /\ k = j + 1
  <2>1. k - 1 \in Nat /\ k = k - 1 + 1
    BY <1>8
  <2> QED
    BY <2>1, Zenon
<1>11. PICK t \in Long(W, root, j), w \in W : OneMoreWay(root, t, w, u, k)
  <2>1. k \in Nat
    BY <1>8
  <2>2. PICK t \in Long(W, root, k - 1), w \in W : OneMoreWay(root, t, w, u, k)
    BY <1>8, <2>1, OneLess, Zenon
  <2>3. t \in Long(W, root, j)
    BY <1>10
  <2> QED
    BY <2>2, <2>3, Zenon
<1>12. PICK r \in g.rels : r = w.rel /\ r.from = End(root, t) /\ r.to = x
  <2>1. w.from = End(root, t) /\ w.to = x
    BY <1>9, <1>11 DEF OneMoreWay
  <2> QED
    BY <1>4, <2>1, Zenon
<1>13. CASE k = 1
  <2>1. t = <<>>
    <3>1. j = 0
      BY <1>10, <1>13
    <3> QED
      BY <3>1, NoneLong
  <2>2. r.from = root
    BY <1>12, <2>1 DEF End
  <2>3. {r.from, r.to} \subseteq (Ends(W, root, c) \ {root}) \cup {root}
    BY <1>5, <1>12, <2>2
  <2>4. r \in answer.edges
    <3>1. Ends(W, root, c) \ {root} # {}
      BY <1>5
    <3> QED
      BY <1>3a, <2>3, <3>1 DEF Drawn
  <2> QED
    BY <1>7, <1>12, <1>13, <2>2, <2>4, Zenon
<1>14. CASE k # 1
  <2>1. j \in 1 .. c /\ j \in 0 .. 8 /\ j \in 1 .. 8 /\ j # 0 /\ j - 1 \in 0 .. 8 /\ k - 1 = j
    BY <1>1, <1>8, <1>10, <1>14
  <2> DEFINE y == End(root, t)
  <2>2. <<root, y>> \in near[j]
    <3>1. NearAlong(near, root, t, j)
      BY <1>2, <2>1, TrailIsNear
    <3> QED
      BY <3>1, Zenon DEF NearAlong
  <2>3. <<root, x>> \notin near[j]
    BY <1>6, <1>8, <2>1, Zenon DEF At
  <2>4. <<root, y>> \notin near[j - 1]
    <3>1. SUFFICES ASSUME <<root, y>> \in near[j - 1] PROVE FALSE
      OBVIOUS
    <3>2. w.from = y /\ w.to = x
      BY <1>4, <1>12
    <3>3. <<root, w.to>> \in near[j]
      BY <1>2, <2>1, <3>1, <3>2, StepIsNear
    <3> QED
      BY <2>3, <3>2, <3>3
  <2>5. At(near, root, y, j)
    BY <2>2, <2>4, Zenon DEF At
  <2>6. /\ y # root /\ y \in Ends(W, root, c)
        /\ ShortestTrail(TrailsTo(W, root, c, y)) = j
    <3> HIDE DEF y
    <3> QED
      BY <1>1, <1>2, <2>1, <2>5, FarIsShortest
  <2>7. r.from = y
    BY <1>12, Zenon
  <2> HIDE DEF y
  <2>8. {r.from, r.to} \subseteq (Ends(W, root, c) \ {root}) \cup {root}
    BY <1>5, <1>12, <2>6, <2>7
  <2>9. r \in answer.edges
    <3>1. Ends(W, root, c) \ {root} # {}
      BY <1>5
    <3> QED
      BY <1>3a, <2>8, <3>1 DEF Drawn
  <2>10. PICK m \in answer.nodes : m = Reached(W, c, root, y)
    BY <1>3, <2>6, Zenon
  <2>11. m.node = y /\ m.depth = j
    BY <2>6, <2>10 DEF Reached
  <2>12. m.node = r.from /\ m.depth = n.depth - 1
    BY <1>7, <2>1, <2>7, <2>11
  <2> QED
    BY <1>7, <1>12, <2>9, <2>12, Zenon
<1> QED
  BY <1>13, <1>14

(* A trail the other way round.                                            *)
Flip(w) == [rel |-> w.rel, from |-> w.to, to |-> w.from]
Rev(t) == [i \in 1 .. Len(t) |-> Flip(t[Len(t) + 1 - i])]
Flipped(ways, others) == \A w \in ways : Flip(w) \in others
Types(t) == {t[i].rel.type : i \in DOMAIN t}

LEMMA Reversal ==
  ASSUME NEW ways, NEW others, Flipped(ways, others), NEW a, NEW k \in Nat, k # 0,
         NEW t \in Long(ways, a, k)
  PROVE  /\ Rev(t) \in Long(others, End(a, t), k)
         /\ End(End(a, t), Rev(t)) = a
         /\ Types(Rev(t)) = Types(t)
<1> DEFINE u == Rev(t)
           b == End(a, t)
<1>1. /\ t \in Seq(ways) /\ Len(t) = k /\ DOMAIN t = 1 .. k
      /\ Joined(a, t) /\ Distinct(t)
  BY DEF Long
<1>2. \A i \in 1 .. k : t[i] \in ways
  BY <1>1
<1>3. \A i \in 1 .. k : k + 1 - i \in 1 .. k /\ k + 1 - (k + 1 - i) = i
  OBVIOUS
<1>4. u = [i \in 1 .. k |-> Flip(t[k + 1 - i])]
  BY <1>1, Zenon DEF Rev
<1> HIDE DEF u
<1>5. DOMAIN u = 1 .. k /\ \A i \in 1 .. k : u[i] = Flip(t[k + 1 - i])
  BY <1>4
<1>6. \A i \in 1 .. k : u[i] \in others
  BY <1>2, <1>3, <1>5, Zenon DEF Flipped
<1>7. u \in Seq(others) /\ Len(u) = k
  BY <1>4, <1>5, <1>6
<1>8. \A i \in 1 .. k : /\ u[i].rel = t[k + 1 - i].rel
                        /\ u[i].from = t[k + 1 - i].to /\ u[i].to = t[k + 1 - i].from
  BY <1>5 DEF Flip
<1>9. b = t[k].to /\ t[1].from = a /\ 1 \in 1 .. k /\ k \in 1 .. k /\ k + 1 - 1 = k /\ k + 1 - k = 1
  <2>1. b = t[k].to
    BY <1>1, EndIsLast
  <2>2. 1 \in 1 .. k /\ k \in 1 .. k /\ k + 1 - 1 = k /\ k + 1 - k = 1
    OBVIOUS
  <2> HIDE DEF b
  <2> QED
    BY <1>1, <2>1, <2>2 DEF Joined
<1> HIDE DEF b
<1>10. Joined(b, u)
  <2> SUFFICES ASSUME NEW i \in 1 .. k PROVE u[i].from = IF i = 1 THEN b ELSE u[i - 1].to
    BY <1>5, Zenon DEF Joined
  <2>1. CASE i = 1
    BY <1>8, <1>9, <2>1
  <2>2. CASE i # 1
    <3>1. PICK j \in 1 .. k : j = k + 1 - i /\ j # k /\ j + 1 \in 1 .. k /\ j + 1 # 1 /\ j + 1 - 1 = j
                              /\ i - 1 \in 1 .. k /\ k + 1 - (i - 1) = j + 1
      <4>1. /\ k + 1 - i \in 1 .. k /\ k + 1 - i # k /\ k + 1 - i + 1 \in 1 .. k
            /\ k + 1 - i + 1 # 1 /\ k + 1 - i + 1 - 1 = k + 1 - i
            /\ i - 1 \in 1 .. k /\ k + 1 - (i - 1) = k + 1 - i + 1
        BY <2>2
      <4> QED
        BY <4>1, Zenon
    <3>2. u[i].from = t[j].to
      BY <1>8, <3>1
    <3>3. u[i - 1].to = t[j + 1].from
      BY <1>8, <3>1, Zenon
    <3>4. t[j + 1].from = t[j].to
      BY <1>1, <3>1 DEF Joined
    <3> QED
      BY <2>2, <3>2, <3>3, <3>4
  <2> QED
    BY <2>1, <2>2
<1>11. Distinct(u)
  <2> SUFFICES ASSUME NEW i \in 1 .. k, NEW j \in 1 .. k, u[i].rel = u[j].rel PROVE i = j
    BY <1>5, Zenon DEF Distinct
  <2>1. t[k + 1 - i].rel = t[k + 1 - j].rel
    BY <1>8
  <2>2. k + 1 - i = k + 1 - j
    BY <1>1, <1>3, <2>1, Zenon DEF Distinct
  <2> QED
    BY <2>2
<1>12. End(b, u) = a
  <2>1. End(b, u) = u[k].to
    BY <1>7, EndIsLast
  <2> QED
    BY <1>8, <1>9, <2>1
<1>13. Types(u) = Types(t)
  <2>1. ASSUME NEW i \in 1 .. k PROVE t[i].rel.type \in Types(u)
    <3>1. k + 1 - i \in 1 .. k /\ u[k + 1 - i].rel = t[i].rel
      BY <1>3, <1>8
    <3> QED
      BY <1>5, <3>1 DEF Types
  <2>2. ASSUME NEW i \in 1 .. k PROVE u[i].rel.type \in Types(t)
    BY <1>1, <1>3, <1>8 DEF Types
  <2> QED
    BY <1>1, <1>5, <2>1, <2>2 DEF Types
<1> QED
  BY <1>7, <1>10, <1>11, <1>12, <1>13, Zenon DEF Long, u, b

(* The trails from a to b are as long and of the same types as those of    *)
(* the ways flipped from b to a.                                           *)
LEMMA Mirror ==
  ASSUME NEW ways, NEW others, Flipped(ways, others), NEW c \in Nat, NEW a, NEW b
  PROVE  /\ b \in Ends(ways, a, c) => a \in Ends(others, b, c)
         /\ Lengths(TrailsTo(ways, a, c, b)) \subseteq Lengths(TrailsTo(others, b, c, a))
         /\ Via(TrailsTo(ways, a, c, b)) \subseteq Via(TrailsTo(others, b, c, a))
<1> DEFINE There == TrailsTo(ways, a, c, b)
           Back == TrailsTo(others, b, c, a)
<1>1. ASSUME NEW t \in There
      PROVE  \E u \in Back : Len(u) = Len(t) /\ Types(u) = Types(t)
  <2>1. t \in Trails(ways, a, c) /\ Last(t).to = b
    BY Zenon DEF TrailsTo
  <2>2. PICK k \in 1 .. c : k = Len(t) /\ t \in Long(ways, a, k) /\ End(a, t) = b
    BY <2>1, TrailFacts, Zenon
  <2>3. k \in Nat /\ k # 0
    OBVIOUS
  <2>4. Rev(t) \in Long(others, b, k) /\ End(b, Rev(t)) = a /\ Types(Rev(t)) = Types(t)
    BY <2>2, <2>3, Reversal
  <2>5. Rev(t) \in Trails(others, b, c) /\ Len(Rev(t)) = k /\ Last(Rev(t)).to = End(b, Rev(t))
    BY <2>4, TrailIf
  <2>6. Rev(t) \in Back
    BY <2>4, <2>5, Zenon DEF TrailsTo
  <2> QED
    BY <2>2, <2>4, <2>5, <2>6, Zenon
<1>2. b \in Ends(ways, a, c) => There # {}
  BY Zenon DEF Ends, TrailsTo
<1>3. Back # {} => a \in Ends(others, b, c)
  BY Zenon DEF Ends, TrailsTo
<1> HIDE DEF There, Back
<1>4. Lengths(There) \subseteq Lengths(Back)
  BY <1>1, Zenon DEF Lengths
<1>5. Via(There) \subseteq Via(Back)
  <2> SUFFICES ASSUME NEW y \in Via(There) PROVE y \in Via(Back)
    OBVIOUS
  <2>1. PICK t \in There : y \in Types(t)
    BY Zenon DEF Via, Types
  <2>2. PICK u \in Back : Types(u) = Types(t)
    BY <1>1, Zenon
  <2> QED
    <3>1. y \in Types(u)
      BY <2>1, <2>2
    <3>2. Via(Back) = UNION {Types(v) : v \in Back}
      BY Zenon DEF Via, Types
    <3> QED
      BY <3>1, <3>2, Zenon
<1> QED
  BY <1>1, <1>2, <1>3, <1>4, <1>5, Zenon DEF There, Back

LEMMA WaysFlip ==
  ASSUME NEW rels
  PROVE  Flipped(Along(rels), Against(rels)) /\ Flipped(Against(rels), Along(rels))
<1>1. ASSUME NEW r \in rels, NEW w, w = [rel |-> r, from |-> r.from, to |-> r.to]
      PROVE  Flip(w) = [rel |-> r, from |-> r.to, to |-> r.from]
  BY <1>1 DEF Flip
<1>2. ASSUME NEW r \in rels, NEW w, w = [rel |-> r, from |-> r.to, to |-> r.from]
      PROVE  Flip(w) = [rel |-> r, from |-> r.from, to |-> r.to]
  BY <1>2 DEF Flip
<1>3. Flipped(Along(rels), Against(rels))
  <2> SUFFICES ASSUME NEW w \in Along(rels) PROVE Flip(w) \in Against(rels)
    BY Zenon DEF Flipped
  <2>1. PICK r \in rels : w = [rel |-> r, from |-> r.from, to |-> r.to]
    BY Zenon DEF Along
  <2> QED
    BY <1>1, <2>1, Zenon DEF Against
<1>4. Flipped(Against(rels), Along(rels))
  <2> SUFFICES ASSUME NEW w \in Against(rels) PROVE Flip(w) \in Along(rels)
    BY Zenon DEF Flipped
  <2>1. PICK r \in rels : w = [rel |-> r, from |-> r.to, to |-> r.from]
    BY Zenon DEF Against
  <2> QED
    BY <1>2, <2>1, Zenon DEF Along
<1> QED
  BY <1>3, <1>4

-----------------------------------------------------------------------------
(* Both ends of every relationship are in the graph.                       *)
Whole(g) == \A r \in g.rels : r.from \in g.nodes /\ r.to \in g.nodes

LEMMA EndsAreNodes ==
  ASSUME NEW g, Whole(g), NEW direction \in {"upstream", "downstream"}, NEW root,
         NEW c \in Nat, NEW x \in Ends(ImpactWays(g, direction), root, c)
  PROVE  x \in g.nodes
<1> DEFINE W == ImpactWays(g, direction)
<1>1. \A w \in W : w.to \in g.nodes
  <2>1. W = Along(OfTypes(g, ImpactRels)) \/ W = Against(OfTypes(g, ImpactRels))
    BY DEF ImpactWays, Ways
  <2> HIDE DEF W
  <2> QED
    BY <2>1 DEF Along, Against, OfTypes, Whole
<1> HIDE DEF W
<1>2. PICK t \in Trails(W, root, c) : Last(t).to = x
  BY Zenon DEF Ends, W
<1>3. PICK k \in 1 .. c : t \in Long(W, root, k) /\ End(root, t) = x
  BY <1>2, TrailFacts, Zenon
<1>4. t \in Seq(W) /\ Len(t) = k /\ k \in 1 .. k /\ k # 0
  BY <1>3 DEF Long
<1>5. t[k] \in W /\ t[k].to = x
  BY <1>3, <1>4, EndIsLast
<1> QED
  BY <1>1, <1>5

(* The second claim: upstream is downstream read backwards.                *)
LEMMA UpIsDownBackwards ==
  ASSUME NEW g, Whole(g), NEW depth \in Int
  PROVE  {<<row[2], row[1], row[3], row[4]>> : row \in Rows(g, "upstream", depth)}
           = Rows(g, "downstream", depth)
<1> DEFINE c == Clamp(depth, 1, 8)
           U == ImpactWays(g, "upstream")
           D == ImpactWays(g, "downstream")
           up == Rows(g, "upstream", depth)
           down == Rows(g, "downstream", depth)
           back == {<<row[2], row[1], row[3], row[4]>> : row \in up}
           Of(W) == UNION {{RowOf(W, c, a, b) : b \in Ends(W, a, c) \ {a}} : a \in g.nodes}
<1>1. c \in Nat
  BY ClampIs
<1>2. Flipped(U, D) /\ Flipped(D, U)
  BY WaysFlip DEF ImpactWays, Ways
<1>3. up = Of(U) /\ down = Of(D)
  BY RowsAre, Zenon
<1>4. ASSUME NEW a, NEW b
      PROVE  /\ \A x \in Ends(U, a, c) \cup Ends(D, a, c) : x \in g.nodes
             /\ b \in Ends(U, a, c) <=> a \in Ends(D, b, c)
             /\ ShortestTrail(TrailsTo(U, a, c, b)) = ShortestTrail(TrailsTo(D, b, c, a))
             /\ Via(TrailsTo(U, a, c, b)) = Via(TrailsTo(D, b, c, a))
  <2>1. \A x \in Ends(U, a, c) \cup Ends(D, a, c) : x \in g.nodes
    BY <1>1, EndsAreNodes
  <2> HIDE DEF U, D, c
  <2>2. /\ b \in Ends(U, a, c) => a \in Ends(D, b, c)
        /\ Lengths(TrailsTo(U, a, c, b)) \subseteq Lengths(TrailsTo(D, b, c, a))
        /\ Via(TrailsTo(U, a, c, b)) \subseteq Via(TrailsTo(D, b, c, a))
    BY <1>1, <1>2, Mirror
  <2>3. /\ a \in Ends(D, b, c) => b \in Ends(U, a, c)
        /\ Lengths(TrailsTo(D, b, c, a)) \subseteq Lengths(TrailsTo(U, a, c, b))
        /\ Via(TrailsTo(D, b, c, a)) \subseteq Via(TrailsTo(U, a, c, b))
    BY <1>1, <1>2, Mirror
  <2>4. Lengths(TrailsTo(D, b, c, a)) = Lengths(TrailsTo(U, a, c, b))
    BY <2>2, <2>3, Zenon
  <2>5. ShortestTrail(TrailsTo(U, a, c, b)) = ShortestTrail(TrailsTo(D, b, c, a))
    BY <2>4, Zenon DEF ShortestTrail, Lengths
  <2> QED
    BY <2>1, <2>2, <2>3, <2>5, Zenon
<1> HIDE DEF U, D, c, up, down
<1>5. \A a, b : /\ RowOf(U, c, a, b)[1] = a /\ RowOf(U, c, a, b)[2] = b
                /\ RowOf(U, c, a, b)[3] = ShortestTrail(TrailsTo(U, a, c, b))
                /\ RowOf(U, c, a, b)[4] = Via(TrailsTo(U, a, c, b))
  BY DEF RowOf
<1>6. \A a, b : RowOf(D, c, b, a)
                  = <<RowOf(U, c, a, b)[2], RowOf(U, c, a, b)[1], RowOf(U, c, a, b)[3], RowOf(U, c, a, b)[4]>>
  <2> TAKE a, b
  <2>1. RowOf(D, c, b, a) = <<b, a, ShortestTrail(TrailsTo(U, a, c, b)), Via(TrailsTo(U, a, c, b))>>
    BY <1>4, Zenon DEF RowOf
  <2> QED
    BY <1>5, <2>1, Zenon
<1>7. ASSUME NEW row \in up PROVE <<row[2], row[1], row[3], row[4]>> \in down
  <2>1. PICK a \in g.nodes : row \in {RowOf(U, c, a, b) : b \in Ends(U, a, c) \ {a}}
    BY <1>3, Zenon
  <2>2. PICK b \in Ends(U, a, c) : b # a /\ row = RowOf(U, c, a, b)
    BY <2>1, Zenon
  <2>3. b \in g.nodes /\ a \in Ends(D, b, c)
    BY <1>4
  <2>4. RowOf(D, c, b, a) \in {RowOf(D, c, b, x) : x \in Ends(D, b, c) \ {b}}
    BY <2>2, <2>3
  <2>5. RowOf(D, c, b, a) \in Of(D)
    BY <2>3, <2>4, Zenon
  <2> HIDE DEF Of
  <2>6. RowOf(D, c, b, a) \in down
    BY <1>3, <2>5, Zenon
  <2> QED
    BY <1>6, <2>2, <2>6, Zenon
<1>8. ASSUME NEW row \in down PROVE row \in back
  <2>1. PICK b \in g.nodes : row \in {RowOf(D, c, b, a) : a \in Ends(D, b, c) \ {b}}
    BY <1>3, Zenon
  <2>2. PICK a \in Ends(D, b, c) : b # a /\ row = RowOf(D, c, b, a)
    BY <2>1, Zenon
  <2>3. a \in g.nodes /\ b \in Ends(U, a, c)
    BY <1>4
  <2>4. RowOf(U, c, a, b) \in {RowOf(U, c, a, x) : x \in Ends(U, a, c) \ {a}}
    BY <2>2, <2>3
  <2>5. RowOf(U, c, a, b) \in Of(U)
    BY <2>3, <2>4, Zenon
  <2> HIDE DEF Of
  <2>6. RowOf(U, c, a, b) \in up
    BY <1>3, <2>5, Zenon
  <2> QED
    BY <1>6, <2>2, <2>6, Zenon
<1> HIDE DEF Of
<1>9. back \subseteq down /\ down \subseteq back
  BY <1>7, <1>8, Zenon
<1> QED
  BY <1>9, Zenon DEF up, down

LEMMA GraphIsWhole == Whole(Graph)
  BY DEF Whole, Graph

(* ImpactIsByDistance, in every state.                                     *)
LEMMA ByDistance == ImpactIsByDistance
<1> DEFINE g == Graph
           near == Near(g, Ways(OfTypes(g, ImpactRels), "downstream"))
<1> SUFFICES ASSUME NEW depth \in Depths
             PROVE  LET down == Rows(g, "downstream", depth)
                        up == Rows(g, "upstream", depth)
                    IN  /\ {<<row[1], row[2], row[3]>> : row \in down}
                              = UNION {{<<p[1], p[2], k>> : p \in near[k] \ near[k - 1]} :
                                          k \in {i \in 1 .. 8 : i <= depth \/ i = 1}}
                        /\ {<<row[2], row[1], row[3], row[4]>> : row \in up} = down
                        /\ \A root \in g.nodes :
                              LET answer == Impact(g, root, "downstream", depth)
                              IN  \A n \in answer.nodes :
                                     \E r \in answer.edges :
                                        /\ r.to = n.node
                                        /\ \/ n.depth = 1 /\ r.from = root
                                           \/ \E m \in answer.nodes :
                                                 m.node = r.from /\ m.depth = n.depth - 1
  BY Zenon DEF ImpactIsByDistance
<1>1. depth \in Int
  BY DepthsOK
<1>2. Grows(near, g, ImpactWays(g, "downstream"))
  BY NearGrows, Zenon DEF ImpactWays
<1>3. Whole(g)
  BY GraphIsWhole
<1> HIDE DEF near, g
<1>4. {<<row[1], row[2], row[3]>> : row \in Rows(g, "downstream", depth)}
        = UNION {{<<p[1], p[2], k>> : p \in near[k] \ near[k - 1]} :
                    k \in {i \in 1 .. 8 : i <= depth \/ i = 1}}
  BY <1>1, <1>2, RowsAreDistances
<1>5. {<<row[2], row[1], row[3], row[4]>> : row \in Rows(g, "upstream", depth)}
        = Rows(g, "downstream", depth)
  BY <1>1, <1>3, UpIsDownBackwards, Zenon
<1>6. ASSUME NEW root \in g.nodes, NEW n \in Impact(g, root, "downstream", depth).nodes
      PROVE  \E r \in Impact(g, root, "downstream", depth).edges :
                /\ r.to = n.node
                /\ \/ n.depth = 1 /\ r.from = root
                   \/ \E m \in Impact(g, root, "downstream", depth).nodes :
                         m.node = r.from /\ m.depth = n.depth - 1
  BY <1>1, <1>2, HopBefore, Zenon
<1> QED
  BY <1>4, <1>5, <1>6, Zenon

-----------------------------------------------------------------------------
(* Which labels INITIATES and TARGETS relate, and that nothing else ends   *)
(* at a service or a connection.                                           *)
Shaped(g) ==
    \A r \in g.rels :
       /\ r.type = "TARGETS" => r.from.label = "ExternalConnection" /\ r.to.label = "Service"
       /\ r.type = "INITIATES" => r.from.label = "Service" /\ r.to.label = "ExternalConnection"
       /\ r.to.label \in {"Service", "ExternalConnection"} => r.type \in {"INITIATES", "TARGETS"}

LEMMA GraphIsShaped == Shaped(Graph)
<1> DEFINE I == {Rel(ServiceNode(c.source), "INITIATES", ConnectionNode(c.id)) : c \in connections}
           T == {Rel(ConnectionNode(c.id), "TARGETS", ServiceNode(c.target)) :
                    c \in {d \in connections : d.target # None}}
           C == {Rel(ServiceNode(n.repo), IF n.label = "TestCase" THEN "DEFINES" ELSE "CONTAINS",
                     [label |-> n.label, id |-> n.id]) : n \in StaticNodes}
           Fits(r) ==
              /\ r.type = "TARGETS" => r.from.label = "ExternalConnection" /\ r.to.label = "Service"
              /\ r.type = "INITIATES" => r.from.label = "Service" /\ r.to.label = "ExternalConnection"
              /\ r.to.label \in {"Service", "ExternalConnection"} => r.type \in {"INITIATES", "TARGETS"}
<1>1. Graph.rels \subseteq I \cup T \cup C \cup StaticRels
  BY DEF Graph
<1>2. ASSUME NEW r \in I PROVE Fits(r)
  BY DEF Rel, ServiceNode, ConnectionNode
<1>3. ASSUME NEW r \in T PROVE Fits(r)
  BY DEF Rel, ServiceNode, ConnectionNode
<1>4. ASSUME NEW r \in C PROVE Fits(r)
  BY StaticOK DEF Rel, ServiceNode
<1>5. ASSUME NEW r \in StaticRels PROVE Fits(r)
  BY StaticOK
<1> HIDE DEF I, T, C, Fits
<1>6. ASSUME NEW r \in Graph.rels PROVE Fits(r)
  BY <1>1, <1>2, <1>3, <1>4, <1>5
<1> QED
  BY <1>6 DEF Shaped, Fits

CallWays(g) == Ways(OfTypes(g, {"INITIATES", "TARGETS"}), "upstream")

LEMMA CallWaysAre ==
  ASSUME NEW g
  PROVE  /\ CallWays(g) \subseteq ImpactWays(g, "upstream")
         /\ \A w \in ImpactWays(g, "upstream") :
               /\ w.rel \in g.rels /\ w.from = w.rel.to /\ w.to = w.rel.from
               /\ w.rel.type \in {"INITIATES", "TARGETS"} => w \in CallWays(g)
         /\ \A w \in CallWays(g) : w.rel.type \in {"INITIATES", "TARGETS"}
<1> DEFINE A == OfTypes(g, ImpactRels)
           B == OfTypes(g, {"INITIATES", "TARGETS"})
<1>1. CallWays(g) = Against(B) /\ ImpactWays(g, "upstream") = Against(A)
  BY DEF CallWays, ImpactWays, Ways
<1>2. /\ B \subseteq A /\ A \subseteq g.rels
      /\ \A r \in A : r.type \in {"INITIATES", "TARGETS"} => r \in B
      /\ \A r \in B : r.type \in {"INITIATES", "TARGETS"}
  BY DEF OfTypes, ImpactRels
<1> HIDE DEF A, B
<1>3. ASSUME NEW rels, NEW w \in Against(rels)
      PROVE  /\ w.rel \in rels /\ w.from = w.rel.to /\ w.to = w.rel.from
             /\ \A more : w.rel \in more => w \in Against(more)
  <2>1. PICK r \in rels : w = [rel |-> r, from |-> r.to, to |-> r.from]
    BY Zenon DEF Against
  <2>2. w.rel = r /\ w.from = r.to /\ w.to = r.from
    BY <2>1
  <2>3. \A more : r \in more => w \in Against(more)
    BY <2>1, Zenon DEF Against
  <2> QED
    BY <2>2, <2>3, Zenon
<1>4. Against(B) \subseteq Against(A)
  BY <1>2, <1>3
<1> QED
  BY <1>1, <1>2, <1>3, <1>4

(* From a service, against the arrows, an impact only meets what calls:    *)
(* connections and services in turn.                                       *)
Turn(n) == IF n % 2 = 0 THEN "Service" ELSE "ExternalConnection"

LEMMA Alternates ==
  ASSUME NEW g, Shaped(g), NEW v, v.label = "Service", NEW n \in Nat
  PROVE  /\ Long(ImpactWays(g, "upstream"), v, n) = Long(CallWays(g), v, n)
         /\ \A t \in Long(CallWays(g), v, n) : End(v, t).label = Turn(n)
<1> DEFINE U == ImpactWays(g, "upstream")
           C == CallWays(g)
           OfCalls(t, k) == t \in Seq(C) /\ End(v, t).label = Turn(k)
           T == {k \in 0 .. n : \A t \in Long(U, v, k) : OfCalls(t, k)}
<1>1. /\ C \subseteq U
      /\ \A w \in U : /\ w.rel \in g.rels /\ w.from = w.rel.to /\ w.to = w.rel.from
                      /\ w.rel.type \in {"INITIATES", "TARGETS"} => w \in C
  BY CallWaysAre
<1> HIDE DEF U, C
<1>2. 0 \in T
  <2>1. OfCalls(<<>>, 0)
    BY DEF End, Turn
  <2> HIDE DEF OfCalls
  <2>2. 0 \in 0 .. n /\ Long(U, v, 0) = {<<>>}
    BY NoneLong
  <2> QED
    BY <2>1, <2>2
<1>3. ASSUME NEW k \in 1 .. n, k - 1 \in T PROVE k \in T
  <2> SUFFICES ASSUME NEW u \in Long(U, v, k) PROVE OfCalls(u, k)
    OBVIOUS
  <2>1. k \in Nat /\ k # 0 /\ k - 1 \in Nat
    OBVIOUS
  <2>2. PICK t \in Long(U, v, k - 1), w \in U : OneMoreWay(v, t, w, u, k)
    BY <2>1, OneLess, Zenon
  <2>3. OfCalls(t, k - 1)
    BY <1>3
  <2>4. u = Append(t, w) /\ w.from = End(v, t) /\ End(v, u) = w.to
    BY <2>2, Zenon DEF OneMoreWay
  <2>5. w.rel \in g.rels /\ w.rel.to.label = Turn(k - 1) /\ w.to = w.rel.from
    BY <1>1, <2>3, <2>4
  <2>6. Turn(k - 1) \in {"Service", "ExternalConnection"} /\ Turn(k - 1) # Turn(k)
        /\ Turn(k) \in {"Service", "ExternalConnection"}
    BY <2>1 DEF Turn
  <2>7. w.rel.type \in {"INITIATES", "TARGETS"} /\ w.rel.from.label = Turn(k)
    BY <2>5, <2>6 DEF Shaped
  <2>8. w \in C
    BY <1>1, <2>7
  <2>9. u \in Seq(C)
    <3>1. t \in Seq(C)
      BY <2>3
    <3>2. Append(t, w) \in Seq(C)
      BY <2>8, <3>1
    <3> QED
      BY <2>4, <3>2, Zenon
  <2> QED
    BY <2>4, <2>5, <2>7, <2>9
<1> HIDE DEF T
<1>4. 0 .. n \subseteq T
  BY <1>2, <1>3, UpTo
<1>5. \A t \in Long(U, v, n) : t \in Seq(C) /\ End(v, t).label = Turn(n)
  BY <1>4 DEF T
<1>6. Seq(C) \subseteq Seq(U)
  BY <1>1
<1>7. Long(U, v, n) = Long(C, v, n)
  BY <1>5, <1>6, Zenon DEF Long
<1> QED
  BY <1>5, <1>7, Zenon DEF U, C

(* The services that depend on one within so many calls.                   *)
Dependent(g, v, n) == {x \in Ends(CallWays(g), v, n) \ {v} : x.label = "Service"}

LEMMA SameTrails ==
  ASSUME NEW g, Shaped(g), NEW v, v.label = "Service", NEW n \in Nat
  PROVE  Trails(ImpactWays(g, "upstream"), v, n) = Trails(CallWays(g), v, n)
<1> DEFINE U == ImpactWays(g, "upstream")
           C == CallWays(g)
<1>1. \A k \in 1 .. n : Long(U, v, k) = Long(C, v, k)
  BY Alternates
<1>2. /\ Trails(U, v, n) = UNION {Long(U, v, k) : k \in 1 .. n}
      /\ Trails(C, v, n) = UNION {Long(C, v, k) : k \in 1 .. n}
  BY TrailsAre, Zenon
<1> HIDE DEF U, C
<1>3. {Long(U, v, k) : k \in 1 .. n} = {Long(C, v, k) : k \in 1 .. n}
  BY <1>1, Zenon
<1> QED
  BY <1>2, <1>3, Zenon DEF U, C

(* A trail from a service to a service is of whole calls.                  *)
LEMMA WholeCalls ==
  ASSUME NEW g, Shaped(g), NEW v, v.label = "Service", NEW n \in Nat,
         NEW t \in Trails(CallWays(g), v, n), Last(t).to.label = "Service"
  PROVE  Len(t) \in 1 .. n /\ Len(t) % 2 = 0
<1>1. /\ Len(t) \in 1 .. n /\ t \in Long(CallWays(g), v, Len(t))
      /\ Last(t).to = End(v, t)
  BY TrailFacts, Zenon
<1>2. PICK k \in 1 .. n : k = Len(t)
  BY <1>1, Zenon
<1>3. End(v, t).label = Turn(k)
  <2>1. t \in Long(CallWays(g), v, k) /\ k \in Nat
    BY <1>1, <1>2
  <2> QED
    BY <2>1, Alternates
<1>4. Turn(k) = "Service"
  BY <1>1, <1>3
<1>5. k % 2 = 0
  BY <1>4 DEF Turn
<1> QED
  BY <1>2, <1>5

LEMMA Halves ==
  ASSUME NEW m \in Nat, NEW n \in Nat, m % 2 = 0, n % 2 = 0, m <= n
  PROVE  m \div 2 \in Nat /\ n \div 2 \in Nat /\ m \div 2 <= n \div 2 /\ 2 * (m \div 2) = m
  OBVIOUS

(* The least number of calls is half the length of the shortest trail.     *)
LEMMA LeastIsHalf ==
  ASSUME NEW ls, ls \subseteq Nat, ls # {}, \A l \in ls : l % 2 = 0
  PROVE  2 * Min({l \div 2 : l \in ls}) = Min(ls)
<1> DEFINE hs == {l \div 2 : l \in ls}
<1>1. PICK m \in ls : m = Min(ls) /\ \A l \in ls : m <= l
  BY MinIsLeast, Zenon
<1>2. hs \subseteq Nat
  BY Halves
<1>3. PICK h \in hs : h = m \div 2
  BY <1>1
<1>4. \A n \in hs : h <= n
  <2> SUFFICES ASSUME NEW n \in hs PROVE h <= n
    OBVIOUS
  <2>1. PICK l \in ls : n = l \div 2
    OBVIOUS
  <2>2. m <= l /\ m \in Nat /\ l \in Nat /\ m % 2 = 0 /\ l % 2 = 0
    BY <1>1
  <2> QED
    BY <1>3, <2>1, <2>2, Halves
<1> HIDE DEF hs
<1>5. Min(hs) = h
  BY <1>2, <1>4, MinIs
<1>6. 2 * h = m
  <2>1. m \in Nat /\ m % 2 = 0 /\ m <= m
    BY <1>1
  <2> QED
    BY <1>3, <2>1, Halves
<1> QED
  BY <1>1, <1>5, <1>6, Zenon DEF hs

-----------------------------------------------------------------------------
(* Who depends on a service, of whichever answer.                          *)
LEMMA DependentServices ==
  ASSUME NEW g, NEW v, NEW k
  PROVE  {r.service : r \in Dependents(g, v, k)} = Dependent(g, v, RelsOf(k))
<1> DEFINE trails == Trails(CallWays(g), v, RelsOf(k))
           D == {u \in trails : Last(u).to # v /\ Last(u).to.label = "Service"}
           R == {[service |-> Last(t).to, depth |-> Len(t) \div 2] : t \in D}
<1>1. Dependents(g, v, k) = R
  BY Zenon DEF Dependents, CallWays
<1>2. Dependent(g, v, RelsOf(k)) = {Last(t).to : t \in D}
  <2>1. Ends(CallWays(g), v, RelsOf(k)) = {Last(t).to : t \in trails}
    BY Zenon DEF Ends
  <2> HIDE DEF trails
  <2>2. Dependent(g, v, RelsOf(k)) = {x \in {Last(t).to : t \in trails} \ {v} : x.label = "Service"}
    BY <2>1, Zenon DEF Dependent
  <2> QED
    BY <2>2, Zenon
<1> HIDE DEF D
<1>3. \A t : [service |-> Last(t).to, depth |-> Len(t) \div 2].service = Last(t).to
  OBVIOUS
<1>4. {r.service : r \in R} = {Last(t).to : t \in D}
  BY <1>3, Zenon
<1> QED
  BY <1>1, <1>2, <1>4, Zenon

DepthsOf(rows, x) == {r.depth : r \in {q \in rows : q.service = x}}
HalvesOf(ls) == {l \div 2 : l \in ls}

(* The rows of a service that depends are its trails, in calls.            *)
LEMMA DependentDepths ==
  ASSUME NEW g, NEW v, NEW k, NEW x, x # v, x.label = "Service"
  PROVE  DepthsOf(Dependents(g, v, k), x)
           = HalvesOf(Lengths(TrailsTo(CallWays(g), v, RelsOf(k), x)))
<1> DEFINE trails == Trails(CallWays(g), v, RelsOf(k))
           ts == {t \in trails : Last(t).to = x}
           Row(t) == [service |-> Last(t).to, depth |-> Len(t) \div 2]
           R == {Row(t) : t \in {u \in trails : Last(u).to # v /\ Last(u).to.label = "Service"}}
           L == {r.depth : r \in {q \in R : q.service = x}}
           H == {l \div 2 : l \in {Len(t) : t \in ts}}
<1>1. Dependents(g, v, k) = R
  BY Zenon DEF Dependents, CallWays
<1>2. Lengths(TrailsTo(CallWays(g), v, RelsOf(k), x)) = {Len(t) : t \in ts}
  BY Zenon DEF Lengths, TrailsTo
<1> HIDE DEF trails
<1>3. \A t : Row(t).service = Last(t).to /\ Row(t).depth = Len(t) \div 2
  OBVIOUS
<1> HIDE DEF Row
<1>4. ASSUME NEW y \in L PROVE y \in H
  <2>1. PICK r \in R : r.service = x /\ y = r.depth
    BY Zenon
  <2>2. PICK t \in trails : r = Row(t)
    BY Zenon
  <2>3. t \in ts /\ y = Len(t) \div 2
    BY <1>3, <2>1, <2>2, Zenon
  <2> QED
    BY <2>3, Zenon
<1>5. ASSUME NEW y \in H PROVE y \in L
  <2>1. PICK t \in ts : y = Len(t) \div 2
    BY Zenon
  <2>2. Last(t).to # v /\ Last(t).to.label = "Service"
    BY <2>1, Zenon
  <2>3. Row(t) \in R
    BY <2>1, <2>2, Zenon
  <2>4. Row(t).service = x /\ Row(t).depth = y
    BY <1>3, <2>1, Zenon
  <2> HIDE DEF R
  <2> QED
    BY <2>3, <2>4, Zenon
<1> HIDE DEF L, H
<1>6. L = H
  BY <1>4, <1>5, Zenon
<1> QED
  BY <1>1, <1>2, <1>6, Zenon DEF L, H, DepthsOf, HalvesOf

-----------------------------------------------------------------------------
LEMMA AppendedTo ==
  ASSUME NEW ways, NEW t \in Seq(ways), NEW w \in ways
  PROVE  /\ Append(t, w) \in Seq(ways) /\ Len(Append(t, w)) = Len(t) + 1
         /\ Append(t, w)[Len(t) + 1] = w
  OBVIOUS

(* A call is found in both its relationships.                              *)
LEMMA CallHasRels ==
  ASSUME NEW g, NEW x, NEW v, <<x, v>> \in Calls(g)
  PROVE  \E i \in g.rels, t \in g.rels :
            /\ i.type = "INITIATES" /\ t.type = "TARGETS"
            /\ i.to = t.from /\ i.from = x /\ t.to = v
<1> DEFINE I == OfTypes(g, {"INITIATES"})
           T == OfTypes(g, {"TARGETS"})
           P == {q \in I \X T : q[1].to = q[2].from}
<1>1. /\ \A r \in I : r \in g.rels /\ r.type = "INITIATES"
      /\ \A r \in T : r \in g.rels /\ r.type = "TARGETS"
  BY DEF OfTypes
<1>2. Calls(g) = {<<p[1].from, p[2].to>> : p \in P}
  BY Zenon DEF Calls
<1> HIDE DEF I, T
<1>3. PICK p \in P : <<x, v>> = <<p[1].from, p[2].to>>
  BY <1>2, Zenon
<1>4. p[1] \in I /\ p[2] \in T /\ p[1].to = p[2].from
  OBVIOUS
<1>5. p[1].from = x /\ p[2].to = v
  BY <1>3
<1> QED
  BY <1>1, <1>4, <1>5, Zenon

LEMMA RelsAreACall ==
  ASSUME NEW g, NEW i \in g.rels, NEW t \in g.rels,
         i.type = "INITIATES", t.type = "TARGETS", i.to = t.from
  PROVE  <<i.from, t.to>> \in Calls(g)
<1> DEFINE P == {q \in OfTypes(g, {"INITIATES"}) \X OfTypes(g, {"TARGETS"}) : q[1].to = q[2].from}
<1>1. <<i, t>> \in P /\ <<i, t>>[1] = i /\ <<i, t>>[2] = t
  BY DEF OfTypes
<1>2. Calls(g) = {<<p[1].from, p[2].to>> : p \in P}
  BY Zenon DEF Calls
<1> HIDE DEF P
<1> QED
  BY <1>1, <1>2, Zenon

(* A call is a trail of two ways against the arrows.                       *)
LEMMA CallIsATrail ==
  ASSUME NEW g, NEW x, NEW v, x # v, Shaped(g), <<x, v>> \in Calls(g)
  PROVE  x \in Dependent(g, v, 2)
<1> DEFINE C == CallWays(g)
<1>1. PICK i \in g.rels, t \in g.rels :
         /\ i.type = "INITIATES" /\ t.type = "TARGETS"
         /\ i.to = t.from /\ i.from = x /\ t.to = v
  BY CallHasRels
<1>2. x.label = "Service"
  BY <1>1 DEF Shaped
<1>3. PICK a, b : /\ a = [rel |-> t, from |-> t.to, to |-> t.from]
                  /\ b = [rel |-> i, from |-> i.to, to |-> i.from]
  BY Zenon
<1>4. a \in C /\ b \in C
  <2>1. i \in OfTypes(g, {"INITIATES", "TARGETS"}) /\ t \in OfTypes(g, {"INITIATES", "TARGETS"})
    BY <1>1 DEF OfTypes
  <2>2. C = Against(OfTypes(g, {"INITIATES", "TARGETS"}))
    BY DEF CallWays, Ways
  <2> HIDE DEF C
  <2> QED
    BY <1>3, <2>1, <2>2, Zenon DEF Against
<1>5. /\ a.rel = t /\ a.from = v /\ a.to = t.from
      /\ b.rel = i /\ b.from = t.from /\ b.to = x /\ t # i
  BY <1>1, <1>3
<1> HIDE DEF C
<1> DEFINE s == Append(<<>>, a)
           u == Append(s, b)
<1>6. s \in Long(C, v, 1)
  <2>1. <<>> \in Long(C, v, 0) /\ 0 \in Nat /\ 0 + 1 = 1
    BY NoneLong
  <2>2. End(v, <<>>) = v /\ Unused(<<>>, a)
    BY DEF End, Unused
  <2>3. s \in Long(C, v, 0 + 1)
    BY <1>4, <1>5, <2>1, <2>2, OneMore
  <2> QED
    BY <2>1, <2>3
<1>7. s \in Seq(C) /\ s # <<>> /\ Len(s) = 1 /\ s[1] = a /\ DOMAIN s = 1 .. 1
  BY <1>4
<1> HIDE DEF s
<1>8. End(v, s) = t.from /\ Unused(s, b)
  <2>1. End(v, s) = s[1].to
    <3>1. s # <<>> /\ Len(s) = 1
      BY <1>7
    <3>2. End(v, s) = s[Len(s)].to
      BY <1>7, <3>1, EndIsLast, Zenon
    <3> QED
      BY <3>1, <3>2
  <2> QED
    BY <1>5, <1>7, <2>1 DEF Unused
<1>9. u \in Long(C, v, 2)
  <2>1. 1 \in Nat /\ 1 + 1 = 2
    OBVIOUS
  <2>2. u \in Long(C, v, 1 + 1)
    BY <1>4, <1>5, <1>6, <1>8, <2>1, OneMore
  <2> QED
    BY <2>1, <2>2
<1>10. u \in Seq(C) /\ Len(u) = 2 /\ u[2] = b
  <2>1. u \in Seq(C) /\ Len(u) = Len(s) + 1 /\ u[Len(s) + 1] = b
    <3>1. s \in Seq(C) /\ b \in C
      BY <1>4, <1>7
    <3> QED
      BY ONLY <3>1, AppendedTo, Zenon DEF u
  <2>2. Len(s) + 1 = 2
    BY <1>7
  <2> HIDE DEF u
  <2> QED
    BY <2>1, <2>2
<1> HIDE DEF u
<1>11. End(v, u) = x
  <2>1. End(v, u) = u[2].to
    <3>1. u # <<>>
      BY <1>10, EndIsLast
    <3> QED
      BY <1>10, <3>1, EndIsLast
  <2> QED
    BY <1>5, <1>10, <2>1
<1>12. u \in Trails(C, v, 2) /\ Last(u).to = x
  <2>1. 2 \in Nat /\ 2 \in 1 .. 2
    OBVIOUS
  <2> QED
    BY <1>9, <1>11, <2>1, TrailIf
<1>13. x \in Ends(C, v, 2)
  BY <1>12, Zenon DEF Ends
<1> QED
  BY <1>2, <1>13 DEF Dependent, C

LEMMA TrailIsACall ==
  ASSUME NEW g, NEW v, v.label = "Service", Shaped(g), NEW x \in Dependent(g, v, 2)
  PROVE  x # v /\ <<x, v>> \in Calls(g)
<1> DEFINE C == CallWays(g)
<1>1. x \in Ends(C, v, 2) /\ x # v /\ x.label = "Service"
  BY DEF Dependent
<1>2. \A w \in C : /\ w.rel \in g.rels /\ w.from = w.rel.to /\ w.to = w.rel.from
                   /\ w.rel.type \in {"INITIATES", "TARGETS"}
  BY CallWaysAre
<1> HIDE DEF C
<1>3. PICK t \in Trails(C, v, 2) : Last(t).to = x
  BY <1>1, Zenon DEF Ends
<1>4. t \in Long(C, v, 2) /\ End(v, t) = x
  <2>1. 2 \in Nat
    OBVIOUS
  <2>2. Len(t) \in 1 .. 2 /\ Len(t) % 2 = 0
    BY <1>1, <1>3, <2>1, WholeCalls DEF C
  <2>3. t \in Long(C, v, Len(t)) /\ Last(t).to = End(v, t)
    BY <2>1, TrailFacts
  <2>4. PICK k \in 1 .. 2 : k = Len(t) /\ k % 2 = 0
    BY <2>2, Zenon
  <2>5. k = 2
    BY <2>4
  <2> QED
    BY <1>3, <2>3, <2>4, <2>5
<1>5. PICK s \in Long(C, v, 1), b \in C : OneMoreWay(v, s, b, t, 2)
  <2>1. 2 \in Nat /\ 2 # 0 /\ 2 - 1 = 1
    OBVIOUS
  <2>2. PICK s \in Long(C, v, 2 - 1), b \in C : OneMoreWay(v, s, b, t, 2)
    BY <1>4, <2>1, OneLess, Zenon
  <2> QED
    BY <2>1, <2>2
<1>6. PICK o \in Long(C, v, 0), a \in C : OneMoreWay(v, o, a, s, 1)
  <2>1. 1 \in Nat /\ 1 # 0 /\ 1 - 1 = 0
    OBVIOUS
  <2>2. PICK o \in Long(C, v, 1 - 1), a \in C : OneMoreWay(v, o, a, s, 1)
    BY <2>1, OneLess, Zenon
  <2> QED
    BY <2>1, <2>2
<1>7. End(v, o) = v
  BY NoneLong DEF End
<1>8. a.from = v /\ a.to = b.from /\ b.to = x
  BY <1>4, <1>5, <1>6, <1>7, Zenon DEF OneMoreWay
<1>9. /\ a.rel \in g.rels /\ b.rel \in g.rels
      /\ a.rel.type = "TARGETS" /\ b.rel.type = "INITIATES"
      /\ a.rel.to = v /\ b.rel.from = x /\ b.rel.to = a.rel.from
  BY <1>1, <1>2, <1>8 DEF Shaped
<1> QED
  <2>1. <<b.rel.from, a.rel.to>> \in Calls(g)
    BY <1>9, RelsAreACall
  <2> QED
    BY <1>1, <1>9, <2>1

LEMMA CallersDepend ==
  ASSUME NEW g, NEW v, v.label = "Service", Shaped(g)
  PROVE  Calling(g, v) = Dependent(g, v, 2)
<1>1. ASSUME NEW x \in Calling(g, v) PROVE x # v /\ <<x, v>> \in Calls(g)
  <2>1. PICK c \in Calls(g) : c[2] = v /\ c[1] # v /\ x = c[1]
    BY Zenon DEF Calling
  <2>2. c = <<c[1], c[2]>>
    BY DEF Calls
  <2> QED
    BY <2>1, <2>2, Zenon
<1>2. ASSUME NEW x, x # v, <<x, v>> \in Calls(g) PROVE x \in Calling(g, v)
  <2>1. <<x, v>>[1] = x /\ <<x, v>>[2] = v
    OBVIOUS
  <2> QED
    BY <1>2, <2>1, Zenon DEF Calling
<1>3. Calling(g, v) \subseteq Dependent(g, v, 2)
  BY <1>1, CallIsATrail, Zenon
<1>4. Dependent(g, v, 2) \subseteq Calling(g, v)
  BY <1>2, TrailIsACall, Zenon
<1> QED
  BY <1>3, <1>4, Zenon

(* The impact upstream of a service, on services, is asked at 2k and goes  *)
(* through no more than four calls.                                        *)
LEMMA ImpactOnServices ==
  ASSUME NEW g, Shaped(g), NEW v, v.label = "Service",
         NEW k \in Nat, NEW j \in 1 .. 4, Clamp(2 * k, 1, 8) = RelsOf(j)
  PROVE  {[node |-> n.node, depth |-> n.depth] :
              n \in {m \in Impact(g, v, "upstream", 2 * k).nodes : m.node.label = "Service"}}
           = {[node |-> x, depth |-> Min(Lengths(TrailsTo(CallWays(g), v, RelsOf(j), x)))] :
                 x \in Dependent(g, v, RelsOf(j))}
<1> DEFINE c == RelsOf(j)
           U == ImpactWays(g, "upstream")
           C == CallWays(g)
           N == Impact(g, v, "upstream", 2 * k).nodes
           Row(x) == [node |-> x, depth |-> Min(Lengths(TrailsTo(C, v, c, x)))]
           L == {[node |-> n.node, depth |-> n.depth] : n \in {m \in N : m.node.label = "Service"}}
           R == {Row(x) : x \in Dependent(g, v, c)}
<1>1. c \in Nat /\ Clamp(2 * k, 1, 8) = c
  BY DEF RelsOf
<1>2. N = {Reached(U, c, v, x) : x \in Ends(U, v, c) \ {v}}
  <2>1. N = {Reached(U, Clamp(2 * k, 1, 8), v, x) : x \in Ends(U, v, Clamp(2 * k, 1, 8)) \ {v}}
    BY ImpactNodes
  <2> HIDE DEF N, U, c
  <2> QED
    BY <1>1, <2>1, Zenon
<1>3. Trails(U, v, c) = Trails(C, v, c)
  <2> HIDE DEF c
  <2> QED
    BY <1>1, SameTrails
<1> HIDE DEF c, U, C, N
<1>4. Ends(U, v, c) = Ends(C, v, c) /\ \A x : TrailsTo(U, v, c, x) = TrailsTo(C, v, c, x)
  BY <1>3, Zenon DEF Ends, TrailsTo
<1>5. \A x : /\ Reached(U, c, v, x).node = x
             /\ Reached(U, c, v, x).depth = Min(Lengths(TrailsTo(C, v, c, x)))
  <2> TAKE x
  <2>1. ShortestTrail(TrailsTo(U, v, c, x)) = Min(Lengths(TrailsTo(C, v, c, x)))
    BY <1>4, Zenon DEF ShortestTrail, Lengths
  <2> QED
    BY <2>1 DEF Reached
<1>6. Dependent(g, v, c) = {x \in Ends(C, v, c) \ {v} : x.label = "Service"}
  BY Zenon DEF Dependent, C
<1>7. ASSUME NEW r \in L PROVE r \in R
  <2>1. PICK n \in N : n.node.label = "Service" /\ r = [node |-> n.node, depth |-> n.depth]
    BY Zenon
  <2>2. PICK x \in Ends(U, v, c) : x # v /\ n = Reached(U, c, v, x)
    BY <1>2, Zenon
  <2>3. x \in Dependent(g, v, c)
    BY <1>4, <1>5, <1>6, <2>1, <2>2, Zenon
  <2>4. r = Row(x)
    BY <1>5, <2>1, <2>2, Zenon
  <2> QED
    BY <2>3, <2>4, Zenon
<1>8. ASSUME NEW r \in R PROVE r \in L
  <2>1. PICK x \in Dependent(g, v, c) : r = Row(x)
    BY Zenon
  <2>2. x \in Ends(U, v, c) \ {v} /\ x.label = "Service"
    BY <1>4, <1>6, Zenon
  <2>3. PICK n \in N : n = Reached(U, c, v, x)
    BY <1>2, <2>2, Zenon
  <2>4. n.node = x /\ n.depth = Min(Lengths(TrailsTo(C, v, c, x)))
    BY <1>5, <2>3, Zenon
  <2>5. r = [node |-> n.node, depth |-> n.depth]
    BY <2>1, <2>4, Zenon
  <2>6. n.node.label = "Service"
    BY <2>2, <2>4, Zenon
  <2> QED
    BY <2>5, <2>6, Zenon
<1> HIDE DEF L, R
<1>9. L = R
  BY <1>7, <1>8, Zenon
<1> QED
  BY <1>9, Zenon DEF L, R, N, C, c

(* The rows of the answer by depth, each service at its least.             *)
LEMMA LeastDepths ==
  ASSUME NEW g, Shaped(g), NEW v, v.label = "Service", NEW k \in Nat,
         NEW x \in Dependent(g, v, RelsOf(k))
  PROVE  2 * Min({r.depth : r \in {q \in Dependents(g, v, k) : q.service = x}})
           = Min(Lengths(TrailsTo(CallWays(g), v, RelsOf(k), x)))
<1> DEFINE c == RelsOf(k)
           ls == Lengths(TrailsTo(CallWays(g), v, c, x))
<1>1. c \in Nat
  BY DEF RelsOf
<1>2. x \in Ends(CallWays(g), v, c) /\ x # v /\ x.label = "Service"
  BY Zenon DEF Dependent
<1>3. DepthsOf(Dependents(g, v, k), x) = HalvesOf(ls)
  BY <1>2, DependentDepths
<1> HIDE DEF c
<1>4. ls \subseteq Nat
  <2>1. ls \subseteq 1 .. c
    BY <1>1, LengthsAreNat
  <2> QED
    BY <1>1, <2>1
<1>5. ls # {}
  <2>1. PICK t \in Trails(CallWays(g), v, c) : Last(t).to = x
    BY <1>2, Zenon DEF Ends
  <2>2. Len(t) \in ls
    BY <2>1, Zenon DEF Lengths, TrailsTo
  <2> QED
    BY <2>2, Zenon
<1>6. ASSUME NEW l \in ls PROVE l % 2 = 0
  <2>1. PICK t \in TrailsTo(CallWays(g), v, c, x) : l = Len(t)
    BY Zenon DEF Lengths
  <2>2. t \in Trails(CallWays(g), v, c) /\ Last(t).to = x
    BY <2>1, Zenon DEF TrailsTo
  <2>3. Len(t) % 2 = 0
    BY <1>1, <1>2, <2>2, WholeCalls
  <2> QED
    BY <2>1, <2>3
<1> HIDE DEF ls
<1>7. 2 * Min({l \div 2 : l \in ls}) = Min(ls)
  BY <1>4, <1>5, <1>6, LeastIsHalf
<1> QED
  BY <1>3, <1>7, Zenon DEF ls, c, DepthsOf, HalvesOf

(* That is a number of calls, and no more than were allowed.               *)
LEMMA LeastIsWithin ==
  ASSUME NEW g, NEW v, NEW k \in Nat, NEW x \in Dependent(g, v, RelsOf(k))
  PROVE  Min({r.depth : r \in {q \in Dependents(g, v, k) : q.service = x}}) \in 0 .. k
<1> DEFINE c == RelsOf(k)
           ls == Lengths(TrailsTo(CallWays(g), v, c, x))
<1>1. c \in Nat /\ c = k * 2
  BY DEF RelsOf
<1>2. x \in Ends(CallWays(g), v, c) /\ x # v /\ x.label = "Service"
  BY Zenon DEF Dependent
<1>3. DepthsOf(Dependents(g, v, k), x) = HalvesOf(ls)
  BY <1>2, DependentDepths
<1> HIDE DEF c
<1>4. ls \subseteq 1 .. c
  BY <1>1, LengthsAreNat
<1>5. ls # {}
  <2>1. PICK t \in Trails(CallWays(g), v, c) : Last(t).to = x
    BY <1>2, Zenon DEF Ends
  <2>2. Len(t) \in ls
    BY <2>1, Zenon DEF Lengths, TrailsTo
  <2> QED
    BY <2>2, Zenon
<1> HIDE DEF ls
<1>6. HalvesOf(ls) \subseteq 0 .. k /\ HalvesOf(ls) # {}
  <2>1. ASSUME NEW l \in ls PROVE l \div 2 \in 0 .. k
    BY <1>1, <1>4
  <2>2. \E l \in ls : l \div 2 \in HalvesOf(ls)
    BY <1>5, Zenon DEF HalvesOf
  <2> QED
    BY <2>1, <2>2 DEF HalvesOf
<1>7. HalvesOf(ls) \subseteq Nat
  BY <1>6
<1>8. Min(HalvesOf(ls)) \in HalvesOf(ls)
  BY <1>6, <1>7, MinIsLeast, Zenon
<1> QED
  BY <1>3, <1>6, <1>8, Zenon DEF DepthsOf

(* Fewer relationships: the trails of that many among all of them.         *)
LEMMA ShorterTrails ==
  ASSUME NEW ways, NEW root, NEW n \in Nat, NEW m \in 0 .. n
  PROVE  Trails(ways, root, m) = {t \in Trails(ways, root, n) : Len(t) <= m}
<1>1. m \in Nat /\ 1 .. m \subseteq 1 .. n
  OBVIOUS
<1>2. ASSUME NEW t \in Trails(ways, root, m)
      PROVE  t \in Trails(ways, root, n) /\ Len(t) <= m
  <2>1. Len(t) \in 1 .. m /\ t \in Long(ways, root, Len(t))
    BY <1>1, TrailFacts, Zenon
  <2>2. Len(t) \in 1 .. n
    BY <1>1, <2>1
  <2>3. t \in Trails(ways, root, n)
    BY <2>1, <2>2, TrailIf, Zenon
  <2> QED
    BY <1>1, <2>1, <2>3
<1>3. ASSUME NEW t \in Trails(ways, root, n), Len(t) <= m
      PROVE  t \in Trails(ways, root, m)
  <2>1. Len(t) \in 1 .. n /\ t \in Long(ways, root, Len(t))
    BY TrailFacts, Zenon
  <2>2. Len(t) \in 1 .. m
    BY <1>1, <1>3, <2>1
  <2> QED
    BY <1>1, <2>1, <2>2, TrailIf, Zenon
<1> QED
  BY <1>2, <1>3, Zenon

(* The least of a set, and of what is no more than m in it.                *)
LEMMA LeastBelow ==
  ASSUME NEW ls, ls \subseteq Nat, ls # {}, NEW m \in Nat
  PROVE  LET below == {l \in ls : l <= m}
         IN  /\ Min(ls) \in Nat
             /\ Min(ls) <= m <=> below # {}
             /\ below # {} => Min(below) = Min(ls)
<1> DEFINE below == {l \in ls : l <= m}
<1>1. PICK l \in ls : l = Min(ls) /\ \A x \in ls : l <= x
  BY MinIsLeast, Zenon
<1>2. l \in Nat
  BY <1>1
<1>3. ASSUME below # {} PROVE l <= m
  <2>1. PICK x \in ls : x <= m
    BY <1>3
  <2> QED
    BY <1>1, <1>2, <2>1
<1>4. ASSUME l <= m PROVE below # {} /\ Min(below) = l
  <2>1. l \in below /\ below \subseteq Nat /\ \A x \in below : l <= x
    BY <1>1, <1>4
  <2> HIDE DEF below
  <2> QED
    BY <2>1, MinIs
<1> QED
  BY <1>1, <1>2, <1>3, <1>4, Zenon

(* Who depends by at most j calls, and at what least distance: those of    *)
(* the answer for k whose least distance is within them.                   *)
LEMMA DependNearer ==
  ASSUME NEW g, NEW v, NEW k \in Nat, NEW j \in 0 .. k, NEW x
  PROVE  LET L(i) == Min(Lengths(TrailsTo(CallWays(g), v, RelsOf(i), x)))
         IN  /\ x \in Dependent(g, v, RelsOf(j))
                   <=> x \in Dependent(g, v, RelsOf(k)) /\ L(k) <= RelsOf(j)
             /\ x \in Dependent(g, v, RelsOf(j)) => L(j) = L(k)
<1> DEFINE C == CallWays(g)
           m == RelsOf(j)
           n == RelsOf(k)
           ls == Lengths(TrailsTo(C, v, n, x))
           fewer == Lengths(TrailsTo(C, v, m, x))
           below == {l \in ls : l <= m}
<1>1. n \in Nat /\ m \in 0 .. n /\ m \in Nat
  BY DEF RelsOf
<1>2. Trails(C, v, m) = {t \in Trails(C, v, n) : Len(t) <= m}
  <2> HIDE DEF m, n
  <2> QED
    BY <1>1, ShorterTrails
<1>3. fewer = below
  BY <1>2, Zenon DEF Lengths, TrailsTo
<1>4. ls \subseteq Nat
  <2> HIDE DEF n
  <2>1. ls \subseteq 1 .. n
    BY <1>1, LengthsAreNat
  <2> QED
    BY <1>1, <2>1
<1>5. /\ x \in Ends(C, v, n) <=> ls # {}
      /\ x \in Ends(C, v, m) <=> fewer # {}
  BY Zenon DEF Ends, Lengths, TrailsTo
<1>6. \A i : x \in Dependent(g, v, i) <=> x \in Ends(C, v, i) /\ x # v /\ x.label = "Service"
  BY Zenon DEF Dependent
<1>7. ASSUME ls # {}
      PROVE  /\ Min(ls) <= m <=> below # {}
             /\ below # {} => Min(below) = Min(ls)
  <2> HIDE DEF ls, m
  <2> QED
    BY <1>1, <1>4, <1>7, LeastBelow, Zenon
<1>8. fewer # {} => ls # {}
  BY <1>3, Zenon
<1> HIDE DEF ls, fewer, below, m, n
<1>9. /\ x \in Dependent(g, v, m) <=> x \in Dependent(g, v, n) /\ Min(ls) <= m
      /\ x \in Dependent(g, v, m) => Min(fewer) = Min(ls)
  BY <1>3, <1>5, <1>6, <1>7, <1>8, Zenon
<1> QED
  BY <1>9, Zenon DEF ls, fewer, m, n, C

(* DependentsAgree, in every state.                                        *)
LEMMA Agree == DependentsAgree
<1> DEFINE g == Graph
           least(rows, a) == Min({r.depth : r \in {q \in rows : q.service = a}})
<1>1. SUFFICES ASSUME NEW v \in {n \in g.nodes : n.label = "Service"}
               PROVE  /\ Calling(g, v) = {r.service : r \in Dependents(g, v, 1)}
                      /\ Calling(g, v) = {c[1] : c \in {d \in Overview(g) : d[2] = v}}
                      /\ \A k \in {d \in Depths : d >= 1} :
                            LET rows == Dependents(g, v, k)
                            IN  {[node |-> r.service, depth |-> 2 * least(rows, r.service)] :
                                    r \in {q \in rows : least(rows, q.service) <= 4}}
                                  = {[node |-> n.node, depth |-> n.depth] :
                                        n \in {m \in Impact(g, v, "upstream", 2 * k).nodes :
                                                  m.node.label = "Service"}}
  BY Zenon DEF DependentsAgree
<1>2. Shaped(g)
  BY GraphIsShaped
<1>3. v.label = "Service"
  OBVIOUS
<1> HIDE DEF g
<1>4. Calling(g, v) = {r.service : r \in Dependents(g, v, 1)}
  <2>1. RelsOf(1) = 2
    BY DEF RelsOf
  <2>2. {r.service : r \in Dependents(g, v, 1)} = Dependent(g, v, RelsOf(1))
    BY DependentServices
  <2>3. Calling(g, v) = Dependent(g, v, 2)
    BY <1>2, <1>3, CallersDepend
  <2> QED
    BY <2>1, <2>2, <2>3
<1>5. Calling(g, v) = {c[1] : c \in {d \in Overview(g) : d[2] = v}}
  BY Zenon DEF Calling, Overview
<1>6. ASSUME NEW k \in {d \in Depths : d >= 1}
      PROVE  {[node |-> r.service, depth |-> 2 * least(Dependents(g, v, k), r.service)] :
                 r \in {q \in Dependents(g, v, k) : least(Dependents(g, v, k), q.service) <= 4}}
               = {[node |-> n.node, depth |-> n.depth] :
                     n \in {m \in Impact(g, v, "upstream", 2 * k).nodes : m.node.label = "Service"}}
  <2> DEFINE rows == Dependents(g, v, k)
             Shortest(i, x) == Min(Lengths(TrailsTo(CallWays(g), v, RelsOf(i), x)))
             D(i) == Dependent(g, v, RelsOf(i))
             Row(x) == [node |-> x, depth |-> 2 * least(rows, x)]
             j == IF k <= 4 THEN k ELSE 4
  <2>1. /\ k \in Nat /\ j \in 1 .. 4 /\ j \in 0 .. k
        /\ Clamp(2 * k, 1, 8) = RelsOf(j)
    BY DepthsOK DEF Clamp, RelsOf
  <2>2. {r.service : r \in rows} = D(k)
    BY DependentServices
  <2>3. {[node |-> n.node, depth |-> n.depth] :
            n \in {m \in Impact(g, v, "upstream", 2 * k).nodes : m.node.label = "Service"}}
          = {[node |-> x, depth |-> Shortest(j, x)] : x \in D(j)}
    <3> HIDE DEF j
    <3> QED
      BY <1>2, <1>3, <2>1, ImpactOnServices
  <2>4. \A x \in D(k) : 2 * least(rows, x) = Shortest(k, x)
    BY <1>2, <1>3, <2>1, LeastDepths
  <2>5. \A x : /\ x \in D(j) <=> x \in D(k) /\ Shortest(k, x) <= RelsOf(j)
               /\ x \in D(j) => Shortest(j, x) = Shortest(k, x)
    <3> HIDE DEF j
    <3> QED
      BY <2>1, DependNearer
  <2>6. \A x \in D(k) : least(rows, x) \in 0 .. k
    BY <2>1, LeastIsWithin
  <2>7. \A x \in D(k) : least(rows, x) <= 4 <=> Shortest(k, x) <= RelsOf(j)
    <3> TAKE x \in D(k)
    <3>1. 2 * least(rows, x) = Shortest(k, x) /\ least(rows, x) \in 0 .. k
      BY <2>4, <2>6
    <3> HIDE DEF least, rows, Shortest
    <3> QED
      BY <2>1, <3>1 DEF RelsOf
  <2> HIDE DEF rows, D, Shortest, least, j
  <2>8. {Row(r.service) : r \in {q \in rows : least(rows, q.service) <= 4}}
          = {Row(x) : x \in {y \in D(k) : least(rows, y) <= 4}}
    <3> HIDE DEF Row
    <3> QED
      BY <2>2, Zenon
  <2>9. {y \in D(k) : least(rows, y) <= 4} = D(j)
    <3>1. ASSUME NEW x PROVE x \in D(k) /\ least(rows, x) <= 4 <=> x \in D(j)
      BY <2>5, <2>7
    <3> QED
      BY <3>1, Zenon
  <2>10. ASSUME NEW x \in D(j) PROVE Row(x) = [node |-> x, depth |-> Shortest(j, x)]
    <3>1. x \in D(k) /\ Shortest(j, x) = Shortest(k, x)
      BY <2>5
    <3>2. 2 * least(rows, x) = Shortest(j, x)
      BY <2>4, <3>1
    <3> QED
      BY <3>2
  <2>11. {Row(x) : x \in D(j)} = {[node |-> x, depth |-> Shortest(j, x)] : x \in D(j)}
    <3> HIDE DEF Row
    <3> QED
      BY <2>10, Zenon
  <2> QED
    BY <2>3, <2>8, <2>9, <2>11, Zenon DEF rows
<1> QED
  BY <1>4, <1>5, <1>6, Zenon

(* Whatever the traces and the repositories, an impact is the              *)
(* neighbourhood by distance, with a way to draw to every node of it, and  *)
(* upstream is downstream read backwards.                                  *)
THEOREM AlwaysByDistance == Spec => []ImpactIsByDistance
<1>1. ImpactIsByDistance
  BY ByDistance
<1> QED
  BY <1>1, PTL

(* And the four answers about who depends on a service agree.              *)
THEOREM AlwaysAgree == Spec => []DependentsAgree
<1>1. DependentsAgree
  BY Agree
<1> QED
  BY <1>1, PTL
=============================================================================
