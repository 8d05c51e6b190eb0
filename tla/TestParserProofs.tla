--------------------------- MODULE TestParserProofs ---------------------------
(***************************************************************************)
(* What the resolvers refer to and which ids they give, for any            *)
(* repositories, facts and frameworks.                                     *)
(***************************************************************************)
EXTENDS TestParser, NaturalLemmas, FiniteSetTheorems, TLAPS

(* A set of places in a list has a first and a last one.                   *)
LEMMA LeastIn ==
  ASSUME NEW n \in Nat, NEW I, I \subseteq 1 .. n, I # {}
  PROVE  Min(I) \in I
<1>1. I \subseteq Nat
  OBVIOUS
<1>2. \E m \in I : \A k \in I : m <= k
  BY <1>1, Least, Zenon
<1> QED
  BY <1>2, Zenon DEF Min

LEMMA GreatestIn ==
  ASSUME NEW n \in Nat, NEW I, I \subseteq 1 .. n, I # {}
  PROVE  Max(I) \in I
<1> DEFINE T == {n - k : k \in I}
<1>1. PICK m \in T : \A k \in T : m <= k
  <2>1. T \subseteq Nat
    <3> SUFFICES ASSUME NEW k \in I PROVE n - k \in Nat
      OBVIOUS
    <3>1. k \in 1 .. n
      OBVIOUS
    <3> QED
      BY <3>1
  <2>2. T # {}
    OBVIOUS
  <2> QED
    BY <2>1, <2>2, Least, Zenon
<1>2. PICK k \in I : m = n - k
  OBVIOUS
<1>3. ASSUME NEW j \in I PROVE k >= j
  <2>1. j \in 1 .. n /\ k \in 1 .. n
    OBVIOUS
  <2>2. n - k <= n - j
    BY <1>1, <1>2
  <2> QED
    BY <2>1, <2>2
<1> QED
  BY <1>3, Zenon DEF Max

LEMMA ListFacts ==
  ASSUME NEW s, IsList(s)
  PROVE  Len(s) \in Nat /\ DOMAIN s = 1 .. Len(s)
<1>1. \A T : s \in Seq(T) => Len(s) \in Nat /\ DOMAIN s = 1 .. Len(s)
  OBVIOUS
<1> QED
  BY <1>1, Zenon DEF IsList

LEMMA ListIfSeq ==
  ASSUME NEW T, NEW s \in Seq(T)
  PROVE  IsList(s) /\ ToSet(s) \subseteq T
<1>1. Len(s) \in Nat /\ DOMAIN s = 1 .. Len(s) /\ s = [i \in 1 .. Len(s) |-> s[i]]
  OBVIOUS
<1>2. \A i \in 1 .. Len(s) : s[i] \in ToSet(s)
  BY <1>1 DEF ToSet
<1>3. s \in Seq(ToSet(s))
  BY <1>1, <1>2
<1>4. ToSet(s) \subseteq T
  BY DEF ToSet
<1> QED
  BY <1>3, <1>4, Zenon DEF IsList

LEMMA ListIfFunction ==
  ASSUME NEW s, NEW n \in Nat, DOMAIN s = 1 .. n, s = [i \in 1 .. n |-> s[i]]
  PROVE  IsList(s) /\ Len(s) = n
<1>1. \A i \in 1 .. n : s[i] \in ToSet(s)
  BY DEF ToSet
<1>2. s \in Seq(ToSet(s))
  BY <1>1
<1> QED
  BY <1>2 DEF IsList

LEMMA Appended ==
  ASSUME NEW s, IsList(s), NEW x
  PROVE  /\ IsList(Append(s, x))
         /\ DOMAIN Append(s, x) = 1 .. Len(s) + 1 /\ Len(s) \in Nat /\ DOMAIN s = 1 .. Len(s)
         /\ \A i \in DOMAIN s : Append(s, x)[i] = s[i]
         /\ Append(s, x)[Len(s) + 1] = x
<1> DEFINE T == ToSet(s) \cup {x}
<1>1. s \in Seq(T)
  <2>1. \A U, V : s \in Seq(U) /\ U \subseteq V => s \in Seq(V)
    OBVIOUS
  <2> QED
    BY <2>1, Zenon DEF IsList
<1> HIDE DEF T
<1>2. x \in T
  BY DEF T
<1>3. /\ Append(s, x) \in Seq(T)
      /\ DOMAIN Append(s, x) = 1 .. Len(s) + 1 /\ Len(s) \in Nat /\ DOMAIN s = 1 .. Len(s)
      /\ Append(s, x)[Len(s) + 1] = x
  BY <1>1, <1>2
<1>4. \A i \in DOMAIN s : Append(s, x)[i] = s[i]
  BY <1>1, <1>2
<1>5. IsList(Append(s, x))
  BY <1>3, ListIfSeq, Zenon
<1> QED
  BY <1>3, <1>4, <1>5, Zenon

IsJoin(u, s, t) ==
    /\ IsList(u)
    /\ DOMAIN u = 1 .. Len(s) + Len(t) /\ Len(s) \in Nat /\ Len(t) \in Nat
    /\ DOMAIN s = 1 .. Len(s) /\ DOMAIN t = 1 .. Len(t)
    /\ \A i \in DOMAIN s : u[i] = s[i]
    /\ \A i \in DOMAIN t : u[Len(s) + i] = t[i]

LEMMA Joined ==
  ASSUME NEW s, IsList(s), NEW t, IsList(t)
  PROVE  IsJoin(s \o t, s, t)
<1> DEFINE T == ToSet(s) \cup ToSet(t)
<1>1. s \in Seq(T) /\ t \in Seq(T)
  <2>1. \A U, V, u : u \in Seq(U) /\ U \subseteq V => u \in Seq(V)
    OBVIOUS
  <2> QED
    BY <2>1, Zenon DEF IsList
<1> HIDE DEF T
<1>2. /\ s \o t \in Seq(T)
      /\ DOMAIN (s \o t) = 1 .. Len(s) + Len(t) /\ Len(s) \in Nat /\ Len(t) \in Nat
      /\ DOMAIN s = 1 .. Len(s) /\ DOMAIN t = 1 .. Len(t)
  BY <1>1
<1>3. \A i \in DOMAIN s : (s \o t)[i] = s[i]
  BY <1>1
<1>4. \A i \in DOMAIN t : (s \o t)[Len(s) + i] = t[i]
  BY <1>1
<1>5. IsList(s \o t)
  BY <1>2, ListIfSeq, Zenon
<1> QED
  BY <1>2, <1>3, <1>4, <1>5, Zenon DEF IsJoin

LEMMA Mapped ==
  ASSUME NEW s, IsList(s), NEW t, t = [i \in DOMAIN s |-> t[i]]
  PROVE  IsList(t) /\ DOMAIN t = DOMAIN s /\ Len(t) = Len(s)
<1>1. Len(s) \in Nat /\ DOMAIN s = 1 .. Len(s)
  BY ListFacts
<1> QED
  BY <1>1, ListIfFunction

-----------------------------------------------------------------------------
(* A lookup in a list of artifacts gives the id of one of them or none.    *)
FirstAt(s, I) == LET i == IF I # {} THEN Min(I) ELSE 0 IN IF i = 0 THEN None ELSE s[i]
LastAt(s, I) == LET i == IF I # {} THEN Max(I) ELSE 0 IN IF i = 0 THEN None ELSE s[i]

LEMMA AtFirst ==
  ASSUME NEW s, IsList(s), NEW I, I \subseteq 1 .. Len(s)
  PROVE  FirstAt(s, I) = None \/ \E i \in DOMAIN s : FirstAt(s, I) = s[i]
<1>1. Len(s) \in Nat /\ DOMAIN s = 1 .. Len(s)
  BY ListFacts
<1>2. I # {} => Min(I) \in 1 .. Len(s)
  BY <1>1, LeastIn
<1> QED
  BY <1>1, <1>2 DEF FirstAt

LEMMA AtLast ==
  ASSUME NEW s, IsList(s), NEW I, I \subseteq 1 .. Len(s)
  PROVE  LastAt(s, I) = None \/ \E i \in I : i \in DOMAIN s /\ LastAt(s, I) = s[i]
<1>1. Len(s) \in Nat /\ DOMAIN s = 1 .. Len(s)
  BY ListFacts
<1>2. I # {} => Max(I) \in 1 .. Len(s) /\ Max(I) \in I
  BY <1>1, GreatestIn
<1> QED
  BY <1>1, <1>2 DEF LastAt

Targets(as) == Ids(as) \cup {None}

LEMMA FirstId ==
  ASSUME NEW as, IsList(as), NEW I, I \subseteq 1 .. Len(as)
  PROVE  IdIn(FirstAt(as, I)) \in Targets(as)
BY AtFirst DEF IdIn, Ids, Targets

LEMMA LastId ==
  ASSUME NEW as, IsList(as), NEW I, I \subseteq 1 .. Len(as)
  PROVE  IdIn(LastAt(as, I)) \in Targets(as)
BY AtLast DEF IdIn, Ids, Targets

LEMMA NamedInFinds ==
  ASSUME NEW as, IsList(as), NEW file, NEW name
  PROVE  NamedIn(as, file, name) \in Targets(as)
<1> DEFINE I == {i \in 1 .. Len(as) : as[i].file = file /\ as[i].name = name}
<1>1. NamedIn(as, file, name) = IdIn(LastAt(as, I))
  BY Zenon DEF NamedIn, LastWith, SelectLastInSeq, LastAt
<1> QED
  BY <1>1, LastId

LEMMA EnclosingFinds ==
  ASSUME NEW as, IsList(as), NEW file, NEW line
  PROVE  IdIn(Enclosing(as, file, line)) \in Targets(as)
<1> DEFINE Around(a) == a.file = file /\ a.first <= line /\ line <= a.last
           I == {i \in 1 .. Len(as) : Around(as[i]) /\ \A b \in ToSet(as) : Around(b) => Span(as[i]) <= Span(b)}
<1>1. Enclosing(as, file, line) = FirstAt(as, I)
  BY Zenon DEF Enclosing, FirstWith, SelectInSeq, FirstAt
<1> QED
  BY <1>1, FirstId

-----------------------------------------------------------------------------
(* The call resolver.                                                      *)
LEMMA MethodOfFinds ==
  ASSUME NEW cx, IsList(cx.artifacts), NEW file, NEW class, NEW name
  PROVE  MethodOf(cx, file, class, name) \in Targets(cx.artifacts)
<1> DEFINE as == cx.artifacts
           I == {i \in 1 .. Len(as) : /\ as[i].type = "method" /\ as[i].file = file
                                      /\ as[i].id[4] = class /\ as[i].name = name}
<1>1. MethodOf(cx, file, class, name) = IdIn(FirstAt(as, I))
  BY Zenon DEF MethodOf, FirstWith, SelectInSeq, FirstAt
<1> QED
  BY <1>1, FirstId

LEMMA ByModuleFinds ==
  ASSUME NEW cx, IsList(cx.artifacts), NEW module, NEW name, NEW file
  PROVE  ByModule(cx, module, name, file) \in Targets(cx.artifacts)
<1>1. None \in Targets(cx.artifacts)
  BY DEF Targets
<1> QED
  BY <1>1, NamedInFinds, Zenon DEF ByModule, FirstHit

LEMMA SubmoduleFinds ==
  ASSUME NEW cx, IsList(cx.artifacts), NEW module, NEW call
  PROVE  Submodule(cx, module, call) \in Targets(cx.artifacts)
<1>1. None \in Targets(cx.artifacts)
  BY DEF Targets
<1>2. \A name, file : Directly(cx, name, call.method, file) \in Targets(cx.artifacts)
  BY <1>1, NamedInFinds, Zenon DEF Directly, FirstHit
<1> QED
  BY <1>2, ByModuleFinds, Zenon DEF Submodule

LEMMA NamedTargetFinds ==
  ASSUME NEW cx, IsList(cx.artifacts), NEW name, NEW file
  PROVE  NamedTarget(cx, name, file) \in Targets(cx.artifacts)
<1>1. None \in Targets(cx.artifacts)
  BY DEF Targets
<1> QED
  BY <1>1, NamedInFinds, ByModuleFinds, Zenon DEF NamedTarget, FirstHit

LEMMA MethodByTypeFinds ==
  ASSUME NEW cx, IsList(cx.artifacts), NEW type, NEW name, NEW file
  PROVE  MethodByType(cx, type, name, file) \in Targets(cx.artifacts)
<1>1. None \in Targets(cx.artifacts)
  BY DEF Targets
<1> QED
  BY <1>1, MethodOfFinds, Zenon DEF MethodByType, MethodByModule, FirstHit

LEMMA OfTypeFinds ==
  ASSUME NEW cx, IsList(cx.artifacts), NEW type, NEW name, NEW file
  PROVE  OfType(cx, type, name, file) \in Targets(cx.artifacts)
<1>1. None \in Targets(cx.artifacts)
  BY DEF Targets
<1> QED
  BY <1>1, MethodByTypeFinds, Zenon DEF OfType

(* The first of several lookups that finds something.                      *)
LEMMA FirstOfTargets ==
  ASSUME NEW T, NEW s \in Seq(T), None \in T
  PROVE  FirstHit(s, LAMBDA id : id) \in T
<1> DEFINE I == {i \in 1 .. Len(s) : s[i] # None}
<1>1. FirstWith(s, LAMBDA y : y # None) = FirstAt(s, I)
  BY Zenon DEF FirstWith, SelectInSeq, FirstAt
<1>2. IsList(s)
  BY ListIfSeq
<1>3. FirstAt(s, I) \in T
  BY <1>2, AtFirst
<1>4. FirstHit(s, LAMBDA id : id) \in {None, FirstAt(s, I)}
  BY <1>1 DEF FirstHit
<1> QED
  BY <1>3, <1>4

LEMMA ReceiverFinds ==
  ASSUME NEW cx, IsList(cx.artifacts), NEW call, NEW caller
  PROVE  ThroughReceiver(cx, call, caller) \in Targets(cx.artifacts)
<1> DEFINE T == Targets(cx.artifacts)
<1>1. None \in T
  BY DEF Targets
<1> HIDE DEF T
<1>2. ThroughAttribute(cx, call, caller) \in T
  BY <1>1, OfTypeFinds, Zenon DEF ThroughAttribute, T
<1>3. ThroughBareImport(cx, call) \in T
  BY <1>1, ByModuleFinds, Zenon DEF ThroughBareImport, T
<1>4. ThroughSubmodule(cx, call) \in T
  BY <1>1, SubmoduleFinds, Zenon DEF ThroughSubmodule, FirstHit, T
<1>5. ThroughSingleton(cx, call) \in T
  BY <1>1, MethodOfFinds, MethodByTypeFinds, Zenon DEF ThroughSingleton, T
<1>6. ASSUME NEW x \in T, NEW y \in T
      PROVE  FirstHit(<<x, y>>, LAMBDA id : id) \in T
  <2>1. <<x, y>> \in Seq(T)
    OBVIOUS
  <2> QED
    BY <1>1, <2>1, FirstOfTargets, Zenon
<1>7. ASSUME NEW w \in T, NEW x \in T, NEW y \in T, NEW z \in T
      PROVE  FirstHit(<<w, x, y, z>>, LAMBDA id : id) \in T
  <2>1. <<w, x, y, z>> \in Seq(T)
    OBVIOUS
  <2> QED
    BY <1>1, <2>1, FirstOfTargets, Zenon
<1>8. \A type : OfType(cx, type, call.method, call.file) \in T
  BY OfTypeFinds DEF T
<1>9. \A module : ByModule(cx, module, call.method, call.file) \in T
  BY ByModuleFinds DEF T
<1>10. ThroughReceiver(cx, call, caller) \in T
  BY <1>2, <1>3, <1>4, <1>5, <1>6, <1>7, <1>8, <1>9, Zenon DEF ThroughReceiver
<1> QED
  BY <1>10 DEF T

LEMMA CallTargetFinds ==
  ASSUME NEW cx, IsList(cx.artifacts), NEW call, NEW caller
  PROVE  CallTarget(cx, call, caller) \in Targets(cx.artifacts)
BY ReceiverFinds, MethodOfFinds, NamedTargetFinds DEF CallTarget

(* No call is bound to anything but an artifact.                           *)
LEMMA CallEdgesEnd ==
  ASSUME NEW cx, IsList(cx.artifacts)
  PROVE  \A e \in CallEdges(cx) : e[2] \in Ids(cx.artifacts)
<1> DEFINE T == Targets(cx.artifacts)
<1>1. None \in T
  BY DEF Targets
<1>2. ASSUME NEW call, NEW e \in EdgeOfCall(cx, call)
      PROVE  e[2] \in Ids(cx.artifacts)
  <2> DEFINE caller == Enclosing(cx.artifacts, call.file, call.line)
             target == FirstHit(<<CallTarget(cx, call, caller), Injected(cx, call)>>, LAMBDA id : id)
  <2>1. target \in T
    <3>1. CallTarget(cx, call, caller) \in T
      BY CallTargetFinds
    <3>2. Injected(cx, call) \in T
      BY <1>1, NamedTargetFinds, Zenon DEF Injected
    <3> HIDE DEF T
    <3>3. <<CallTarget(cx, call, caller), Injected(cx, call)>> \in Seq(T)
      BY <3>1, <3>2
    <3> QED
      BY <1>1, <3>3, FirstOfTargets, Zenon
  <2>2. e \in (IF caller = None THEN {}
               ELSE IF target \in {None, caller.id} THEN {} ELSE {<<caller.id, target>>})
    BY <1>2, Zenon DEF EdgeOfCall
  <2> HIDE DEF target
  <2>3. e = <<caller.id, target>> /\ target # None
    BY <2>2
  <2> QED
    BY <2>1, <2>3 DEF Targets
<1>3. ASSUME NEW a, NEW t \in AnnotatedTargets(cx, a)
      PROVE  t \in T
  BY <1>3, NamedTargetFinds DEF AnnotatedTargets
<1>4. ASSUME NEW e \in CallEdges(cx), \A call : e \notin EdgeOfCall(cx, call)
      PROVE  e[2] \in Ids(cx.artifacts)
  <2> DEFINE A == UNION {EdgeOfCall(cx, call) : call \in OfKind(cx.tree, "call")}
             B == UNION {{<<a.id, t>> : t \in AnnotatedTargets(cx, a) \ {None, a.id}} :
                         a \in {b \in ToSet(cx.artifacts) : b.type \in {"function", "method"}}}
  <2>1. e \in B
    <3>1. e \notin A
      BY <1>4
    <3>2. CallEdges(cx) = A \cup B
      BY Zenon DEF CallEdges
    <3> HIDE DEF A, B
    <3> QED
      BY <1>4, <3>1, <3>2
  <2>2. PICK a : e \in {<<a.id, t>> : t \in AnnotatedTargets(cx, a) \ {None, a.id}}
    BY <2>1
  <2> QED
    BY <1>3, <2>2 DEF Targets
<1> QED
  BY <1>2, <1>4

-----------------------------------------------------------------------------
(* Sets that are made into lists.                                          *)
LEMMA Enumerated ==
  ASSUME NEW S, IsFiniteSet(S)
  PROVE  IsList(SetToSeq(S)) /\ ToSet(SetToSeq(S)) = S
<1> DEFINE C == Cardinality(S)
           s == SetToSeq(S)
<1>1. C \in Nat /\ ExistsBijection(1 .. C, S)
  BY FS_CardinalityType
<1>2. PICK b \in Bijection(1 .. C, S) : TRUE
  BY <1>1, Zenon DEF ExistsBijection
<1>3. b \in [1 .. C -> S] /\ IsInjective(b)
  BY <1>2, Zenon DEF Bijection, Injection
<1>4. s \in [1 .. C -> S] /\ IsInjective(s)
  BY <1>3, Zenon DEF SetToSeq
<1>5. s \in Injection(1 .. C, S)
  BY <1>4, Zenon DEF Injection
<1>6. Cardinality(1 .. C) = C
  <2> HIDE DEF C
  <2>1. 1 \in Int /\ C \in Int
    BY <1>1
  <2>2. IF 1 > C THEN Cardinality(1 .. C) = 0 ELSE Cardinality(1 .. C) = C - 1 + 1
    BY <2>1, FS_Interval, Zenon
  <2> QED
    BY <1>1, <2>2
<1>7. s \in Surjection(1 .. C, S)
  BY <1>5, <1>6, FS_Injection, Zenon
<1> HIDE DEF s, C
<1>8. \A x \in S : \E i \in 1 .. C : s[i] = x
  BY <1>7, Zenon DEF Surjection
<1>9. IsList(s)
  BY <1>1, <1>4, ListIfFunction
<1> QED
  BY <1>4, <1>8, <1>9 DEF ToSet, s

Values(F, S) == {F[x] : x \in S}
IsDefinedOn(F, S) == F = [x \in S |-> F[x]]

LEMMA FiniteImage ==
  ASSUME NEW S, IsFiniteSet(S), NEW F, IsDefinedOn(F, S)
  PROVE  IsFiniteSet(Values(F, S))
<1>1. F \in Surjection(S, Values(F, S))
  BY DEF Surjection, Values, IsDefinedOn
<1> QED
  BY <1>1, FS_Surjection, Zenon

LEMMA FiniteKind ==
  ASSUME NEW T, NEW t \in Seq(T), NEW kind
  PROVE  IsFiniteSet(OfKind(t, kind))
<1>1. Len(t) \in Nat /\ DOMAIN t = 1 .. Len(t) /\ t = [i \in DOMAIN t |-> t[i]]
  OBVIOUS
<1>2. IsFiniteSet(DOMAIN t)
  <2>1. PICK n \in Nat : n = Len(t)
    BY <1>1
  <2>2. IsFiniteSet(1 .. n)
    BY FS_Interval
  <2> QED
    BY <1>1, <2>1, <2>2, Zenon
<1>3. IsDefinedOn(t, DOMAIN t)
  BY <1>1, Zenon DEF IsDefinedOn
<1>4. IsFiniteSet(Values(t, DOMAIN t))
  BY <1>2, <1>3, FiniteImage, Zenon
<1>5. OfKind(t, kind) \subseteq Values(t, DOMAIN t)
  BY DEF OfKind, Values
<1> QED
  BY <1>4, <1>5, FS_Subset, Zenon

-----------------------------------------------------------------------------
(* Lists of artifacts that refer to nothing but each other, and what the   *)
(* stages do to them.                                                      *)
Refers(a) == a.calls \cup a.reads \cup a.writes
ReferTo(as, S) == \A i \in DOMAIN as : Refers(as[i]) \subseteq S
Closed(as) == ReferTo(as, Ids(as))
EndIn(edges, S) == \A e \in edges : e[2] \in S

LEMMA ExtendedFacts ==
  ASSUME NEW as, AreArtifacts(as), NEW S, ReferTo(as, S),
         NEW field \in {"calls", "reads", "writes"},
         NEW edges, EndIn(edges, S),
         NEW new, new = Extended(as, field, edges)
  PROVE  AreArtifacts(new) /\ Ids(new) = Ids(as) /\ ReferTo(new, S)
<1> DEFINE Targeted(a) == {e[2] : e \in {d \in edges : d[1] = a.id}}
<1>1. new = [i \in DOMAIN as |-> [as[i] EXCEPT ![field] = @ \cup Targeted(as[i])]]
  BY Zenon DEF Extended, MapSeq
<1>2. new = [i \in DOMAIN as |-> new[i]]
  BY <1>1
<1>3. IsList(new) /\ DOMAIN new = DOMAIN as
  BY <1>2, Mapped, Zenon DEF AreArtifacts
<1>4. ASSUME NEW i \in DOMAIN as
      PROVE  /\ {"id", "calls", "reads", "writes"} \subseteq DOMAIN new[i]
             /\ new[i].id = as[i].id
             /\ Refers(new[i]) \subseteq S
  <2> DEFINE a == as[i]
             more == Targeted(a)
  <2>1. more \subseteq S
    BY DEF EndIn
  <2>2. Refers(a) \subseteq S /\ {"id", "calls", "reads", "writes"} \subseteq DOMAIN a
    BY DEF ReferTo, AreArtifacts
  <2>3. new[i] = [a EXCEPT ![field] = @ \cup more]
    BY <1>1
  <2> HIDE DEF more, a
  <2>4. DOMAIN new[i] = DOMAIN a /\ new[i].id = a.id
    BY <2>2, <2>3
  <2>5. /\ new[i].calls \subseteq a.calls \cup more
        /\ new[i].reads \subseteq a.reads \cup more
        /\ new[i].writes \subseteq a.writes \cup more
    BY <2>2, <2>3
  <2> QED
    BY <2>1, <2>2, <2>4, <2>5 DEF Refers, a
<1>5. AreArtifacts(new) /\ ReferTo(new, S)
  BY <1>3, <1>4 DEF AreArtifacts, ReferTo
<1>6. Ids(new) = Ids(as)
  BY <1>3, <1>4 DEF Ids
<1> QED
  BY <1>5, <1>6

LEMMA SplitPlace ==
  ASSUME NEW m \in Nat, NEW n \in Nat, NEW i \in 1 .. m + n
  PROVE  i \in 1 .. m \/ \E j \in 1 .. n : i = m + j
<1>1. CASE i <= m
  BY <1>1
<1>2. CASE i > m
  <2>1. i - m \in 1 .. n /\ i = m + (i - m)
    BY <1>2
  <2> QED
    BY <2>1
<1> QED
  BY <1>1, <1>2

LEMMA JoinedFacts ==
  ASSUME NEW as, AreArtifacts(as), NEW bs, AreArtifacts(bs), NEW S, ReferTo(as, S), ReferTo(bs, S)
  PROVE  AreArtifacts(as \o bs) /\ Ids(as \o bs) = Ids(as) \cup Ids(bs) /\ ReferTo(as \o bs, S)
<1> DEFINE cs == as \o bs
           m == Len(as)
           n == Len(bs)
<1>0. IsList(as) /\ IsList(bs)
  BY Zenon DEF AreArtifacts
<1>1. /\ IsList(cs) /\ DOMAIN cs = 1 .. m + n /\ m \in Nat /\ n \in Nat
      /\ DOMAIN as = 1 .. m /\ DOMAIN bs = 1 .. n
      /\ \A i \in DOMAIN as : cs[i] = as[i]
      /\ \A i \in DOMAIN bs : cs[m + i] = bs[i]
  <2>1. IsJoin(cs, as, bs)
    BY <1>0, Joined, Zenon
  <2> HIDE DEF cs
  <2> QED
    BY <2>1, Zenon DEF IsJoin
<1> HIDE DEF cs, m, n
<1>2. ASSUME NEW i \in DOMAIN cs
      PROVE  (i \in DOMAIN as /\ cs[i] = as[i]) \/ \E j \in DOMAIN bs : cs[i] = bs[j]
  <2>1. i \in 1 .. m \/ \E j \in 1 .. n : i = m + j
    BY <1>1, SplitPlace
  <2> QED
    BY <1>1, <2>1, Zenon
<1>3. \A i \in DOMAIN as : i \in DOMAIN cs
  BY <1>1
<1>4. \A i \in DOMAIN bs : m + i \in DOMAIN cs
  BY <1>1
<1>5. AreArtifacts(cs) /\ ReferTo(cs, S)
  BY <1>1, <1>2 DEF AreArtifacts, ReferTo
<1>6. Ids(cs) \subseteq Ids(as) \cup Ids(bs)
  BY <1>2 DEF Ids
<1>7. Ids(as) \subseteq Ids(cs)
  BY <1>1, <1>3 DEF Ids
<1>8. Ids(bs) \subseteq Ids(cs)
  BY <1>1, <1>4 DEF Ids
<1>9. Ids(cs) = Ids(as) \cup Ids(bs)
  BY <1>6, <1>7, <1>8
<1> QED
  BY <1>5, <1>9, Zenon DEF cs

(* Artifacts made of the elements of a set refer to nothing yet.           *)
LEMMA MadeFacts ==
  ASSUME NEW S, IsFiniteSet(S), NEW F, NEW bs,
         bs = [i \in DOMAIN SetToSeq(S) |-> F[SetToSeq(S)[i]]],
         \A x \in S : /\ {"id", "calls", "reads", "writes"} \subseteq DOMAIN F[x]
                      /\ Refers(F[x]) = {}
  PROVE  AreArtifacts(bs) /\ Ids(bs) = {F[x].id : x \in S} /\ \A T : ReferTo(bs, T)
<1> DEFINE s == SetToSeq(S)
<1>1. IsList(s) /\ ToSet(s) = S
  BY Enumerated
<1> HIDE DEF s
<1>2. bs = [i \in DOMAIN s |-> F[s[i]]]
  BY DEF s
<1>3. bs = [i \in DOMAIN s |-> bs[i]]
  BY <1>2
<1>4. IsList(bs) /\ DOMAIN bs = DOMAIN s
  BY <1>1, <1>3, Mapped, Zenon
<1>5. \A i \in DOMAIN s : s[i] \in S
  BY <1>1 DEF ToSet
<1>6. \A x \in S : \E i \in DOMAIN s : s[i] = x
  BY <1>1 DEF ToSet
<1>7. \A i \in DOMAIN s : bs[i] = F[s[i]]
  BY <1>2
<1>8. AreArtifacts(bs) /\ \A T : ReferTo(bs, T)
  <2>1. \A i \in DOMAIN bs : /\ {"id", "calls", "reads", "writes"} \subseteq DOMAIN bs[i]
                             /\ Refers(bs[i]) = {}
    BY <1>4, <1>5, <1>7
  <2>2. AreArtifacts(bs)
    BY <1>4, <2>1, Zenon DEF AreArtifacts
  <2> QED
    BY <2>1, <2>2 DEF ReferTo
<1>9. Ids(bs) = {F[x].id : x \in S}
  <2>1. \A i \in DOMAIN bs : bs[i].id \in {F[x].id : x \in S}
    BY <1>4, <1>5, <1>7
  <2>2. \A x \in S : F[x].id \in Ids(bs)
    BY <1>4, <1>6, <1>7 DEF Ids
  <2> QED
    BY <2>1, <2>2 DEF Ids
<1> QED
  BY <1>8, <1>9

LEMMA ArtifactFacts ==
  ASSUME NEW id, NEW type, NEW name, NEW file, NEW first, NEW last
  PROVE  /\ {"id", "calls", "reads", "writes"} \subseteq
                DOMAIN Artifact(id, type, name, file, first, last)
         /\ Artifact(id, type, name, file, first, last).id = id
         /\ Refers(Artifact(id, type, name, file, first, last)) = {}
BY DEF Artifact, Refers

-----------------------------------------------------------------------------
(* FunctionCallResolver binds calls to artifacts of the same list.         *)
LEMMA CalledCloses ==
  ASSUME NEW as, AreArtifacts(as), Closed(as), NEW t, NEW dir
  PROVE  AreArtifacts(Called(as, t, dir)) /\ Closed(Called(as, t, dir))
<1> DEFINE cx == Context(t, dir, as)
           new == Extended(as, "calls", CallEdges(cx))
<1>1. cx.artifacts = as
  BY DEF Context
<1>2. IsList(as)
  BY Zenon DEF AreArtifacts
<1> HIDE DEF cx
<1>3. EndIn(CallEdges(cx), Ids(as))
  BY <1>1, <1>2, CallEdgesEnd DEF EndIn
<1>4. Called(as, t, dir) = new
  BY Zenon DEF Called, WithCalls, Extended, MapSeq, cx
<1>5. AreArtifacts(new) /\ Ids(new) = Ids(as) /\ ReferTo(new, Ids(as))
  <2>1. ReferTo(as, Ids(as))
    BY Zenon DEF Closed
  <2>2. "calls" \in {"calls", "reads", "writes"}
    OBVIOUS
  <2> QED
    BY <1>3, <2>1, <2>2, ExtendedFacts, Zenon
<1> QED
  BY <1>4, <1>5, Zenon DEF Closed

(* resolve_oracle_calls: a callee that nobody declares gets a stub.        *)
LEMMA RoutineFinds ==
  ASSUME NEW as, IsList(as), NEW callee
  PROVE  Routine(as, callee) \in Targets(as)
<1> DEFINE I == {i \in 1 .. Len(as) :
                   /\ as[i].type \in Routines
                   /\ callee # <<>> /\ Lower(as[i].name) = Last(callee)
                   /\ Len(callee) = 2 => /\ as[i].id[1] = "proc" /\ as[i].id[3] # None
                                         /\ as[i].id[3] = callee[1]}
<1>1. Routine(as, callee) = IdIn(LastAt(as, I))
  BY Zenon DEF Routine, LastWith, SelectLastInSeq, LastAt
<1> QED
  BY <1>1, LastId

LEMMA UnknownIsFinite ==
  ASSUME NEW as, NEW T, NEW t \in Seq(T)
  PROVE  IsFiniteSet(Unknown(as, t))
<1> DEFINE S == {g \in Invocations(t) : Routine(as, Qualified(g.target)) = None}
           F == [f \in S |-> Qualified(f.target)]
<1>1. S \subseteq OfKind(t, "sql")
  BY DEF Invocations
<1>2. IsFiniteSet(S)
  BY <1>1, FiniteKind, FS_Subset, Zenon
<1>3. Unknown(as, t) = Values(F, S)
  BY DEF Unknown, Values
<1>4. IsDefinedOn(F, S)
  BY DEF IsDefinedOn
<1> HIDE DEF S, F
<1>5. IsFiniteSet(Values(F, S))
  BY <1>2, <1>4, FiniteImage, Zenon
<1> QED
  BY <1>3, <1>5, Zenon

LEMMA OracleCloses ==
  ASSUME NEW as, AreArtifacts(as), Closed(as), NEW T, NEW t \in Seq(T)
  PROVE  AreArtifacts(WithOracleCalls(as, t)) /\ Closed(WithOracleCalls(as, t))
<1> DEFINE U == Unknown(as, t)
           stubs == MapSeq(SetToSeq(U), Stub)
           edges == OracleEdges(as, t)
           old == Extended(as, "calls", edges)
           F == [x \in U |-> Stub(x)]
           S == Ids(as) \cup Ids(stubs)
<1>1. IsFiniteSet(U)
  BY UnknownIsFinite
<1>2. IsList(SetToSeq(U)) /\ ToSet(SetToSeq(U)) = U
  BY <1>1, Enumerated
<1>3. \A x \in U : F[x] = Stub(x)
  OBVIOUS
<1>4. stubs = [i \in DOMAIN SetToSeq(U) |-> F[SetToSeq(U)[i]]]
  BY <1>2, <1>3 DEF MapSeq, ToSet
<1>5. ASSUME NEW x
      PROVE  /\ {"id", "calls", "reads", "writes"} \subseteq DOMAIN Stub(x)
             /\ Refers(Stub(x)) = {} /\ Stub(x).id = StubId(x)
  BY DEF Stub, Artifact, Refers
<1> HIDE DEF stubs, F, U
<1>6. AreArtifacts(stubs) /\ Ids(stubs) = {F[x].id : x \in U} /\ \A V : ReferTo(stubs, V)
  BY <1>1, <1>3, <1>4, <1>5, MadeFacts
<1>7. ASSUME NEW e \in edges PROVE e[2] \in S
  <2> DEFINE TargetOf(f) == IF Qualified(f.target) \in U THEN StubId(Qualified(f.target))
                            ELSE Routine(as, Qualified(f.target))
             calls == {<<BodyAround(as, f), Routine(as, CalleeParts(f))>> : f \in OfKind(t, "call")}
             sqls == {<<BodyAround(as, f), TargetOf(f)>> : f \in Invocations(t)}
  <2>1. edges = {x \in calls \cup sqls : None \notin {x[1], x[2]}}
    BY Zenon DEF OracleEdges, U
  <2> HIDE DEF edges
  <2>2. e \in calls \cup sqls /\ e[2] # None
    BY <2>1
  <2>3. IsList(as)
    BY Zenon DEF AreArtifacts
  <2>4. \A callee : Routine(as, callee) \in Ids(as) \cup {None}
    BY <2>3, RoutineFinds DEF Targets
  <2>5. \A x \in U : StubId(x) \in Ids(stubs)
    BY <1>3, <1>5, <1>6
  <2>6. \A f : TargetOf(f) \in S \cup {None}
    BY <2>4, <2>5
  <2>7. \A callee : Routine(as, callee) \in S \cup {None}
    BY <2>4
  <2> HIDE DEF TargetOf, S
  <2>8. \A x \in calls : x[2] \in S \cup {None}
    <3>1. \A f : <<BodyAround(as, f), Routine(as, CalleeParts(f))>>[2] = Routine(as, CalleeParts(f))
      OBVIOUS
    <3> QED
      BY <2>7, <3>1, Zenon
  <2>9. \A x \in sqls : x[2] \in S \cup {None}
    <3>1. \A f : <<BodyAround(as, f), TargetOf(f)>>[2] = TargetOf(f)
      OBVIOUS
    <3> QED
      BY <2>6, <3>1, Zenon
  <2> HIDE DEF calls, sqls
  <2> QED
    BY <2>2, <2>8, <2>9
<1>8. ReferTo(as, S)
  BY DEF Closed, ReferTo
<1> HIDE DEF edges, S
<1>9. AreArtifacts(old) /\ Ids(old) = Ids(as) /\ ReferTo(old, S)
  <2>1. EndIn(edges, S)
    BY <1>7 DEF EndIn
  <2> QED
    BY <1>8, <2>1, ExtendedFacts, Zenon DEF old
<1> HIDE DEF old
<1> USE DEF S
<1>10. AreArtifacts(old \o stubs) /\ Ids(old \o stubs) = S /\ ReferTo(old \o stubs, S)
  BY <1>6, <1>9, JoinedFacts
<1>11. WithOracleCalls(as, t) = old \o stubs
  BY Zenon DEF WithOracleCalls, old, stubs, edges, U
<1> QED
  BY <1>10, <1>11, Zenon DEF Closed

(* resolve_db_access: every table that is accessed becomes an artifact.    *)
LEMMA TablesAreFinite ==
  ASSUME NEW as, NEW t \in Seq(Facts)
  PROVE  IsFiniteSet(Tables(as, t))
<1> DEFINE S == Accesses(as, t, ReadOps \cup WriteOps)
           G == [f \in S |-> {Lower(x) : x \in f.tables}]
<1>1. S \subseteq OfKind(t, "sql")
  BY DEF Accesses
<1>2. IsFiniteSet(S)
  BY <1>1, FiniteKind, FS_Subset, Zenon
<1>3. ASSUME NEW f \in S PROVE IsFiniteSet(G[f])
  <2>1. f \in OfKind(t, "sql")
    BY <1>1
  <2>2. f \in Facts /\ f.kind = "sql"
    BY <2>1 DEF OfKind
  <2>3. IsFiniteSet(f.tables)
    BY <2>2, ContentOK, Zenon
  <2> DEFINE F == [x \in f.tables |-> Lower(x)]
  <2>4. IsDefinedOn(F, f.tables)
    BY DEF IsDefinedOn
  <2>5. G[f] = Values(F, f.tables)
    BY DEF Values
  <2> HIDE DEF F, G
  <2>6. IsFiniteSet(Values(F, f.tables))
    BY <2>3, <2>4, FiniteImage, Zenon
  <2> QED
    BY <2>5, <2>6, Zenon
<1>4. IsDefinedOn(G, S)
  BY DEF IsDefinedOn
<1>5. Tables(as, t) = UNION Values(G, S)
  BY DEF Tables, Values
<1> HIDE DEF S, G
<1>6. IsFiniteSet(Values(G, S))
  BY <1>2, <1>4, FiniteImage, Zenon
<1>7. \A T \in Values(G, S) : IsFiniteSet(T)
  BY <1>3, Zenon DEF Values
<1>8. IsFiniteSet(UNION Values(G, S))
  BY <1>6, <1>7, FS_UNION, Zenon
<1> QED
  BY <1>5, <1>8, Zenon

LEMMA TablesClose ==
  ASSUME NEW as, AreArtifacts(as), Closed(as), NEW t \in Seq(Facts), NEW r
  PROVE  AreArtifacts(WithTables(as, t, r)) /\ Closed(WithTables(as, t, r))
<1> DEFINE U == Tables(as, t)
           tables == MapSeq(SetToSeq(U), LAMBDA x : Table(r, x))
           reads == AccessEdges(as, t, r, ReadOps)
           writes == AccessEdges(as, t, r, WriteOps)
           once == Extended(as, "reads", reads)
           twice == Extended(once, "writes", writes)
           F == [x \in U |-> Table(r, x)]
           S == Ids(as) \cup Ids(tables)
<1>1. IsFiniteSet(U)
  BY TablesAreFinite
<1>2. IsList(SetToSeq(U)) /\ ToSet(SetToSeq(U)) = U
  BY <1>1, Enumerated
<1>3. \A x \in U : F[x] = Table(r, x)
  OBVIOUS
<1>4. tables = [i \in DOMAIN SetToSeq(U) |-> F[SetToSeq(U)[i]]]
  BY <1>2, <1>3 DEF MapSeq, ToSet
<1>5. ASSUME NEW x
      PROVE  /\ {"id", "calls", "reads", "writes"} \subseteq DOMAIN Table(r, x)
             /\ Refers(Table(r, x)) = {} /\ Table(r, x).id = TableId(r, x)
  BY DEF Table, Artifact, Refers
<1>6. ASSUME NEW ops, ops \subseteq ReadOps \cup WriteOps, NEW e \in AccessEdges(as, t, r, ops)
      PROVE  \E x \in U : e[2] = TableId(r, x)
  <2>1. PICK f \in Accesses(as, t, ops) : e \in {<<BodyAround(as, f), TableId(r, Lower(x))>> : x \in f.tables}
    BY <1>6, Zenon DEF AccessEdges
  <2>2. PICK x \in f.tables : e = <<BodyAround(as, f), TableId(r, Lower(x))>>
    BY <2>1, Zenon
  <2>3. f \in Accesses(as, t, ReadOps \cup WriteOps)
    BY <1>6, <2>1 DEF Accesses
  <2>4. Lower(x) \in U
    <3>1. Lower(x) \in {Lower(y) : y \in f.tables}
      BY <2>2
    <3> QED
      BY <2>3, <3>1 DEF Tables
  <2>5. e[2] = TableId(r, Lower(x))
    BY <2>2
  <2> QED
    BY <2>4, <2>5, Zenon
<1> HIDE DEF tables, F, U
<1>7. AreArtifacts(tables) /\ Ids(tables) = {F[x].id : x \in U} /\ \A V : ReferTo(tables, V)
  BY <1>1, <1>3, <1>4, <1>5, MadeFacts
<1>8. \A x \in U : TableId(r, x) \in S
  BY <1>3, <1>5, <1>7
<1>9. EndIn(reads, S) /\ EndIn(writes, S)
  <2>1. ReadOps \subseteq ReadOps \cup WriteOps /\ WriteOps \subseteq ReadOps \cup WriteOps
    OBVIOUS
  <2> HIDE DEF S
  <2> QED
    BY <1>6, <1>8, <2>1, Zenon DEF EndIn
<1>10. ReferTo(as, S)
  BY DEF Closed, ReferTo
<1> HIDE DEF reads, writes, S
<1>11. AreArtifacts(once) /\ Ids(once) = Ids(as) /\ ReferTo(once, S)
  <2>1. "reads" \in {"calls", "reads", "writes"}
    OBVIOUS
  <2> QED
    BY <1>9, <1>10, <2>1, ExtendedFacts, Zenon
<1> HIDE DEF once
<1>12. AreArtifacts(twice) /\ Ids(twice) = Ids(once) /\ ReferTo(twice, S)
  <2>1. "writes" \in {"calls", "reads", "writes"}
    OBVIOUS
  <2> QED
    BY <1>9, <1>11, <2>1, ExtendedFacts, Zenon
<1> HIDE DEF twice
<1>13. AreArtifacts(twice \o tables) /\ Ids(twice \o tables) = S /\ ReferTo(twice \o tables, S)
  <2>1. AreArtifacts(tables) /\ ReferTo(tables, S)
    BY <1>7
  <2>2. AreArtifacts(twice) /\ ReferTo(twice, S)
    BY <1>12
  <2>3. /\ AreArtifacts(twice \o tables) /\ ReferTo(twice \o tables, S)
        /\ Ids(twice \o tables) = Ids(twice) \cup Ids(tables)
    BY <2>1, <2>2, JoinedFacts, Zenon
  <2> QED
    BY <1>11, <1>12, <2>3, Zenon DEF S
<1>14. WithTables(as, t, r) = twice \o tables
  BY Zenon DEF WithTables, once, twice, tables, reads, writes, U
<1> QED
  BY <1>13, <1>14, Zenon DEF Closed

(* resolve_shell_invokes: every script that defines a function becomes an  *)
(* artifact.                                                               *)
LEMMA FunctionsAreFound ==
  ASSUME NEW as, IsList(as), NEW x
  PROVE  FunctionIn(as, x) \in Targets(as) /\ FunctionNamed(as, x) \in Targets(as)
<1> DEFINE I == {i \in 1 .. Len(as) : as[i].type = "function" /\ BaseName(as[i].file) = x}
           J == {i \in 1 .. Len(as) : as[i].type = "function" /\ as[i].name = x}
<1>1. FunctionIn(as, x) = IdIn(LastAt(as, I))
  BY Zenon DEF FunctionIn, LastWith, SelectLastInSeq, LastAt
<1>2. FunctionNamed(as, x) = IdIn(LastAt(as, J))
  BY Zenon DEF FunctionNamed, LastWith, SelectLastInSeq, LastAt
<1>3. I \subseteq 1 .. Len(as) /\ J \subseteq 1 .. Len(as)
  OBVIOUS
<1> HIDE DEF I, J
<1>4. IdIn(LastAt(as, I)) \in Targets(as) /\ IdIn(LastAt(as, J)) \in Targets(as)
  BY <1>3, LastId, Zenon
<1> QED
  BY <1>1, <1>2, <1>4, Zenon

LEMMA ScriptsAreFinite ==
  ASSUME NEW T, NEW t \in Seq(T), NEW r
  PROVE  IsFiniteSet(NewScripts(t, r))
<1> DEFINE S == ShellFunctions(t)
           F == [s \in S |-> s.file]
           files == Scripts(t)
           G == [f \in files |-> ScriptId(r, f)]
           named == Values(G, files)
           Of(id) == CHOOSE f \in files : ScriptId(r, f) = id
           H == [id \in named |-> Of(id)]
<1>1. S \subseteq OfKind(t, "symbol")
  BY DEF ShellFunctions, InShell
<1>2. IsFiniteSet(S)
  BY <1>1, FiniteKind, FS_Subset, Zenon
<1>3. IsDefinedOn(F, S) /\ files = Values(F, S)
  BY DEF Scripts, IsDefinedOn, Values
<1>4. IsDefinedOn(G, files) /\ {ScriptId(r, f) : f \in files} = named
  BY DEF IsDefinedOn, Values
<1>5. IsDefinedOn(H, named)
  BY DEF IsDefinedOn
<1>6. NewScripts(t, r) = Values(H, named)
  <2>1. NewScripts(t, r) = {Of(id) : id \in named}
    BY <1>4, Zenon DEF NewScripts
  <2> HIDE DEF Of, named
  <2>2. \A id \in named : H[id] = Of(id)
    OBVIOUS
  <2> HIDE DEF H
  <2> QED
    BY <2>1, <2>2 DEF Values
<1> HIDE DEF S, F, G, H, Of, files
<1>7. IsFiniteSet(files)
  BY <1>2, <1>3, FiniteImage, Zenon
<1>8. IsFiniteSet(named)
  BY <1>4, <1>7, FiniteImage, Zenon
<1> HIDE DEF named
<1>9. IsFiniteSet(Values(H, named))
  BY <1>5, <1>8, FiniteImage, Zenon
<1> QED
  BY <1>6, <1>9, Zenon

LEMMA ShellCloses ==
  ASSUME NEW as, AreArtifacts(as), Closed(as), NEW T, NEW t \in Seq(T), NEW r
  PROVE  AreArtifacts(WithShellCalls(as, t, r)) /\ Closed(WithShellCalls(as, t, r))
<1> DEFINE U == NewScripts(t, r)
           scripts == MapSeq(SetToSeq(U), LAMBDA f : Script(r, f))
           edges == ShellEdges(as, t, r)
           all == as \o scripts
           new == Extended(all, "calls", edges)
           F == [x \in U |-> Script(r, x)]
           S == Ids(as) \cup Ids(scripts)
<1>1. IsFiniteSet(U)
  BY ScriptsAreFinite
<1>2. IsList(SetToSeq(U)) /\ ToSet(SetToSeq(U)) = U
  BY <1>1, Enumerated
<1>3. \A x \in U : F[x] = Script(r, x)
  OBVIOUS
<1>4. scripts = [i \in DOMAIN SetToSeq(U) |-> F[SetToSeq(U)[i]]]
  BY <1>2, <1>3 DEF MapSeq, ToSet
<1>5. ASSUME NEW x
      PROVE  /\ {"id", "calls", "reads", "writes"} \subseteq DOMAIN Script(r, x)
             /\ Refers(Script(r, x)) = {}
  BY DEF Script, Artifact, Refers
<1>6. EndIn(edges, Ids(as))
  <2> DEFINE calls == {<<EnclosingScript(as, t, r, f), Invoked(as, f)>> : f \in InShell(t, "call")}
             sqls == {<<EnclosingScript(as, t, r, f), SqlScript(as, f)>> :
                         f \in {g \in InShell(t, "sql") : g.op = "script"}}
  <2>1. edges = {e \in calls \cup sqls : None \notin {e[1], e[2]} /\ e[1] # e[2]}
    BY Zenon DEF ShellEdges
  <2>2. IsList(as)
    BY Zenon DEF AreArtifacts
  <2>3. None \in Targets(as)
    BY DEF Targets
  <2>4. \A f : Invoked(as, f) \in Targets(as)
    BY <2>2, <2>3, FunctionsAreFound, Zenon DEF Invoked
  <2>5. \A f : SqlScript(as, f) \in Targets(as)
    <3> SUFFICES ASSUME NEW f PROVE SqlScript(as, f) \in Targets(as)
      OBVIOUS
    <3> DEFINE K == {i \in 1 .. Len(as) : BaseName(as[i].file) = f.script}
    <3>1. FunctionIn(as, f.script) \in Targets(as)
      BY <2>2, FunctionsAreFound, Zenon
    <3>2. IdIn(FirstAt(as, K)) \in Targets(as)
      BY <2>2, FirstId
    <3>3. SqlScript(as, f) = IF FunctionIn(as, f.script) # None THEN FunctionIn(as, f.script)
                             ELSE IdIn(FirstAt(as, K))
      BY Zenon DEF SqlScript, FirstWith, SelectInSeq, FirstAt
    <3> QED
      BY <3>1, <3>2, <3>3, Zenon
  <2>6. \A x \in calls : x[2] \in Targets(as)
    <3>1. \A f : <<EnclosingScript(as, t, r, f), Invoked(as, f)>>[2] = Invoked(as, f)
      OBVIOUS
    <3> QED
      BY <2>4, <3>1, Zenon
  <2>7. \A x \in sqls : x[2] \in Targets(as)
    <3>1. \A f : <<EnclosingScript(as, t, r, f), SqlScript(as, f)>>[2] = SqlScript(as, f)
      OBVIOUS
    <3> QED
      BY <2>5, <3>1, Zenon
  <2> HIDE DEF calls, sqls, edges
  <2> QED
    BY <2>1, <2>6, <2>7 DEF EndIn, Targets
<1> HIDE DEF scripts, F, U
<1>7. AreArtifacts(scripts) /\ \A V : ReferTo(scripts, V)
  BY <1>1, <1>3, <1>4, <1>5, MadeFacts
<1>8. ReferTo(as, S)
  BY DEF Closed, ReferTo
<1>9. AreArtifacts(all) /\ Ids(all) = S /\ ReferTo(all, S)
  BY <1>7, <1>8, JoinedFacts, Zenon
<1>10. EndIn(edges, S)
  BY <1>6 DEF EndIn
<1> HIDE DEF edges, all, S
<1>11. AreArtifacts(new) /\ Ids(new) = Ids(all) /\ ReferTo(new, S)
  <2>1. "calls" \in {"calls", "reads", "writes"}
    OBVIOUS
  <2>2. AreArtifacts(all) /\ ReferTo(all, S)
    BY <1>9
  <2> QED
    BY <1>10, <2>1, <2>2, ExtendedFacts, Zenon
<1>12. WithShellCalls(as, t, r) = new
  BY Zenon DEF WithShellCalls, scripts, edges, all, U
<1> HIDE DEF new
<1> QED
  BY <1>9, <1>11, <1>12, Zenon DEF Closed

-----------------------------------------------------------------------------
(* FunctionResolver: whatever the first facts and each further one keep    *)
(* holds of the list of all.                                               *)
DeclareNext(found, fact, r) ==
    IF \/ DeclaredId(fact, r) = None \/ IsTestPath(fact.file)
       \/ Known(found, DeclaredId(fact, r))
    THEN found ELSE Append(found, ArtifactOf(fact, r))

LEMMA DeclaredIn ==
  ASSUME NEW T, NEW t \in Seq(T), NEW r, NEW V, <<>> \in V,
         \A found \in V, fact \in T : DeclareNext(found, fact, r) \in V
  PROVE  FunctionArtifacts(t, r) \in V
<1> DEFINE N == Len(t)
           Step(found, n) == DeclareNext(found, t[n], r)
           H == [p \in V \X (1 .. N) |-> Step(p[1], p[2])]
           Solves(f) == f = [n \in 0 .. N |-> IF n = 0 THEN <<>> ELSE Step(f[n - 1], n)]
           g == CHOOSE f : Solves(f)
<1>1. N \in Nat /\ \A n \in 1 .. N : t[n] \in T
  OBVIOUS
<1>2. FunctionArtifacts(t, r) = g[N]
  BY Zenon DEF FunctionArtifacts, DeclareNext
<1> HIDE DEF N
<1>3. ASSUME NEW found \in V, NEW n \in 1 .. N PROVE Step(found, n) \in V
  BY <1>1
<1> HIDE DEF Step
<1>5. Steps(H, N, V)
  BY <1>3 DEF Steps
<1>6. \A x \in V, n \in 1 .. N : H[<<x, n>>] = Step(x, n)
  OBVIOUS
<1> HIDE DEF H
<1>7. PICK f : f \in [0 .. N -> V] /\ f[0] = <<>> /\ \A n \in 1 .. N : f[n] = H[<<f[n - 1], n>>]
  <2>1. N \in Nat
    BY <1>1
  <2>2. \E f : Iterates(f, N, V, <<>>, H)
    BY <1>5, <2>1, Recursion, Zenon
  <2> QED
    BY <2>2, Zenon DEF Iterates
<1>8. Solves(f)
  <2>1. \A n \in 0 .. N : n # 0 => n \in 1 .. N /\ n - 1 \in 0 .. N
    BY <1>1
  <2>2. ASSUME NEW n \in 1 .. N PROVE f[n] = Step(f[n - 1], n)
    <3>1. n - 1 \in 0 .. N
      BY <1>1
    <3>2. f[n - 1] \in V
      BY <1>7, <3>1
    <3> QED
      BY <1>6, <1>7, <3>2, Zenon
  <2> QED
    BY <1>7, <2>1, <2>2
<1>9. Solves(g)
  BY <1>8, Zenon
<1> HIDE DEF g
<1>10. g[0] = <<>> /\ \A n \in 1 .. N : g[n] = Step(g[n - 1], n)
  BY <1>1, <1>9
<1> HIDE DEF Solves
<1> DEFINE K == {n \in 0 .. N : g[n] \in V}
<1>11. 0 \in K
  BY <1>1, <1>10
<1>12. ASSUME NEW n \in 1 .. N, n - 1 \in K PROVE n \in K
  BY <1>3, <1>10, <1>12
<1> HIDE DEF K
<1>13. 0 .. N \subseteq K
  BY <1>1, <1>11, <1>12, UpTo
<1>14. g[N] \in V
  BY <1>1, <1>13 DEF K
<1> QED
  BY <1>2, <1>14

(* A list of the artifacts of facts.                                       *)
LEMMA DeclaredFacts ==
  ASSUME NEW t \in Seq(Facts), NEW r
  PROVE  FunctionArtifacts(t, r) \in Seq({ArtifactOf(fact, r) : fact \in Facts})
<1> DEFINE W == {ArtifactOf(fact, r) : fact \in Facts}
           V == Seq(W)
<1>1. <<>> \in V
  OBVIOUS
<1>2. \A fact \in Facts : ArtifactOf(fact, r) \in W
  OBVIOUS
<1> HIDE DEF W
<1>3. ASSUME NEW found \in V, NEW fact \in Facts PROVE DeclareNext(found, fact, r) \in V
  BY <1>2 DEF DeclareNext
<1> HIDE DEF V
<1>4. FunctionArtifacts(t, r) \in V
  BY <1>1, <1>3, DeclaredIn, Zenon
<1> QED
  BY <1>4 DEF V, W

LEMMA RebasedCloses ==
  ASSUME NEW t \in Seq(Facts), NEW dir
  PROVE  AreArtifacts(Rebased(t, dir)) /\ Closed(Rebased(t, dir))
<1> DEFINE W == {ArtifactOf(fact, Last(dir)) : fact \in Facts}
           as == FunctionArtifacts(t, Last(dir))
           bs == Rebased(t, dir)
<1>1. as \in Seq(W)
  BY DeclaredFacts
<1> HIDE DEF as
<1>2. IsList(as) /\ \A i \in DOMAIN as : as[i] \in W
  <2> HIDE DEF W
  <2>1. \A s : s \in Seq(W) => IsList(s) /\ \A i \in DOMAIN s : s[i] \in W
    BY ListIfSeq DEF ToSet
  <2> QED
    BY <1>1, <2>1, Zenon
<1>3. bs = [i \in DOMAIN as |-> Rebase(as[i], dir)]
  BY Zenon DEF Rebased, MapSeq, as
<1> HIDE DEF bs
<1>4. bs = [i \in DOMAIN as |-> bs[i]] /\ \A i \in DOMAIN as : bs[i] = Rebase(as[i], dir)
  BY <1>3
<1>5. IsList(bs) /\ DOMAIN bs = DOMAIN as
  BY <1>2, <1>4, Mapped, Zenon
<1>6. ASSUME NEW a \in W
      PROVE  {"id", "calls", "reads", "writes"} \subseteq DOMAIN Rebase(a, dir) /\ Refers(Rebase(a, dir)) = {}
  <2>1. {"id", "calls", "reads", "writes"} \subseteq DOMAIN a /\ Refers(a) = {}
    BY DEF ArtifactOf, Artifact, Refers
  <2> HIDE DEF W
  <2>2. PICK rel, id : Rebase(a, dir) \in {a, [a EXCEPT !.file = rel, !.id = id]}
    BY DEF Rebase
  <2>3. DOMAIN [a EXCEPT !.file = rel, !.id = id] = DOMAIN a
    OBVIOUS
  <2>4. Refers([a EXCEPT !.file = rel, !.id = id]) = {}
    BY <2>1 DEF Refers
  <2> QED
    BY <2>1, <2>2, <2>3, <2>4
<1> HIDE DEF W
<1>7. \A i \in DOMAIN bs : {"id", "calls", "reads", "writes"} \subseteq DOMAIN bs[i] /\ Refers(bs[i]) = {}
  BY <1>2, <1>4, <1>5, <1>6
<1>8. AreArtifacts(bs)
  BY <1>5, <1>7, Zenon DEF AreArtifacts
<1>9. Closed(bs)
  BY <1>7 DEF Closed, ReferTo
<1> QED
  BY <1>8, <1>9 DEF bs

(* TestResolver: a list of tests.                                          *)
LEMMA TestsFacts ==
  ASSUME NEW t \in Seq(Facts), NEW r, NEW fw
  PROVE  AreTests(Tests(t, r, fw))
<1> DEFINE N == Len(t)
           TestOf(s) ==
               [id |-> TestId(r, s.file, s.name), name |-> s.name, file |-> s.file,
                type |-> TestType(t, fw, s, CalleesOn(t, s)), covers |-> {}]
           W == {TestOf(fact) : fact \in Facts}
           V == Seq(W)
           Declares(n) == t[n].kind = "symbol" /\ IsTest(fw, t[n], CalleesOn(t, t[n]))
           Step(found, n) == IF Declares(n) THEN Append(found, TestOf(t[n])) ELSE found
           H == [p \in V \X (1 .. N) |-> Step(p[1], p[2])]
           Solves(f) == f = [n \in 0 .. N |-> IF n = 0 THEN <<>> ELSE Step(f[n - 1], n)]
           g == CHOOSE f : Solves(f)
<1>1. N \in Nat /\ \A n \in 1 .. N : t[n] \in Facts
  OBVIOUS
<1>2. Tests(t, r, fw) = g[N]
  BY Zenon DEF Tests
<1>3. \A w \in W : {"id", "covers"} \subseteq DOMAIN w
  OBVIOUS
<1>4. \A n \in 1 .. N : TestOf(t[n]) \in W
  BY <1>1
<1> HIDE DEF N, Declares, TestOf, W
<1>5. ASSUME NEW found \in V, NEW n \in 1 .. N PROVE Step(found, n) \in V
  BY <1>4
<1>6. <<>> \in V
  OBVIOUS
<1> HIDE DEF Step, V
<1>7. Steps(H, N, V)
  BY <1>5 DEF Steps
<1>8. \A x \in V, n \in 1 .. N : H[<<x, n>>] = Step(x, n)
  OBVIOUS
<1> HIDE DEF H
<1>9. PICK f : f \in [0 .. N -> V] /\ f[0] = <<>> /\ \A n \in 1 .. N : f[n] = H[<<f[n - 1], n>>]
  <2>1. N \in Nat
    BY <1>1
  <2>2. \E f : Iterates(f, N, V, <<>>, H)
    BY <1>6, <1>7, <2>1, Recursion, Zenon
  <2> QED
    BY <2>2, Zenon DEF Iterates
<1>10. Solves(f)
  <2>1. \A n \in 0 .. N : n # 0 => n \in 1 .. N /\ n - 1 \in 0 .. N
    BY <1>1
  <2>2. ASSUME NEW n \in 1 .. N PROVE f[n] = Step(f[n - 1], n)
    <3>1. n - 1 \in 0 .. N
      BY <1>1
    <3>2. f[n - 1] \in V
      BY <1>9, <3>1
    <3> QED
      BY <1>8, <1>9, <3>2, Zenon
  <2> QED
    BY <1>9, <2>1, <2>2
<1>11. Solves(g)
  BY <1>10, Zenon
<1> HIDE DEF g
<1>12. g[0] = <<>> /\ \A n \in 1 .. N : g[n] = Step(g[n - 1], n)
  BY <1>1, <1>11
<1> HIDE DEF Solves
<1> DEFINE T == {n \in 0 .. N : g[n] \in V}
<1>13. 0 \in T
  BY <1>1, <1>6, <1>12
<1>14. ASSUME NEW n \in 1 .. N, n - 1 \in T PROVE n \in T
  BY <1>5, <1>12, <1>14
<1> HIDE DEF T
<1>15. 0 .. N \subseteq T
  BY <1>1, <1>13, <1>14, UpTo
<1>16. g[N] \in Seq(W)
  BY <1>1, <1>15 DEF T, V
<1>17. \A s : s \in Seq(W) => IsList(s) /\ \A i \in DOMAIN s : s[i] \in W
  BY ListIfSeq DEF ToSet
<1> QED
  BY <1>2, <1>3, <1>16, <1>17, Zenon DEF AreTests

LEMMA RebasedTests ==
  ASSUME NEW ts, AreTests(ts), NEW dir, NEW us,
         us = [i \in DOMAIN ts |-> RebaseTest(ts[i], dir)]
  PROVE  AreTests(us)
<1>1. us = [i \in DOMAIN ts |-> us[i]] /\ \A i \in DOMAIN ts : us[i] = RebaseTest(ts[i], dir)
  OBVIOUS
<1>2. IsList(us) /\ DOMAIN us = DOMAIN ts
  BY <1>1, Mapped, Zenon DEF AreTests
<1>3. ASSUME NEW i \in DOMAIN ts PROVE DOMAIN RebaseTest(ts[i], dir) = DOMAIN ts[i]
  BY DEF RebaseTest
<1> QED
  BY <1>1, <1>2, <1>3, Zenon DEF AreTests

(* CoverageResolver: what a test covers is an artifact.                    *)
LEMMA CoverageFacts ==
  ASSUME NEW ts, AreTests(ts), NEW t, NEW dir, NEW as, NEW us, us = WithCoverage(ts, t, dir, as)
  PROVE  AreTests(us) /\ \A i \in DOMAIN us : us[i].covers \subseteq Ids(as)
<1> DEFINE located == Located(t, dir)
           CoversOf(x) ==
               UNION {CoveredBy(i, RelTo(x.file, dir), References(located, RelTo(x.file, dir), x.name),
                                as, ReExports(located)) :
                          i \in ImportsForTest(located, RelTo(x.file, dir))}
<1>1. us = [i \in DOMAIN ts |-> [ts[i] EXCEPT !.covers = CoversOf(ts[i])]]
  BY Zenon DEF WithCoverage, MapSeq
<1>2. ASSUME NEW x PROVE CoversOf(x) \subseteq Ids(as)
  <2> DEFINE As == {a.id : a \in ToSet(as)}
  <2>1. ASSUME NEW i, NEW f, NEW refs, NEW re, NEW id \in CoveredBy(i, f, refs, as, re)
        PROVE  id \in As
    <3>1. CASE i.names = <<>>
      BY <2>1, <3>1 DEF CoveredBy
    <3>2. CASE i.names # <<>>
      <4>1. PICK n : id \in {a.id : a \in {b \in ToSet(as) :
                                 \E p \in ToSet(Places(i.module, n, f, re)) :
                                     b.file = p.file /\ b.name = p.name}}
        BY <2>1, <3>2, Zenon DEF CoveredBy
      <4> QED
        BY <4>1
    <3> QED
      BY <3>1, <3>2
  <2>2. As \subseteq Ids(as)
    BY DEF Ids, ToSet
  <2> HIDE DEF As
  <2>3. ASSUME NEW id \in CoversOf(x) PROVE id \in As
    <3>1. PICK i : id \in CoveredBy(i, RelTo(x.file, dir), References(located, RelTo(x.file, dir), x.name),
                                     as, ReExports(located))
      BY <2>3, Zenon
    <3> QED
      BY <2>1, <3>1, Zenon
  <2> QED
    BY <2>2, <2>3
<1> HIDE DEF CoversOf
<1>3. us = [i \in DOMAIN ts |-> us[i]] /\ \A i \in DOMAIN ts : us[i] = [ts[i] EXCEPT !.covers = CoversOf(ts[i])]
  BY <1>1
<1>4. IsList(us) /\ DOMAIN us = DOMAIN ts
  BY <1>3, Mapped, Zenon DEF AreTests
<1>5. ASSUME NEW i \in DOMAIN ts
      PROVE  {"id", "covers"} \subseteq DOMAIN us[i] /\ us[i].covers \subseteq Ids(as)
  <2>1. {"id", "covers"} \subseteq DOMAIN ts[i]
    BY Zenon DEF AreTests
  <2>2. us[i] = [ts[i] EXCEPT !.covers = CoversOf(ts[i])]
    BY <1>3
  <2>3. DOMAIN us[i] = DOMAIN ts[i] /\ us[i].covers = CoversOf(ts[i])
    BY <2>1, <2>2
  <2> QED
    BY <1>2, <2>1, <2>3
<1> QED
  BY <1>4, <1>5, Zenon DEF AreTests

-----------------------------------------------------------------------------
(* The records of the other resolvers.                                     *)
LEMMA EndpointsFind ==
  ASSUME NEW as, IsList(as), NEW t, NEW dir, NEW fw
  PROVE  \A e \in Endpoints(t, dir, as, fw) : e.handler \in Targets(as)
<1> SUFFICES ASSUME NEW e \in Endpoints(t, dir, as, fw) PROVE e.handler \in Targets(as)
  OBVIOUS
<1>1. PICK r : e = [id |-> <<"endpoint", Last(dir), r.method, r.path>>,
                    handler |-> NamedIn(as, MakeRelative(r.file, dir), r.symbol)]
  BY DEF Endpoints
<1>2. e.handler = NamedIn(as, MakeRelative(r.file, dir), r.symbol)
  BY <1>1
<1> QED
  BY <1>2, NamedInFinds

LEMMA QueriesFind ==
  ASSUME NEW as, IsList(as), NEW t, NEW dir, NEW fw
  PROVE  \A q \in Queries(t, dir, as, fw) : q.enclosing \in Targets(as)
<1> SUFFICES ASSUME NEW q \in Queries(t, dir, as, fw) PROVE q.enclosing \in Targets(as)
  OBVIOUS
<1>1. PICK f : q = [id |-> <<"q", Last(dir), RelTo(f.file, dir), f.line>>,
                    enclosing |-> IdIn(Enclosing(as, RelTo(f.file, dir), f.line))]
  BY DEF Queries, FirstOfEachId
<1>2. q.enclosing = IdIn(Enclosing(as, RelTo(f.file, dir), f.line))
  BY <1>1
<1> QED
  BY <1>2, EnclosingFinds

(* A site lies in an artifact and its topic is among the topics.           *)
LEMMA SitesFind ==
  ASSUME NEW as, IsList(as), NEW t, NEW dir, NEW fw
  PROVE  \A s \in KafkaSites(t, dir, as, fw) :
            s.function \in Ids(as) /\ <<"topic", s.topic>> \in Topics(t, dir, as, fw)
<1> SUFFICES ASSUME NEW s \in KafkaSites(t, dir, as, fw)
             PROVE  s.function \in Ids(as) /\ <<"topic", s.topic>> \in Topics(t, dir, as, fw)
  OBVIOUS
<1> DEFINE os == Occurrences(t)
           Site(f) == [id |-> <<Role(f, Speaking(f, fw)), Last(dir), RelTo(f.file, dir), f.line>>,
                       role |-> Role(f, Speaking(f, fw)),
                       function |-> Speaker(f, dir, as), topic |-> Topic(f, Speaking(f, fw))]
<1>1. PICK i \in DOMAIN os : IsSite(os[i], dir, as, fw) /\ s = Site(os[i])
  BY DEF KafkaSites, FirstOfEachId
<1> HIDE DEF os
<1> DEFINE f == os[i]
<1>2. f \in ToSet(os)
  BY <1>1 DEF ToSet
<1>3. s.function = Speaker(f, dir, as) /\ s.topic = Topic(f, Speaking(f, fw))
  BY <1>1
<1> HIDE DEF f
<1>4. s.function \in Ids(as)
  BY <1>1, <1>3, EnclosingFinds DEF Speaker, IsSite, Targets, f
<1>5. <<"topic", s.topic>> \in Topics(t, dir, as, fw)
  BY <1>1, <1>2, <1>3 DEF Topics, os, f
<1> QED
  BY <1>4, <1>5

(* A mock belongs to a test and stands for an artifact, if for any.        *)
LEMMA MethodNamedFinds ==
  ASSUME NEW as, IsList(as), NEW class, NEW name
  PROVE  MethodNamed(as, class, name) \in Targets(as)
<1> DEFINE I == {i \in 1 .. Len(as) : as[i].type = "method" /\ as[i].id[4] = class /\ as[i].name = name}
<1>1. MethodNamed(as, class, name) = IdIn(LastAt(as, I))
  BY Zenon DEF MethodNamed, LastWith, SelectLastInSeq, LastAt
<1> QED
  BY <1>1, LastId

LEMMA PatchedFinds ==
  ASSUME NEW as, IsList(as), NEW dec, NEW re, Patched(dec, as, re) # None
  PROVE  Patched(dec, as, re).artifact \in Targets(as)
<1>1. None \in Targets(as)
  BY DEF Targets
<1>2. \A class, name : MethodNamed(as, class, name) \in Targets(as)
  BY MethodNamedFinds
<1> DEFINE Placed(target) == FirstHit(Places(Front(target), Last(target), dec.file, re),
                                      LAMBDA p : NamedIn(as, p.file, p.name))
<1>3. \A target : Placed(target) \in Targets(as)
  BY <1>1, NamedInFinds, Zenon DEF FirstHit
<1>4. \/ \E target, class, name : Patched(dec, as, re) =
            [target |-> target, artifact |-> MethodNamed(as, class, name)]
      \/ \E target : Patched(dec, as, re) = [target |-> target, artifact |-> None]
      \/ \E target : Patched(dec, as, re) = [target |-> target, artifact |-> Placed(target)]
  BY Zenon DEF Patched
<1> HIDE DEF Placed
<1>5. \A target, x : [target |-> target, artifact |-> x].artifact = x
  OBVIOUS
<1>6. \E target : \E x \in Targets(as) : Patched(dec, as, re) = [target |-> target, artifact |-> x]
  BY <1>1, <1>2, <1>3, <1>4, Zenon
<1>7. PICK target, x : x \in Targets(as) /\ Patched(dec, as, re) = [target |-> target, artifact |-> x]
  BY <1>6, Zenon
<1> QED
  BY <1>5, <1>7, Zenon

LEMMA MocksFind ==
  ASSUME NEW as, IsList(as), NEW ts, IsList(ts), NEW t, NEW dir, NEW fw
  PROVE  \A m \in Mocks(t, dir, ts, as, fw) :
            m.artifact \in Targets(as) /\ \E i \in DOMAIN ts : m.test = ts[i].id
<1> DEFINE located == Located(t, dir)
           re == ReExports(located)
           Decorated(d) == LastWith(ts, LAMBDA x : x.file = d.file /\ x.name = d.symbol)
           MockOf(d) == [id |-> <<"mock", Last(dir), Decorated(d).id, Patched(d, as, re).target>>,
                         test |-> Decorated(d).id, artifact |-> Patched(d, as, re).artifact]
<1> SUFFICES ASSUME NEW m \in Mocks(t, dir, ts, as, fw)
             PROVE  m.artifact \in Targets(as) /\ \E i \in DOMAIN ts : m.test = ts[i].id
  OBVIOUS
<1>1. PICK d : Decorated(d) # None /\ Patched(d, as, re) # None /\ m = MockOf(d)
  BY DEF Mocks, FirstOfEachId
<1> DEFINE I == {i \in 1 .. Len(ts) : ts[i].file = d.file /\ ts[i].name = d.symbol}
<1>2. Decorated(d) = LastAt(ts, I)
  BY Zenon DEF LastWith, SelectLastInSeq, LastAt
<1>3. m.artifact = Patched(d, as, re).artifact /\ m.test = Decorated(d).id
  BY <1>1
<1> HIDE DEF Decorated, re
<1>4. m.artifact \in Targets(as)
  BY <1>1, <1>3, PatchedFinds
<1>5. \E i \in DOMAIN ts : Decorated(d) = ts[i]
  <2>1. I \subseteq 1 .. Len(ts)
    OBVIOUS
  <2> HIDE DEF I
  <2> QED
    BY <1>1, <1>2, <2>1, AtLast, Zenon
<1> QED
  BY <1>3, <1>4, <1>5

-----------------------------------------------------------------------------
(* The walk: the lists of the files, one after the other.                  *)
LEMMA Flattened ==
  ASSUME NEW T, NEW ss \in Seq(Seq(T))
  PROVE  FlattenSeq(ss) \in Seq(T)
<1>1. CASE Len(ss) = 0
  <2>1. ss \in Seq(T)
    BY <1>1
  <2> QED
    BY <1>1, <2>1, Zenon DEF FlattenSeq
<1>2. CASE Len(ss) # 0
  <2> DEFINE M == Len(ss)
             N == M - 1
             V == Seq(T)
             H == [p \in V \X (1 .. N) |-> p[1] \o ss[p[2] + 1]]
             Solves(f) == f = [i \in 1 .. M |-> IF i = 1 THEN ss[i] ELSE f[i - 1] \o ss[i]]
             g == CHOOSE f : Solves(f)
  <2>1. M \in Nat /\ N \in Nat /\ M = N + 1 /\ \A i \in 1 .. M : ss[i] \in V
    BY <1>2
  <2>2. FlattenSeq(ss) = g[M]
    BY <1>2, Zenon DEF FlattenSeq
  <2> HIDE DEF M, N
  <2>3. \A x, y \in V : x \o y \in V
    OBVIOUS
  <2>4. \A n \in 1 .. N : n + 1 \in 1 .. M /\ n \in 1 .. M /\ n - 1 \in 0 .. N /\ n + 1 # 1 /\ n + 1 - 1 = n
    BY <2>1
  <2> HIDE DEF V
  <2>5. Steps(H, N, V)
    BY <2>1, <2>3, <2>4 DEF Steps
  <2>6. \A x \in V, n \in 1 .. N : H[<<x, n>>] = x \o ss[n + 1]
    OBVIOUS
  <2> HIDE DEF H
  <2>7. ss[1] \in V
    BY <2>1
  <2>8. PICK h : h \in [0 .. N -> V] /\ h[0] = ss[1] /\ \A n \in 1 .. N : h[n] = H[<<h[n - 1], n>>]
    <3>1. N \in Nat
      BY <2>1
    <3>2. \E f : Iterates(f, N, V, ss[1], H)
      BY <2>5, <2>7, <3>1, Recursion, Zenon
    <3> QED
      BY <3>2, Zenon DEF Iterates
  <2> DEFINE f == [i \in 1 .. M |-> h[i - 1]]
  <2>9. Solves(f)
    <3>1. ASSUME NEW i \in 1 .. M, i # 1 PROVE f[i] = f[i - 1] \o ss[i]
      <4> DEFINE n == i - 1
      <4>1. n \in 1 .. N /\ i = n + 1 /\ n \in 1 .. M
        BY <2>1, <3>1
      <4>2. f[i] = h[n] /\ f[n] = h[n - 1]
        BY <4>1
      <4> HIDE DEF n, f
      <4>3. h[n - 1] \in V
        BY <2>4, <2>8, <4>1
      <4>4. h[n] = h[n - 1] \o ss[n + 1]
        BY <2>6, <2>8, <4>1, <4>3, Zenon
      <4> QED
        BY <4>1, <4>2, <4>4, Zenon DEF n
    <3>2. f[1] = ss[1]
      BY <2>1, <2>8
    <3>3. \A i \in 1 .. M : f[i] = IF i = 1 THEN ss[i] ELSE f[i - 1] \o ss[i]
      BY <3>1, <3>2
    <3>4. f = [i \in 1 .. M |-> f[i]]
      OBVIOUS
    <3> HIDE DEF f
    <3> QED
      BY <3>3, <3>4
  <2>10. Solves(g)
    BY <2>9, Zenon
  <2> HIDE DEF g, f
  <2>11. g[1] = ss[1] /\ \A n \in 1 .. N : g[n + 1] = g[n] \o ss[n + 1]
    <3>1. \A i \in 1 .. M : g[i] = IF i = 1 THEN ss[i] ELSE g[i - 1] \o ss[i]
      BY <2>10
    <3>2. 1 \in 1 .. M
      BY <2>1
    <3>3. ASSUME NEW n \in 1 .. N PROVE g[n + 1] = g[n] \o ss[n + 1]
      <4>1. PICK i \in 1 .. M : i = n + 1 /\ i # 1 /\ i - 1 = n
        BY <2>4
      <4>2. g[i] = g[i - 1] \o ss[i]
        BY <3>1, <4>1, Zenon
      <4> QED
        BY <4>1, <4>2, Zenon
    <3> QED
      BY <3>1, <3>2, <3>3, Zenon
  <2> HIDE DEF Solves
  <2> DEFINE K == {n \in 0 .. N : g[n + 1] \in V}
  <2>12. 0 \in K
    BY <2>1, <2>7, <2>11
  <2>13. ASSUME NEW n \in 1 .. N, n - 1 \in K PROVE n \in K
    <3>1. g[n] \in V /\ n \in 0 .. N
      BY <2>1, <2>4, <2>13
    <3>2. g[n + 1] = g[n] \o ss[n + 1] /\ ss[n + 1] \in V
      BY <2>1, <2>4, <2>11
    <3> QED
      BY <2>3, <3>1, <3>2
  <2> HIDE DEF K
  <2>14. 0 .. N \subseteq K
    BY <2>1, <2>12, <2>13, UpTo
  <2>15. g[M] \in V
    BY <2>1, <2>14 DEF K
  <2> QED
    BY <2>2, <2>15 DEF V
<1> QED
  BY <1>1, <1>2, Zenon

LEMMA WalkedUnder ==
  ASSUME NEW dir, NEW order \in Seq(Walked(dir))
  PROVE  FlattenSeq(MapSeq(order, FactsOf)) \in Seq(FactsUnder(dir))
<1> DEFINE W == Walked(dir)
           T == FactsUnder(dir)
           ss == MapSeq(order, FactsOf)
<1>1. \A f \in W : FactsOf(f) \in Seq(T)
  <2> SUFFICES ASSUME NEW f \in W PROVE FactsOf(f) \in Seq(T)
    OBVIOUS
  <2>1. Content[f] \in Seq(Facts)
    BY ContentOK, Zenon DEF Walked
  <2>2. Content[f] \in Seq(ToSet(Content[f]))
    BY <2>1, ListIfSeq, Zenon DEF IsList
  <2>3. ToSet(Content[f]) \subseteq T
    BY DEF FactsUnder
  <2> HIDE DEF T
  <2>4. \A U, u : u \in Seq(U) /\ U \subseteq T => u \in Seq(T)
    OBVIOUS
  <2>5. <<>> \in Seq(T)
    OBVIOUS
  <2> QED
    BY <2>2, <2>3, <2>4, <2>5, Zenon DEF FactsOf
<1>2. ss = [i \in DOMAIN order |-> FactsOf(order[i])]
  BY Zenon DEF MapSeq
<1> HIDE DEF W, ss, T
<1>3. Len(order) \in Nat /\ DOMAIN order = 1 .. Len(order) /\ \A i \in DOMAIN order : order[i] \in W
  BY DEF W
<1>4. ss \in Seq(Seq(T))
  <2> DEFINE V == Seq(T)
  <2>1. \A i \in 1 .. Len(order) : FactsOf(order[i]) \in V
    BY <1>1, <1>3
  <2> HIDE DEF V
  <2>2. ss \in Seq(V)
    BY <1>2, <1>3, <2>1
  <2> QED
    BY <2>2 DEF V
<1> QED
  BY <1>4, Flattened, Zenon DEF ss, T

LEMMA WalkedFacts ==
  ASSUME NEW dir, NEW order \in Seq(Walked(dir))
  PROVE  FlattenSeq(MapSeq(order, FactsOf)) \in Seq(Facts)
<1>1. FactsUnder(dir) \subseteq Facts
  BY DEF FactsUnder, Walked, Facts
<1>2. \A U, V, s : s \in Seq(U) /\ U \subseteq V => s \in Seq(V)
  OBVIOUS
<1> QED
  BY <1>1, <1>2, WalkedUnder, Zenon

-----------------------------------------------------------------------------
(* The result: what refers to what.                                        *)
Consistent(res) ==
    /\ \A a \in res.artifacts : Refers(a) \subseteq IdsOf(res.artifacts)
    /\ \A e \in res.endpoints : e.handler \in IdsOf(res.artifacts) \cup {None}
    /\ \A m \in res.mocks : m.artifact \in IdsOf(res.artifacts) \cup {None} /\ m.test \in IdsOf(res.tests)
    /\ \A q \in res.queries : q.enclosing \in IdsOf(res.artifacts) \cup {None}
    /\ \A s \in res.sites : s.function \in IdsOf(res.artifacts) /\ <<"topic", s.topic>> \in res.topics
    /\ \A x \in res.tests : x.covers \subseteq IdsOf(res.artifacts)
    /\ \A c \in res.connections : c.source \in IdsOf(res.services)

(* The invariant of some values of the variables.                          *)
Inv(q, p, t, as, ts, res) ==
    /\ AreArtifacts(as) /\ Closed(as) /\ AreTests(ts) /\ t \in Seq(Facts)
    /\ DOMAIN res = DOMAIN Nothing /\ Consistent(res)
    /\ p \in Stages \ {"walk"} => <<Last(Head(q))>> \in IdsOf(res.services)
    /\ p \in AfterShell => ToSet(as) \subseteq res.artifacts
    /\ p \in AfterTests => ToSet(ts) \subseteq res.tests

LEMMA ConsistentFacts ==
  ASSUME NEW res
  PROVE  Consistent(res) <=>
           /\ UNION {a.calls \cup a.reads \cup a.writes : a \in res.artifacts} \subseteq IdsOf(res.artifacts)
           /\ {e.handler : e \in res.endpoints} \cup {m.artifact : m \in res.mocks}
                \cup {q.enclosing : q \in res.queries} \subseteq IdsOf(res.artifacts) \cup {None}
           /\ {s.function : s \in res.sites} \cup (UNION {x.covers : x \in res.tests})
                \subseteq IdsOf(res.artifacts)
           /\ {<<"topic", s.topic>> : s \in res.sites} \subseteq res.topics
           /\ {m.test : m \in res.mocks} \subseteq IdsOf(res.tests)
           /\ {c.source : c \in res.connections} \subseteq IdsOf(res.services)
<1> DEFINE A == IdsOf(res.artifacts)
           B == IdsOf(res.tests)
           C == IdsOf(res.services)
<1> HIDE DEF A, B, C
<1>1. (UNION {a.calls \cup a.reads \cup a.writes : a \in res.artifacts} \subseteq A)
        <=> \A a \in res.artifacts : Refers(a) \subseteq A
  BY DEF Refers
<1>2. ({e.handler : e \in res.endpoints} \cup {m.artifact : m \in res.mocks}
                \cup {q.enclosing : q \in res.queries} \subseteq A \cup {None})
        <=> /\ \A e \in res.endpoints : e.handler \in A \cup {None}
            /\ \A m \in res.mocks : m.artifact \in A \cup {None}
            /\ \A q \in res.queries : q.enclosing \in A \cup {None}
  BY Zenon
<1>3. ({s.function : s \in res.sites} \cup (UNION {x.covers : x \in res.tests}) \subseteq A)
        <=> /\ \A s \in res.sites : s.function \in A
            /\ \A x \in res.tests : x.covers \subseteq A
  BY Zenon
<1>4. ({<<"topic", s.topic>> : s \in res.sites} \subseteq res.topics)
        <=> \A s \in res.sites : <<"topic", s.topic>> \in res.topics
  BY Zenon
<1>5. /\ ({m.test : m \in res.mocks} \subseteq B) <=> \A m \in res.mocks : m.test \in B
      /\ ({c.source : c \in res.connections} \subseteq C) <=> \A c \in res.connections : c.source \in C
  BY Zenon
<1> QED
  BY <1>1, <1>2, <1>3, <1>4, <1>5, Zenon DEF Consistent, A, B, C

LEMMA InvFacts ==
  /\ PublishedInv <=> Inv(queue, pc, tree, artifacts, tests, result)
  /\ PublishedInv' <=> Inv(queue', pc', tree', artifacts', tests', result')
<1>1. \A as : Closed(as) <=>
        \A i \in DOMAIN as : as[i].calls \cup as[i].reads \cup as[i].writes \subseteq Ids(as)
  BY Zenon DEF Closed, ReferTo, Refers
<1>2. NothingDangles <=> Closed(artifacts) /\ Consistent(result)
  BY <1>1, ConsistentFacts, Zenon DEF NothingDangles
<1>3. NothingDangles' <=> Closed(artifacts') /\ Consistent(result')
  BY <1>1, ConsistentFacts, Zenon DEF NothingDangles
<1> QED
  BY <1>2, <1>3, Zenon DEF PublishedInv, Inv, repo, root

(* What is added to one list of the result leaves the others alone.        *)
Adds(new, res, field, X) ==
    /\ DOMAIN new = DOMAIN Nothing
    /\ new.services = IF field = "services" THEN res.services \cup X ELSE res.services
    /\ new.artifacts = IF field = "artifacts" THEN res.artifacts \cup X ELSE res.artifacts
    /\ new.endpoints = IF field = "endpoints" THEN res.endpoints \cup X ELSE res.endpoints
    /\ new.tests = IF field = "tests" THEN res.tests \cup X ELSE res.tests
    /\ new.mocks = IF field = "mocks" THEN res.mocks \cup X ELSE res.mocks
    /\ new.queries = IF field = "queries" THEN res.queries \cup X ELSE res.queries
    /\ new.topics = IF field = "topics" THEN res.topics \cup X ELSE res.topics
    /\ new.sites = IF field = "sites" THEN res.sites \cup X ELSE res.sites
    /\ new.connections = IF field = "connections" THEN res.connections \cup X ELSE res.connections

LEMMA EmittedFacts ==
  ASSUME NEW res, DOMAIN res = DOMAIN Nothing, NEW field \in DOMAIN Nothing, NEW X
  PROVE  Adds([res EXCEPT ![field] = @ \cup X], res, field, X)
<1>1. {"services", "artifacts", "endpoints", "tests", "mocks", "queries", "topics", "sites",
       "connections"} \subseteq DOMAIN res
  BY DEF Nothing
<1> QED
  BY <1>1 DEF Adds

(* What an adapter has published stays published, and keeps what it refers *)
(* to, when artifacts, services and topics are added.                      *)
LEMMA IdsGrow ==
  ASSUME NEW S, NEW T, S \subseteq T
  PROVE  IdsOf(S) \subseteq IdsOf(T)
BY DEF IdsOf

LEMMA IdsOfList ==
  ASSUME NEW as
  PROVE  IdsOf(ToSet(as)) = Ids(as)
BY DEF IdsOf, ToSet, Ids

(* What is added refers to what is published.                              *)
Fits(X, field, res) ==
    /\ field = "artifacts" => \A a \in X : Refers(a) \subseteq IdsOf(res.artifacts \cup X)
    /\ field = "endpoints" => \A e \in X : e.handler \in IdsOf(res.artifacts) \cup {None}
    /\ field = "mocks" => \A m \in X : m.artifact \in IdsOf(res.artifacts) \cup {None} /\ m.test \in IdsOf(res.tests)
    /\ field = "queries" => \A q \in X : q.enclosing \in IdsOf(res.artifacts) \cup {None}
    /\ field = "sites" => \A s \in X : s.function \in IdsOf(res.artifacts) /\ <<"topic", s.topic>> \in res.topics
    /\ field = "tests" => \A x \in X : x.covers \subseteq IdsOf(res.artifacts)
    /\ field = "connections" => \A c \in X : c.source \in IdsOf(res.services)

Grown(new, res) ==
    /\ Consistent(new) /\ DOMAIN new = DOMAIN Nothing
    /\ res.services \subseteq new.services
    /\ res.artifacts \subseteq new.artifacts
    /\ res.tests \subseteq new.tests

LEMMA StaysConsistent ==
  ASSUME NEW res, DOMAIN res = DOMAIN Nothing, Consistent(res),
         NEW field \in DOMAIN Nothing, NEW X, Fits(X, field, res)
  PROVE  Grown([res EXCEPT ![field] = @ \cup X], res)
<1> DEFINE new == [res EXCEPT ![field] = @ \cup X]
<1>1. Adds(new, res, field, X)
  BY EmittedFacts, Zenon
<1> HIDE DEF new
<1>2. /\ res.services \subseteq new.services /\ res.artifacts \subseteq new.artifacts
      /\ res.tests \subseteq new.tests /\ res.topics \subseteq new.topics
  BY <1>1 DEF Adds
<1>3. /\ IdsOf(res.services) \subseteq IdsOf(new.services)
      /\ IdsOf(res.artifacts) \subseteq IdsOf(new.artifacts)
      /\ IdsOf(res.tests) \subseteq IdsOf(new.tests)
  BY <1>2, IdsGrow, Zenon
<1>4. /\ field = "artifacts" => new.artifacts = res.artifacts \cup X
      /\ field # "artifacts" => new.artifacts = res.artifacts
  BY <1>1 DEF Adds
<1> DEFINE A == IdsOf(new.artifacts)
<1>5. \A a \in new.artifacts : Refers(a) \subseteq A
  <2>1. CASE field = "artifacts"
    BY <1>3, <1>4, <2>1, Zenon DEF Consistent, Fits
  <2>2. CASE field # "artifacts"
    BY <1>4, <2>2, Zenon DEF Consistent
  <2> QED
    BY <2>1, <2>2
<1> DEFINE old == IdsOf(res.artifacts)
<1>6. old \subseteq A
  BY <1>3
<1>7. \A e \in new.endpoints : e.handler \in A \cup {None}
  <2>1. \A e \in res.endpoints : e.handler \in old \cup {None}
    BY Zenon DEF Consistent
  <2>2. field = "endpoints" => \A e \in X : e.handler \in old \cup {None}
    BY Zenon DEF Fits
  <2> HIDE DEF old, A
  <2> QED
    BY <1>1, <1>6, <2>1, <2>2 DEF Adds
<1>8. \A m \in new.mocks : m.artifact \in A \cup {None} /\ m.test \in IdsOf(new.tests)
  <2>1. \A m \in res.mocks : m.artifact \in old \cup {None} /\ m.test \in IdsOf(res.tests)
    BY Zenon DEF Consistent
  <2>2. field = "mocks" => \A m \in X : m.artifact \in old \cup {None} /\ m.test \in IdsOf(res.tests)
    BY Zenon DEF Fits
  <2> HIDE DEF old, A
  <2> QED
    BY <1>1, <1>3, <1>6, <2>1, <2>2 DEF Adds
<1>9. \A q \in new.queries : q.enclosing \in A \cup {None}
  <2>1. \A q \in res.queries : q.enclosing \in old \cup {None}
    BY Zenon DEF Consistent
  <2>2. field = "queries" => \A q \in X : q.enclosing \in old \cup {None}
    BY Zenon DEF Fits
  <2> HIDE DEF old, A
  <2> QED
    BY <1>1, <1>6, <2>1, <2>2 DEF Adds
<1>10. \A s \in new.sites : s.function \in A /\ <<"topic", s.topic>> \in new.topics
  <2>1. \A s \in res.sites : s.function \in old /\ <<"topic", s.topic>> \in res.topics
    BY Zenon DEF Consistent
  <2>2. field = "sites" => \A s \in X : s.function \in old /\ <<"topic", s.topic>> \in res.topics
    BY Zenon DEF Fits
  <2> HIDE DEF old, A
  <2> QED
    BY <1>1, <1>2, <1>6, <2>1, <2>2 DEF Adds
<1>11. \A x \in new.tests : x.covers \subseteq A
  <2>1. \A x \in res.tests : x.covers \subseteq old
    BY Zenon DEF Consistent
  <2>2. field = "tests" => \A x \in X : x.covers \subseteq old
    BY Zenon DEF Fits
  <2> HIDE DEF old, A
  <2> QED
    BY <1>1, <1>6, <2>1, <2>2 DEF Adds
<1>12. \A c \in new.connections : c.source \in IdsOf(new.services)
  <2>1. \A c \in res.connections : c.source \in IdsOf(res.services)
    BY Zenon DEF Consistent
  <2>2. field = "connections" => \A c \in X : c.source \in IdsOf(res.services)
    BY Zenon DEF Fits
  <2> QED
    BY <1>1, <1>3, <2>1, <2>2 DEF Adds
<1>13. Consistent(new)
  BY <1>5, <1>7, <1>8, <1>9, <1>10, <1>11, <1>12, Zenon DEF Consistent
<1> QED
  BY <1>1, <1>2, <1>13, Zenon DEF new, Adds, Grown

LEMMA EmptyLists ==
  AreArtifacts(<<>>) /\ Closed(<<>>) /\ AreTests(<<>>) /\ <<>> \in Seq(Facts) /\ ToSet(<<>>) = {}
<1>1. IsList(<<>>) /\ DOMAIN <<>> = {} /\ <<>> \in Seq(Facts)
  BY DEF IsList
<1> QED
  BY <1>1, Zenon DEF AreArtifacts, Closed, ReferTo, AreTests, ToSet

LEMMA NothingFacts ==
  Consistent(Nothing)
BY DEF Consistent, Nothing

-----------------------------------------------------------------------------
(* Each step.                                                              *)
Holds == Inv(queue, pc, tree, artifacts, tests, result)
HoldsNext == Inv(queue', pc', tree', artifacts', tests', result')

(* The result grows and the lists at work stay, but for the tests.         *)
LEMMA GrowthKeeps ==
  ASSUME NEW q, NEW p, NEW t, NEW as, NEW ts, NEW res, Inv(q, p, t, as, ts, res),
         NEW next, NEW new, Grown(new, res),
         p \in Stages \ {"walk"}, next \in AfterShell => p \in AfterShell,
         next \in AfterTests => p \in AfterTests
  PROVE  Inv(q, next, t, as, ts, new)
<1>1. <<Last(Head(q))>> \in IdsOf(new.services)
  <2>1. <<Last(Head(q))>> \in IdsOf(res.services)
    BY Zenon DEF Inv
  <2>2. IdsOf(res.services) \subseteq IdsOf(new.services)
    BY IdsGrow, Zenon DEF Grown
  <2> QED
    BY <2>1, <2>2
<1>2. next \in AfterShell => ToSet(as) \subseteq new.artifacts
  <2>1. next \in AfterShell => ToSet(as) \subseteq res.artifacts
    BY Zenon DEF Inv
  <2>2. res.artifacts \subseteq new.artifacts
    BY Zenon DEF Grown
  <2> QED
    BY <2>1, <2>2
<1>3. next \in AfterTests => ToSet(ts) \subseteq new.tests
  <2>1. next \in AfterTests => ToSet(ts) \subseteq res.tests
    BY Zenon DEF Inv
  <2>2. res.tests \subseteq new.tests
    BY Zenon DEF Grown
  <2> QED
    BY <2>1, <2>2
<1> QED
  BY <1>1, <1>2, <1>3, Zenon DEF Inv, Grown

(* A lookup among published artifacts finds a published artifact.          *)
LEMMA PublishedTargets ==
  ASSUME Holds, pc \in AfterShell
  PROVE  /\ Ids(artifacts) \subseteq IdsOf(result.artifacts)
         /\ Targets(artifacts) \subseteq IdsOf(result.artifacts) \cup {None}
         /\ IsList(artifacts)
<1>1. ToSet(artifacts) \subseteq result.artifacts /\ IsList(artifacts)
  BY Zenon DEF Holds, Inv, AreArtifacts
<1>2. Ids(artifacts) \subseteq IdsOf(result.artifacts)
  BY <1>1, IdsGrow, IdsOfList
<1> QED
  BY <1>1, <1>2 DEF Targets

(* A resolver that only adds records of one kind.                          *)
LEMMA EmissionKeeps ==
  ASSUME Holds, NEW field \in DOMAIN Nothing, NEW X, Fits(X, field, result), Emit(field, X),
         NEW stage \in Stages \ {"walk"}, NEW next, Then(stage, next), UNCHANGED work,
         next \in AfterShell => stage \in AfterShell,
         next \in AfterTests => stage \in AfterTests
  PROVE  HoldsNext
<1>1. DOMAIN result = DOMAIN Nothing /\ Consistent(result)
  BY Zenon DEF Holds, Inv
<1>2. Grown([result EXCEPT ![field] = @ \cup X], result)
  BY <1>1, StaysConsistent, Zenon
<1>3. Grown(result', result)
  BY <1>2, Zenon DEF Emit
<1>4. /\ queue' = queue /\ tree' = tree /\ artifacts' = artifacts /\ tests' = tests
      /\ pc = stage /\ pc' = next
  BY DEF Then, work
<1>5. Inv(queue, pc', tree, artifacts, tests, result')
  BY <1>3, <1>4, GrowthKeeps, Zenon DEF Holds
<1> QED
  BY <1>4, <1>5, Zenon DEF HoldsNext

LEMMA EndpointsStep ==
  ASSUME Holds, ResolveEndpoints
  PROVE  HoldsNext
<1> DEFINE X == Endpoints(tree, root, artifacts, fws)
<1>1. pc = "endpoints" /\ pc \in AfterShell
  BY DEF ResolveEndpoints, Then, AfterShell
<1>2. \A e \in X : e.handler \in IdsOf(result.artifacts) \cup {None}
  <2>1. \A e \in X : e.handler \in Targets(artifacts)
    BY <1>1, PublishedTargets, EndpointsFind, Zenon
  <2> HIDE DEF X
  <2> QED
    BY <1>1, <2>1, PublishedTargets
<1> HIDE DEF X
<1>3. Fits(X, "endpoints", result)
  BY <1>2 DEF Fits
<1>4. "endpoints" \in DOMAIN Nothing /\ "endpoints" \in Stages \ {"walk"}
      /\ "endpoints" \in AfterShell /\ "tests" \notin AfterTests
  BY DEF Nothing, Stages, AfterShell, AfterTests
<1>5. Emit("endpoints", X) /\ Then("endpoints", "tests") /\ UNCHANGED work
  BY Zenon DEF ResolveEndpoints, X
<1> QED
  BY <1>3, <1>4, <1>5, EmissionKeeps, Zenon

LEMMA MocksStep ==
  ASSUME Holds, ResolveMocks
  PROVE  HoldsNext
<1> DEFINE X == Mocks(tree, root, tests, artifacts, fws)
<1>1. pc = "mocks" /\ pc \in AfterShell /\ pc \in AfterTests
  BY DEF ResolveMocks, Then, AfterShell, AfterTests
<1>2. IsList(tests) /\ ToSet(tests) \subseteq result.tests
  BY <1>1, Zenon DEF Holds, Inv, AreTests
<1>3. \A m \in X : m.artifact \in Targets(artifacts) /\ \E i \in DOMAIN tests : m.test = tests[i].id
  <2>1. IsList(artifacts)
    BY <1>1, PublishedTargets, Zenon
  <2> QED
    BY <1>2, <2>1, MocksFind
<1> HIDE DEF X
<1>4. \A m \in X : m.artifact \in IdsOf(result.artifacts) \cup {None}
  BY <1>1, <1>3, PublishedTargets
<1>5. \A m \in X : m.test \in IdsOf(result.tests)
  BY <1>2, <1>3 DEF IdsOf, ToSet
<1>6. Fits(X, "mocks", result)
  BY <1>4, <1>5 DEF Fits
<1>7. "mocks" \in DOMAIN Nothing /\ "mocks" \in Stages \ {"walk"}
      /\ "mocks" \in AfterShell /\ "mocks" \in AfterTests
  BY DEF Nothing, Stages, AfterShell, AfterTests
<1>8. Emit("mocks", X) /\ Then("mocks", "models") /\ UNCHANGED work
  BY Zenon DEF ResolveMocks, X
<1> QED
  BY <1>6, <1>7, <1>8, EmissionKeeps, Zenon

LEMMA ModelsStep ==
  ASSUME Holds, ResolveDataModels
  PROVE  HoldsNext
<1> DEFINE X == DataModels(tree, root, fws)
<1>1. Fits(X, "models", result)
  BY DEF Fits
<1> HIDE DEF X
<1>2. "models" \in DOMAIN Nothing /\ "models" \in Stages \ {"walk"}
      /\ "models" \in AfterShell /\ "models" \in AfterTests
  BY DEF Nothing, Stages, AfterShell, AfterTests
<1>3. Emit("models", X) /\ Then("models", "queries") /\ UNCHANGED work
  BY Zenon DEF ResolveDataModels, X
<1> QED
  BY <1>1, <1>2, <1>3, EmissionKeeps, Zenon

LEMMA QueriesStep ==
  ASSUME Holds, ResolveQueries
  PROVE  HoldsNext
<1> DEFINE X == Queries(tree, root, artifacts, fws)
<1>1. pc = "queries" /\ pc \in AfterShell
  BY DEF ResolveQueries, Then, AfterShell, AfterTests
<1>2. \A q \in X : q.enclosing \in Targets(artifacts)
  BY <1>1, PublishedTargets, QueriesFind, Zenon
<1> HIDE DEF X
<1>3. \A q \in X : q.enclosing \in IdsOf(result.artifacts) \cup {None}
  BY <1>1, <1>2, PublishedTargets
<1>4. Fits(X, "queries", result)
  BY <1>3 DEF Fits
<1>5. "queries" \in DOMAIN Nothing /\ "queries" \in Stages \ {"walk"}
      /\ "queries" \in AfterShell /\ "queries" \in AfterTests
  BY DEF Nothing, Stages, AfterShell, AfterTests
<1>6. Emit("queries", X) /\ Then("queries", "kafka") /\ UNCHANGED work
  BY Zenon DEF ResolveQueries, X
<1> QED
  BY <1>4, <1>5, <1>6, EmissionKeeps, Zenon

LEMMA KafkaStep ==
  ASSUME Holds, ResolveKafka
  PROVE  HoldsNext
<1> DEFINE X == Topics(tree, root, artifacts, fws)
           Y == KafkaSites(tree, root, artifacts, fws)
           mid == [result EXCEPT !["topics"] = @ \cup X]
           new == [mid EXCEPT !["sites"] = @ \cup Y]
<1>1. pc = "kafka" /\ pc \in AfterShell /\ pc \in Stages \ {"walk"} /\ pc \in AfterTests
  BY DEF ResolveKafka, Then, AfterShell, AfterTests, Stages
<1>2. DOMAIN result = DOMAIN Nothing /\ Consistent(result)
  BY Zenon DEF Holds, Inv
<1>3. \A s \in Y : s.function \in Ids(artifacts) /\ <<"topic", s.topic>> \in X
  <2>1. IsList(artifacts)
    BY <1>1, PublishedTargets, Zenon
  <2> QED
    BY <2>1, SitesFind, Zenon
<1>4. {"topics", "sites"} \subseteq DOMAIN Nothing
  BY DEF Nothing
<1>5. result' = new
  <2>1. result' = [result EXCEPT !.topics = @ \cup X, !.sites = @ \cup Y]
    BY Zenon DEF ResolveKafka
  <2>2. {"topics", "sites"} \subseteq DOMAIN result
    BY <1>2, <1>4
  <2> HIDE DEF X, Y
  <2> QED
    BY <2>1, <2>2
<1> HIDE DEF X, Y
<1>6. Adds(mid, result, "topics", X)
  BY <1>2, <1>4, EmittedFacts, Zenon
<1>7. Grown(mid, result)
  <2>1. Fits(X, "topics", result)
    BY DEF Fits
  <2> QED
    BY <1>2, <1>4, <2>1, StaysConsistent, Zenon
<1> HIDE DEF mid
<1>8. mid.topics = result.topics \cup X /\ mid.artifacts = result.artifacts
  BY <1>6 DEF Adds
<1>9. Grown(new, mid)
  <2>1. \A s \in Y : s.function \in IdsOf(mid.artifacts) /\ <<"topic", s.topic>> \in mid.topics
    BY <1>1, <1>3, <1>8, PublishedTargets
  <2>2. Fits(Y, "sites", mid)
    BY <2>1 DEF Fits
  <2>3. DOMAIN mid = DOMAIN Nothing /\ Consistent(mid)
    BY <1>7, Zenon DEF Grown
  <2> QED
    BY <1>4, <2>2, <2>3, StaysConsistent, Zenon
<1> HIDE DEF new
<1>10. Grown(new, result)
  BY <1>7, <1>9 DEF Grown
<1>11. "config" \in AfterShell /\ "config" \in AfterTests
  BY DEF AfterShell, AfterTests
<1>12. Inv(queue, "config", tree, artifacts, tests, new)
  BY <1>1, <1>10, <1>11, GrowthKeeps, Zenon DEF Holds
<1>13. /\ queue' = queue /\ tree' = tree /\ artifacts' = artifacts /\ tests' = tests /\ pc' = "config"
  BY DEF ResolveKafka, Then, work
<1> QED
  BY <1>5, <1>12, <1>13, Zenon DEF HoldsNext

(* The walk and the stages that work on the artifacts, before the shell    *)
(* stage publishes them.                                                   *)
LEMMA WalkStep ==
  ASSUME Holds, NEW order, Walk(order)
  PROVE  HoldsNext
<1> DEFINE X == {ServiceOf(tree', repo)} \cup FormsServices(tree', repo)
<1>1. tree' \in Seq(Facts)
  BY WalkedFacts, Zenon DEF Walk
<1>2. result' = [result EXCEPT !["services"] = @ \cup X]
  BY Zenon DEF Walk, Emit
<1>3. queue' = queue /\ pc' = "functions" /\ artifacts' = artifacts /\ tests' = tests
  BY DEF Walk, Then
<1>4. <<repo>> \in IdsOf(X)
  <2>1. ServiceOf(tree', repo).id = <<repo>> /\ ServiceOf(tree', repo) \in X
    BY DEF ServiceOf
  <2> HIDE DEF X
  <2> QED
    BY <2>1, Zenon DEF IdsOf
<1> HIDE DEF X
<1>5. DOMAIN result = DOMAIN Nothing /\ Consistent(result) /\ "services" \in DOMAIN Nothing
  BY DEF Holds, Inv, Nothing
<1>6. Fits(X, "services", result)
  BY DEF Fits
<1>7. Grown(result', result)
  BY <1>2, <1>5, <1>6, StaysConsistent, Zenon
<1>8. <<repo>> \in IdsOf(result'.services)
  <2>1. Adds(result', result, "services", X)
    BY <1>2, <1>5, EmittedFacts, Zenon
  <2>2. X \subseteq result'.services
    BY <2>1 DEF Adds
  <2> QED
    BY <1>4, <2>2, IdsGrow
<1>9. <<Last(Head(queue'))>> \in IdsOf(result'.services)
  BY <1>3, <1>8, Zenon DEF repo, root
<1>10. pc' \notin AfterShell /\ pc' \notin AfterTests
  BY <1>3 DEF AfterShell, AfterTests
<1>11. AreArtifacts(artifacts') /\ Closed(artifacts') /\ AreTests(tests')
  BY <1>3, Zenon DEF Holds, Inv
<1> QED
  BY <1>1, <1>7, <1>9, <1>10, <1>11, Zenon DEF HoldsNext, Inv, Grown

LEMMA ArtifactsKeep ==
  ASSUME Holds, AreArtifacts(artifacts'), Closed(artifacts'),
         pc \in Stages \ {"walk"}, pc' \in Stages \ AfterShell,
         UNCHANGED <<queue, tree, tests, result>>
  PROVE  HoldsNext
<1>1. <<Last(Head(queue'))>> \in IdsOf(result'.services)
  BY Zenon DEF Holds, Inv
<1>2. pc' \notin AfterShell /\ pc' \notin AfterTests
  BY DEF AfterShell
<1>3. /\ AreTests(tests') /\ tree' \in Seq(Facts)
      /\ DOMAIN result' = DOMAIN Nothing /\ Consistent(result')
  BY Zenon DEF Holds, Inv
<1> QED
  BY <1>1, <1>2, <1>3, Zenon DEF HoldsNext, Inv

LEMMA ArtifactSteps ==
  ASSUME Holds, DeclareFunctions \/ ResolveCalls \/ ResolveOracleCalls \/ ResolveDbAccess
  PROVE  HoldsNext
<1>1. AreArtifacts(artifacts) /\ Closed(artifacts) /\ tree \in Seq(Facts)
  BY Zenon DEF Holds, Inv
<1>2. AreArtifacts(artifacts') /\ Closed(artifacts')
  <2>1. CASE DeclareFunctions
    BY <1>1, <2>1, RebasedCloses, Zenon DEF DeclareFunctions
  <2>2. CASE ResolveCalls
    BY <1>1, <2>2, CalledCloses, Zenon DEF ResolveCalls
  <2>3. CASE ResolveOracleCalls
    BY <1>1, <2>3, OracleCloses, Zenon DEF ResolveOracleCalls
  <2>4. CASE ResolveDbAccess
    BY <1>1, <2>4, TablesClose, Zenon DEF ResolveDbAccess
  <2> QED
    BY <2>1, <2>2, <2>3, <2>4
<1>3. pc \in Stages \ {"walk"} /\ pc' \in Stages \ AfterShell
  BY DEF DeclareFunctions, ResolveCalls, ResolveOracleCalls, ResolveDbAccess, Then,
         Stages, AfterShell, AfterTests
<1>4. UNCHANGED <<queue, tree, tests, result>>
  BY DEF DeclareFunctions, ResolveCalls, ResolveOracleCalls, ResolveDbAccess, Then
<1> QED
  BY <1>2, <1>3, <1>4, ArtifactsKeep, Zenon

LEMMA ShellStep ==
  ASSUME Holds, ResolveShellInvokes
  PROVE  HoldsNext
<1>1. AreArtifacts(artifacts) /\ Closed(artifacts) /\ tree \in Seq(Facts)
  BY Zenon DEF Holds, Inv
<1>2. AreArtifacts(artifacts') /\ Closed(artifacts')
  BY <1>1, ShellCloses, Zenon DEF ResolveShellInvokes
<1> DEFINE X == ToSet(artifacts')
<1>3. result' = [result EXCEPT !["artifacts"] = @ \cup X]
  BY Zenon DEF ResolveShellInvokes, Emit
<1>4. /\ queue' = queue /\ pc' = "endpoints" /\ tree' = tree /\ tests' = tests
      /\ pc = "shell"
  BY DEF ResolveShellInvokes, Then
<1>5. DOMAIN result = DOMAIN Nothing /\ Consistent(result) /\ "artifacts" \in DOMAIN Nothing
  BY DEF Holds, Inv, Nothing
<1>6. Fits(X, "artifacts", result)
  <2>1. \A a \in X : Refers(a) \subseteq Ids(artifacts')
    BY <1>2 DEF Closed, ReferTo, ToSet
  <2>2. Ids(artifacts') = IdsOf(X)
    BY IdsOfList
  <2> HIDE DEF X
  <2>3. IdsOf(X) \subseteq IdsOf(result.artifacts \cup X)
    BY IdsGrow
  <2> QED
    BY <2>1, <2>2, <2>3 DEF Fits
<1> HIDE DEF X
<1>7. Grown(result', result)
  BY <1>3, <1>5, <1>6, StaysConsistent, Zenon
<1>8. X \subseteq result'.artifacts
  <2>1. Adds(result', result, "artifacts", X)
    BY <1>3, <1>5, EmittedFacts, Zenon
  <2> QED
    BY <2>1 DEF Adds
<1>9. <<Last(Head(queue'))>> \in IdsOf(result'.services)
  <2>1. <<Last(Head(queue))>> \in IdsOf(result.services)
    <3>1. pc \in Stages \ {"walk"}
      BY <1>4 DEF Stages
    <3> QED
      BY <3>1, Zenon DEF Holds, Inv
  <2>2. IdsOf(result.services) \subseteq IdsOf(result'.services)
    BY <1>7, IdsGrow, Zenon DEF Grown
  <2> QED
    BY <1>4, <2>1, <2>2
<1>10. pc' \notin AfterTests
  BY <1>4 DEF AfterTests
<1>11. AreTests(tests') /\ tree' \in Seq(Facts)
  BY <1>1, <1>4, Zenon DEF Holds, Inv
<1> QED
  BY <1>2, <1>7, <1>8, <1>9, <1>10, <1>11, Zenon DEF HoldsNext, Inv, Grown, X

LEMMA TestsStep ==
  ASSUME Holds, ResolveTests
  PROVE  HoldsNext
<1>1. tree \in Seq(Facts)
  BY Zenon DEF Holds, Inv
<1>2. AreTests(Tests(tree, repo, fws))
  BY <1>1, TestsFacts, Zenon
<1>3. tests' = [i \in DOMAIN Tests(tree, repo, fws) |-> RebaseTest(Tests(tree, repo, fws)[i], root)]
  BY Zenon DEF ResolveTests, MapSeq
<1>4. AreTests(tests')
  <2>1. PICK ts : ts = Tests(tree, repo, fws)
    OBVIOUS
  <2>2. AreTests(ts) /\ tests' = [i \in DOMAIN ts |-> RebaseTest(ts[i], root)]
    BY <1>2, <1>3, <2>1, Zenon
  <2>3. PICK us : us = tests'
    OBVIOUS
  <2>4. AreTests(us)
    BY <2>2, <2>3, RebasedTests
  <2> QED
    BY <2>3, <2>4
<1>5. /\ queue' = queue /\ tree' = tree /\ artifacts' = artifacts /\ result' = result
      /\ pc = "tests" /\ pc' = "coverage"
  BY DEF ResolveTests, Then
<1>6. pc' \notin AfterTests /\ pc \in AfterShell /\ pc \in Stages \ {"walk"}
  BY <1>5 DEF AfterTests, AfterShell, Stages
<1>7. /\ <<Last(Head(queue'))>> \in IdsOf(result'.services)
      /\ ToSet(artifacts') \subseteq result'.artifacts
  BY <1>5, <1>6, Zenon DEF Holds, Inv
<1>8. /\ AreArtifacts(artifacts') /\ Closed(artifacts') /\ tree' \in Seq(Facts)
      /\ DOMAIN result' = DOMAIN Nothing /\ Consistent(result')
  BY <1>5, Zenon DEF Holds, Inv
<1> QED
  BY <1>4, <1>6, <1>7, <1>8, Zenon DEF HoldsNext, Inv

LEMMA CoverageStep ==
  ASSUME Holds, ResolveCoverage
  PROVE  HoldsNext
<1> DEFINE X == ToSet(tests')
<1>1. /\ queue' = queue /\ tree' = tree /\ artifacts' = artifacts
      /\ pc = "coverage" /\ pc' = "mocks" /\ tests' = WithCoverage(tests, tree, root, artifacts)
      /\ result' = [result EXCEPT !["tests"] = @ \cup X]
  BY Zenon DEF ResolveCoverage, Then, Emit
<1>2. pc \in AfterShell /\ pc \in Stages \ {"walk"}
  BY <1>1 DEF AfterShell, Stages
<1>3. AreTests(tests)
  BY Zenon DEF Holds, Inv
<1>4. PICK us : us = tests'
  OBVIOUS
<1>5. AreTests(us) /\ \A i \in DOMAIN us : us[i].covers \subseteq Ids(artifacts)
  <2>1. us = WithCoverage(tests, tree, root, artifacts)
    BY <1>1, <1>4
  <2> QED
    BY <1>3, <2>1, CoverageFacts
<1>6. \A x \in X : x.covers \subseteq IdsOf(result.artifacts)
  <2>1. Ids(artifacts) \subseteq IdsOf(result.artifacts)
    BY <1>2, PublishedTargets, Zenon
  <2>2. \A x \in ToSet(us) : x.covers \subseteq IdsOf(result.artifacts)
    BY <1>5, <2>1 DEF ToSet
  <2> QED
    BY <1>4, <2>2
<1> HIDE DEF X
<1>7. DOMAIN result = DOMAIN Nothing /\ Consistent(result) /\ "tests" \in DOMAIN Nothing
  BY DEF Holds, Inv, Nothing
<1>8. Fits(X, "tests", result)
  BY <1>6 DEF Fits
<1>9. Grown(result', result)
  BY <1>1, <1>7, <1>8, StaysConsistent, Zenon
<1>10. X \subseteq result'.tests
  <2>1. Adds(result', result, "tests", X)
    BY <1>1, <1>7, EmittedFacts, Zenon
  <2> QED
    BY <2>1 DEF Adds
<1>11. <<Last(Head(queue'))>> \in IdsOf(result'.services)
  <2>1. <<Last(Head(queue))>> \in IdsOf(result.services)
    BY <1>2, Zenon DEF Holds, Inv
  <2>2. IdsOf(result.services) \subseteq IdsOf(result'.services)
    BY <1>9, IdsGrow, Zenon DEF Grown
  <2> QED
    BY <1>1, <2>1, <2>2
<1>12. ToSet(artifacts') \subseteq result'.artifacts
  <2>1. ToSet(artifacts) \subseteq result.artifacts
    BY <1>2, Zenon DEF Holds, Inv
  <2>2. result.artifacts \subseteq result'.artifacts
    BY <1>9, Zenon DEF Grown
  <2> QED
    BY <1>1, <2>1, <2>2
<1>13. /\ AreArtifacts(artifacts') /\ Closed(artifacts') /\ tree' \in Seq(Facts) /\ AreTests(tests')
  BY <1>1, <1>4, <1>5, Zenon DEF Holds, Inv
<1> QED
  BY <1>9, <1>10, <1>11, <1>12, <1>13, Zenon DEF HoldsNext, Inv, Grown, X

(* The last stage of a repository, and the ones outside of any.            *)
LEMMA ConfigStep ==
  ASSUME Holds, BindConfig
  PROVE  HoldsNext
<1> DEFINE X == ConfigConnections(tree, repo)
<1>1. /\ pc = "config" /\ result' = [result EXCEPT !["connections"] = @ \cup X]
      /\ tree' = <<>> /\ artifacts' = <<>> /\ tests' = <<>> /\ pc' \in {"done", "walk"}
  BY DEF BindConfig, Emit
<1>2. <<repo>> \in IdsOf(result.services)
  <2>1. pc \in Stages \ {"walk"}
    BY <1>1 DEF Stages
  <2> QED
    BY <2>1, Zenon DEF Holds, Inv, repo, root
<1>3. \A c \in X : c.source = <<repo>>
  BY DEF ConfigConnections
<1> HIDE DEF X
<1>4. DOMAIN result = DOMAIN Nothing /\ Consistent(result) /\ "connections" \in DOMAIN Nothing
  BY DEF Holds, Inv, Nothing
<1>5. Fits(X, "connections", result)
  BY <1>2, <1>3 DEF Fits
<1>6. Grown(result', result)
  BY <1>1, <1>4, <1>5, StaysConsistent, Zenon
<1>7. pc' \notin Stages \ {"walk"} /\ pc' \notin AfterShell /\ pc' \notin AfterTests
  BY <1>1 DEF Stages, AfterShell, AfterTests
<1>8. /\ AreArtifacts(artifacts') /\ Closed(artifacts') /\ AreTests(tests')
      /\ tree' \in Seq(Facts)
  BY <1>1, EmptyLists, Zenon
<1> QED
  BY <1>6, <1>7, <1>8, Zenon DEF HoldsNext, Inv, Grown

LEMMA RaiseStep ==
  ASSUME Raise
  PROVE  HoldsNext
<1>1. /\ tree' = <<>> /\ artifacts' = <<>> /\ tests' = <<>> /\ pc' = "failed" /\ result' = Nothing
  BY DEF Raise
<1>2. pc' \notin Stages \ {"walk"} /\ pc' \notin AfterShell /\ pc' \notin AfterTests
  BY <1>1 DEF Stages, AfterShell, AfterTests
<1> QED
  BY <1>1, <1>2, EmptyLists, NothingFacts, Zenon DEF HoldsNext, Inv

LEMMA DiscoverStep ==
  ASSUME Holds, NEW config, Discover(config)
  PROVE  HoldsNext
<1>1. /\ tree' = tree /\ artifacts' = artifacts /\ tests' = tests /\ result' = result
      /\ pc' \in {"done", "walk"}
  BY DEF Discover, work
<1>2. pc' \notin Stages \ {"walk"} /\ pc' \notin AfterShell /\ pc' \notin AfterTests
  BY <1>1 DEF Stages, AfterShell, AfterTests
<1> QED
  BY <1>1, <1>2, Zenon DEF Holds, HoldsNext, Inv

LEMMA NextKeepsPublished ==
  ASSUME PublishedInv, [Next]_vars
  PROVE  PublishedInv'
<1>1. Holds
  BY InvFacts, Zenon DEF Holds
<1>2. HoldsNext
  <2>1. ASSUME NEW c \in Configs, Discover(c) PROVE HoldsNext
    BY <1>1, <2>1, DiscoverStep, Zenon
  <2>2. ASSUME NEW order \in Orders(Walked(root)), Walk(order) PROVE HoldsNext
    BY <1>1, <2>2, WalkStep, Zenon
  <2>3. CASE DeclareFunctions \/ ResolveCalls \/ ResolveOracleCalls \/ ResolveDbAccess
    BY <1>1, <2>3, ArtifactSteps, Zenon
  <2>4. CASE ResolveShellInvokes \/ ResolveEndpoints \/ ResolveTests \/ ResolveCoverage
    BY <1>1, <2>4, ShellStep, EndpointsStep, TestsStep, CoverageStep, Zenon
  <2>5. CASE ResolveMocks \/ ResolveDataModels \/ ResolveQueries \/ ResolveKafka
    BY <1>1, <2>5, MocksStep, ModelsStep, QueriesStep, KafkaStep, Zenon
  <2>6. CASE BindConfig \/ Raise
    BY <1>1, <2>6, ConfigStep, RaiseStep, Zenon
  <2>7. CASE UNCHANGED vars
    BY <1>1, <2>7, Zenon DEF Holds, HoldsNext, vars, work
  <2> QED
    BY <2>1, <2>2, <2>3, <2>4, <2>5, <2>6, <2>7, Zenon DEF Next
<1> QED
  BY <1>2, InvFacts, Zenon DEF HoldsNext

(* Whatever an adapter works on and whatever it has published refers to    *)
(* nothing but what it works on and what it has published.                 *)
THEOREM PublishedInvariant == Spec => []PublishedInv
<1>1. Init => PublishedInv
  <2>1. ASSUME Init PROVE Inv(queue, pc, tree, artifacts, tests, result)
    <3>1. pc \notin Stages \ {"walk"} /\ pc \notin AfterShell /\ pc \notin AfterTests
      BY <2>1 DEF Init, Stages, AfterShell, AfterTests
    <3> QED
      BY <2>1, <3>1, EmptyLists, NothingFacts, Zenon DEF Init, Inv
  <2> QED
    BY <2>1, InvFacts, Zenon
<1>2. PublishedInv /\ [Next]_vars => PublishedInv'
  BY NextKeepsPublished
<1> QED
  BY <1>1, <1>2, PTL DEF Spec

(* The stages run over lists that other stages extend and rewrite, and yet *)
(* no record refers to an id that nothing bears.                           *)
THEOREM ReferencesHold == Spec => []NothingDangles
<1>1. PublishedInv => NothingDangles
  BY Zenon DEF PublishedInv
<1> QED
  BY <1>1, PublishedInvariant, PTL

-----------------------------------------------------------------------------
(* Lists of well-formed artifacts of which each has an id of its own.      *)
Apart(as) == \A i, j \in DOMAIN as : as[i].id = as[j].id => i = j
AllWellFormed(as) == \A i \in DOMAIN as : WellFormed(as[i])
Tidy(as) == IsList(as) /\ AllWellFormed(as) /\ Apart(as)

(* The same artifacts but for what they refer to.                          *)
AlikeAt(new, as, i) ==
    /\ DOMAIN new[i] = DOMAIN as[i] /\ new[i].id = as[i].id /\ new[i].type = as[i].type
    /\ new[i].name = as[i].name /\ new[i].file = as[i].file
Alike(new, as) == DOMAIN new = DOMAIN as /\ \A i \in DOMAIN as : AlikeAt(new, as, i)

LEMMA ExtendedAlike ==
  ASSUME NEW as, Tidy(as), NEW field \in {"calls", "reads", "writes"}, NEW edges,
         NEW new, new = Extended(as, field, edges)
  PROVE  IsList(new) /\ Alike(new, as)
<1> DEFINE Targeted(a) == {e[2] : e \in {d \in edges : d[1] = a.id}}
<1>1. new = [i \in DOMAIN as |-> [as[i] EXCEPT ![field] = @ \cup Targeted(as[i])]]
  BY Zenon DEF Extended, MapSeq
<1> HIDE DEF Targeted
<1>2. new = [i \in DOMAIN as |-> new[i]]
  BY <1>1
<1>3. IsList(new) /\ DOMAIN new = DOMAIN as
  BY <1>2, Mapped, Zenon DEF Tidy
<1>4. ASSUME NEW i \in DOMAIN as PROVE AlikeAt(new, as, i)
  <2>1. new[i] = [as[i] EXCEPT ![field] = as[i][field] \cup Targeted(as[i])]
    BY <1>1
  <2>2. {"id", "type", "name", "file"} \subseteq DOMAIN as[i]
    BY DEF Tidy, AllWellFormed, WellFormed
  <2> QED
    BY <2>1, <2>2 DEF AlikeAt
<1> QED
  BY <1>3, <1>4, Zenon DEF Alike

LEMMA AlikeKeeps ==
  ASSUME NEW as, Tidy(as), NEW new, IsList(new), Alike(new, as)
  PROVE  /\ Tidy(new) /\ Ids(new) = Ids(as)
         /\ \A kinds : OfKinds(as, kinds) => OfKinds(new, kinds)
         /\ RoutinesAreNamed(as) => RoutinesAreNamed(new)
<1>1. DOMAIN new = DOMAIN as /\ \A i \in DOMAIN as : AlikeAt(new, as, i)
  BY Zenon DEF Alike
<1>2. AllWellFormed(new)
  BY <1>1 DEF Tidy, AllWellFormed, WellFormed, AlikeAt
<1>3. Apart(new)
  BY <1>1 DEF Tidy, Apart, AlikeAt
<1>4. Ids(new) = Ids(as)
  BY <1>1 DEF Ids, AlikeAt
<1>5. \A kinds : OfKinds(as, kinds) => OfKinds(new, kinds)
  BY <1>1 DEF OfKinds, AlikeAt
<1>6. RoutinesAreNamed(as) => RoutinesAreNamed(new)
  BY <1>1 DEF RoutinesAreNamed, AlikeAt
<1> QED
  BY <1>2, <1>3, <1>4, <1>5, <1>6, Zenon DEF Tidy

(* What is appended bears other ids.                                       *)
LEMMA JoinedTidy ==
  ASSUME NEW as, Tidy(as), NEW bs, Tidy(bs), Ids(as) \cap Ids(bs) = {}
  PROVE  /\ Tidy(as \o bs)
         /\ \A kinds : OfKinds(as, kinds) /\ OfKinds(bs, kinds) => OfKinds(as \o bs, kinds)
<1> DEFINE cs == as \o bs
           m == Len(as)
           n == Len(bs)
<1>1. /\ IsList(cs) /\ DOMAIN cs = 1 .. m + n /\ m \in Nat /\ n \in Nat
      /\ DOMAIN as = 1 .. m /\ DOMAIN bs = 1 .. n
      /\ \A i \in DOMAIN as : cs[i] = as[i]
      /\ \A i \in DOMAIN bs : cs[m + i] = bs[i]
  <2>1. IsJoin(cs, as, bs)
    BY Joined, Zenon DEF Tidy
  <2> HIDE DEF cs
  <2> QED
    BY <2>1, Zenon DEF IsJoin
<1> HIDE DEF cs, m, n
<1>2. ASSUME NEW i \in DOMAIN cs
      PROVE  \/ i \in DOMAIN as /\ cs[i] = as[i]
             \/ \E j \in DOMAIN bs : i = m + j /\ cs[i] = bs[j]
  <2>1. i \in 1 .. m + n /\ m \in Nat /\ n \in Nat
    BY <1>1
  <2>2. i \in 1 .. m \/ \E j \in 1 .. n : i = m + j
    BY <2>1, SplitPlace, Zenon
  <2> QED
    BY <1>1, <2>2, Zenon
<1>3. AllWellFormed(cs)
  BY <1>2, Zenon DEF AllWellFormed, Tidy
<1>4. ASSUME NEW i \in DOMAIN cs, NEW j \in DOMAIN cs, cs[i].id = cs[j].id
      PROVE  i = j
  <2>1. \A k \in DOMAIN as : as[k].id \in Ids(as)
    BY DEF Ids
  <2>2. \A k \in DOMAIN bs : bs[k].id \in Ids(bs) /\ bs[k].id \notin Ids(as)
    BY DEF Ids
  <2>3. Apart(as) /\ Apart(bs)
    BY DEF Tidy
  <2>4. CASE i \in DOMAIN as /\ cs[i] = as[i]
    <3>1. cs[j].id \in Ids(as)
      BY <1>4, <2>1, <2>4, Zenon
    <3>2. j \in DOMAIN as /\ cs[j] = as[j]
      BY <1>2, <2>2, <3>1, Zenon
    <3> QED
      BY <1>4, <2>3, <2>4, <3>2, Zenon DEF Apart
  <2>5. ASSUME NEW k \in DOMAIN bs, i = m + k, cs[i] = bs[k] PROVE i = j
    <3>1. cs[j].id \notin Ids(as)
      BY <1>4, <2>2, <2>5, Zenon
    <3>2. PICK l \in DOMAIN bs : j = m + l /\ cs[j] = bs[l]
      BY <1>2, <2>1, <3>1, Zenon
    <3>3. k = l
      BY <1>4, <2>3, <2>5, <3>2, Zenon DEF Apart
    <3> QED
      BY <2>5, <3>2, <3>3, Zenon
  <2> QED
    BY <1>2, <2>4, <2>5, Zenon
<1>5. \A kinds : OfKinds(as, kinds) /\ OfKinds(bs, kinds) => OfKinds(cs, kinds)
  BY <1>2, Zenon DEF OfKinds
<1> QED
  BY <1>1, <1>3, <1>4, <1>5, Zenon DEF Tidy, Apart, cs

LEMMA AppendedApart ==
  ASSUME NEW as, IsList(as), Apart(as), NEW a, \A i \in DOMAIN as : as[i].id # a.id
  PROVE  Apart(Append(as, a))
<1>1. PICK new : new = Append(as, a)
  OBVIOUS
<1>2. /\ DOMAIN new = 1 .. Len(as) + 1 /\ Len(as) \in Nat /\ DOMAIN as = 1 .. Len(as)
      /\ \A i \in DOMAIN as : new[i] = as[i]
      /\ new[Len(as) + 1] = a
  BY <1>1, Appended
<1>3. ASSUME NEW i \in DOMAIN new
      PROVE  (i \in DOMAIN as /\ new[i] = as[i]) \/ (i = Len(as) + 1 /\ new[i] = a)
  <2>1. \A n \in Nat : \A k \in 1 .. n + 1 : k \in 1 .. n \/ k = n + 1
    OBVIOUS
  <2>2. i \in DOMAIN as \/ i = Len(as) + 1
    BY <1>2, <2>1, Zenon
  <2> QED
    BY <1>2, <2>2, Zenon
<1>4. ASSUME NEW i \in DOMAIN new, NEW j \in DOMAIN new, new[i].id = new[j].id
      PROVE  i = j
  <2>1. CASE i \in DOMAIN as /\ new[i] = as[i]
    <3>1. j \in DOMAIN as /\ new[j] = as[j]
      BY <1>3, <1>4, <2>1, Zenon
    <3> QED
      BY <1>4, <2>1, <3>1, Zenon DEF Apart
  <2>2. CASE i = Len(as) + 1 /\ new[i] = a
    BY <1>3, <1>4, <2>2, Zenon
  <2> QED
    BY <1>3, <2>1, <2>2, Zenon
<1> QED
  BY <1>1, <1>4, Zenon DEF Apart

LEMMA EnumeratedOnce ==
  ASSUME NEW S, IsFiniteSet(S)
  PROVE  IsInjective(SetToSeq(S))
<1> DEFINE C == Cardinality(S)
<1>1. C \in Nat /\ ExistsBijection(1 .. C, S)
  BY FS_CardinalityType
<1>2. PICK b \in Bijection(1 .. C, S) : TRUE
  BY <1>1, Zenon DEF ExistsBijection
<1>3. b \in [1 .. C -> S] /\ IsInjective(b)
  BY <1>2, Zenon DEF Bijection, Injection
<1> QED
  BY <1>3, Zenon DEF SetToSeq

(* Artifacts made of the elements of a set.                                *)
MadeOf(bs, F, S) == bs = [i \in DOMAIN SetToSeq(S) |-> F[SetToSeq(S)[i]]]
MakesArtifacts(F, S) ==
    /\ \A x \in S : WellFormed(F[x])
    /\ \A x, y \in S : F[x].id = F[y].id => x = y
StemFrom(bs, F, S) == \A i \in DOMAIN bs : \E x \in S : bs[i].id = F[x].id

LEMMA MadeTidy ==
  ASSUME NEW S, IsFiniteSet(S), NEW F, MakesArtifacts(F, S), NEW bs, MadeOf(bs, F, S)
  PROVE  Tidy(bs) /\ StemFrom(bs, F, S)
<1> DEFINE s == SetToSeq(S)
<1>1. IsList(s) /\ ToSet(s) = S /\ IsInjective(s)
  BY Enumerated, EnumeratedOnce
<1> HIDE DEF s
<1>2. bs = [i \in DOMAIN s |-> F[s[i]]]
  BY Zenon DEF s, MadeOf
<1>3. bs = [i \in DOMAIN s |-> bs[i]]
  BY <1>2
<1>4. IsList(bs) /\ DOMAIN bs = DOMAIN s
  BY ONLY <1>1, <1>3, Mapped, Zenon
<1>5. \A i \in DOMAIN s : s[i] \in S
  BY <1>1 DEF ToSet
<1>6. \A i \in DOMAIN s : bs[i] = F[s[i]]
  BY <1>2
<1>7. AllWellFormed(bs)
  BY <1>4, <1>5, <1>6, Zenon DEF AllWellFormed, MakesArtifacts
<1>8. Apart(bs)
  <2> SUFFICES ASSUME NEW i \in DOMAIN bs, NEW j \in DOMAIN bs, bs[i].id = bs[j].id
               PROVE  i = j
    BY Zenon DEF Apart
  <2>1. i \in DOMAIN s /\ j \in DOMAIN s
    BY <1>4, Zenon
  <2>2. F[s[i]].id = F[s[j]].id
    BY <1>6, <2>1, Zenon
  <2>3. s[i] = s[j]
    BY <1>5, <2>1, <2>2, Zenon DEF MakesArtifacts
  <2> QED
    BY <1>1, <2>1, <2>3, Zenon DEF IsInjective
<1>9. StemFrom(bs, F, S)
  BY <1>4, <1>5, <1>6, Zenon DEF StemFrom
<1> QED
  BY <1>4, <1>7, <1>8, <1>9, Zenon DEF Tidy

-----------------------------------------------------------------------------
(* FunctionCallResolver adds no artifact.                                  *)
LEMMA CalledTidy ==
  ASSUME NEW as, Tidy(as), NEW t, NEW dir
  PROVE  IsList(Called(as, t, dir)) /\ Alike(Called(as, t, dir), as)
<1> DEFINE edges == CallEdges(Context(t, dir, as))
           new == Extended(as, "calls", edges)
<1>1. Called(as, t, dir) = new
  BY Zenon DEF Called, WithCalls, Extended, MapSeq
<1> HIDE DEF edges
<1>2. IsList(new) /\ Alike(new, as)
  BY ExtendedAlike
<1> QED
  BY <1>1, <1>2, Zenon

(* resolve_oracle_calls: None is no artifact and no id.                    *)
NoneIsNothing == \A x : {"id", 1} \cap DOMAIN x # {} => x # None

(* What a statement calls: one or two names in lower case.                 *)
Settled(x) == x # None /\ Lower(x) = x
IsCallee(c) == \/ \E x : c = <<x>> /\ Settled(x)
               \/ \E x, y : c = <<x, y>> /\ Settled(x) /\ Settled(y)

LEMMA QualifiedIsCallee ==
  ASSUME NEW f \in Facts, f.kind = "sql", f.target # None
  PROVE  IsCallee(Qualified(f.target))
<1> DEFINE p == f.target
           n == Len(p)
           s == IF n > 2 THEN SubSeq(p, n - 1, n) ELSE p
<1>1. /\ IsList(p) /\ p # <<>>
      /\ \A x \in ToSet(p) : Lower(x) # None /\ Lower(Lower(x)) = Lower(x)
  <2>1. f \in {x \in Facts : x.kind = "sql"}
    OBVIOUS
  <2> QED
    BY <2>1, NamesOK, Zenon
<1>2. Qualified(p) = [i \in DOMAIN s |-> Lower(s[i])]
  BY Zenon DEF Qualified, MapSeq
<1> HIDE DEF p
<1>3. /\ n \in Nat /\ DOMAIN p = 1 .. n /\ n # 0
      /\ \A i \in 1 .. n : Settled(Lower(p[i]))
  <2>1. p \in Seq(ToSet(p))
    BY <1>1 DEF IsList
  <2>2. n \in Nat /\ DOMAIN p = 1 .. n /\ n # 0
    BY <1>1, <2>1
  <2>3. \A i \in 1 .. n : p[i] \in ToSet(p)
    BY <2>2 DEF ToSet
  <2> QED
    BY <1>1, <2>2, <2>3, Zenon DEF Settled
<1>4. \A u : DOMAIN u = {1, 2} => [i \in DOMAIN u |-> Lower(u[i])] = <<Lower(u[1]), Lower(u[2])>>
  OBVIOUS
<1>5. ASSUME n = 1 PROVE IsCallee(Qualified(p))
  <2>1. DOMAIN s = {1} /\ s[1] = p[1]
    BY <1>3, <1>5
  <2>2. Qualified(p) = <<Lower(p[1])>>
    BY <1>2, <2>1
  <2>3. Settled(Lower(p[1]))
    BY <1>3, <1>5
  <2> QED
    BY <2>2, <2>3, Zenon DEF IsCallee
<1>6. ASSUME n = 2 PROVE IsCallee(Qualified(p))
  <2>1. DOMAIN s = {1, 2} /\ s[1] = p[1] /\ s[2] = p[2]
    BY <1>3, <1>6
  <2> HIDE DEF s
  <2>2. Qualified(p) = <<Lower(p[1]), Lower(p[2])>>
    BY <1>2, <1>4, <2>1, Zenon
  <2>3. Settled(Lower(p[1])) /\ Settled(Lower(p[2]))
    BY <1>3, <1>6
  <2> QED
    BY <2>2, <2>3, Zenon DEF IsCallee
<1>7. ASSUME n > 2 PROVE IsCallee(Qualified(p))
  <2>1. p \in Seq(ToSet(p))
    BY <1>1 DEF IsList
  <2>2. DOMAIN s = {1, 2} /\ s[1] = p[n - 1] /\ s[2] = p[n]
    BY <1>3, <1>7, <2>1
  <2>3. Settled(Lower(p[n - 1])) /\ Settled(Lower(p[n]))
    BY <1>3, <1>7
  <2> HIDE DEF s, n
  <2>4. Qualified(p) = <<Lower(p[n - 1]), Lower(p[n])>>
    BY <1>2, <1>4, <2>2, Zenon
  <2> QED
    BY <2>3, <2>4, Zenon DEF IsCallee
<1>8. n = 1 \/ n = 2 \/ n > 2
  BY <1>3
<1>9. IsCallee(Qualified(p))
  BY <1>5, <1>6, <1>7, <1>8, Zenon
<1> QED
  BY <1>9, Zenon DEF p

(* A routine that bears the name is found.                                 *)
Answers(a, callee) ==
    /\ a.type \in Routines
    /\ callee # <<>> /\ Lower(a.name) = Last(callee)
    /\ Len(callee) = 2 => a.id[1] = "proc" /\ a.id[3] # None /\ a.id[3] = callee[1]

LEMMA RoutineIsFound ==
  ASSUME NoneIsNothing, NEW as, Tidy(as), NEW callee, NEW i \in DOMAIN as, Answers(as[i], callee)
  PROVE  Routine(as, callee) # None
<1> DEFINE I == {k \in 1 .. Len(as) : Answers(as[k], callee)}
<1>1. Routine(as, callee) = IdIn(LastAt(as, I))
  BY Zenon DEF Routine, LastWith, SelectLastInSeq, LastAt, Answers
<1>2. Len(as) \in Nat /\ DOMAIN as = 1 .. Len(as)
  BY ListFacts DEF Tidy
<1>3. I \subseteq 1 .. Len(as) /\ I # {}
  BY <1>2
<1> HIDE DEF I
<1>4. Max(I) \in DOMAIN as /\ Max(I) # 0
  <2>1. Max(I) \in I
    BY <1>2, <1>3, GreatestIn, Zenon
  <2>2. PICK k : k = Max(I)
    OBVIOUS
  <2>3. k \in 1 .. Len(as)
    BY <1>3, <2>1, <2>2, Zenon
  <2>4. k # 0
    BY <1>2, <2>3
  <2> QED
    BY <1>2, <2>2, <2>3, <2>4, Zenon
<1>5. LastAt(as, I) = as[Max(I)]
  BY <1>3, <1>4, Zenon DEF LastAt
<1>6. WellFormed(as[Max(I)])
  BY <1>4, Zenon DEF Tidy, AllWellFormed
<1> DEFINE a == as[Max(I)]
<1>7. a # None /\ a.id # None
  <2>1. {"id", 1} \cap DOMAIN a # {} /\ {"id", 1} \cap DOMAIN a.id # {}
    BY <1>6 DEF WellFormed
  <2> HIDE DEF a
  <2> QED
    BY <2>1, Zenon DEF NoneIsNothing
<1> HIDE DEF a
<1>8. IdIn(a) = a.id
  BY <1>7, Zenon DEF IdIn
<1> QED
  BY <1>1, <1>5, <1>7, <1>8, Zenon DEF a

(* No stub bears the id of an artifact, and each one its own.              *)
LEMMA StubsAreNew ==
  ASSUME NoneIsNothing, NEW as, Tidy(as), RoutinesAreNamed(as), NEW t \in Seq(Facts),
         NEW c \in Unknown(as, t)
  PROVE  IsCallee(c) /\ StubId(c) \notin Ids(as)
<1>1. PICK f \in Invocations(t) : Routine(as, Qualified(f.target)) = None /\ c = Qualified(f.target)
  BY Zenon DEF Unknown
<1>2. f \in Facts /\ f.kind = "sql" /\ f.target # None
  BY <1>1 DEF Invocations, OfKind
<1>3. IsCallee(c) /\ Routine(as, c) = None
  BY <1>1, <1>2, QualifiedIsCallee, Zenon
<1>4. ASSUME NEW i \in DOMAIN as, as[i].id = StubId(c)
      PROVE  Answers(as[i], c)
  <2>1. /\ StubId(c)[1] = "proc" /\ StubId(c)[4] = Last(c)
        /\ StubId(c)[3] = IF Len(c) = 2 THEN c[1] ELSE None
    BY DEF StubId
  <2>2. as[i].type \in Routines /\ as[i].name = Last(c)
    BY <1>4, <2>1 DEF RoutinesAreNamed
  <2>3. /\ c # <<>> /\ Lower(Last(c)) = Last(c)
        /\ Len(c) = 2 => c[1] # None
    <3>1. CASE \E x : c = <<x>> /\ Settled(x)
      BY <3>1 DEF Settled, Last
    <3>2. CASE \E x, y : c = <<x, y>> /\ Settled(x) /\ Settled(y)
      BY <3>2 DEF Settled, Last
    <3> QED
      BY <1>3, <3>1, <3>2, Zenon DEF IsCallee
  <2>4. Len(c) = 2 => as[i].id[1] = "proc" /\ as[i].id[3] # None /\ as[i].id[3] = c[1]
    BY <1>4, <2>1, <2>3
  <2> QED
    BY <2>2, <2>3, <2>4, Zenon DEF Answers
<1> QED
  BY <1>3, <1>4, RoutineIsFound, Zenon DEF Ids

LEMMA StubsDiffer ==
  ASSUME NEW c, IsCallee(c), NEW d, IsCallee(d), StubId(c) = StubId(d)
  PROVE  c = d
<1>1. /\ Last(c) = Last(d)
      /\ (IF Len(c) = 2 THEN c[1] ELSE None) = (IF Len(d) = 2 THEN d[1] ELSE None)
  BY DEF StubId
<1>2. ASSUME NEW e, IsCallee(e)
      PROVE  \/ e = <<Last(e)>> /\ Len(e) = 1
             \/ e = <<e[1], Last(e)>> /\ Len(e) = 2 /\ e[1] # None
  BY <1>2 DEF IsCallee, Settled, Last
<1>3. \/ c = <<Last(c)>> /\ Len(c) = 1
      \/ c = <<c[1], Last(c)>> /\ Len(c) = 2 /\ c[1] # None
  BY <1>2
<1>4. \/ d = <<Last(d)>> /\ Len(d) = 1
      \/ d = <<d[1], Last(d)>> /\ Len(d) = 2 /\ d[1] # None
  BY <1>2
<1> QED
  BY <1>1, <1>3, <1>4

LEMMA OracleTidy ==
  ASSUME NoneIsNothing, NEW as, Tidy(as), OfKinds(as, DeclaredKinds), RoutinesAreNamed(as),
         NEW t \in Seq(Facts)
  PROVE  Tidy(WithOracleCalls(as, t)) /\ OfKinds(WithOracleCalls(as, t), DeclaredKinds)
<1> DEFINE U == Unknown(as, t)
           stubs == MapSeq(SetToSeq(U), Stub)
           edges == OracleEdges(as, t)
           old == Extended(as, "calls", edges)
           F == [x \in U |-> Stub(x)]
<1>1. IsFiniteSet(U)
  BY UnknownIsFinite
<1>2. IsList(SetToSeq(U)) /\ ToSet(SetToSeq(U)) = U
  BY <1>1, Enumerated
<1>3. \A x \in U : F[x] = Stub(x)
  OBVIOUS
<1>4. stubs = [i \in DOMAIN SetToSeq(U) |-> F[SetToSeq(U)[i]]]
  BY <1>2, <1>3 DEF MapSeq, ToSet
<1>5. ASSUME NEW x PROVE WellFormed(Stub(x)) /\ Stub(x).id = StubId(x) /\ Stub(x).id[1] = "proc"
  BY DEF WellFormed, Stub, Artifact, StubId, Bodies
<1>6. \A x \in U : IsCallee(x) /\ StubId(x) \notin Ids(as)
  BY StubsAreNew
<1> HIDE DEF stubs, F, U
<1>7. Tidy(stubs) /\ StemFrom(stubs, F, U)
  <2>1. ASSUME NEW x \in U, NEW y \in U, F[x].id = F[y].id PROVE x = y
    <3>1. StubId(x) = StubId(y)
      BY <1>3, <1>5, <2>1
    <3> QED
      BY <1>6, StubsDiffer, <3>1, Zenon
  <2>2. MakesArtifacts(F, U)
    BY <1>3, <1>5, <2>1, Zenon DEF MakesArtifacts
  <2>3. MadeOf(stubs, F, U)
    BY <1>4, Zenon DEF MadeOf
  <2> QED
    BY <1>1, <2>2, <2>3, MadeTidy, Zenon
<1>8. ASSUME NEW i \in DOMAIN stubs PROVE stubs[i].id \notin Ids(as) /\ stubs[i].id[1] = "proc"
  <2>1. PICK x \in U : stubs[i].id = F[x].id
    BY <1>7, Zenon DEF StemFrom
  <2>2. stubs[i].id = StubId(x) /\ Stub(x).id = StubId(x)
    BY <1>3, <1>5, <2>1
  <2> QED
    BY <1>5, <1>6, <2>2, Zenon
<1> HIDE DEF edges
<1>9. Tidy(old) /\ Ids(old) = Ids(as) /\ OfKinds(old, DeclaredKinds)
  <2>1. IsList(old) /\ Alike(old, as)
    BY ExtendedAlike
  <2> HIDE DEF old
  <2> QED
    BY <2>1, AlikeKeeps, Zenon
<1> HIDE DEF old
<1>10. Ids(old) \cap Ids(stubs) = {}
  BY <1>8, <1>9 DEF Ids
<1>11. OfKinds(stubs, DeclaredKinds)
  BY <1>8 DEF OfKinds, DeclaredKinds
<1>12. WithOracleCalls(as, t) = old \o stubs
  BY Zenon DEF WithOracleCalls, old, stubs, edges, U
<1> QED
  BY <1>7, <1>9, <1>10, <1>11, <1>12, JoinedTidy, Zenon

(* resolve_db_access and resolve_shell_invokes add a kind of their own.    *)
LEMMA NewKind ==
  ASSUME NEW as, NEW bs, NEW kinds, OfKinds(as, kinds), NEW kind, kind \notin kinds,
         \A i \in DOMAIN bs : bs[i].id[1] = kind
  PROVE  /\ Ids(as) \cap Ids(bs) = {}
         /\ OfKinds(as, kinds \cup {kind}) /\ OfKinds(bs, kinds \cup {kind})
BY DEF Ids, OfKinds

LEMMA TablesTidy ==
  ASSUME NEW as, Tidy(as), OfKinds(as, DeclaredKinds), NEW t \in Seq(Facts), NEW r
  PROVE  /\ Tidy(WithTables(as, t, r))
         /\ OfKinds(WithTables(as, t, r), DeclaredKinds \cup {"table"})
<1> DEFINE U == Tables(as, t)
           tables == MapSeq(SetToSeq(U), LAMBDA x : Table(r, x))
           reads == AccessEdges(as, t, r, ReadOps)
           writes == AccessEdges(as, t, r, WriteOps)
           once == Extended(as, "reads", reads)
           twice == Extended(once, "writes", writes)
           F == [x \in U |-> Table(r, x)]
<1>1. IsFiniteSet(U)
  BY TablesAreFinite
<1>2. IsList(SetToSeq(U)) /\ ToSet(SetToSeq(U)) = U
  BY <1>1, Enumerated
<1>3. \A x \in U : F[x] = Table(r, x)
  OBVIOUS
<1>4. tables = [i \in DOMAIN SetToSeq(U) |-> F[SetToSeq(U)[i]]]
  BY <1>2, <1>3 DEF MapSeq, ToSet
<1>5. ASSUME NEW x
      PROVE  WellFormed(Table(r, x)) /\ Table(r, x).id = TableId(r, x) /\ Table(r, x).id[1] = "table"
  BY DEF WellFormed, Table, Artifact, TableId, Bodies
<1>6. ASSUME NEW x, NEW y, TableId(r, x) = TableId(r, y) PROVE x = y
  BY <1>6 DEF TableId
<1> HIDE DEF tables, F, U
<1>7. Tidy(tables) /\ StemFrom(tables, F, U)
  <2>1. ASSUME NEW x \in U, NEW y \in U, F[x].id = F[y].id PROVE x = y
    <3>1. TableId(r, x) = TableId(r, y)
      BY <1>3, <1>5, <2>1
    <3> QED
      BY <1>6, <3>1, Zenon
  <2>2. MakesArtifacts(F, U)
    BY <1>3, <1>5, <2>1, Zenon DEF MakesArtifacts
  <2>3. MadeOf(tables, F, U)
    BY <1>4, Zenon DEF MadeOf
  <2> QED
    BY <1>1, <2>2, <2>3, MadeTidy, Zenon
<1>8. \A i \in DOMAIN tables : tables[i].id[1] = "table"
  BY <1>3, <1>5, <1>7 DEF StemFrom
<1> HIDE DEF reads, writes
<1>9. Tidy(once) /\ OfKinds(once, DeclaredKinds)
  <2>1. IsList(once) /\ Alike(once, as)
    BY ExtendedAlike
  <2> HIDE DEF once
  <2> QED
    BY <2>1, AlikeKeeps, Zenon
<1> HIDE DEF once
<1>10. Tidy(twice) /\ OfKinds(twice, DeclaredKinds)
  <2>1. IsList(twice) /\ Alike(twice, once)
    BY <1>9, ExtendedAlike
  <2> HIDE DEF twice
  <2> QED
    BY <1>9, <2>1, AlikeKeeps, Zenon
<1> HIDE DEF twice
<1>11. "table" \notin DeclaredKinds
  BY DEF DeclaredKinds
<1>12. /\ Ids(twice) \cap Ids(tables) = {}
       /\ OfKinds(twice, DeclaredKinds \cup {"table"}) /\ OfKinds(tables, DeclaredKinds \cup {"table"})
  BY <1>8, <1>10, <1>11, NewKind, Zenon
<1>13. WithTables(as, t, r) = twice \o tables
  BY Zenon DEF WithTables, once, twice, tables, reads, writes, U
<1> QED
  BY <1>7, <1>10, <1>12, <1>13, JoinedTidy, Zenon

LEMMA ShellTidy ==
  ASSUME NEW as, Tidy(as), OfKinds(as, DeclaredKinds \cup {"table"}), NEW T, NEW t \in Seq(T), NEW r
  PROVE  Tidy(WithShellCalls(as, t, r))
<1> DEFINE U == NewScripts(t, r)
           files == Scripts(t)
           named == {ScriptId(r, f) : f \in files}
           Of(id) == CHOOSE f \in files : ScriptId(r, f) = id
           scripts == MapSeq(SetToSeq(U), LAMBDA f : Script(r, f))
           edges == ShellEdges(as, t, r)
           all == as \o scripts
           new == Extended(all, "calls", edges)
           F == [x \in U |-> Script(r, x)]
<1>1. IsFiniteSet(U)
  BY ScriptsAreFinite
<1>2. IsList(SetToSeq(U)) /\ ToSet(SetToSeq(U)) = U
  BY <1>1, Enumerated
<1>3. \A x \in U : F[x] = Script(r, x)
  OBVIOUS
<1>4. scripts = [i \in DOMAIN SetToSeq(U) |-> F[SetToSeq(U)[i]]]
  BY <1>2, <1>3 DEF MapSeq, ToSet
<1>5. ASSUME NEW x
      PROVE  WellFormed(Script(r, x)) /\ Script(r, x).id = ScriptId(r, x) /\ Script(r, x).id[1] = "script"
  BY DEF WellFormed, Script, Artifact, ScriptId, Bodies
<1>6. ASSUME NEW x \in U, NEW y \in U, ScriptId(r, x) = ScriptId(r, y) PROVE x = y
  <2>1. U = {Of(id) : id \in named}
    BY Zenon DEF NewScripts
  <2>2. \A id \in named : ScriptId(r, Of(id)) = id
    BY Zenon
  <2> HIDE DEF U, Of, named
  <2> QED
    BY <1>6, <2>1, <2>2
<1> HIDE DEF scripts, F, U
<1>7. Tidy(scripts) /\ StemFrom(scripts, F, U)
  <2>1. ASSUME NEW x \in U, NEW y \in U, F[x].id = F[y].id PROVE x = y
    <3>1. ScriptId(r, x) = ScriptId(r, y)
      BY <1>3, <1>5, <2>1
    <3> QED
      BY <1>6, <3>1, Zenon
  <2>2. MakesArtifacts(F, U)
    BY <1>3, <1>5, <2>1, Zenon DEF MakesArtifacts
  <2>3. MadeOf(scripts, F, U)
    BY <1>4, Zenon DEF MadeOf
  <2> QED
    BY <1>1, <2>2, <2>3, MadeTidy, Zenon
<1>8. \A i \in DOMAIN scripts : scripts[i].id[1] = "script"
  BY <1>3, <1>5, <1>7 DEF StemFrom
<1>9. "script" \notin DeclaredKinds \cup {"table"}
  BY DEF DeclaredKinds
<1>10. Ids(as) \cap Ids(scripts) = {}
  BY <1>8, <1>9, NewKind, Zenon
<1>11. Tidy(all)
  BY <1>7, <1>10, JoinedTidy, Zenon
<1> HIDE DEF edges, all
<1>12. Tidy(new)
  <2>1. IsList(new) /\ Alike(new, all)
    BY <1>11, ExtendedAlike
  <2> HIDE DEF new
  <2> QED
    BY <1>11, <2>1, AlikeKeeps, Zenon
<1>13. WithShellCalls(as, t, r) = new
  BY Zenon DEF WithShellCalls, scripts, edges, all, U
<1> QED
  BY <1>12, <1>13, Zenon

-----------------------------------------------------------------------------
(* What a fact declares.                                                   *)
LEMMA DeclaredShape ==
  ASSUME NEW fact, NEW r, DeclaredId(fact, r) # None, NEW a, a = ArtifactOf(fact, r)
  PROVE  /\ a.id = DeclaredId(fact, r) /\ a.file = fact.file
         /\ WellFormed(a) /\ a.id[1] \in DeclaredKinds
         /\ a.id[1] = "proc" => a.type \in Routines /\ a.id[4] = a.name
         /\ \/ \E p : a.id = <<"proc", r, p, fact.name>>
            \/ a.id \in {<<"class", r, a.file, a.name>>, <<"fn", r, a.file, a.name>>}
            \/ \E c : a.id = <<"method", r, a.file, c, a.name>>
<1> DEFINE id == DeclaredId(fact, r)
<1>1. \/ fact.kind = "class" /\ id = <<"class", r, fact.file, fact.name>>
      \/ /\ fact.kind = "symbol" /\ Procedural(fact) /\ id = <<"proc", r, fact.pkg, fact.name>>
      \/ /\ fact.kind = "symbol" /\ fact.sym = "function" /\ id = <<"fn", r, fact.file, fact.name>>
      \/ /\ fact.kind = "symbol" /\ fact.sym = "method"
         /\ id = <<"method", r, fact.file, fact.class, fact.name>>
  BY DEF DeclaredId
<1>2. /\ a.id = id /\ a.file = fact.file /\ a.name = fact.name
      /\ a.type = (IF fact.kind = "class" THEN "class" ELSE fact.sym)
      /\ DOMAIN a = {"id", "type", "name", "file", "first", "last", "calls", "reads", "writes"}
  BY DEF ArtifactOf, Artifact
<1> HIDE DEF id
<1>3. CASE fact.kind = "class" /\ id = <<"class", r, fact.file, fact.name>>
  BY <1>2, <1>3 DEF WellFormed, DeclaredKinds, id
<1>4. CASE fact.kind = "symbol" /\ Procedural(fact) /\ id = <<"proc", r, fact.pkg, fact.name>>
  <2>1. a.type \in Routines
    BY <1>2, <1>4 DEF Procedural, Routines
  <2> QED
    BY <1>2, <1>4, <2>1 DEF WellFormed, DeclaredKinds, Routines, Bodies, id
<1>5. CASE fact.kind = "symbol" /\ fact.sym = "function" /\ id = <<"fn", r, fact.file, fact.name>>
  BY <1>2, <1>5 DEF WellFormed, DeclaredKinds, Bodies, id
<1>6. CASE /\ fact.kind = "symbol" /\ fact.sym = "method"
           /\ id = <<"method", r, fact.file, fact.class, fact.name>>
  BY <1>2, <1>6 DEF WellFormed, DeclaredKinds, Bodies, id
<1> QED
  BY <1>1, <1>3, <1>4, <1>5, <1>6, Zenon

(* Two files under a directory do not have one relative path.              *)
IsFileUnder(f, dir) == f = [path |-> f.path, ext |-> f.ext] /\ IsList(f.path) /\ IsPrefix(dir, f.path)

LEMMA RestOfPath ==
  ASSUME NEW T, NEW p \in Seq(T), NEW q \in Seq(T), NEW d \in Seq(T), IsPrefix(d, p), IsPrefix(d, q),
         SubSeq(p, Len(d) + 1, Len(p)) = SubSeq(q, Len(d) + 1, Len(q))
  PROVE  p = q
<1> DEFINE n == Len(d)
<1>1. n \in Nat /\ Len(p) \in Nat /\ Len(q) \in Nat /\ n <= Len(p) /\ n <= Len(q)
  BY DEF IsPrefix
<1>2. \A i \in 1 .. n : p[i] = d[i] /\ q[i] = d[i]
  <2>1. SubSeq(d, 1, n) = SubSeq(p, 1, n) /\ SubSeq(d, 1, n) = SubSeq(q, 1, n)
    BY DEF IsPrefix
  <2>2. \A i \in 1 .. n : /\ SubSeq(d, 1, n)[i] = d[i] /\ SubSeq(p, 1, n)[i] = p[i]
                          /\ SubSeq(q, 1, n)[i] = q[i]
    BY <1>1
  <2> QED
    BY <2>1, <2>2, Zenon
<1> DEFINE u == SubSeq(p, n + 1, Len(p))
           v == SubSeq(q, n + 1, Len(q))
<1>3. Len(u) = Len(p) - n /\ Len(v) = Len(q) - n
  BY <1>1
<1>4. Len(p) = Len(q)
  <2>1. u = v
    OBVIOUS
  <2> HIDE DEF u, v, n
  <2> QED
    BY <1>1, <1>3, <2>1
<1>5. ASSUME NEW i \in 1 .. Len(p) PROVE p[i] = q[i]
  <2>1. CASE i \in 1 .. n
    BY <1>2, <2>1
  <2>2. CASE i \notin 1 .. n
    <3>1. i - n \in 1 .. Len(p) - n
      BY <1>1, <2>2
    <3>2. u[i - n] = p[i] /\ v[i - n] = q[i]
      BY <1>1, <1>4, <3>1
    <3> QED
      BY <3>2
  <2> QED
    BY <2>1, <2>2
<1> QED
  BY <1>4, <1>5

LEMMA RelativeOnce ==
  ASSUME NEW dir, IsList(dir), NEW f, IsFileUnder(f, dir), NEW g, IsFileUnder(g, dir),
         MakeRelative(f, dir) = MakeRelative(g, dir)
  PROVE  f = g
<1> DEFINE T == ToSet(dir) \cup ToSet(f.path) \cup ToSet(g.path)
<1>1. dir \in Seq(T) /\ f.path \in Seq(T) /\ g.path \in Seq(T)
  <2>1. \A U, V, u : u \in Seq(U) /\ U \subseteq V => u \in Seq(V)
    OBVIOUS
  <2> QED
    BY <2>1, Zenon DEF IsList, IsFileUnder
<1> HIDE DEF T
<1>2. /\ MakeRelative(f, dir) = [f EXCEPT !.path = SubSeq(f.path, Len(dir) + 1, Len(f.path))]
      /\ MakeRelative(g, dir) = [g EXCEPT !.path = SubSeq(g.path, Len(dir) + 1, Len(g.path))]
  BY DEF MakeRelative, From, IsFileUnder
<1>3. PICK x, y : x = SubSeq(f.path, Len(dir) + 1, Len(f.path)) /\ y = SubSeq(g.path, Len(dir) + 1, Len(g.path))
  OBVIOUS
<1>4. [f EXCEPT !.path = x].path = x /\ [g EXCEPT !.path = y].path = y
  BY DEF IsFileUnder
<1>5. [f EXCEPT !.path = x].ext = f.ext /\ [g EXCEPT !.path = y].ext = g.ext
  BY DEF IsFileUnder
<1>6. x = y /\ f.ext = g.ext
  <2>1. [f EXCEPT !.path = x] = [g EXCEPT !.path = y]
    BY <1>2, <1>3, Zenon
  <2> QED
    BY <1>4, <1>5, <2>1, Zenon
<1>7. f.path = g.path
  BY <1>1, <1>3, <1>6, RestOfPath DEF IsFileUnder
<1> QED
  BY <1>6, <1>7 DEF IsFileUnder

(* An id is rewritten with the file that it names.                         *)
RebasedId(a, dir) ==
    IF a.id[1] = "proc" THEN a.id ELSE [a.id EXCEPT ![3] = MakeRelative(a.file, dir)]

LEMMA RebaseShape ==
  ASSUME NEW fact, NEW r, DeclaredId(fact, r) # None, NEW a, a = ArtifactOf(fact, r), NEW dir,
         NEW b, b = Rebase(a, dir)
  PROVE  /\ b.id = RebasedId(a, dir) /\ WellFormed(b) /\ b.id[1] \in DeclaredKinds
         /\ b.id[1] = "proc" => b.type \in Routines /\ b.id[4] = b.name
<1>1. /\ WellFormed(a) /\ a.id[1] \in DeclaredKinds
      /\ a.id[1] = "proc" => a.type \in Routines /\ a.id[4] = a.name
      /\ \/ \E p : a.id = <<"proc", r, p, fact.name>>
         \/ a.id \in {<<"class", r, a.file, a.name>>, <<"fn", r, a.file, a.name>>}
         \/ \E c : a.id = <<"method", r, a.file, c, a.name>>
  BY DeclaredShape
<1>2. PICK rel : rel = MakeRelative(a.file, dir)
  OBVIOUS
<1>3. CASE rel = a.file
  <2>1. b = a
    BY <1>2, <1>3, Zenon DEF Rebase
  <2>2. RebasedId(a, dir) = a.id
    BY <1>1, <1>2, <1>3 DEF RebasedId
  <2> QED
    BY <1>1, <2>1, <2>2
<1>4. CASE rel # a.file
  <2>1. PICK id : id = RebasedId(a, dir)
    OBVIOUS
  <2>2. b = [a EXCEPT !.file = rel, !.id = id]
    BY <1>2, <1>4, <2>1 DEF Rebase, RebasedId
  <2>3. b.id = id /\ b.file = rel /\ b.type = a.type /\ b.name = a.name /\ DOMAIN b = DOMAIN a
    BY <1>1, <2>2 DEF WellFormed
  <2>4. id[1] = a.id[1] /\ 1 \in DOMAIN id
    BY <1>1, <2>1 DEF RebasedId, WellFormed
  <2>5. a.id[1] # "proc" => id[3] = rel
    BY <1>1, <1>2, <2>1 DEF RebasedId
  <2>6. a.id[1] = "proc" => id = a.id
    BY <2>1 DEF RebasedId
  <2>7. WellFormed(b)
    BY <1>1, <2>3, <2>4, <2>5 DEF WellFormed
  <2> QED
    BY <1>1, <2>1, <2>3, <2>4, <2>6, <2>7
<1> QED
  BY <1>3, <1>4

LEMMA RebasedOnce ==
  ASSUME NEW dir, IsList(dir), NEW r,
         NEW f, DeclaredId(f, r) # None, IsFileUnder(f.file, dir), NEW a, a = ArtifactOf(f, r),
         NEW g, DeclaredId(g, r) # None, IsFileUnder(g.file, dir), NEW b, b = ArtifactOf(g, r),
         RebasedId(a, dir) = RebasedId(b, dir)
  PROVE  a.id = b.id
<1>1. /\ a.file = f.file
      /\ \/ \E p : a.id = <<"proc", r, p, f.name>>
         \/ a.id \in {<<"class", r, a.file, a.name>>, <<"fn", r, a.file, a.name>>}
         \/ \E c : a.id = <<"method", r, a.file, c, a.name>>
  BY DeclaredShape
<1>2. /\ b.file = g.file
      /\ \/ \E p : b.id = <<"proc", r, p, g.name>>
         \/ b.id \in {<<"class", r, b.file, b.name>>, <<"fn", r, b.file, b.name>>}
         \/ \E c : b.id = <<"method", r, b.file, c, b.name>>
  BY DeclaredShape
<1>3. PICK x, y : x = MakeRelative(a.file, dir) /\ y = MakeRelative(b.file, dir)
  OBVIOUS
<1>4. x = y => a.file = b.file
  BY <1>1, <1>2, <1>3, RelativeOnce
<1>5. \/ a.id[1] = "proc" /\ RebasedId(a, dir) = a.id
      \/ a.id = <<"class", r, a.file, a.name>> /\ RebasedId(a, dir) = <<"class", r, x, a.name>>
      \/ a.id = <<"fn", r, a.file, a.name>> /\ RebasedId(a, dir) = <<"fn", r, x, a.name>>
      \/ \E c : /\ a.id = <<"method", r, a.file, c, a.name>>
                /\ RebasedId(a, dir) = <<"method", r, x, c, a.name>>
  BY <1>1, <1>3 DEF RebasedId
<1>6. \/ b.id[1] = "proc" /\ RebasedId(b, dir) = b.id
      \/ b.id = <<"class", r, b.file, b.name>> /\ RebasedId(b, dir) = <<"class", r, y, b.name>>
      \/ b.id = <<"fn", r, b.file, b.name>> /\ RebasedId(b, dir) = <<"fn", r, y, b.name>>
      \/ \E c : /\ b.id = <<"method", r, b.file, c, b.name>>
                /\ RebasedId(b, dir) = <<"method", r, y, c, b.name>>
  BY <1>2, <1>3 DEF RebasedId
<1>7. RebasedId(a, dir)[1] = a.id[1] /\ RebasedId(b, dir)[1] = b.id[1]
  BY <1>5, <1>6
<1> QED
  BY <1>4, <1>5, <1>6, <1>7

LEMMA RebasedTidy ==
  ASSUME NEW dir, IsList(dir), NEW t \in Seq(FactsUnder(dir))
  PROVE  /\ Tidy(Rebased(t, dir)) /\ OfKinds(Rebased(t, dir), DeclaredKinds)
         /\ RoutinesAreNamed(Rebased(t, dir))
<1> DEFINE r == Last(dir)
           T == FactsUnder(dir)
           Stems(a, f) == f \in T /\ DeclaredId(f, r) # None /\ a = ArtifactOf(f, r)
           W == {ArtifactOf(f, r) : f \in {g \in T : DeclaredId(g, r) # None}}
           V == {s \in Seq(W) : Apart(s)}
           as == FunctionArtifacts(t, r)
           bs == Rebased(t, dir)
<1>1. \A f \in T : IsFileUnder(f.file, dir)
  <2> SUFFICES ASSUME NEW f \in T PROVE IsFileUnder(f.file, dir)
    OBVIOUS
  <2>1. PICK file \in Walked(dir) : f \in ToSet(Content[file])
    BY Zenon DEF FactsUnder
  <2>2. file \in DOMAIN Content /\ IsPrefix(dir, file.path)
    BY <2>1 DEF Walked
  <2> QED
    BY <2>1, <2>2, PathsOK, Zenon DEF IsFileUnder
<1>2. \A a \in W : \E f : Stems(a, f)
  OBVIOUS
<1>3. \A f \in T : DeclaredId(f, r) # None => ArtifactOf(f, r) \in W
  OBVIOUS
<1> HIDE DEF T, W, r
<1>4. <<>> \in V
  BY DEF Apart
<1>5. ASSUME NEW found \in V, NEW f \in T PROVE DeclareNext(found, f, r) \in V
  <2>1. CASE DeclareNext(found, f, r) = found
    BY <2>1
  <2>2. CASE DeclareNext(found, f, r) # found
    <3> DEFINE a == ArtifactOf(f, r)
               new == Append(found, a)
    <3>1. /\ DeclareNext(found, f, r) = new /\ DeclaredId(f, r) # None
          /\ \A i \in DOMAIN found : found[i].id # DeclaredId(f, r)
      BY <2>2 DEF DeclareNext, Known
    <3>2. a \in W /\ a.id = DeclaredId(f, r)
      BY <1>3, <3>1, DeclaredShape
    <3> HIDE DEF a
    <3>3. new \in Seq(W)
      BY <3>2
    <3>4. IsList(found)
      BY ListIfSeq, Zenon
    <3>5. Apart(new)
      <4>1. Apart(found)
        OBVIOUS
      <4>2. \A i \in DOMAIN found : found[i].id # a.id
        BY <3>1, <3>2
      <4> QED
        BY <3>4, <4>1, <4>2, AppendedApart, Zenon
    <3> QED
      BY <3>1, <3>3, <3>5
  <2> QED
    BY <2>1, <2>2
<1>6. as \in V
  <2> HIDE DEF V
  <2> QED
    BY <1>4, <1>5, DeclaredIn, Zenon DEF T
<1> HIDE DEF as
<1>7. IsList(as) /\ Apart(as) /\ \A i \in DOMAIN as : \E f : Stems(as[i], f)
  <2>1. as \in Seq(W) /\ Apart(as)
    BY <1>6
  <2>2. IsList(as) /\ ToSet(as) \subseteq W
    BY <2>1, ListIfSeq, Zenon
  <2>3. \A i \in DOMAIN as : as[i] \in W
    BY <2>2 DEF ToSet
  <2> QED
    BY <1>2, <2>1, <2>2, <2>3, Zenon
<1> HIDE DEF V
<1>8. bs = [i \in DOMAIN as |-> Rebase(as[i], dir)]
  BY Zenon DEF Rebased, MapSeq, as, r
<1> HIDE DEF bs
<1>9. bs = [i \in DOMAIN as |-> bs[i]] /\ \A i \in DOMAIN as : bs[i] = Rebase(as[i], dir)
  BY <1>8
<1>10. IsList(bs) /\ DOMAIN bs = DOMAIN as
  BY ONLY <1>7, <1>9, Mapped, Zenon
<1>11. ASSUME NEW i \in DOMAIN as
       PROVE  /\ bs[i].id = RebasedId(as[i], dir) /\ WellFormed(bs[i]) /\ bs[i].id[1] \in DeclaredKinds
              /\ bs[i].id[1] = "proc" => bs[i].type \in Routines /\ bs[i].id[4] = bs[i].name
  <2>1. PICK f : Stems(as[i], f)
    BY <1>7
  <2>2. bs[i] = Rebase(as[i], dir)
    BY <1>9
  <2> QED
    BY <2>1, <2>2, RebaseShape
<1>12. Apart(bs)
  <2> SUFFICES ASSUME NEW i \in DOMAIN as, NEW j \in DOMAIN as, bs[i].id = bs[j].id
               PROVE  i = j
    BY <1>10, Zenon DEF Apart
  <2>1. PICK f : Stems(as[i], f)
    BY <1>7
  <2>2. PICK g : Stems(as[j], g)
    BY <1>7
  <2>3. RebasedId(as[i], dir) = RebasedId(as[j], dir)
    BY <1>11
  <2>4. as[i].id = as[j].id
    BY <1>1, <2>1, <2>2, <2>3, RebasedOnce
  <2> QED
    BY <1>7, <2>4, Zenon DEF Apart
<1>13. Tidy(bs)
  BY <1>10, <1>11, <1>12, Zenon DEF Tidy, AllWellFormed
<1>14. OfKinds(bs, DeclaredKinds) /\ RoutinesAreNamed(bs)
  BY <1>10, <1>11, Zenon DEF OfKinds, RoutinesAreNamed
<1> QED
  BY <1>13, <1>14 DEF bs

-----------------------------------------------------------------------------
(* The strengthening of some values of the variables.                      *)
Unique(q, p, t, as) ==
    /\ p \in Stages \cup {"discover", "done", "failed"}
    /\ (q # <<>>) <=> p \in Stages
    /\ q \in Seq(Repositories)
    /\ AllWellFormed(as) /\ Apart(as)
    /\ p = "functions" => t \in Seq(FactsUnder(Head(q)))
    /\ p \in {"calls", "oracle"} => OfKinds(as, DeclaredKinds) /\ RoutinesAreNamed(as)
    /\ p = "tables" => OfKinds(as, DeclaredKinds)
    /\ p = "shell" => OfKinds(as, DeclaredKinds \cup {"table"})

LEMMA UniqueFacts ==
  /\ UniqueInv <=> DOMAIN result = DOMAIN Nothing /\ Unique(queue, pc, tree, artifacts)
  /\ UniqueInv' <=> DOMAIN result' = DOMAIN Nothing /\ Unique(queue', pc', tree', artifacts')
<1>1. ASSUME NEW as, AllWellFormed(as)
      PROVE  Apart(as) <=> \A i \in DOMAIN as :
                LET a == as[i]
                IN  /\ a.type \in Bodies \cup {"class", "table", "script"}
                    /\ a.id[1] \in {"fn", "class", "method"} => a.id[3] = a.file
                    /\ \A j \in DOMAIN as : as[j].id = a.id => i = j
  BY <1>1, Zenon DEF AllWellFormed, WellFormed, Apart
<1>2. UniqueInv <=> DOMAIN result = DOMAIN Nothing /\ Unique(queue, pc, tree, artifacts)
  <2>1. CASE AllWellFormed(artifacts)
    BY <1>1, <2>1, Zenon DEF UniqueInv, TypeOK, Unique, AllWellFormed, root
  <2>2. CASE ~AllWellFormed(artifacts)
    BY <2>2, Zenon DEF UniqueInv, Unique, AllWellFormed
  <2> QED
    BY <2>1, <2>2
<1>3. UniqueInv' <=> DOMAIN result' = DOMAIN Nothing /\ Unique(queue', pc', tree', artifacts')
  <2>1. CASE AllWellFormed(artifacts')
    BY <1>1, <2>1, Zenon DEF UniqueInv, TypeOK, Unique, AllWellFormed, root
  <2>2. CASE ~AllWellFormed(artifacts')
    BY <2>2, Zenon DEF UniqueInv, Unique, AllWellFormed
  <2> QED
    BY <2>1, <2>2
<1> QED
  BY <1>2, <1>3

LEMMA RootIsList ==
  ASSUME NEW dir \in Repositories
  PROVE  IsList(dir)
<1>1. IsList(Root)
  BY PathsOK
<1>2. \A d : IsList(Append(Root, d))
  BY <1>1, Appended, Zenon
<1> QED
  BY <1>1, <1>2 DEF Repositories

LEMMA DiscoveredFacts ==
  ASSUME NEW config
  PROVE  Discovered(config) \in Seq(Repositories)
<1> DEFINE passes(name) == config.filter = {} \/ name \in config.filter
           Chosen(d) == IF d \notin ExcludedDirs /\ passes(d) THEN <<Append(Root, d)>> ELSE <<>>
           ss == [i \in DOMAIN Subdirs |-> Chosen(Subdirs[i])]
           found == FlattenSeq(ss)
           V == Seq(Repositories)
<1>1. \A d \in ToSet(Subdirs) : Chosen(d) \in V
  <2>1. \A d \in ToSet(Subdirs) : Append(Root, d) \in Repositories
    BY DEF Repositories
  <2> QED
    BY <2>1
<1>2. <<Root>> \in V /\ <<>> \in V
  BY DEF Repositories
<1> HIDE DEF Chosen
<1>3. found \in V
  <2>1. Len(Subdirs) \in Nat /\ DOMAIN Subdirs = 1 .. Len(Subdirs)
    BY PathsOK, ListFacts
  <2>2. \A i \in DOMAIN Subdirs : ss[i] \in V
    <3>1. \A i \in DOMAIN Subdirs : Subdirs[i] \in ToSet(Subdirs)
      BY DEF ToSet
    <3> HIDE DEF V
    <3> QED
      BY <1>1, <3>1
  <2>3. ss \in Seq(V)
    <3> HIDE DEF V
    <3> QED
      BY <2>1, <2>2
  <2> HIDE DEF ss
  <2> QED
    BY <2>3, Flattened, Zenon
<1>4. Discovered(config) \in {<<Root>>, <<>>, found}
  BY Zenon DEF Discovered, MapSeq, Chosen
<1> HIDE DEF V, found
<1>5. Discovered(config) \in V
  BY <1>2, <1>3, <1>4
<1> QED
  BY <1>5 DEF V

(* Every step keeps the strengthening.                                     *)
UniqueNow == Unique(queue, pc, tree, artifacts)
UniqueNext == Unique(queue', pc', tree', artifacts')

BeforeShell == {"functions", "calls", "oracle", "tables", "shell"}

(* The stages that leave the artifacts alone.                              *)
LEMMA QuietSteps ==
  ASSUME UniqueNow, UNCHANGED <<queue, artifacts>>, pc \in Stages, pc' \in Stages \ BeforeShell
  PROVE  UniqueNext
<1>1. pc' \notin {"functions", "calls", "oracle", "tables", "shell"}
  BY DEF BeforeShell
<1> QED
  BY <1>1, Zenon DEF UniqueNow, UniqueNext, Unique, Stages

LEMMA DiscoverUnique ==
  ASSUME UniqueNow, NEW config, Discover(config)
  PROVE  UniqueNext
<1>1. /\ queue' \in Seq(Repositories) /\ artifacts' = artifacts
      /\ pc' = IF queue' = <<>> THEN "done" ELSE "walk"
  BY DiscoveredFacts, Zenon DEF Discover, work
<1>2. pc' \in {"done", "walk"} /\ ((queue' # <<>>) <=> pc' \in Stages)
  BY <1>1 DEF Stages
<1>3. pc' \notin {"functions", "calls", "oracle", "tables", "shell"}
  BY <1>2
<1>4. pc' \in Stages \cup {"discover", "done", "failed"}
  BY <1>2 DEF Stages
<1> QED
  BY <1>1, <1>2, <1>3, <1>4, Zenon DEF UniqueNow, UniqueNext, Unique

LEMMA WalkUnique ==
  ASSUME UniqueNow, NEW order, Walk(order)
  PROVE  UniqueNext
<1>1. /\ queue' = queue /\ pc = "walk" /\ pc' = "functions" /\ artifacts' = artifacts
      /\ tree' = FlattenSeq(MapSeq(order, FactsOf)) /\ order \in Seq(Walked(root))
  BY Zenon DEF Walk, Then
<1>2. tree' \in Seq(FactsUnder(Head(queue')))
  BY <1>1, WalkedUnder, Zenon DEF root
<1>3. pc \in Stages /\ pc' \in Stages /\ pc' \notin {"calls", "oracle", "tables", "shell"}
  BY <1>1 DEF Stages
<1> QED
  BY <1>1, <1>2, <1>3, Zenon DEF UniqueNow, UniqueNext, Unique

LEMMA DeclareUnique ==
  ASSUME UniqueNow, DeclareFunctions
  PROVE  UniqueNext
<1>1. /\ queue' = queue /\ pc = "functions" /\ pc' = "calls" /\ artifacts' = Rebased(tree, root)
  BY Zenon DEF DeclareFunctions, Then
<1>2. pc \in Stages /\ pc' \in Stages /\ pc' \notin {"functions", "tables", "shell"}
  BY <1>1 DEF Stages
<1>3. root \in Repositories
  <2>1. queue \in Seq(Repositories) /\ queue # <<>>
    BY <1>2, Zenon DEF UniqueNow, Unique
  <2> QED
    BY <2>1 DEF root
<1>4. /\ Tidy(artifacts') /\ OfKinds(artifacts', DeclaredKinds) /\ RoutinesAreNamed(artifacts')
  <2>1. tree \in Seq(FactsUnder(root))
    BY <1>1, Zenon DEF UniqueNow, Unique, root
  <2> QED
    BY <1>1, <1>3, <2>1, RootIsList, RebasedTidy, Zenon
<1> QED
  BY <1>1, <1>2, <1>4, Zenon DEF UniqueNow, UniqueNext, Unique, Tidy

LEMMA CallsUnique ==
  ASSUME UniqueNow, IsList(artifacts), ResolveCalls
  PROVE  UniqueNext
<1>1. /\ queue' = queue /\ pc = "calls" /\ pc' = "oracle" /\ artifacts' = Called(artifacts, tree, root)
  BY Zenon DEF ResolveCalls, Then
<1>2. pc \in Stages /\ pc' \in Stages /\ pc' \notin {"functions", "tables", "shell"}
  BY <1>1 DEF Stages
<1>3. Tidy(artifacts) /\ OfKinds(artifacts, DeclaredKinds) /\ RoutinesAreNamed(artifacts)
  <2>1. pc \in {"calls", "oracle"}
    BY <1>1
  <2> QED
    BY <2>1, Zenon DEF UniqueNow, Unique, Tidy
<1>4. Tidy(artifacts') /\ OfKinds(artifacts', DeclaredKinds) /\ RoutinesAreNamed(artifacts')
  BY <1>1, <1>3, CalledTidy, AlikeKeeps, Zenon
<1> QED
  BY <1>1, <1>2, <1>4, Zenon DEF UniqueNow, UniqueNext, Unique, Tidy

LEMMA OracleUnique ==
  ASSUME NoneIsNothing, UniqueNow, IsList(artifacts), tree \in Seq(Facts), ResolveOracleCalls
  PROVE  UniqueNext
<1>1. /\ queue' = queue /\ pc = "oracle" /\ pc' = "tables" /\ artifacts' = WithOracleCalls(artifacts, tree)
  BY Zenon DEF ResolveOracleCalls, Then
<1>2. pc \in Stages /\ pc' \in Stages /\ pc' \notin {"functions", "calls", "oracle", "shell"}
  BY <1>1 DEF Stages
<1>3. Tidy(artifacts) /\ OfKinds(artifacts, DeclaredKinds) /\ RoutinesAreNamed(artifacts)
  <2>1. pc \in {"calls", "oracle"}
    BY <1>1
  <2> QED
    BY <2>1, Zenon DEF UniqueNow, Unique, Tidy
<1>4. Tidy(artifacts') /\ OfKinds(artifacts', DeclaredKinds)
  BY <1>1, <1>3, OracleTidy, Zenon
<1> QED
  BY <1>1, <1>2, <1>4, Zenon DEF UniqueNow, UniqueNext, Unique, Tidy

LEMMA TablesUnique ==
  ASSUME UniqueNow, IsList(artifacts), tree \in Seq(Facts), ResolveDbAccess
  PROVE  UniqueNext
<1>1. /\ queue' = queue /\ pc = "tables" /\ pc' = "shell" /\ artifacts' = WithTables(artifacts, tree, repo)
  BY Zenon DEF ResolveDbAccess, Then
<1>2. pc \in Stages /\ pc' \in Stages /\ pc' \notin {"functions", "calls", "oracle", "tables"}
  BY <1>1 DEF Stages
<1>3. Tidy(artifacts) /\ OfKinds(artifacts, DeclaredKinds)
  BY <1>1, Zenon DEF UniqueNow, Unique, Tidy
<1>4. Tidy(artifacts') /\ OfKinds(artifacts', DeclaredKinds \cup {"table"})
  BY <1>1, <1>3, TablesTidy, Zenon
<1> QED
  BY <1>1, <1>2, <1>4, Zenon DEF UniqueNow, UniqueNext, Unique, Tidy

LEMMA ShellUnique ==
  ASSUME UniqueNow, IsList(artifacts), tree \in Seq(Facts), ResolveShellInvokes
  PROVE  UniqueNext
<1>1. /\ queue' = queue /\ pc = "shell" /\ pc' = "endpoints"
      /\ artifacts' = WithShellCalls(artifacts, tree, repo)
  BY Zenon DEF ResolveShellInvokes, Then
<1>2. pc \in Stages /\ pc' \in Stages /\ pc' \notin {"functions", "calls", "oracle", "tables", "shell"}
  BY <1>1 DEF Stages
<1>3. Tidy(artifacts) /\ OfKinds(artifacts, DeclaredKinds \cup {"table"})
  BY <1>1, Zenon DEF UniqueNow, Unique, Tidy
<1>4. Tidy(artifacts')
  BY <1>1, <1>3, ShellTidy, Zenon
<1> QED
  BY <1>1, <1>2, <1>4, Zenon DEF UniqueNow, UniqueNext, Unique, Tidy

LEMMA NoArtifacts ==
  AllWellFormed(<<>>) /\ Apart(<<>>)
BY DEF AllWellFormed, Apart

LEMMA ConfigUnique ==
  ASSUME UniqueNow, BindConfig
  PROVE  UniqueNext
<1>1. /\ pc = "config" /\ queue' = Tail(queue) /\ artifacts' = <<>>
      /\ pc' = IF queue' = <<>> THEN "done" ELSE "walk"
  BY Zenon DEF BindConfig
<1>2. queue \in Seq(Repositories) /\ queue # <<>>
  <2>1. pc \in Stages
    BY <1>1 DEF Stages
  <2> QED
    BY <2>1, Zenon DEF UniqueNow, Unique
<1>3. queue' \in Seq(Repositories)
  BY <1>1, <1>2
<1>4. pc' \in {"done", "walk"} /\ ((queue' # <<>>) <=> pc' \in Stages)
  BY <1>1 DEF Stages
<1>5. /\ pc' \notin {"functions", "calls", "oracle", "tables", "shell"}
      /\ pc' \in Stages \cup {"discover", "done", "failed"}
  BY <1>4 DEF Stages
<1> QED
  BY <1>1, <1>3, <1>4, <1>5, NoArtifacts, Zenon DEF UniqueNext, Unique

LEMMA RaiseUnique ==
  ASSUME Raise
  PROVE  UniqueNext
<1>1. queue' = <<>> /\ pc' = "failed" /\ artifacts' = <<>>
  BY Zenon DEF Raise
<1>2. pc' \notin Stages /\ pc' \notin {"functions", "calls", "oracle", "tables", "shell"}
  BY <1>1 DEF Stages
<1>3. queue' \in Seq(Repositories)
  BY <1>1
<1> QED
  BY <1>1, <1>2, <1>3, NoArtifacts, Zenon DEF UniqueNext, Unique

LEMMA NextKeepsUnique ==
  ASSUME NoneIsNothing, PublishedInv, PublishedInv', UniqueInv, [Next]_vars
  PROVE  UniqueInv'
<1>1. UniqueNow
  BY UniqueFacts, Zenon DEF UniqueNow
<1>2. IsList(artifacts) /\ tree \in Seq(Facts)
  BY Zenon DEF PublishedInv, AreArtifacts
<1>3. DOMAIN result' = DOMAIN Nothing
  BY Zenon DEF PublishedInv
<1>4. UniqueNext
  <2>1. ASSUME NEW c \in Configs, Discover(c) PROVE UniqueNext
    BY <1>1, <2>1, DiscoverUnique, Zenon
  <2>2. ASSUME NEW order \in Orders(Walked(root)), Walk(order) PROVE UniqueNext
    BY <1>1, <2>2, WalkUnique, Zenon
  <2>3. CASE DeclareFunctions \/ ResolveCalls \/ ResolveOracleCalls
    BY <1>1, <1>2, <2>3, DeclareUnique, CallsUnique, OracleUnique, Zenon
  <2>4. CASE ResolveDbAccess \/ ResolveShellInvokes
    BY <1>1, <1>2, <2>4, TablesUnique, ShellUnique, Zenon
  <2>5. CASE ResolveEndpoints \/ ResolveTests \/ ResolveCoverage \/ ResolveMocks
             \/ ResolveDataModels \/ ResolveQueries \/ ResolveKafka
    <3>1. UNCHANGED <<queue, artifacts>>
      BY <2>5, Zenon DEF ResolveEndpoints, ResolveTests, ResolveCoverage, ResolveMocks,
         ResolveDataModels, ResolveQueries, ResolveKafka, Then, work
    <3>2. pc \in Stages /\ pc' \in Stages \ BeforeShell
      BY <2>5 DEF ResolveEndpoints, ResolveTests, ResolveCoverage, ResolveMocks,
         ResolveDataModels, ResolveQueries, ResolveKafka, Then, Stages, BeforeShell
    <3> QED
      BY <1>1, <3>1, <3>2, QuietSteps, Zenon
  <2>6. CASE BindConfig \/ Raise
    BY <1>1, <2>6, ConfigUnique, RaiseUnique, Zenon
  <2>7. CASE UNCHANGED vars
    BY <1>1, <2>7, Zenon DEF UniqueNow, UniqueNext, vars, work
  <2> QED
    BY <2>1, <2>2, <2>3, <2>4, <2>5, <2>6, <2>7, Zenon DEF Next
<1> QED
  BY <1>3, <1>4, UniqueFacts, Zenon DEF UniqueNext

(* Whichever repositories are walked in whichever order, the artifacts at  *)
(* work are well formed, of the kinds that the stages so far make, and     *)
(* each of them bears an id of its own.                                    *)
THEOREM UniqueInvariant == NoneIsNothing => (Spec => []UniqueInv)
<1> SUFFICES ASSUME NoneIsNothing PROVE Spec => []UniqueInv
  OBVIOUS
<1>1. Init => UniqueInv
  <2>1. ASSUME Init PROVE DOMAIN result = DOMAIN Nothing /\ Unique(queue, pc, tree, artifacts)
    <3>1. /\ queue = <<>> /\ pc = "discover" /\ artifacts = <<>> /\ result = Nothing
      BY <2>1, Zenon DEF Init
    <3>2. pc \notin Stages /\ pc \notin {"functions", "calls", "oracle", "tables", "shell"}
      BY <3>1 DEF Stages
    <3>3. queue \in Seq(Repositories)
      BY <3>1
    <3> QED
      BY <3>1, <3>2, <3>3, NoArtifacts, Zenon DEF Unique
  <2> QED
    BY <2>1, UniqueFacts, Zenon
<1>2. PublishedInv /\ PublishedInv' /\ UniqueInv /\ [Next]_vars => UniqueInv'
  BY NextKeepsUnique
<1> QED
  BY <1>1, <1>2, PublishedInvariant, PTL DEF Spec

(* One record of a repository for one id, although five stages declare,    *)
(* rewrite and append: a rewritten id is no other's, and a stub is made    *)
(* for nothing that is declared.                                           *)
THEOREM TypesHold == NoneIsNothing => (Spec => []TypeOK)
<1> SUFFICES ASSUME NoneIsNothing PROVE Spec => []TypeOK
  OBVIOUS
<1>1. UniqueInv => TypeOK
  BY Zenon DEF UniqueInv
<1> QED
  BY <1>1, UniqueInvariant, PTL

-----------------------------------------------------------------------------
(* The elements of a list at certain positions.                            *)
LEMMA PickedFacts ==
  ASSUME NEW s, IsList(s), NEW at
  PROVE  Picked(s, at) \in Seq({s[i] : i \in at \cap DOMAIN s})
<1> DEFINE T == {s[i] : i \in at \cap DOMAIN s}
           ss == [i \in DOMAIN s |-> IF i \in at THEN <<s[i]>> ELSE <<>>]
<1>1. Len(s) \in Nat /\ DOMAIN s = 1 .. Len(s)
  BY ListFacts
<1>2. \A x \in T : <<x>> \in Seq(T)
  OBVIOUS
<1>3. \A i \in DOMAIN s : i \in at => s[i] \in T
  OBVIOUS
<1>4. <<>> \in Seq(T)
  OBVIOUS
<1>5. \A i \in DOMAIN s : ss[i] \in Seq(T)
  BY <1>2, <1>3, <1>4
<1>6. ss = [i \in 1 .. Len(s) |-> ss[i]]
  BY <1>1
<1> HIDE DEF ss, T
<1>7. ss \in Seq(Seq(T))
  BY <1>1, <1>5, <1>6
<1>8. FlattenSeq(ss) \in Seq(T)
  BY <1>7, Flattened
<1> QED
  BY <1>8, Zenon DEF Picked, ss, T

LEMMA LongerSeq ==
  ASSUME NEW U, NEW V, U \subseteq V, NEW s \in Seq(U)
  PROVE  s \in Seq(V)
OBVIOUS

(* What a list keeps are elements of it that pass.                         *)
LEMMA OfFile ==
  ASSUME NEW T, NEW facts \in Seq(T), NEW file
  PROVE  InFile(facts, file) \in Seq({x \in T : x.file = file})
<1> DEFINE at == {i \in DOMAIN facts : facts[i].file = file}
<1>1. IsList(facts) /\ ToSet(facts) \subseteq T
  BY ListIfSeq
<1>2. InFile(facts, file) = Picked(facts, at)
  BY Zenon DEF InFile, Keep
<1>3. {facts[i] : i \in at \cap DOMAIN facts} \subseteq {x \in T : x.file = file}
  BY <1>1 DEF ToSet
<1>4. InFile(facts, file) \in Seq({facts[i] : i \in at \cap DOMAIN facts})
  BY <1>1, <1>2, PickedFacts
<1> QED
  BY <1>3, <1>4, LongerSeq, Zenon

LEMMA OfOneKind ==
  ASSUME NEW t, IsList(t), NEW kind
  PROVE  Where(t, kind) \in Seq(OfKind(t, kind))
<1> DEFINE at == {i \in DOMAIN t : t[i].kind = kind}
<1>1. Where(t, kind) = Picked(t, at)
  BY Zenon DEF Where, Keep
<1>2. {t[i] : i \in at \cap DOMAIN t} \subseteq OfKind(t, kind)
  BY DEF OfKind
<1>3. Where(t, kind) \in Seq({t[i] : i \in at \cap DOMAIN t})
  BY <1>1, PickedFacts
<1> QED
  BY <1>2, <1>3, LongerSeq, Zenon
(* Files of a tree, those of a module of which are all in S, and an S that *)
(* no import leads out of.                                                 *)
FilesOf(t) == {t[i].file : i \in DOMAIN t}
Opens(t, S, m) == \A g \in FilesOf(t) : ModuleOf(g) = m => g \in S
Contained(t, S) == \A f \in S : \A g \in FilesOf(t) : InScope(t, f, g) => g \in S

(* Facts of imports and calls are well formed.                             *)
WellRead(t) ==
    \A i \in DOMAIN t :
        /\ t[i].kind = "import" =>
              IsList(t[i].module) /\ IsList(t[i].names)
        /\ t[i].kind = "call" => IsList(t[i].receiver)

LEMMA LeadsInside ==
  ASSUME NEW t, NEW S, Contained(t, S), NEW import \in OfKind(t, "import"), import.file \in S,
         NEW m, Leads(import, m)
  PROVE  Opens(t, S, m)
<1>1. PICK i \in DOMAIN t : t[i].kind = "import" /\ import = t[i]
  BY DEF OfKind
<1>2. SUFFICES ASSUME NEW g \in FilesOf(t), ModuleOf(g) = m PROVE g \in S
  BY Zenon DEF Opens
<1>3. InScope(t, import.file, g)
  BY <1>1, <1>2, Zenon DEF InScope
<1> QED
  BY <1>3, Zenon DEF Contained

LEMMA NamesAreRead ==
  ASSUME NEW t, IsList(t), WellRead(t), NEW import \in OfKind(t, "import")
  PROVE  IsList(import.module) /\ IsList(import.names)
BY DEF OfKind, WellRead

(* A name that is re-exported from a module inside is of one inside.       *)
ReExportOf(f, n) ==
    [of |-> <<PackageOf(f.file), n>>, as |-> <<TargetModule(f, PackageOf(f.file)), n>>]
Aggregators(t) == {f \in OfKind(t, "import") : IsAggregator(f.file)}

LEMMA ReExportsFacts ==
  ASSUME NEW t, IsList(t), WellRead(t)
  PROVE  ReExports(t) \in Seq(UNION {{ReExportOf(f, n) : n \in ToSet(f.names)} : f \in Aggregators(t)})
<1> DEFINE T == UNION {{ReExportOf(f, n) : n \in ToSet(f.names)} : f \in Aggregators(t)}
           all == Where(t, "import")
           at == {i \in DOMAIN all : IsAggregator(all[i].file)}
           kept == Picked(all, at)
           Listed(f) == IF TargetModule(f, PackageOf(f.file)) = <<>> THEN <<>> ELSE f.names
           Names(f) == [i \in DOMAIN Listed(f) |-> ReExportOf(f, Listed(f)[i])]
           ss == [i \in DOMAIN kept |-> Names(kept[i])]
<1>1. ReExports(t) = FlattenSeq(ss)
  BY Zenon DEF ReExports, Keep, MapSeq, ReExportOf
<1>2. all \in Seq(OfKind(t, "import")) /\ IsList(all)
  BY OfOneKind, ListIfSeq
<1>3. kept \in Seq(Aggregators(t))
  <2> HIDE DEF all
  <2>1. kept \in Seq({all[i] : i \in at \cap DOMAIN all})
    BY <1>2, PickedFacts
  <2>2. ToSet(all) \subseteq OfKind(t, "import")
    BY <1>2, ListIfSeq
  <2>3. {all[i] : i \in at \cap DOMAIN all} \subseteq Aggregators(t)
    BY <2>2 DEF Aggregators, ToSet
  <2> QED
    BY <2>1, <2>3, LongerSeq, Zenon
<1>4. ASSUME NEW f \in Aggregators(t) PROVE Names(f) \in Seq(T)
  <2>1. f \in OfKind(t, "import")
    BY DEF Aggregators
  <2>2. IsList(f.names)
    BY <2>1, NamesAreRead
  <2>3. <<>> \in Seq(ToSet(f.names))
    OBVIOUS
  <2>4. Listed(f) \in Seq(ToSet(f.names))
    BY <2>2, <2>3 DEF IsList
  <2>5. ASSUME NEW n \in ToSet(f.names) PROVE ReExportOf(f, n) \in T
    <3> DEFINE U == {ReExportOf(f, x) : x \in ToSet(f.names)}
    <3>1. U \in {{ReExportOf(h, x) : x \in ToSet(h.names)} : h \in Aggregators(t)}
      OBVIOUS
    <3>2. ReExportOf(f, n) \in U
      OBVIOUS
    <3> HIDE DEF U
    <3> QED
      BY <3>1, <3>2, Zenon
  <2> HIDE DEF Listed, T
  <2> QED
    BY <2>4, <2>5
<1> HIDE DEF T, Names, kept
<1>5. ss \in Seq(Seq(T))
  <2>1. Len(kept) \in Nat /\ DOMAIN kept = 1 .. Len(kept) /\ \A i \in DOMAIN kept : kept[i] \in Aggregators(t)
    BY <1>3
  <2>2. \A i \in DOMAIN kept : ss[i] \in Seq(T)
    BY <1>4, <2>1
  <2>3. ss = [i \in 1 .. Len(kept) |-> ss[i]]
    BY <2>1
  <2> HIDE DEF ss
  <2> QED
    BY <2>1, <2>2, <2>3
<1> HIDE DEF ss
<1>6. FlattenSeq(ss) \in Seq(T)
  BY <1>5, Flattened
<1> QED
  BY <1>1, <1>6, Zenon DEF T

LEMMA ReExportsInside ==
  ASSUME NEW t, IsList(t), WellRead(t), NEW S, Contained(t, S),
         NEW i \in DOMAIN ReExports(t), Opens(t, S, ReExports(t)[i].of[1])
  PROVE  Opens(t, S, ReExports(t)[i].as[1])
<1> DEFINE rs == ReExports(t)
           T == UNION {{ReExportOf(f, n) : n \in ToSet(f.names)} : f \in Aggregators(t)}
<1>1. rs[i] \in T
  <2>1. rs \in Seq(T) /\ i \in DOMAIN rs
    BY ReExportsFacts
  <2> HIDE DEF rs, T
  <2> QED
    BY <2>1
<1>2. PICK f \in Aggregators(t) : \E n \in ToSet(f.names) : rs[i] = ReExportOf(f, n)
  BY <1>1
<1> HIDE DEF rs
<1>3. /\ rs[i].of[1] = PackageOf(f.file) /\ rs[i].as[1] = TargetModule(f, PackageOf(f.file))
      /\ f.names # <<>>
  BY <1>2 DEF ReExportOf, ToSet
<1>4. f \in OfKind(t, "import") /\ IsAggregator(f.file) /\ f.file \in FilesOf(t)
  BY DEF Aggregators, OfKind, FilesOf
<1>5. f.file \in S
  <2>1. ModuleOf(f.file) = rs[i].of[1]
    BY <1>3, <1>4, Zenon DEF ModuleOf
  <2> QED
    BY <1>4, <2>1, Zenon DEF Opens, rs
<1>6. Leads(f, rs[i].as[1])
  <2>1. rs[i].as[1] \in ReadAs(f)
    BY <1>3, <1>4, Zenon DEF ReadAs
  <2> QED
    BY <1>3, <2>1, Zenon DEF Leads
<1>7. Opens(t, S, rs[i].as[1])
  BY <1>4, <1>5, <1>6, LeadsInside, Zenon
<1> QED
  BY <1>7, Zenon DEF rs

-----------------------------------------------------------------------------
(* The expansion of a name stays in a set that its re-exports stay in.     *)
Entries(G) == [key : G, depth : Nat]
Visits(G) == [stack : Seq(Entries(G)), found : Seq(G)]

LEMMA VisitInside ==
  ASSUME NEW rs, IsList(rs), NEW G, \A i \in DOMAIN rs : rs[i].of \in G => rs[i].as \in G,
         NEW at \in Visits(G)
  PROVE  Visit(at, rs) \in Visits(G)
<1> DEFINE top == Last(at.stack)
           rest == Front(at.stack)
           where == {i \in DOMAIN rs : rs[i].of = top.key}
           next == Picked(rs, where)
           pushed == [i \in DOMAIN next |-> [key |-> next[i].as, depth |-> top.depth + 1]]
<1>1. Visit(at, rs) =
        IF at.stack = <<>> THEN at
        ELSE IF Contains(at.found, top.key) \/ top.depth > MaxAliasDepth
        THEN [at EXCEPT !.stack = rest]
        ELSE [stack |-> rest \o pushed, found |-> Append(at.found, top.key)]
  BY Zenon DEF Visit, Keep, MapSeq
<1>2. at.stack \in Seq(Entries(G)) /\ at.found \in Seq(G) /\ at = [stack |-> at.stack, found |-> at.found]
  BY DEF Visits
<1>3. SUFFICES ASSUME at.stack # <<>> PROVE Visit(at, rs) \in Visits(G)
  BY <1>1
<1>4. top \in Entries(G) /\ rest \in Seq(Entries(G))
  <2>1. \A E, s : s \in Seq(E) /\ s # <<>> => s[Len(s)] \in E /\ SubSeq(s, 1, Len(s) - 1) \in Seq(E)
    OBVIOUS
  <2> QED
    BY <1>2, <1>3, <2>1, Zenon DEF Last, Front
<1> HIDE DEF top, rest
<1>5. top.key \in G /\ top.depth + 1 \in Nat
  BY <1>4 DEF Entries
<1>6. pushed \in Seq(Entries(G))
  <2> DEFINE T == {rs[i] : i \in where \cap DOMAIN rs}
  <2>1. next \in Seq(T)
    BY PickedFacts
  <2>2. \A r \in T : r.as \in G
    BY <1>5
  <2> HIDE DEF T, next
  <2>3. Len(next) \in Nat /\ DOMAIN next = 1 .. Len(next) /\ \A i \in DOMAIN next : next[i].as \in G
    BY <2>1, <2>2
  <2>4. \A i \in DOMAIN next : pushed[i] \in Entries(G)
    BY <1>5, <2>3 DEF Entries
  <2>5. pushed = [i \in 1 .. Len(next) |-> pushed[i]]
    BY <2>3
  <2> HIDE DEF pushed
  <2> QED
    BY <2>3, <2>4, <2>5
<1> HIDE DEF pushed
<1>7. [at EXCEPT !.stack = rest] \in Visits(G)
  BY <1>2, <1>4 DEF Visits
<1>8. [stack |-> rest \o pushed, found |-> Append(at.found, top.key)] \in Visits(G)
  <2>1. rest \o pushed \in Seq(Entries(G))
    BY <1>4, <1>6
  <2>2. Append(at.found, top.key) \in Seq(G)
    BY <1>2, <1>5
  <2> QED
    BY <2>1, <2>2 DEF Visits
<1> QED
  BY <1>1, <1>7, <1>8, Zenon

LEMMA ExpandInside ==
  ASSUME NEW rs, IsList(rs), NEW G, \A i \in DOMAIN rs : rs[i].of \in G => rs[i].as \in G,
         NEW module, NEW name, <<module, name>> \in G
  PROVE  Expand(module, name, rs) \in Seq(G)
<1> DEFINE N == Len(rs) + 1
           V == Visits(G)
           base == [stack |-> <<[key |-> <<module, name>>, depth |-> 0]>>, found |-> <<>>]
           H == [p \in V \X (1 .. N) |-> Visit(p[1], rs)]
           Solves(f) == f = [n \in 0 .. N |-> IF n = 0 THEN base ELSE Visit(f[n - 1], rs)]
           g == CHOOSE f : Solves(f)
<1>1. N \in Nat
  BY ListFacts
<1>2. Expand(module, name, rs) = g[N].found
  BY Zenon DEF Expand
<1> HIDE DEF N
<1>3. base \in V
  <2>1. <<[key |-> <<module, name>>, depth |-> 0]>> \in Seq(Entries(G))
    BY DEF Entries
  <2>2. <<>> \in Seq(G)
    OBVIOUS
  <2> QED
    BY <2>1, <2>2 DEF Visits
<1>4. \A x \in V : Visit(x, rs) \in V
  BY VisitInside
<1> HIDE DEF V, base
<1>5. Steps(H, N, V)
  BY <1>4 DEF Steps
<1>6. \A x \in V, n \in 1 .. N : H[<<x, n>>] = Visit(x, rs)
  OBVIOUS
<1> HIDE DEF H
<1>7. PICK f : f \in [0 .. N -> V] /\ f[0] = base /\ \A n \in 1 .. N : f[n] = H[<<f[n - 1], n>>]
  <2>1. \E f : Iterates(f, N, V, base, H)
    BY <1>1, <1>3, <1>5, Recursion, Zenon
  <2> QED
    BY <2>1, Zenon DEF Iterates
<1>8. Solves(f)
  <2>1. \A n \in 0 .. N : n # 0 => n \in 1 .. N /\ n - 1 \in 0 .. N
    BY <1>1
  <2>2. ASSUME NEW n \in 1 .. N PROVE f[n] = Visit(f[n - 1], rs)
    <3>1. n - 1 \in 0 .. N
      BY <1>1
    <3>2. f[n - 1] \in V
      BY <1>7, <3>1
    <3> QED
      BY <1>6, <1>7, <3>2, Zenon
  <2> QED
    BY <1>7, <2>1, <2>2
<1>9. Solves(g)
  BY <1>8, Zenon
<1> HIDE DEF g
<1>10. g[0] = base /\ \A n \in 1 .. N : g[n] = Visit(g[n - 1], rs)
  BY <1>1, <1>9
<1> HIDE DEF Solves
<1> DEFINE K == {n \in 0 .. N : g[n] \in V}
<1>11. 0 \in K
  BY <1>1, <1>3, <1>10
<1>12. ASSUME NEW n \in 1 .. N, n - 1 \in K PROVE n \in K
  BY <1>4, <1>10, <1>12
<1> HIDE DEF K
<1>13. 0 .. N \subseteq K
  BY <1>1, <1>11, <1>12, UpTo
<1>14. g[N] \in V
  BY <1>1, <1>13 DEF K
<1> QED
  BY <1>2, <1>14 DEF V, Visits

(* Where a name may be declared: files inside, if the module is.           *)
LEMMA CandidatesFacts ==
  ASSUME NEW module, NEW f
  PROVE  /\ IsList(CandidateFiles(module, f))
         /\ \A i \in DOMAIN CandidateFiles(module, f) :
               module # <<>> /\ \E ext : CandidateFiles(module, f)[i] = [path |-> module, ext |-> ext]
<1> DEFINE ts == Templates(f)
           c == [i \in DOMAIN ts |-> [path |-> module, ext |-> ts[i]]]
<1>1. CandidateFiles(module, f) = IF module = <<>> THEN <<>> ELSE c
  BY Zenon DEF CandidateFiles, MapSeq
<1>2. \A T, s : s \in Seq(T) => IsList(s)
  BY ListIfSeq
<1>10. IsList(<<>>)
  <2>1. PICK s : s = <<>>
    OBVIOUS
  <2>2. s \in Seq({})
    BY <2>1
  <2>3. IsList(s)
    BY <1>2, <2>2, Zenon
  <2> QED
    BY <2>1, <2>3
<1>3. IsList(ts)
  <2> DEFINE E == {"py", "init", "pks", "pkb", "sql", "java"}
  <2>1. \A T : \A a, b, d \in T :
          <<a, b>> \in Seq(T) /\ <<a, b, d>> \in Seq(T) /\ <<a>> \in Seq(T) /\ <<>> \in Seq(T)
    OBVIOUS
  <2>2. ts \in Seq(E)
    BY <2>1 DEF Templates
  <2> QED
    BY <2>2, ListIfSeq
<1> HIDE DEF ts
<1>4. IsList(c)
  <2>1. c = [i \in DOMAIN ts |-> c[i]]
    OBVIOUS
  <2> HIDE DEF c
  <2> QED
    BY <1>3, <2>1, Mapped
<1>5. \A i \in DOMAIN c : \E ext : c[i] = [path |-> module, ext |-> ext]
  OBVIOUS
<1> HIDE DEF c
<1>6. CASE module = <<>>
  BY <1>1, <1>10, <1>6
<1>7. CASE module # <<>>
  BY <1>1, <1>4, <1>5, <1>7
<1> QED
  BY <1>6, <1>7, Zenon

-----------------------------------------------------------------------------
(* What the call resolver works on, a set of files that no import leads    *)
(* out of, and the ids of the artifacts in them.                           *)
Scoped(cx, S) ==
    /\ IsList(cx.tree) /\ WellRead(cx.tree) /\ cx.reExports = ReExports(cx.tree)
    /\ IsList(cx.artifacts)
    /\ \A i \in DOMAIN cx.artifacts : cx.artifacts[i].file \in FilesOf(cx.tree)
    /\ Contained(cx.tree, S)

Within(cx, S) ==
    {None} \cup {cx.artifacts[i].id : i \in {j \in DOMAIN cx.artifacts : cx.artifacts[j].file \in S}}

IsInside(cx, S, file) == file \in FilesOf(cx.tree) => file \in S

LEMMA PlacesInside ==
  ASSUME NEW cx, NEW S, Scoped(cx, S), NEW module, Opens(cx.tree, S, module), NEW name, NEW f
  PROVE  /\ IsList(Places(module, name, f, cx.reExports))
         /\ \A i \in DOMAIN Places(module, name, f, cx.reExports) :
               IsInside(cx, S, Places(module, name, f, cx.reExports)[i].file)
<1> DEFINE rs == cx.reExports
           key == <<module, name>>
           G == {k \in {key} \cup {rs[i].as : i \in DOMAIN rs} : Opens(cx.tree, S, k[1])}
           ex == Expand(module, name, rs)
           Row(k) == [i \in DOMAIN CandidateFiles(k[1], f) |->
                         [file |-> CandidateFiles(k[1], f)[i], name |-> k[2]]]
           P == UNION {ToSet(Row(k)) : k \in G}
           ss == [i \in DOMAIN ex |-> Row(ex[i])]
<1>1. Places(module, name, f, cx.reExports) = FlattenSeq(ss)
  BY Zenon DEF Places, MapSeq
<1>2. IsList(rs)
  <2>1. IsList(ReExports(cx.tree))
    BY ReExportsFacts, ListIfSeq DEF Scoped
  <2> QED
    BY <2>1 DEF Scoped
<1>3. \A i \in DOMAIN rs : rs[i].of \in G => rs[i].as \in G
  <2>1. \A i \in DOMAIN rs : Opens(cx.tree, S, rs[i].of[1]) => Opens(cx.tree, S, rs[i].as[1])
    BY ReExportsInside DEF Scoped
  <2> QED
    BY <2>1
<1>4. key \in G
  OBVIOUS
<1>5. \A k \in G : Opens(cx.tree, S, k[1])
  OBVIOUS
<1> HIDE DEF G
<1>6. ex \in Seq(G)
  BY <1>2, <1>3, <1>4, ExpandInside
<1>7. ASSUME NEW k \in G PROVE Row(k) \in Seq(P)
  <2>1. IsList(Row(k))
    <3>1. Row(k) = [i \in DOMAIN CandidateFiles(k[1], f) |-> Row(k)[i]]
      OBVIOUS
    <3> HIDE DEF Row
    <3> QED
      BY <3>1, CandidatesFacts, Mapped
  <2> HIDE DEF Row
  <2>2. ToSet(Row(k)) \subseteq P
    OBVIOUS
  <2>3. Row(k) \in Seq(ToSet(Row(k)))
    BY <2>1 DEF IsList
  <2> QED
    BY <2>2, <2>3, LongerSeq, Zenon
<1>8. ASSUME NEW p \in P PROVE IsInside(cx, S, p.file)
  <2>1. PICK k \in G : p \in ToSet(Row(k))
    OBVIOUS
  <2>2. PICK i \in DOMAIN CandidateFiles(k[1], f) : p.file = CandidateFiles(k[1], f)[i]
    BY <2>1 DEF ToSet
  <2>3. k[1] # <<>> /\ \E ext : p.file = [path |-> k[1], ext |-> ext]
    <3>1. \A m : \A j \in DOMAIN CandidateFiles(m, f) :
             m # <<>> /\ \E ext : CandidateFiles(m, f)[j] = [path |-> m, ext |-> ext]
      BY CandidatesFacts, Zenon
    <3>2. k[1] # <<>> /\ \E ext : CandidateFiles(k[1], f)[i] = [path |-> k[1], ext |-> ext]
      BY <3>1, Zenon
    <3> QED
      BY <2>2, <3>2, Zenon
  <2>4. ModuleOf(p.file) = k[1]
    BY <2>3 DEF ModuleOf, PackageOf
  <2> QED
    BY <1>5, <2>4, Zenon DEF IsInside, Opens
<1> HIDE DEF P, Row
<1>9. ss \in Seq(Seq(P))
  <2>1. Len(ex) \in Nat /\ DOMAIN ex = 1 .. Len(ex) /\ \A i \in DOMAIN ex : ex[i] \in G
    BY <1>6
  <2>2. \A i \in DOMAIN ex : ss[i] \in Seq(P)
    BY <1>7, <2>1
  <2>3. ss = [i \in 1 .. Len(ex) |-> ss[i]]
    BY <2>1
  <2> HIDE DEF ss, ex
  <2> QED
    BY <2>1, <2>2, <2>3
<1> HIDE DEF ss
<1>10. FlattenSeq(ss) \in Seq(P)
  BY <1>9, Flattened
<1>11. IsList(FlattenSeq(ss)) /\ ToSet(FlattenSeq(ss)) \subseteq P
  BY <1>10, ListIfSeq
<1> QED
  BY <1>1, <1>8, <1>11 DEF ToSet

LEMMA AtFirstOf ==
  ASSUME NEW s, IsList(s), NEW I, I \subseteq 1 .. Len(s)
  PROVE  FirstAt(s, I) = None \/ \E i \in I : i \in DOMAIN s /\ FirstAt(s, I) = s[i]
<1>1. Len(s) \in Nat /\ DOMAIN s = 1 .. Len(s)
  BY ListFacts
<1>2. I # {} => Min(I) \in 1 .. Len(s) /\ Min(I) \in I
  BY <1>1, LeastIn
<1> QED
  BY <1>1, <1>2 DEF FirstAt

(* What is found in a file inside is inside.                               *)
LEMMA NamedInInside ==
  ASSUME NEW cx, NEW S, Scoped(cx, S), NEW file, IsInside(cx, S, file), NEW name
  PROVE  NamedIn(cx.artifacts, file, name) \in Within(cx, S)
<1> DEFINE as == cx.artifacts
           I == {i \in 1 .. Len(as) : as[i].file = file /\ as[i].name = name}
<1>1. NamedIn(as, file, name) = IdIn(LastAt(as, I))
  BY Zenon DEF NamedIn, LastWith, SelectLastInSeq, LastAt
<1>2. LastAt(as, I) = None \/ \E i \in I : i \in DOMAIN as /\ LastAt(as, I) = as[i]
  BY AtLast DEF Scoped
<1> QED
  BY <1>1, <1>2 DEF IdIn, Within, Scoped, IsInside

LEMMA MethodOfInside ==
  ASSUME NEW cx, NEW S, Scoped(cx, S), NEW file, IsInside(cx, S, file), NEW class, NEW name
  PROVE  MethodOf(cx, file, class, name) \in Within(cx, S)
<1> DEFINE as == cx.artifacts
           I == {i \in 1 .. Len(as) : /\ as[i].type = "method" /\ as[i].file = file
                                      /\ as[i].id[4] = class /\ as[i].name = name}
<1>1. MethodOf(cx, file, class, name) = IdIn(FirstAt(as, I))
  BY Zenon DEF MethodOf, FirstWith, SelectInSeq, FirstAt
<1>2. FirstAt(as, I) = None \/ \E i \in I : i \in DOMAIN as /\ FirstAt(as, I) = as[i]
  BY AtFirstOf DEF Scoped
<1> QED
  BY <1>1, <1>2 DEF IdIn, Within, Scoped, IsInside

LEMMA ByModuleInside ==
  ASSUME NEW cx, NEW S, Scoped(cx, S), NEW module, Opens(cx.tree, S, module), NEW name, NEW file
  PROVE  ByModule(cx, module, name, file) \in Within(cx, S)
<1> DEFINE ps == Places(module, name, file, cx.reExports)
           Find(p) == NamedIn(cx.artifacts, p.file, p.name)
           I == {i \in 1 .. Len(ps) : Find(ps[i]) # None}
           x == FirstAt(ps, I)
<1>1. ByModule(cx, module, name, file) = IF x = None THEN None ELSE Find(x)
  <2>1. FirstWith(ps, LAMBDA p : Find(p) # None) = x
    BY Zenon DEF FirstWith, SelectInSeq, FirstAt
  <2> QED
    BY <2>1, Zenon DEF ByModule, FirstHit
<1>2. x = None \/ \E i \in DOMAIN ps : x = ps[i]
  BY PlacesInside, AtFirst
<1>3. \A i \in DOMAIN ps : Find(ps[i]) \in Within(cx, S)
  BY PlacesInside, NamedInInside
<1> HIDE DEF x, Find, ps
<1>4. None \in Within(cx, S)
  BY DEF Within
<1> QED
  BY <1>1, <1>2, <1>3, <1>4

LEMMA DirectlyInside ==
  ASSUME NEW cx, NEW S, Scoped(cx, S), NEW module, Opens(cx.tree, S, module), NEW name, NEW file
  PROVE  Directly(cx, module, name, file) \in Within(cx, S)
<1> DEFINE fs == CandidateFiles(module, file)
           Find(f) == NamedIn(cx.artifacts, f, name)
           I == {i \in 1 .. Len(fs) : Find(fs[i]) # None}
           x == FirstAt(fs, I)
<1>1. Directly(cx, module, name, file) = IF x = None THEN None ELSE Find(x)
  <2>1. FirstWith(fs, LAMBDA f : Find(f) # None) = x
    BY Zenon DEF FirstWith, SelectInSeq, FirstAt
  <2> QED
    BY <2>1, Zenon DEF Directly, FirstHit
<1>2. x = None \/ \E i \in DOMAIN fs : x = fs[i]
  BY CandidatesFacts, AtFirst
<1>3. ASSUME NEW i \in DOMAIN fs PROVE Find(fs[i]) \in Within(cx, S)
  <2>1. module # <<>> /\ \E ext : fs[i] = [path |-> module, ext |-> ext]
    BY CandidatesFacts, Zenon
  <2>2. ModuleOf(fs[i]) = module
    BY <2>1 DEF ModuleOf, PackageOf
  <2>3. IsInside(cx, S, fs[i])
    BY <2>2, Zenon DEF IsInside, Opens
  <2> QED
    BY <2>3, NamedInInside, Zenon
<1> HIDE DEF x, Find, fs
<1>4. None \in Within(cx, S)
  BY DEF Within
<1> QED
  BY <1>1, <1>2, <1>3, <1>4

-----------------------------------------------------------------------------
(* The imports of a file, and what one of its names is imported from.      *)
ImportsOf(cx, file) == {x \in OfKind(cx.tree, "import") : x.file = file}

LEMMA ImportsFacts ==
  ASSUME NEW cx, IsList(cx.tree), NEW file
  PROVE  Imports(cx, file) \in Seq(ImportsOf(cx, file))
BY OfOneKind, OfFile, Zenon DEF Imports, ImportsOf

OfModules(cx, file) == {x \in ImportsOf(cx, file) : x.names = <<>> /\ x.module # <<>>}

LEMMA ModulesFacts ==
  ASSUME NEW cx, IsList(cx.tree), NEW file
  PROVE  ModuleImports(cx, file) \in Seq(OfModules(cx, file))
<1> DEFINE all == Imports(cx, file)
           at == {i \in DOMAIN all : all[i].names = <<>> /\ all[i].module # <<>>}
<1>1. ModuleImports(cx, file) = Picked(all, at)
  BY Zenon DEF ModuleImports, Keep
<1>2. IsList(all) /\ ToSet(all) \subseteq ImportsOf(cx, file)
  BY ImportsFacts, ListIfSeq
<1> HIDE DEF all
<1>3. Picked(all, at) \in Seq({all[i] : i \in at \cap DOMAIN all})
  BY <1>2, PickedFacts
<1>4. {all[i] : i \in at \cap DOMAIN all} \subseteq OfModules(cx, file)
  BY <1>2 DEF OfModules, ToSet
<1> QED
  BY <1>1, <1>3, <1>4, LongerSeq, Zenon

Tells(cx, file, name, i) ==
    \E x \in ImportsOf(cx, file) : i.module = x.module /\ name \in ToSet(x.names)

LEMMA NamesFacts ==
  ASSUME NEW cx, IsList(cx.tree), WellRead(cx.tree), NEW file, NEW name
  PROVE  /\ IsList(FromImportsOf(cx, file, name))
         /\ \A k \in DOMAIN FromImportsOf(cx, file, name) :
               Tells(cx, file, name, FromImportsOf(cx, file, name)[k])
<1> DEFINE imports == Imports(cx, file)
           X == ImportsOf(cx, file)
           Row(x) == [i \in DOMAIN x.names |-> [module |-> x.module, name |-> x.names[i]]]
           T == UNION {ToSet(Row(x)) : x \in X}
           ss == [i \in DOMAIN imports |-> Row(imports[i])]
           all == FromImports(cx, file)
           at == {i \in DOMAIN all : all[i].name = name}
<1>1. all = FlattenSeq(ss)
  BY Zenon DEF FromImports, MapSeq
<1>2. imports \in Seq(X)
  BY ImportsFacts
<1>3. ASSUME NEW x \in X PROVE Row(x) \in Seq(T)
  <2>1. IsList(x.names)
    BY NamesAreRead DEF ImportsOf
  <2>2. IsList(Row(x))
    <3>1. Row(x) = [i \in DOMAIN x.names |-> Row(x)[i]]
      OBVIOUS
    <3> HIDE DEF Row
    <3> QED
      BY <2>1, <3>1, Mapped
  <2> HIDE DEF Row
  <2>3. ToSet(Row(x)) \subseteq T
    OBVIOUS
  <2>4. Row(x) \in Seq(ToSet(Row(x)))
    BY <2>2 DEF IsList
  <2> QED
    BY <2>3, <2>4, LongerSeq, Zenon
<1>4. ASSUME NEW i \in T PROVE Tells(cx, file, i.name, i)
  <2>1. PICK x \in X : i \in ToSet(Row(x))
    OBVIOUS
  <2>2. PICK k \in DOMAIN x.names : i = [module |-> x.module, name |-> x.names[k]]
    BY <2>1 DEF ToSet
  <2>3. i.module = x.module /\ i.name \in ToSet(x.names)
    BY <2>2 DEF ToSet
  <2> QED
    BY <2>3, Zenon DEF Tells
<1> HIDE DEF T, Row, X
<1>5. ss \in Seq(Seq(T))
  <2>1. /\ Len(imports) \in Nat /\ DOMAIN imports = 1 .. Len(imports)
        /\ \A i \in DOMAIN imports : imports[i] \in X
    BY <1>2
  <2>2. \A i \in DOMAIN imports : ss[i] \in Seq(T)
    BY <1>3, <2>1
  <2>3. ss = [i \in 1 .. Len(imports) |-> ss[i]]
    BY <2>1
  <2> HIDE DEF ss, imports
  <2> QED
    BY <2>1, <2>2, <2>3
<1> HIDE DEF ss
<1>6. all \in Seq(T)
  BY <1>1, <1>5, Flattened
<1> HIDE DEF all
<1>7. IsList(all) /\ ToSet(all) \subseteq T
  BY <1>6, ListIfSeq
<1>8. FromImportsOf(cx, file, name) = Picked(all, at)
  BY Zenon DEF FromImportsOf, Keep, all
<1>9. Picked(all, at) \in Seq({all[i] : i \in at \cap DOMAIN all})
  BY <1>7, PickedFacts
<1>10. IsList(Picked(all, at)) /\ ToSet(Picked(all, at)) \subseteq {all[i] : i \in at \cap DOMAIN all}
  BY <1>9, ListIfSeq
<1>11. \A i \in at : all[i] \in T /\ all[i].name = name
  BY <1>7 DEF ToSet
<1>12. ASSUME NEW k \in DOMAIN Picked(all, at) PROVE Tells(cx, file, name, Picked(all, at)[k])
  <2>1. Picked(all, at)[k] \in {all[i] : i \in at \cap DOMAIN all}
    BY <1>10 DEF ToSet
  <2>2. PICK i \in at : Picked(all, at)[k] = all[i]
    BY <2>1
  <2> QED
    BY <1>4, <1>11, <2>2, Zenon
<1> QED
  BY <1>8, <1>10, <1>12, Zenon

LEMMA PrefixOfJoin ==
  ASSUME NEW s, IsList(s), NEW t, IsList(t)
  PROVE  /\ IsPrefix(s, s \o t)
         /\ t # <<>> => IsPrefix(Append(s, t[1]), s \o t)
         /\ s # <<>> => IsPrefix(<<s[1]>>, s \o t)
<1> DEFINE T == ToSet(s) \cup ToSet(t)
<1>1. s \in Seq(T) /\ t \in Seq(T)
  BY LongerSeq DEF IsList
<1> HIDE DEF T
<1>2. IsPrefix(s, s \o t)
  <2>1. Len(s) <= Len(s \o t) /\ SubSeq(s, 1, Len(s)) = s
    BY <1>1
  <2>2. SubSeq(s \o t, 1, Len(s)) = s
    BY <1>1
  <2> QED
    BY <2>1, <2>2, Zenon DEF IsPrefix
<1>3. ASSUME t # <<>> PROVE IsPrefix(Append(s, t[1]), s \o t)
  <2> DEFINE u == Append(s, t[1])
  <2>1. u \in Seq(T) /\ Len(u) = Len(s) + 1 /\ Len(u) <= Len(s \o t)
    BY <1>1, <1>3
  <2>2. SubSeq(s \o t, 1, Len(u)) = u
    BY <1>1, <1>3
  <2> HIDE DEF u
  <2>3. SubSeq(u, 1, Len(u)) = u
    BY <2>1
  <2> QED
    BY <2>1, <2>2, <2>3, Zenon DEF IsPrefix, u
<1>4. ASSUME s # <<>> PROVE IsPrefix(<<s[1]>>, s \o t)
  <2>1. \A v, w \in Seq(T) : Len(v) = 1 /\ Len(w) = 1 /\ v[1] = w[1] => v = w
    <3> SUFFICES ASSUME NEW v \in Seq(T), NEW w \in Seq(T), Len(v) = 1, Len(w) = 1, v[1] = w[1]
                 PROVE  v = w
      OBVIOUS
    <3>1. v = [i \in 1 .. 1 |-> v[i]] /\ w = [i \in 1 .. 1 |-> w[i]]
      OBVIOUS
    <3> QED
      BY <3>1
  <2>2. \A x \in T : <<x>> \in Seq(T) /\ Len(<<x>>) = 1 /\ <<x>>[1] = x
    OBVIOUS
  <2>5. \A u \in Seq(T) : Len(u) >= 1 =>
           SubSeq(u, 1, 1) \in Seq(T) /\ Len(SubSeq(u, 1, 1)) = 1 /\ SubSeq(u, 1, 1)[1] = u[1]
    OBVIOUS
  <2>3. s[1] \in T /\ s \o t \in Seq(T) /\ 1 <= Len(s \o t) /\ (s \o t)[1] = s[1]
    BY <1>1, <1>4
  <2>4. PICK w : w = <<s[1]>>
    OBVIOUS
  <2>6. w \in Seq(T) /\ Len(w) = 1 /\ w[1] = s[1]
    <3>1. <<s[1]>> \in Seq(T) /\ Len(<<s[1]>>) = 1 /\ <<s[1]>>[1] = s[1]
      BY <2>2, <2>3
    <3> QED
      BY <2>4, <3>1
  <2>7. SubSeq(w, 1, 1) = w
    BY <2>1, <2>5, <2>6
  <2> DEFINE u == s \o t
  <2>8. u \in Seq(T) /\ 1 <= Len(u) /\ u[1] = s[1]
    BY <2>3
  <2> HIDE DEF u
  <2>9. SubSeq(u, 1, 1) = w
    BY <2>1, <2>5, <2>6, <2>8
  <2>10. IsPrefix(w, u)
    BY <2>6, <2>7, <2>8, <2>9 DEF IsPrefix
  <2> QED
    BY <2>4, <2>10, Zenon DEF u
<1> QED
  BY <1>2, <1>3, <1>4, Zenon

-----------------------------------------------------------------------------
(* What an import of a file inside may name is inside.                     *)
LEMMA NameOpens ==
  ASSUME NEW cx, NEW S, Scoped(cx, S), NEW file \in S, NEW name, NEW i, Tells(cx, file, name, i)
  PROVE  /\ Opens(cx.tree, S, i.module)
         /\ \A r : IsList(r) /\ r # <<>> /\ r[1] = name => Opens(cx.tree, S, i.module \o r)
<1>1. PICK x \in ImportsOf(cx, file) : i.module = x.module /\ name \in ToSet(x.names)
  BY Zenon DEF Tells
<1>2. x \in OfKind(cx.tree, "import") /\ x.file \in S
  BY DEF ImportsOf
<1>3. x.module \in ReadAs(x) /\ x.names # <<>>
  BY <1>1 DEF ReadAs, ToSet
<1>4. IsList(x.module)
  BY <1>2, NamesAreRead DEF Scoped
<1>5. Leads(x, x.module)
  BY <1>3, Zenon DEF Leads
<1>6. Contained(cx.tree, S)
  BY DEF Scoped
<1>7. ASSUME NEW r, IsList(r), r # <<>>, r[1] = name PROVE Opens(cx.tree, S, i.module \o r)
  <2>1. IsPrefix(Append(x.module, name), x.module \o r)
    BY <1>4, <1>7, PrefixOfJoin, Zenon
  <2>2. Leads(x, x.module \o r)
    BY <1>1, <1>3, <2>1, Zenon DEF Leads
  <2> QED
    BY <1>1, <1>2, <1>6, <2>2, LeadsInside, Zenon
<1>8. Opens(cx.tree, S, i.module)
  BY <1>1, <1>2, <1>5, <1>6, LeadsInside, Zenon
<1> QED
  BY <1>7, <1>8, Zenon

LEMMA ModuleOpens ==
  ASSUME NEW cx, NEW S, Scoped(cx, S), NEW file \in S, NEW x \in OfModules(cx, file)
  PROVE  /\ IsList(x.module) /\ x.module # <<>>
         /\ \A r : IsList(r) => Opens(cx.tree, S, x.module \o r)
         /\ x.alias = None => \A m : IsPrefix(<<x.module[1]>>, m) => Opens(cx.tree, S, m)
<1>1. x \in OfKind(cx.tree, "import") /\ x.file \in S
  BY DEF OfModules, ImportsOf
<1>2. x.module \in ReadAs(x)
  BY DEF ReadAs
<1>3. IsList(x.module) /\ x.module # <<>> /\ x.names = <<>>
  BY <1>1, NamesAreRead DEF Scoped, OfModules
<1>4. Contained(cx.tree, S)
  BY DEF Scoped
<1>5. ASSUME NEW r, IsList(r) PROVE Opens(cx.tree, S, x.module \o r)
  <2>1. IsPrefix(x.module, x.module \o r) /\ IsPrefix(<<x.module[1]>>, x.module \o r)
    BY <1>3, <1>5, PrefixOfJoin, Zenon
  <2>2. Leads(x, x.module \o r)
    BY <1>2, <1>3, <2>1, Zenon DEF Leads
  <2> QED
    BY <1>1, <1>4, <2>2, LeadsInside, Zenon
<1>6. ASSUME x.alias = None, NEW m, IsPrefix(<<x.module[1]>>, m) PROVE Opens(cx.tree, S, m)
  <2>1. Leads(x, m)
    BY <1>2, <1>3, <1>6, Zenon DEF Leads
  <2> QED
    BY <1>1, <1>4, <2>1, LeadsInside, Zenon
<1> QED
  BY <1>3, <1>5, <1>6, Zenon

(* The lookups, one for one.                                               *)
LEMMA NamedTargetInside ==
  ASSUME NEW cx, NEW S, Scoped(cx, S), NEW file \in S, NEW name
  PROVE  NamedTarget(cx, name, file) \in Within(cx, S)
<1> DEFINE is == FromImportsOf(cx, file, name)
           Find(i) == ByModule(cx, i.module, name, file)
           I == {k \in 1 .. Len(is) : Find(is[k]) # None}
           x == FirstAt(is, I)
           local == NamedIn(cx.artifacts, file, name)
<1>1. NamedTarget(cx, name, file) = IF local # None THEN local ELSE IF x = None THEN None ELSE Find(x)
  <2>1. FirstWith(is, LAMBDA i : Find(i) # None) = x
    BY Zenon DEF FirstWith, SelectInSeq, FirstAt
  <2> QED
    BY <2>1, Zenon DEF NamedTarget, FirstHit
<1>2. IsList(is) /\ \A k \in DOMAIN is : Tells(cx, file, name, is[k])
  BY NamesFacts DEF Scoped
<1>3. x = None \/ \E k \in DOMAIN is : x = is[k]
  BY <1>2, AtFirst
<1>4. \A k \in DOMAIN is : Find(is[k]) \in Within(cx, S)
  <2>1. ASSUME NEW k \in DOMAIN is PROVE Find(is[k]) \in Within(cx, S)
    <3>1. Opens(cx.tree, S, is[k].module)
      BY <1>2, NameOpens, Zenon
    <3> QED
      BY <3>1, ByModuleInside, Zenon
  <2> QED
    BY <2>1, Zenon
<1>5. local \in Within(cx, S)
  BY NamedInInside DEF IsInside
<1> HIDE DEF x, Find, is, local
<1>6. None \in Within(cx, S)
  BY DEF Within
<1> QED
  BY <1>1, <1>3, <1>4, <1>5, <1>6

LEMMA MethodByModuleInside ==
  ASSUME NEW cx, NEW S, Scoped(cx, S), NEW module, Opens(cx.tree, S, module), NEW type, NEW name, NEW file
  PROVE  MethodByModule(cx, module, type, name, file) \in Within(cx, S)
<1> DEFINE ps == Places(module, type, file, cx.reExports)
           Find(p) == MethodOf(cx, p.file, p.name, name)
           I == {i \in 1 .. Len(ps) : Find(ps[i]) # None}
           x == FirstAt(ps, I)
<1>1. MethodByModule(cx, module, type, name, file) = IF x = None THEN None ELSE Find(x)
  <2>1. FirstWith(ps, LAMBDA p : Find(p) # None) = x
    BY Zenon DEF FirstWith, SelectInSeq, FirstAt
  <2> QED
    BY <2>1, Zenon DEF MethodByModule, FirstHit
<1>2. x = None \/ \E i \in DOMAIN ps : x = ps[i]
  BY PlacesInside, AtFirst
<1>3. \A i \in DOMAIN ps : Find(ps[i]) \in Within(cx, S)
  BY PlacesInside, MethodOfInside
<1> HIDE DEF x, Find, ps
<1>4. None \in Within(cx, S)
  BY DEF Within
<1> QED
  BY <1>1, <1>2, <1>3, <1>4

LEMMA MethodByTypeInside ==
  ASSUME NEW cx, NEW S, Scoped(cx, S), NEW file \in S, NEW type, NEW name
  PROVE  MethodByType(cx, type, name, file) \in Within(cx, S)
<1> DEFINE is == FromImportsOf(cx, file, type)
           Find(i) == MethodByModule(cx, i.module, type, name, file)
           I == {k \in 1 .. Len(is) : Find(is[k]) # None}
           x == FirstAt(is, I)
           local == MethodOf(cx, file, type, name)
<1>1. MethodByType(cx, type, name, file) =
        IF local # None THEN local ELSE IF x = None THEN None ELSE Find(x)
  <2>1. FirstWith(is, LAMBDA i : Find(i) # None) = x
    BY Zenon DEF FirstWith, SelectInSeq, FirstAt
  <2> QED
    BY <2>1, Zenon DEF MethodByType, FirstHit
<1>2. IsList(is) /\ \A k \in DOMAIN is : Tells(cx, file, type, is[k])
  BY NamesFacts DEF Scoped
<1>3. x = None \/ \E k \in DOMAIN is : x = is[k]
  BY <1>2, AtFirst
<1>4. \A k \in DOMAIN is : Find(is[k]) \in Within(cx, S)
  <2>1. ASSUME NEW k \in DOMAIN is PROVE Find(is[k]) \in Within(cx, S)
    <3>1. Opens(cx.tree, S, is[k].module)
      BY <1>2, NameOpens, Zenon
    <3> QED
      BY <3>1, MethodByModuleInside, Zenon
  <2> QED
    BY <2>1, Zenon
<1>5. local \in Within(cx, S)
  BY MethodOfInside DEF IsInside
<1> HIDE DEF x, Find, is, local
<1>6. None \in Within(cx, S)
  BY DEF Within
<1> QED
  BY <1>1, <1>3, <1>4, <1>5, <1>6

LEMMA OfTypeInside ==
  ASSUME NEW cx, NEW S, Scoped(cx, S), NEW file \in S, NEW type, NEW name
  PROVE  OfType(cx, type, name, file) \in Within(cx, S)
<1>1. None \in Within(cx, S)
  BY DEF Within
<1> QED
  BY <1>1, MethodByTypeInside, Zenon DEF OfType

-----------------------------------------------------------------------------
LEMMA SingletonByModuleInside ==
  ASSUME NEW cx, NEW S, Scoped(cx, S), NEW module, Opens(cx.tree, S, module), NEW var, NEW file
  PROVE  LET bound == SingletonByModule(cx, module, var, file)
         IN  bound = None \/ IsInside(cx, S, bound.file)
<1> DEFINE ps == Places(module, var, file, cx.reExports)
           Find(p) == BoundAt(cx, p)
           I == {i \in 1 .. Len(ps) : Find(ps[i]) # None}
           x == FirstAt(ps, I)
<1>1. SingletonByModule(cx, module, var, file) = IF x = None THEN None ELSE Find(x)
  <2>1. FirstWith(ps, LAMBDA p : Find(p) # None) = x
    BY Zenon DEF FirstWith, SelectInSeq, FirstAt
  <2> QED
    BY <2>1, Zenon DEF SingletonByModule, FirstHit
<1>2. x = None \/ \E i \in DOMAIN ps : x = ps[i]
  BY PlacesInside, AtFirst
<1>3. \A i \in DOMAIN ps : IsInside(cx, S, ps[i].file)
  BY PlacesInside
<1>4. \A p : Find(p) = None \/ Find(p).file = p.file
  BY DEF BoundAt
<1> HIDE DEF x, Find, ps
<1> QED
  BY <1>1, <1>2, <1>3, <1>4

LEMMA SingletonInside ==
  ASSUME NEW cx, NEW S, Scoped(cx, S), NEW file \in S, NEW var
  PROVE  LET bound == ImportedSingleton(cx, var, file)
         IN  bound = None \/ IsInside(cx, S, bound.file)
<1> DEFINE is == FromImportsOf(cx, file, var)
           Find(i) == SingletonByModule(cx, i.module, var, file)
           I == {k \in 1 .. Len(is) : Find(is[k]) # None}
           x == FirstAt(is, I)
<1>1. ImportedSingleton(cx, var, file) = IF x = None THEN None ELSE Find(x)
  <2>1. FirstWith(is, LAMBDA i : Find(i) # None) = x
    BY Zenon DEF FirstWith, SelectInSeq, FirstAt
  <2> QED
    BY <2>1, Zenon DEF ImportedSingleton, FirstHit
<1>2. IsList(is) /\ \A k \in DOMAIN is : Tells(cx, file, var, is[k])
  BY NamesFacts DEF Scoped
<1>3. x = None \/ \E k \in DOMAIN is : x = is[k]
  BY <1>2, AtFirst
<1>4. \A k \in DOMAIN is : Find(is[k]) = None \/ IsInside(cx, S, Find(is[k]).file)
  <2>1. ASSUME NEW k \in DOMAIN is PROVE Find(is[k]) = None \/ IsInside(cx, S, Find(is[k]).file)
    <3>1. Opens(cx.tree, S, is[k].module)
      BY <1>2, NameOpens, Zenon
    <3> QED
      BY <3>1, SingletonByModuleInside, Zenon
  <2> QED
    BY <2>1, Zenon
<1> HIDE DEF x, Find, is
<1> QED
  BY <1>1, <1>3, <1>4

(* The ways of a receiver.                                                 *)
LEMMA BareImportOf ==
  ASSUME NEW cx, IsList(cx.tree), NEW file, NEW m \in BareImports(cx, file)
  PROVE  \E x \in OfModules(cx, file) : x.alias = None /\ m = x.module
<1>1. PICK x \in ToSet(ModuleImports(cx, file)) : x.alias = None /\ m = x.module
  BY DEF BareImports
<1>2. ToSet(ModuleImports(cx, file)) \subseteq OfModules(cx, file)
  BY ModulesFacts, ListIfSeq
<1> QED
  BY <1>1, <1>2, Zenon

LEMMA HeadOfPrefix ==
  ASSUME NEW s, IsList(s), s # <<>>, NEW t, IsList(t), IsPrefix(s, t)
  PROVE  IsPrefix(<<s[1]>>, t)
<1> DEFINE T == ToSet(s) \cup ToSet(t)
<1>1. s \in Seq(T) /\ t \in Seq(T)
  BY LongerSeq DEF IsList
<1> HIDE DEF T
<1>2. Len(s) <= Len(t) /\ SubSeq(s, 1, Len(s)) = SubSeq(t, 1, Len(s))
  BY Zenon DEF IsPrefix
<1>3. SubSeq(s, 1, Len(s))[1] = s[1] /\ SubSeq(t, 1, Len(s))[1] = t[1]
  BY <1>1, <1>2
<1>4. s[1] = t[1] /\ t # <<>> /\ t \o <<>> = t
  BY <1>1, <1>2, <1>3
<1>5. IsList(<<>>)
  <2>1. \A e : e = <<>> => e \in Seq({})
    OBVIOUS
  <2>2. \A e : e = <<>> => IsList(e)
    BY <2>1, ListIfSeq, Zenon
  <2> QED
    BY <2>2
<1>6. IsPrefix(<<t[1]>>, t \o <<>>)
  BY <1>4, <1>5, PrefixOfJoin, Zenon
<1> QED
  BY <1>4, <1>6, Zenon

LEMMA BareInside ==
  ASSUME NEW cx, NEW S, Scoped(cx, S), NEW call, call.file \in S, IsList(call.receiver)
  PROVE  ThroughBareImport(cx, call) \in Within(cx, S)
<1>1. ASSUME NEW m \in BareImports(cx, call.file), IsPrefix(m, call.receiver)
      PROVE  Opens(cx.tree, S, call.receiver)
  <2>1. PICK x \in OfModules(cx, call.file) : x.alias = None /\ m = x.module
    BY BareImportOf DEF Scoped
  <2>2. IsList(m) /\ m # <<>> /\ \A r : IsPrefix(<<m[1]>>, r) => Opens(cx.tree, S, r)
    BY <2>1, ModuleOpens, Zenon
  <2>3. IsPrefix(<<m[1]>>, call.receiver)
    BY <1>1, <2>2, HeadOfPrefix, Zenon
  <2> QED
    BY <2>2, <2>3, Zenon
<1>2. None \in Within(cx, S)
  BY DEF Within
<1> QED
  BY <1>1, <1>2, ByModuleInside, Zenon DEF ThroughBareImport

LEMMA SubmoduleInside ==
  ASSUME NEW cx, NEW S, Scoped(cx, S), NEW call, call.file \in S,
         IsList(call.receiver), call.receiver # <<>>
  PROVE  ThroughSubmodule(cx, call) \in Within(cx, S)
<1> DEFINE file == call.file
           name == call.receiver[1]
           is == FromImportsOf(cx, file, name)
           Find(i) == Submodule(cx, i.module, call)
           I == {k \in 1 .. Len(is) : Find(is[k]) # None}
           x == FirstAt(is, I)
<1>1. ThroughSubmodule(cx, call) = IF x = None THEN None ELSE Find(x)
  <2>1. FirstWith(is, LAMBDA i : Find(i) # None) = x
    BY Zenon DEF FirstWith, SelectInSeq, FirstAt
  <2> QED
    BY <2>1, Zenon DEF ThroughSubmodule, FirstHit
<1>2. IsList(is) /\ \A k \in DOMAIN is : Tells(cx, file, name, is[k])
  BY NamesFacts DEF Scoped
<1>3. x = None \/ \E k \in DOMAIN is : x = is[k]
  BY <1>2, AtFirst
<1>4. \A k \in DOMAIN is : Find(is[k]) \in Within(cx, S)
  <2>1. ASSUME NEW k \in DOMAIN is PROVE Find(is[k]) \in Within(cx, S)
    <3>1. Opens(cx.tree, S, is[k].module \o call.receiver)
      BY <1>2, NameOpens, Zenon
    <3>2. is[k].module = <<>> => is[k].module \o call.receiver = call.receiver
      BY DEF IsList
    <3>3. is[k].module = <<>> => Directly(cx, call.receiver, call.method, file) \in Within(cx, S)
      BY <3>1, <3>2, DirectlyInside
    <3>4. is[k].module # <<>> => ByModule(cx, is[k].module \o call.receiver, call.method, file) \in Within(cx, S)
      BY <3>1, ByModuleInside, Zenon
    <3> QED
      BY <3>3, <3>4, Zenon DEF Submodule
  <2> QED
    BY <2>1, Zenon
<1> HIDE DEF x, Find, is
<1>5. None \in Within(cx, S)
  BY DEF Within
<1> QED
  BY <1>1, <1>3, <1>4, <1>5

LEMMA ThroughSingletonInside ==
  ASSUME NEW cx, NEW S, Scoped(cx, S), NEW call, call.file \in S
  PROVE  ThroughSingleton(cx, call) \in Within(cx, S)
<1> DEFINE bound == ImportedSingleton(cx, call.receiver[1], call.file)
<1>1. bound = None \/ IsInside(cx, S, bound.file)
  BY SingletonInside
<1> HIDE DEF bound
<1>2. IsInside(cx, S, bound.file) => MethodOf(cx, bound.file, bound.type, call.method) \in Within(cx, S)
  BY MethodOfInside
<1>3. MethodByType(cx, bound.type, call.method, call.file) \in Within(cx, S)
  BY MethodByTypeInside
<1>4. None \in Within(cx, S)
  BY DEF Within
<1> QED
  BY <1>1, <1>2, <1>3, <1>4, Zenon DEF ThroughSingleton, bound

(* What an alias leads to, and whatever comes after it.                    *)
LEMMA AliasInside ==
  ASSUME NEW cx, NEW S, Scoped(cx, S), NEW file \in S, NEW r, IsList(r), r # <<>>,
         AliasedModule(cx, file, r[1]) # None
  PROVE  Opens(cx.tree, S, AliasedModule(cx, file, r[1]) \o Tail(r))
<1> DEFINE head == r[1]
           fs == ModuleImports(cx, file)
           I == {i \in 1 .. Len(fs) : fs[i].alias = head}
           x == LastAt(fs, I)
           bare == \E m \in BareImports(cx, file) : m[1] = head
<1>1. AliasedModule(cx, file, head) = IF x # None THEN x.module ELSE IF bare THEN <<head>> ELSE None
  BY Zenon DEF AliasedModule, LastWith, SelectLastInSeq, LastAt
<1>2. IsList(fs) /\ ToSet(fs) \subseteq OfModules(cx, file)
  BY ModulesFacts, ListIfSeq DEF Scoped
<1>3. IsList(Tail(r))
  <2>1. \A T : r \in Seq(T) /\ r # <<>> => Tail(r) \in Seq(T)
    OBVIOUS
  <2>2. Tail(r) \in Seq(ToSet(r))
    BY <2>1, Zenon DEF IsList
  <2> QED
    BY <2>2, ListIfSeq, Zenon
<1>4. ASSUME x # None PROVE Opens(cx.tree, S, x.module \o Tail(r))
  <2>1. \E i \in I : i \in DOMAIN fs /\ x = fs[i]
    BY <1>2, <1>4, AtLast
  <2>2. x \in OfModules(cx, file)
    BY <1>2, <2>1 DEF ToSet
  <2> QED
    BY <1>3, <2>2, ModuleOpens, Zenon
<1>5. ASSUME bare PROVE Opens(cx.tree, S, <<head>> \o Tail(r))
  <2>1. PICK m \in BareImports(cx, file) : m[1] = head
    BY <1>5
  <2>2. PICK y \in OfModules(cx, file) : y.alias = None /\ m = y.module
    BY BareImportOf DEF Scoped
  <2>3. \A t : IsPrefix(<<head>>, t) => Opens(cx.tree, S, t)
    BY <2>1, <2>2, ModuleOpens, Zenon
  <2>4. IsList(<<head>>)
    <3>1. \A e : <<e>> \in Seq({e})
      OBVIOUS
    <3>2. \A u, T : u \in Seq(T) => IsList(u)
      BY ListIfSeq
    <3> QED
      BY <3>1, <3>2
  <2>5. IsPrefix(<<head>>, <<head>> \o Tail(r))
    BY <1>3, <2>4, PrefixOfJoin, Zenon
  <2> QED
    BY <2>3, <2>5, Zenon
<1> HIDE DEF x, bare
<1> QED
  BY <1>1, <1>4, <1>5, Zenon DEF head

-----------------------------------------------------------------------------
LEMMA ReceiverInside ==
  ASSUME NEW cx, NEW S, Scoped(cx, S), NEW call, call.file \in S,
         IsList(call.receiver), call.receiver # <<>>, NEW caller
  PROVE  ThroughReceiver(cx, call, caller) \in Within(cx, S)
<1> DEFINE T == Within(cx, S)
           head == call.receiver[1]
           module == AliasedModule(cx, call.file, head)
<1>1. None \in T
  BY DEF Within
<1> HIDE DEF T
<1>2. \A type : OfType(cx, type, call.method, call.file) \in T
  BY OfTypeInside DEF T
<1>3. ThroughAttribute(cx, call, caller) \in T
  BY <1>1, <1>2, Zenon DEF ThroughAttribute
<1>4. ThroughBareImport(cx, call) \in T
  BY BareInside DEF T
<1>5. ThroughSubmodule(cx, call) \in T
  BY SubmoduleInside DEF T
<1>6. ThroughSingleton(cx, call) \in T
  BY ThroughSingletonInside DEF T
<1>7. ASSUME module # None PROVE ByModule(cx, module \o Tail(call.receiver), call.method, call.file) \in T
  <2>1. Opens(cx.tree, S, module \o Tail(call.receiver))
    BY <1>7, AliasInside, Zenon
  <2> QED
    BY <2>1, ByModuleInside, Zenon DEF T
<1>8. ASSUME NEW x \in T, NEW y \in T
      PROVE  FirstHit(<<x, y>>, LAMBDA id : id) \in T
  <2>1. <<x, y>> \in Seq(T)
    OBVIOUS
  <2> QED
    BY <1>1, <2>1, FirstOfTargets, Zenon
<1>9. ASSUME NEW w \in T, NEW x \in T, NEW y \in T, NEW z \in T
      PROVE  FirstHit(<<w, x, y, z>>, LAMBDA id : id) \in T
  <2>1. <<w, x, y, z>> \in Seq(T)
    OBVIOUS
  <2> QED
    BY <1>1, <2>1, FirstOfTargets, Zenon
<1>10. FirstHit(<<ThroughAttribute(cx, call, caller), ThroughBareImport(cx, call)>>, LAMBDA id : id) \in T
  BY <1>3, <1>4, <1>8, Zenon
<1>11. FirstHit(<<ThroughSubmodule(cx, call),
                  OfType(cx, ParamType(cx, caller, head), call.method, call.file),
                  OfType(cx, ModuleVarType(cx, call.file, head), call.method, call.file),
                  ThroughSingleton(cx, call)>>, LAMBDA id : id) \in T
  BY <1>2, <1>5, <1>6, <1>9, Zenon
<1>12. ThroughReceiver(cx, call, caller) \in T
  BY <1>7, <1>10, <1>11, Zenon DEF ThroughReceiver
<1> QED
  BY <1>12 DEF T

(* A call is bound to an artifact that the caller's file may name.         *)
LEMMA CallTargetInside ==
  ASSUME NEW cx, NEW S, Scoped(cx, S), NEW call, call.file \in S, IsList(call.receiver),
         NEW caller, caller.file = call.file
  PROVE  CallTarget(cx, call, caller) \in Within(cx, S)
<1>1. CASE call.receiver = <<>>
  <2>1. NamedTarget(cx, call.method, call.file) \in Within(cx, S)
    BY NamedTargetInside
  <2>2. call.receiver \notin {<<"self">>, <<"cls">>}
    BY <1>1
  <2> QED
    BY <1>1, <2>1, <2>2, Zenon DEF CallTarget
<1>2. CASE call.receiver # <<>> /\ call.receiver \in {<<"self">>, <<"cls">>} /\ caller.type = "method"
  <2>1. MethodOf(cx, caller.file, ClassOf(caller), call.method) \in Within(cx, S)
    BY MethodOfInside DEF IsInside
  <2> QED
    BY <1>2, <2>1, Zenon DEF CallTarget
<1>3. CASE call.receiver # <<>> /\ ~(call.receiver \in {<<"self">>, <<"cls">>} /\ caller.type = "method")
  <2>1. ThroughReceiver(cx, call, caller) \in Within(cx, S)
    BY <1>3, ReceiverInside
  <2> QED
    BY <1>3, <2>1, Zenon DEF CallTarget
<1> QED
  BY <1>1, <1>2, <1>3, Zenon

LEMMA InjectedInside ==
  ASSUME NEW cx, NEW S, Scoped(cx, S), NEW call, call.file \in S
  PROVE  Injected(cx, call) \in Within(cx, S)
<1>1. None \in Within(cx, S)
  BY DEF Within
<1> QED
  BY <1>1, NamedTargetInside, Zenon DEF Injected

(* An alias that stands for a dependency is in a file of the tree.         *)
LEMMA AliasesAreHere ==
  ASSUME NEW cx, IsList(cx.tree), NEW file, NEW alias, AliasDependencies(cx, file, alias) # {}
  PROVE  file \in FilesOf(cx.tree)
<1> DEFINE calls == InFile(Where(cx.tree, "call"), file)
<1>1. DOMAIN calls # {} /\ IsList(calls)
  <2>1. calls \in Seq({x \in OfKind(cx.tree, "call") : x.file = file})
    BY OfOneKind, OfFile
  <2>2. IsList(calls)
    BY <2>1, ListIfSeq
  <2> DEFINE TargetAt(line) == LastWith(ModuleAssignments(cx, file), LAMBDA a : a.line = line)
             Of(call) == /\ NamesDependency(call)
                         /\ LET a == TargetAt(call.line)
                            IN  IF a = None THEN FALSE ELSE a.target = alias
             at == {i \in DOMAIN calls : Of(calls[i])}
  <2>3. AliasDependencies(cx, file, alias) = {call.args[1].value[1] : call \in ToSet(Picked(calls, at))}
    BY Zenon DEF AliasDependencies, Keep
  <2>4. ToSet(Picked(calls, at)) # {}
    BY <2>3
  <2>5. Picked(calls, at) \in Seq({calls[i] : i \in at \cap DOMAIN calls})
    BY <2>2, PickedFacts
  <2>6. ToSet(Picked(calls, at)) \subseteq {calls[i] : i \in at \cap DOMAIN calls}
    BY <2>5, ListIfSeq
  <2> HIDE DEF at, calls
  <2> QED
    BY <2>2, <2>4, <2>6
<1>2. ToSet(calls) \subseteq {x \in OfKind(cx.tree, "call") : x.file = file}
  <2>1. calls \in Seq({x \in OfKind(cx.tree, "call") : x.file = file})
    BY OfOneKind, OfFile
  <2> HIDE DEF calls
  <2> QED
    BY <2>1, ListIfSeq
<1> HIDE DEF calls
<1>3. PICK x \in OfKind(cx.tree, "call") : x.file = file
  BY <1>1, <1>2 DEF ToSet
<1> QED
  BY <1>3 DEF OfKind, FilesOf

LEMMA AliasByModuleInside ==
  ASSUME NEW cx, NEW S, Scoped(cx, S), NEW module, Opens(cx.tree, S, module), NEW type, NEW file
  PROVE  LET source == AliasByModule(cx, module, type, file)
         IN  source = None \/ IsInside(cx, S, source.file)
<1> DEFINE ps == Places(module, type, file, cx.reExports)
           I == {i \in 1 .. Len(ps) : AliasDependencies(cx, ps[i].file, ps[i].name) # {}}
           x == FirstAt(ps, I)
<1>1. AliasByModule(cx, module, type, file) = x
  BY Zenon DEF AliasByModule, FirstWith, SelectInSeq, FirstAt
<1>2. x = None \/ \E i \in DOMAIN ps : x = ps[i]
  BY PlacesInside, AtFirst
<1>3. \A i \in DOMAIN ps : IsInside(cx, S, ps[i].file)
  BY PlacesInside
<1> HIDE DEF x, ps
<1> QED
  BY <1>1, <1>2, <1>3

LEMMA AliasSourceInside ==
  ASSUME NEW cx, NEW S, Scoped(cx, S), NEW type, NEW file \in S
  PROVE  LET source == AliasSource(cx, type, file)
         IN  source = None \/ IsInside(cx, S, source.file)
<1> DEFINE is == FromImportsOf(cx, file, type)
           Find(i) == AliasByModule(cx, i.module, type, file)
           I == {k \in 1 .. Len(is) : Find(is[k]) # None}
           x == FirstAt(is, I)
<1>1. AliasSource(cx, type, file) =
         IF AliasDependencies(cx, file, type) # {} THEN [file |-> file, name |-> type]
         ELSE IF x = None THEN None ELSE Find(x)
  <2>1. FirstWith(is, LAMBDA i : Find(i) # None) = x
    BY Zenon DEF FirstWith, SelectInSeq, FirstAt
  <2> QED
    BY <2>1, Zenon DEF AliasSource, FirstHit
<1>2. IsList(is) /\ \A k \in DOMAIN is : Tells(cx, file, type, is[k])
  BY NamesFacts DEF Scoped
<1>3. x = None \/ \E k \in DOMAIN is : x = is[k]
  BY <1>2, AtFirst
<1>4. \A k \in DOMAIN is : Find(is[k]) = None \/ IsInside(cx, S, Find(is[k]).file)
  <2>1. ASSUME NEW k \in DOMAIN is PROVE Find(is[k]) = None \/ IsInside(cx, S, Find(is[k]).file)
    <3>1. Opens(cx.tree, S, is[k].module)
      BY <1>2, NameOpens, Zenon
    <3> QED
      BY <3>1, AliasByModuleInside, Zenon
  <2> QED
    BY <2>1, Zenon
<1> HIDE DEF x, Find, is
<1>5. IsInside(cx, S, [file |-> file, name |-> type].file)
  BY DEF IsInside
<1> QED
  BY <1>1, <1>3, <1>4, <1>5

LEMMA AnnotatedInside ==
  ASSUME NEW cx, NEW S, Scoped(cx, S), NEW a, a.file \in S
  PROVE  AnnotatedTargets(cx, a) \subseteq Within(cx, S)
<1> DEFINE Found(type) ==
             LET source == AliasSource(cx, type, a.file)
             IN  IF source = None THEN {}
                 ELSE {NamedTarget(cx, dep, source.file) :
                          dep \in AliasDependencies(cx, source.file, source.name)}
<1>1. AnnotatedTargets(cx, a) = UNION {Found(type) : type \in ParamTypes(cx, a)}
  BY Zenon DEF AnnotatedTargets
<1>2. ASSUME NEW type, NEW t \in Found(type) PROVE t \in Within(cx, S)
  <2> DEFINE source == AliasSource(cx, type, a.file)
  <2>1. source = None \/ IsInside(cx, S, source.file)
    BY AliasSourceInside, Zenon
  <2> HIDE DEF source
  <2>2. t \in (IF source = None THEN {}
               ELSE {NamedTarget(cx, dep, source.file) :
                        dep \in AliasDependencies(cx, source.file, source.name)})
    BY <1>2, Zenon DEF source
  <2>3. PICK dep \in AliasDependencies(cx, source.file, source.name) :
          source # None /\ t = NamedTarget(cx, dep, source.file)
    BY <2>2
  <2>4. source.file \in FilesOf(cx.tree)
    BY <2>3, AliasesAreHere DEF Scoped
  <2>5. source.file \in S
    BY <2>1, <2>3, <2>4, Zenon DEF IsInside
  <2> QED
    BY <2>3, <2>5, NamedTargetInside, Zenon
<1> HIDE DEF Found
<1> QED
  BY <1>1, <1>2

-----------------------------------------------------------------------------
(* As many hops as there are files reach whatever a file may name, over    *)
(* however many imports.                                                   *)
Hop(t, X) == {g \in FilesOf(t) : \E h \in X : InScope(t, h, g)}

LEMMA FilesAreFinite ==
  ASSUME NEW t, IsList(t)
  PROVE  IsFiniteSet(FilesOf(t))
<1>1. Len(t) \in Nat /\ DOMAIN t = 1 .. Len(t)
  BY ListFacts
<1>2. IsFiniteSet(DOMAIN t)
  BY <1>1, FS_Interval
<1> DEFINE f == [i \in DOMAIN t |-> t[i].file]
<1>3. f \in Surjection(DOMAIN t, FilesOf(t))
  BY DEF FilesOf, Surjection
<1> QED
  BY <1>2, <1>3, FS_Surjection

LEMMA HopFacts ==
  ASSUME NEW t, IsList(t), NEW X, X \subseteq FilesOf(t)
  PROVE  /\ X \subseteq Hop(t, X) /\ Hop(t, X) \subseteq FilesOf(t)
         /\ IsFiniteSet(X) /\ Cardinality(X) \in Nat /\ Cardinality(X) <= Cardinality(FilesOf(t))
         /\ Contained(t, X) => Hop(t, X) = X
         /\ ~Contained(t, X) => Cardinality(Hop(t, X)) > Cardinality(X)
<1>1. X \subseteq Hop(t, X) /\ Hop(t, X) \subseteq FilesOf(t)
  BY DEF Hop, InScope
<1>2. IsFiniteSet(FilesOf(t))
  BY FilesAreFinite
<1>3. \A Y \in SUBSET FilesOf(t) :
        IsFiniteSet(Y) /\ Cardinality(Y) \in Nat /\ Cardinality(Y) <= Cardinality(FilesOf(t))
  BY <1>2, FS_Subset, FS_CardinalityType
<1>4. ASSUME Contained(t, X) PROVE Hop(t, X) = X
  BY <1>1, <1>4 DEF Hop, Contained
<1>5. ASSUME ~Contained(t, X) PROVE Cardinality(Hop(t, X)) > Cardinality(X)
  <2>1. X # Hop(t, X)
    BY <1>5 DEF Hop, Contained
  <2>2. IsFiniteSet(Hop(t, X)) /\ Cardinality(Hop(t, X)) \in Nat /\ Cardinality(X) \in Nat
    BY <1>1, <1>3
  <2>3. Cardinality(X) <= Cardinality(Hop(t, X)) /\ Cardinality(X) # Cardinality(Hop(t, X))
    BY <1>1, <2>1, <2>2, FS_Subset
  <2> QED
    BY <2>2, <2>3
<1> QED
  BY <1>1, <1>3, <1>4, <1>5

LEMMA ReachFacts ==
  ASSUME NEW t, IsList(t), NEW f \in FilesOf(t)
  PROVE  f \in Reach(t, f) /\ Contained(t, Reach(t, f))
<1> DEFINE N == Cardinality(FilesOf(t))
           V == SUBSET FilesOf(t)
           H == [p \in V \X (1 .. N) |-> Hop(t, p[1])]
           Solves(r) == r = [n \in 0 .. N |-> IF n = 0 THEN {f} ELSE Hop(t, r[n - 1])]
           g == CHOOSE r : Solves(r)
<1>1. N \in Nat
  BY FilesAreFinite, FS_CardinalityType
<1>2. Reach(t, f) = g[N]
  BY Zenon DEF Reach, Hop, FilesOf
<1>3. \A X \in V : /\ Hop(t, X) \in V /\ X \subseteq Hop(t, X)
                   /\ Cardinality(X) \in Nat /\ Cardinality(X) <= N
                   /\ Contained(t, X) => Hop(t, X) = X
                   /\ ~Contained(t, X) => Cardinality(Hop(t, X)) > Cardinality(X)
  BY HopFacts
<1>4. {f} \in V /\ f \in {f} /\ Cardinality({f}) = 1
  BY FS_Singleton
<1> HIDE DEF N, V
<1>5. Steps(H, N, V)
  BY <1>3 DEF Steps
<1>6. \A x \in V, n \in 1 .. N : H[<<x, n>>] = Hop(t, x)
  OBVIOUS
<1> HIDE DEF H
<1>7. PICK r : r \in [0 .. N -> V] /\ r[0] = {f} /\ \A n \in 1 .. N : r[n] = H[<<r[n - 1], n>>]
  <2>1. \E r : Iterates(r, N, V, {f}, H)
    BY <1>1, <1>4, <1>5, Recursion, Zenon
  <2> QED
    BY <2>1, Zenon DEF Iterates
<1>8. Solves(r)
  <2>1. \A n \in 0 .. N : n # 0 => n \in 1 .. N /\ n - 1 \in 0 .. N
    BY <1>1
  <2>2. ASSUME NEW n \in 1 .. N PROVE r[n] = Hop(t, r[n - 1])
    <3>1. n - 1 \in 0 .. N
      BY <1>1
    <3>2. r[n - 1] \in V
      BY <1>7, <3>1
    <3> QED
      BY <1>6, <1>7, <3>2, Zenon
  <2> QED
    BY <1>7, <2>1, <2>2
<1>9. Solves(g)
  BY <1>8, Zenon
<1> HIDE DEF g
<1>10. g[0] = {f} /\ \A n \in 1 .. N : g[n] = Hop(t, g[n - 1])
  <2>1. \A n \in 0 .. N : g[n] = IF n = 0 THEN {f} ELSE Hop(t, g[n - 1])
    BY <1>9
  <2>2. 0 \in 0 .. N /\ \A n \in 1 .. N : n \in 0 .. N /\ n # 0
    BY <1>1
  <2> QED
    BY <2>1, <2>2, Zenon
<1> HIDE DEF Solves
<1> DEFINE K == {n \in 0 .. N : /\ g[n] \in V /\ f \in g[n]
                                /\ Contained(t, g[n]) \/ Cardinality(g[n]) >= n + 1}
<1>11. 0 \in K
  BY <1>1, <1>4, <1>10
<1>12. ASSUME NEW n \in 1 .. N, n - 1 \in K PROVE n \in K
  <2> DEFINE X == g[n - 1]
  <2>1. n \in 0 .. N /\ n \in Nat /\ X \in V /\ f \in X /\ (Contained(t, X) \/ Cardinality(X) >= n)
    BY <1>1, <1>12
  <2>2. g[n] = Hop(t, X)
    BY <1>10
  <2> HIDE DEF X
  <2>3. Hop(t, X) \in V /\ f \in Hop(t, X)
    BY <1>3, <2>1
  <2>4. Cardinality(X) \in Nat /\ Cardinality(Hop(t, X)) \in Nat
    BY <1>3, <2>1, <2>3
  <2>5. Contained(t, Hop(t, X)) \/ Cardinality(Hop(t, X)) >= n + 1
    <3>1. CASE Contained(t, X)
      BY <1>3, <2>1, <3>1
    <3>2. CASE ~Contained(t, X)
      BY <1>3, <2>1, <2>4, <3>2
    <3> QED
      BY <3>1, <3>2, Zenon
  <2> QED
    BY <2>1, <2>2, <2>3, <2>5
<1> HIDE DEF K
<1>13. 0 .. N \subseteq K
  BY <1>1, <1>11, <1>12, UpTo
<1>14. g[N] \in V /\ f \in g[N] /\ (Contained(t, g[N]) \/ Cardinality(g[N]) >= N + 1)
  BY <1>1, <1>13 DEF K
<1>15. ~(Cardinality(g[N]) >= N + 1)
  BY <1>1, <1>3, <1>14
<1> QED
  BY <1>2, <1>14, <1>15, Zenon

-----------------------------------------------------------------------------
(* The context of the call resolver.                                       *)
LEMMA LocatedFacts ==
  ASSUME NEW t \in Seq(Facts), NEW dir
  PROVE  /\ IsList(Located(t, dir)) /\ WellRead(Located(t, dir))
         /\ \A j \in DOMAIN t : RelTo(t[j].file, dir) \in FilesOf(Located(t, dir))
<1> DEFINE u == [i \in DOMAIN t |-> [t[i] EXCEPT !.file = RelTo(t[i].file, dir)]]
<1>1. Located(t, dir) = u
  BY Zenon DEF Located, MapSeq
<1>2. IsList(t) /\ \A i \in DOMAIN t : t[i] \in Facts
  BY ListIfSeq DEF ToSet
<1>3. IsList(u) /\ DOMAIN u = DOMAIN t
  <2>1. u = [i \in DOMAIN t |-> u[i]]
    OBVIOUS
  <2> HIDE DEF u
  <2> QED
    BY <1>2, <2>1, Mapped
<1>4. ASSUME NEW i \in DOMAIN t
      PROVE  /\ u[i].file = RelTo(t[i].file, dir)
             /\ u[i].kind = "import" =>
                   IsList(u[i].module) /\ IsList(u[i].names)
             /\ u[i].kind = "call" => IsList(u[i].receiver)
  <2> DEFINE f == t[i]
             path == RelTo(f.file, dir)
  <2>1. u[i] = [f EXCEPT !.file = path]
    OBVIOUS
  <2>2. /\ {"kind", "file"} \subseteq DOMAIN f
        /\ f.kind = "import" =>
              /\ {"module", "names"} \subseteq DOMAIN f
              /\ IsList(f.module) /\ IsList(f.names)
        /\ f.kind = "call" => "receiver" \in DOMAIN f /\ IsList(f.receiver)
    BY <1>2, FactsOK
  <2> HIDE DEF u, f, path
  <2>3. u[i].file = path /\ u[i].kind = f.kind
    BY <2>1, <2>2
  <2>4. f.kind = "import" => u[i].module = f.module /\ u[i].names = f.names
    BY <2>1, <2>2
  <2>5. f.kind = "call" => u[i].receiver = f.receiver
    BY <2>1, <2>2
  <2> QED
    BY <2>2, <2>3, <2>4, <2>5, Zenon DEF f, path
<1> HIDE DEF u
<1>5. WellRead(u)
  BY <1>3, <1>4, Zenon DEF WellRead
<1>6. \A j \in DOMAIN t : RelTo(t[j].file, dir) \in FilesOf(u)
  BY <1>3, <1>4 DEF FilesOf
<1> QED
  BY <1>1, <1>3, <1>5, <1>6, Zenon

(* Each edge of a context leads from an artifact to one in reach of it.    *)
Sound(cx) ==
    /\ IsList(cx.tree) /\ WellRead(cx.tree) /\ cx.reExports = ReExports(cx.tree)
    /\ IsList(cx.artifacts)
    /\ \A i \in DOMAIN cx.artifacts : cx.artifacts[i].file \in FilesOf(cx.tree)

IsEdgeInside(cx, e) ==
    /\ e[2] # None
    /\ \E i \in DOMAIN cx.artifacts :
          /\ cx.artifacts[i].id = e[1]
          /\ e[2] \in Within(cx, Reach(cx.tree, cx.artifacts[i].file))

LEMMA CallEdgeInside ==
  ASSUME NEW cx, Sound(cx), NEW call \in OfKind(cx.tree, "call"), NEW e \in EdgeOfCall(cx, call)
  PROVE  IsEdgeInside(cx, e)
<1> DEFINE as == cx.artifacts
           caller == Enclosing(as, call.file, call.line)
           target == FirstHit(<<CallTarget(cx, call, caller), Injected(cx, call)>>, LAMBDA id : id)
           S == Reach(cx.tree, call.file)
<1>1. e \in (IF caller = None THEN {}
             ELSE IF target \in {None, caller.id} THEN {} ELSE {<<caller.id, target>>})
  BY Zenon DEF EdgeOfCall
<1>2. call.file \in FilesOf(cx.tree) /\ IsList(call.receiver)
  BY DEF OfKind, FilesOf, Sound, WellRead
<1>3. call.file \in S /\ Scoped(cx, S)
  <2>1. call.file \in S /\ Contained(cx.tree, S)
    BY <1>2, ReachFacts DEF Sound
  <2> HIDE DEF S
  <2> QED
    BY <2>1, Zenon DEF Sound, Scoped
<1>4. caller = None \/ \E i \in DOMAIN as : caller = as[i] /\ as[i].file = call.file
  <2> DEFINE Around(a) == a.file = call.file /\ a.first <= call.line /\ call.line <= a.last
             I == {i \in 1 .. Len(as) :
                       Around(as[i]) /\ \A b \in ToSet(as) : Around(b) => Span(as[i]) <= Span(b)}
  <2>1. caller = FirstAt(as, I)
    BY Zenon DEF Enclosing, FirstWith, SelectInSeq, FirstAt
  <2>2. FirstAt(as, I) = None \/ \E i \in I : i \in DOMAIN as /\ FirstAt(as, I) = as[i]
    BY AtFirstOf DEF Sound
  <2> QED
    BY <2>1, <2>2
<1> HIDE DEF caller, S
<1>5. caller # None /\ target # None /\ e[1] = caller.id /\ e[2] = target
  <2> HIDE DEF target
  <2> QED
    BY <1>1
<1>6. target \in Within(cx, S)
  <2>1. CallTarget(cx, call, caller) \in Within(cx, S)
    BY <1>2, <1>3, <1>4, <1>5, CallTargetInside
  <2>2. Injected(cx, call) \in Within(cx, S)
    BY <1>3, InjectedInside
  <2>3. None \in Within(cx, S)
    BY DEF Within
  <2>4. \A W : \A x, y \in W : <<x, y>> \in Seq(W)
    OBVIOUS
  <2>5. <<CallTarget(cx, call, caller), Injected(cx, call)>> \in Seq(Within(cx, S))
    BY <2>1, <2>2, <2>4, Zenon
  <2> QED
    BY <2>3, <2>5, FirstOfTargets, Zenon
<1> HIDE DEF target
<1> QED
  BY <1>4, <1>5, <1>6 DEF IsEdgeInside, S

LEMMA AliasEdgeInside ==
  ASSUME NEW cx, Sound(cx), NEW i \in DOMAIN cx.artifacts,
         NEW target \in AnnotatedTargets(cx, cx.artifacts[i]), target # None
  PROVE  IsEdgeInside(cx, <<cx.artifacts[i].id, target>>)
<1> DEFINE a == cx.artifacts[i]
           S == Reach(cx.tree, a.file)
<1>1. a.file \in FilesOf(cx.tree)
  BY DEF Sound
<1>2. a.file \in S /\ Scoped(cx, S)
  <2>1. a.file \in S /\ Contained(cx.tree, S)
    BY <1>1, ReachFacts DEF Sound
  <2> HIDE DEF S
  <2> QED
    BY <2>1, Zenon DEF Sound, Scoped
<1>3. target \in Within(cx, S)
  BY <1>2, AnnotatedInside
<1> HIDE DEF S
<1> QED
  BY <1>3 DEF IsEdgeInside, S

LEMMA EdgesInside ==
  ASSUME NEW cx, Sound(cx), NEW e \in CallEdges(cx)
  PROVE  IsEdgeInside(cx, e)
<1> DEFINE A == UNION {EdgeOfCall(cx, call) : call \in OfKind(cx.tree, "call")}
           B == UNION {{<<a.id, t>> : t \in AnnotatedTargets(cx, a) \ {None, a.id}} :
                       a \in {b \in ToSet(cx.artifacts) : b.type \in {"function", "method"}}}
<1>1. CallEdges(cx) = A \cup B
  BY Zenon DEF CallEdges
<1>2. e \in A => \E call \in OfKind(cx.tree, "call") : e \in EdgeOfCall(cx, call)
  OBVIOUS
<1>3. e \in B => \E a \in ToSet(cx.artifacts) :
                    \E t \in AnnotatedTargets(cx, a) \ {None, a.id} : e = <<a.id, t>>
  OBVIOUS
<1> HIDE DEF A, B
<1>4. CASE e \in A
  BY <1>2, <1>4, CallEdgeInside
<1>5. CASE e \in B
  <2>1. PICK a \in ToSet(cx.artifacts) : \E t \in AnnotatedTargets(cx, a) \ {None, a.id} : e = <<a.id, t>>
    BY <1>3, <1>5
  <2>2. PICK i \in DOMAIN cx.artifacts : a = cx.artifacts[i]
    BY DEF ToSet
  <2>3. PICK t \in AnnotatedTargets(cx, a) : t # None /\ e = <<a.id, t>>
    BY <2>1
  <2> QED
    BY <2>2, <2>3, AliasEdgeInside, Zenon
<1> QED
  BY <1>1, <1>4, <1>5

-----------------------------------------------------------------------------
(* What is declared under a repository calls nothing yet, and is of files  *)
(* of the tree by the paths that the call resolver knows them by.          *)
JustDeclared(t, dir, as) ==
    \A i \in DOMAIN as :
        as[i].calls = {} /\ \E j \in DOMAIN t : as[i].file = RelTo(t[j].file, dir)

LEMMA RebasedFile ==
  ASSUME NEW fact, NEW r, NEW dir, IsPrefix(dir, fact.file.path),
         NEW b, b = Rebase(ArtifactOf(fact, r), dir)
  PROVE  b.calls = {} /\ b.file = RelTo(fact.file, dir)
<1> DEFINE a == ArtifactOf(fact, r)
<1>1. /\ a.file = fact.file /\ a.calls = {}
      /\ DOMAIN a = {"id", "type", "name", "file", "first", "last", "calls", "reads", "writes"}
  BY DEF ArtifactOf, Artifact
<1> HIDE DEF a
<1>2. RelTo(fact.file, dir) = MakeRelative(a.file, dir)
  BY <1>1 DEF RelTo, MakeRelative
<1>3. PICK rel : rel = MakeRelative(a.file, dir)
  OBVIOUS
<1>4. CASE rel = a.file
  <2>1. b = a
    BY <1>3, <1>4, Zenon DEF Rebase, a
  <2> QED
    BY <1>1, <1>2, <1>3, <1>4, <2>1
<1>5. CASE rel # a.file
  <2>1. PICK id : id = IF a.id[1] = "proc" THEN a.id ELSE [a.id EXCEPT ![3] = rel]
    OBVIOUS
  <2>2. b = [a EXCEPT !.file = rel, !.id = id]
    BY <1>3, <1>5, <2>1 DEF Rebase, a
  <2>3. b.file = rel /\ b.calls = a.calls
    BY <1>1, <2>2
  <2> QED
    BY <1>1, <1>2, <1>3, <2>3
<1> QED
  BY <1>4, <1>5

LEMMA RebasedAtFirst ==
  ASSUME NEW dir, NEW t \in Seq(FactsUnder(dir))
  PROVE  JustDeclared(t, dir, Rebased(t, dir))
<1> DEFINE r == Last(dir)
           T == ToSet(t)
           W == {ArtifactOf(f, r) : f \in T}
           V == Seq(W)
           as == FunctionArtifacts(t, r)
           bs == Rebased(t, dir)
<1>1. IsList(t) /\ T \subseteq FactsUnder(dir)
  BY ListIfSeq, Zenon
<1>2. \A f \in T : IsPrefix(dir, f.file.path)
  <2> SUFFICES ASSUME NEW f \in T PROVE IsPrefix(dir, f.file.path)
    OBVIOUS
  <2>1. PICK file \in Walked(dir) : f \in ToSet(Content[file])
    BY <1>1, Zenon DEF FactsUnder
  <2>2. file \in DOMAIN Content /\ IsPrefix(dir, file.path)
    BY <2>1 DEF Walked
  <2> QED
    BY <2>1, <2>2, PathsOK, Zenon
<1>3. \A f \in T : \E j \in DOMAIN t : f = t[j]
  BY DEF ToSet
<1>4. <<>> \in V
  OBVIOUS
<1>5. \A f \in T : ArtifactOf(f, r) \in W
  OBVIOUS
<1>6. \A a \in W : \E f \in T : a = ArtifactOf(f, r)
  OBVIOUS
<1>7. t \in Seq(T)
  BY <1>1, Zenon DEF IsList
<1> HIDE DEF T, W, r
<1>8. ASSUME NEW found \in V, NEW f \in T PROVE DeclareNext(found, f, r) \in V
  BY <1>5 DEF DeclareNext
<1>9. as \in V
  <2> HIDE DEF V
  <2> QED
    BY <1>4, <1>7, <1>8, DeclaredIn, Zenon
<1> HIDE DEF as
<1>10. \A i \in DOMAIN as : as[i] \in W
  <2>1. IsList(as) /\ ToSet(as) \subseteq W
    BY <1>9, ListIfSeq, Zenon
  <2> QED
    BY <2>1 DEF ToSet
<1>11. bs = [i \in DOMAIN as |-> Rebase(as[i], dir)]
  BY Zenon DEF Rebased, MapSeq, as, r
<1> HIDE DEF bs, V
<1>12. ASSUME NEW i \in DOMAIN bs
       PROVE  bs[i].calls = {} /\ \E j \in DOMAIN t : bs[i].file = RelTo(t[j].file, dir)
  <2>1. i \in DOMAIN as /\ bs[i] = Rebase(as[i], dir)
    BY <1>11
  <2>2. PICK f \in T : as[i] = ArtifactOf(f, r)
    BY <1>6, <1>10, <2>1
  <2>3. bs[i].calls = {} /\ bs[i].file = RelTo(f.file, dir)
    BY <1>2, <2>1, <2>2, RebasedFile
  <2> QED
    BY <1>3, <2>3
<1> QED
  BY <1>12, Zenon DEF JustDeclared, bs

(* CallsFollowImports of some artifacts.                                   *)
Bearer(as, id) == CHOOSE a \in ToSet(as) : a.id = id
Follows(t, dir, as) ==
    \A a \in ToSet(as) :
        {Bearer(as, id).file : id \in a.calls} \subseteq Reach(Located(t, dir), a.file)

LEMMA CalledFollows ==
  ASSUME NEW as, Tidy(as), NEW dir, NEW t \in Seq(Facts), JustDeclared(t, dir, as)
  PROVE  Follows(t, dir, Called(as, t, dir))
<1> DEFINE cx == Context(t, dir, as)
           edges == CallEdges(cx)
           new == Called(as, t, dir)
<1>1. cx.tree = Located(t, dir) /\ cx.artifacts = as /\ cx.reExports = ReExports(cx.tree)
  BY DEF Context
<1> HIDE DEF cx
<1>2. Sound(cx)
  <2>1. \A i \in DOMAIN as : as[i].file \in FilesOf(cx.tree)
    <3>1. \A i \in DOMAIN as : \E j \in DOMAIN t : as[i].file = RelTo(t[j].file, dir)
      BY Zenon DEF JustDeclared
    <3>2. \A j \in DOMAIN t : RelTo(t[j].file, dir) \in FilesOf(cx.tree)
      BY <1>1, LocatedFacts, Zenon
    <3> QED
      BY <3>1, <3>2, Zenon
  <2>2. IsList(as)
    BY Zenon DEF Tidy
  <2> QED
    BY <1>1, <2>1, <2>2, LocatedFacts, Zenon DEF Sound
<1>3. \A e \in edges : IsEdgeInside(cx, e)
  BY <1>2, EdgesInside, Zenon
<1>4. new = [i \in DOMAIN as |->
               [as[i] EXCEPT !.calls = @ \cup {e[2] : e \in {d \in edges : d[1] = as[i].id}}]]
  BY Zenon DEF Called, WithCalls, MapSeq, cx
<1>5. IsList(new) /\ Alike(new, as)
  BY CalledTidy
<1>6. Tidy(new)
  BY <1>5, AlikeKeeps, Zenon
<1> HIDE DEF edges
<1>7. ASSUME NEW i \in DOMAIN as
      PROVE  new[i].calls = {e[2] : e \in {d \in edges : d[1] = as[i].id}}
  <2>1. new[i] = [as[i] EXCEPT !.calls = @ \cup {e[2] : e \in {d \in edges : d[1] = as[i].id}}]
    BY <1>4
  <2>2. "calls" \in DOMAIN as[i] /\ as[i].calls = {}
    BY DEF Tidy, AllWellFormed, WellFormed, JustDeclared
  <2> QED
    BY <2>1, <2>2
<1> HIDE DEF new
<1>8. /\ DOMAIN new = DOMAIN as
      /\ \A i \in DOMAIN as : new[i].id = as[i].id /\ new[i].file = as[i].file
  BY <1>5, Zenon DEF Alike, AlikeAt
<1>9. ASSUME NEW j \in DOMAIN as PROVE Bearer(new, as[j].id) = new[j]
  <2>1. new[j] \in ToSet(new) /\ new[j].id = as[j].id
    BY <1>8 DEF ToSet
  <2>2. \A a \in ToSet(new) : a.id = as[j].id => a = new[j]
    BY <1>6, <1>8 DEF ToSet, Tidy, Apart
  <2> QED
    BY <2>1, <2>2, Zenon DEF Bearer
<1>10. ASSUME NEW i \in DOMAIN as, NEW id \in new[i].calls
       PROVE  Bearer(new, id).file \in Reach(Located(t, dir), new[i].file)
  <2>1. PICK e \in edges : e[1] = as[i].id /\ e[2] = id
    <3>1. id \in {e[2] : e \in {d \in edges : d[1] = as[i].id}}
      BY <1>7, Zenon
    <3> QED
      BY <3>1
  <2>2. IsEdgeInside(cx, e)
    BY <1>3
  <2>3. PICK k \in DOMAIN as : /\ as[k].id = as[i].id
                               /\ id \in Within(cx, Reach(Located(t, dir), as[k].file))
    BY <1>1, <2>1, <2>2, Zenon DEF IsEdgeInside
  <2>4. k = i
    BY <2>3, Zenon DEF Tidy, Apart
  <2>5. id # None
    BY <2>1, <2>2, Zenon DEF IsEdgeInside
  <2>6. PICK j \in DOMAIN as : id = as[j].id /\ as[j].file \in Reach(Located(t, dir), as[i].file)
    BY <1>1, <2>3, <2>4, <2>5 DEF Within
  <2>7. Bearer(new, id) = new[j]
    BY <1>9, <2>6, Zenon
  <2> QED
    BY <1>8, <2>6, <2>7, Zenon
<1>11. \A a \in ToSet(new) : \E i \in DOMAIN as : a = new[i]
  BY <1>8 DEF ToSet
<1>12. ASSUME NEW a \in ToSet(new), NEW id \in a.calls
       PROVE  Bearer(new, id).file \in Reach(Located(t, dir), a.file)
  BY <1>10, <1>11, Zenon
<1>13. Follows(t, dir, new)
  BY <1>12 DEF Follows
<1> QED
  BY <1>13 DEF new

-----------------------------------------------------------------------------
(* The strengthening of some values of the variables.                      *)
Scope(q, p, t, as) ==
    /\ p = "oracle" => Follows(t, Head(q), as)
    /\ p = "calls" => JustDeclared(t, Head(q), as)

LEMMA ScopeFacts ==
  /\ ScopeInv <=> Scope(queue, pc, tree, artifacts)
  /\ ScopeInv' <=> Scope(queue', pc', tree', artifacts')
<1>1. ScopeInv <=> Scope(queue, pc, tree, artifacts)
  BY Zenon DEF ScopeInv, CallsFollowImports, FileOf, Scope, Follows, Bearer, JustDeclared, root
<1>2. ScopeInv' <=> Scope(queue', pc', tree', artifacts')
  BY Zenon DEF ScopeInv, CallsFollowImports, FileOf, Scope, Follows, Bearer, JustDeclared, root
<1> QED
  BY <1>1, <1>2

LEMMA NextKeepsScope ==
  ASSUME PublishedInv, UniqueInv, ScopeInv, [Next]_vars
  PROVE  ScopeInv'
<1>1. Unique(queue, pc, tree, artifacts) /\ Scope(queue, pc, tree, artifacts)
  BY UniqueFacts, ScopeFacts, Zenon
<1>2. IsList(artifacts) /\ tree \in Seq(Facts)
  BY Zenon DEF PublishedInv, AreArtifacts
<1>3. Scope(queue', pc', tree', artifacts')
  <2>1. ASSUME DeclareFunctions PROVE Scope(queue', pc', tree', artifacts')
    <3>1. /\ queue' = queue /\ tree' = tree /\ pc = "functions" /\ pc' = "calls"
          /\ artifacts' = Rebased(tree, root)
      BY <2>1, Zenon DEF DeclareFunctions, Then
    <3>2. tree \in Seq(FactsUnder(Head(queue)))
      BY <1>1, <3>1, Zenon DEF Unique
    <3>3. JustDeclared(tree', Head(queue'), artifacts')
      BY <3>1, <3>2, RebasedAtFirst, Zenon DEF root
    <3>4. pc' # "oracle"
      BY <3>1
    <3> QED
      BY <3>3, <3>4, Zenon DEF Scope
  <2>2. ASSUME ResolveCalls PROVE Scope(queue', pc', tree', artifacts')
    <3>1. /\ queue' = queue /\ tree' = tree /\ pc = "calls" /\ pc' = "oracle"
          /\ artifacts' = Called(artifacts, tree, root)
      BY <2>2, Zenon DEF ResolveCalls, Then
    <3>2. Tidy(artifacts) /\ JustDeclared(tree, Head(queue), artifacts)
      BY <1>1, <1>2, <3>1, Zenon DEF Unique, Scope, Tidy
    <3>3. Follows(tree', Head(queue'), artifacts')
      BY <1>2, <3>1, <3>2, CalledFollows, Zenon DEF root
    <3>4. pc' # "calls"
      BY <3>1
    <3> QED
      BY <3>3, <3>4, Zenon DEF Scope
  <2>3. CASE UNCHANGED vars
    BY <1>1, <2>3, Zenon DEF vars, work
  <2>4. ASSUME pc' \notin {"calls", "oracle"} PROVE Scope(queue', pc', tree', artifacts')
    BY <2>4 DEF Scope
  <2>5. ASSUME NEW c \in Configs, Discover(c) PROVE pc' \notin {"calls", "oracle"}
    BY <2>5 DEF Discover
  <2>6. ASSUME NEW order \in Orders(Walked(root)), Walk(order) PROVE pc' \notin {"calls", "oracle"}
    BY <2>6 DEF Walk, Then
  <2>7. CASE \/ ResolveOracleCalls \/ ResolveDbAccess \/ ResolveShellInvokes \/ ResolveEndpoints
             \/ ResolveTests \/ ResolveCoverage \/ ResolveMocks \/ ResolveDataModels
             \/ ResolveQueries \/ ResolveKafka
    <3>1. pc' \notin {"calls", "oracle"}
      BY <2>7 DEF ResolveOracleCalls, ResolveDbAccess, ResolveShellInvokes, ResolveEndpoints,
         ResolveTests, ResolveCoverage, ResolveMocks, ResolveDataModels, ResolveQueries,
         ResolveKafka, Then
    <3> QED
      BY <2>4, <3>1
  <2>8. CASE BindConfig \/ Raise
    <3>1. pc' \notin {"calls", "oracle"}
      BY <2>8 DEF BindConfig, Raise
    <3> QED
      BY <2>4, <3>1
  <2> QED
    BY <2>1, <2>2, <2>3, <2>4, <2>5, <2>6, <2>7, <2>8, Zenon DEF Next
<1> QED
  BY <1>3, ScopeFacts, Zenon

(* When the calls are resolved, every artifact is of a file of the tree,   *)
(* by the path that the resolver knows it by, and calls nothing yet.       *)
THEOREM ScopeInvariant == NoneIsNothing => (Spec => []ScopeInv)
<1> SUFFICES ASSUME NoneIsNothing PROVE Spec => []ScopeInv
  OBVIOUS
<1>1. Init => ScopeInv
  <2>1. ASSUME Init PROVE Scope(queue, pc, tree, artifacts)
    <3>1. pc \notin {"calls", "oracle"}
      BY <2>1 DEF Init
    <3> QED
      BY <3>1 DEF Scope
  <2> QED
    BY <2>1, ScopeFacts, Zenon
<1>2. PublishedInv /\ UniqueInv /\ ScopeInv /\ [Next]_vars => ScopeInv'
  BY NextKeepsScope
<1> QED
  BY <1>1, <1>2, PublishedInvariant, UniqueInvariant, PTL DEF Spec

(* Whatever the imports of a repository are, a call that is bound by name, *)
(* by an imported module, by the type of a parameter, an attribute or a    *)
(* variable, or by the framework, is bound to something declared in the    *)
(* file of the caller or in one that a chain of imports leads to from it.  *)
THEOREM CallsAreInScope == NoneIsNothing => (Spec => []CallsFollowImports)
<1> SUFFICES ASSUME NoneIsNothing PROVE Spec => []CallsFollowImports
  OBVIOUS
<1>1. ScopeInv => CallsFollowImports
  BY Zenon DEF ScopeInv
<1> QED
  BY <1>1, ScopeInvariant, PTL
=============================================================================
