------------------------ MODULE DatadogStagingProofs ------------------------
(***************************************************************************)
(* The Datadog staging store, for any spans, envs, windows and limits.     *)
(***************************************************************************)
EXTENDS DatadogStaging, TLAPS

USE DEF program, world, schema, staged, options, command, fetch, vouched

(* The migrations and their tables, spelled out.                           *)
LEMMA MigrationsAre ==
    /\ DOMAIN Migrations = {1, 2, 3}
    /\ Range(Migrations[1]) = {"_migrations", "fetch_log"}
    /\ Range(Migrations[2]) = {"spans"}
    /\ Range(Migrations[3]) = {"services_catalog"}
    /\ Tables = {"_migrations", "fetch_log", "spans", "services_catalog"}
  <1>1. DOMAIN Migrations = {1, 2, 3}
    BY DEF Migrations
  <1>2. /\ DOMAIN Migrations[1] = {1, 2} /\ DOMAIN Migrations[2] = {1} /\ DOMAIN Migrations[3] = {1}
        /\ Migrations[1][1] = "_migrations" /\ Migrations[1][2] = "fetch_log"
        /\ Migrations[2][1] = "spans" /\ Migrations[3][1] = "services_catalog"
    BY DEF Migrations
  <1>3. Tables = {"_migrations", "fetch_log", "spans", "services_catalog"}
    BY <1>1, <1>2, SMT DEF Tables
  <1>4. QED
    BY <1>1, <1>2, <1>3 DEF Range

LEMMA Bounds ==
    /\ Lookback \in Lookbacks /\ Lookbacks \subseteq Nat /\ SpansTTL \in Nat /\ CatalogTTL \in Nat /\ MaxTime \in Nat
    /\ PageLimit \in Nat \ {0} /\ MaxPages \in Nat \ {0}
    /\ Never \notin Nat /\ All \notin Envs
  BY ConfigOK

(* What a fetch forgets is well typed, and so is what a process forgets.   *)
LEMMA ForgottenIsTyped ==
  ASSUME TypeOK, now' = now, ForgetFetch
  PROVE  /\ fetchedAt' \in 0 .. now' /\ pulled' = {} /\ asked' = {}
         /\ pages' = 0 /\ pages' \in 0 .. MaxPages /\ cut' \in BOOLEAN
  <1>1. now \in Nat /\ MaxPages \in Nat
    BY Bounds DEF TypeOK, Time
  <1>2. fetchedAt' \in 0 .. now' /\ pages' = 0 /\ pages' \in 0 .. MaxPages
    BY <1>1 DEF ForgetFetch
  <1>3. pulled' = {} /\ asked' = {} /\ cut' \in BOOLEAN
    BY DEF ForgetFetch
  <1>4. QED
    BY <1>2, <1>3

LEMMA EndIsTyped ==
  ASSUME TypeOK, now' = now, End
  PROVE  /\ cmd' = "none" /\ pc' = "idle" /\ parsed' = {}
         /\ env' \in Envs \cup {All} /\ force' \in BOOLEAN /\ window' \in Lookbacks /\ at' \in 0 .. now'
         /\ fetchedAt' \in 0 .. now' /\ pulled' = {} /\ asked' = {}
         /\ pages' = 0 /\ pages' \in 0 .. MaxPages /\ cut' \in BOOLEAN
  <1>1. now \in Nat
    BY Bounds DEF TypeOK, Time
  <1>2. at' \in 0 .. now'
    BY <1>1 DEF End
  <1>3. /\ cmd' = "none" /\ pc' = "idle" /\ parsed' = {}
        /\ env' \in Envs \cup {All} /\ force' \in BOOLEAN /\ window' \in Lookbacks
    BY Bounds DEF End
  <1>4. QED
    BY <1>2, <1>3, ForgottenIsTyped DEF End

LEMMA RecordIsTyped ==
  ASSUME TypeOK, NEW api \in Apis, NEW ok \in BOOLEAN, Record(api, ok)
  PROVE  success' \in [Apis -> (0 .. now) \cup {Never}]
  BY Bounds DEF Record, TypeOK, Time

-----------------------------------------------------------------------------
(* Every variable keeps its type through every step.                       *)
LEMMA TypeStep == TypeOK /\ [Next]_vars => TypeOK'
  <1> SUFFICES ASSUME TypeOK, [Next]_vars PROVE TypeOK'
    OBVIOUS
  <1> USE DEF TypeOK, Commands, Range
  <1> USE Bounds
  <1>n. now \in Nat /\ now <= MaxTime
    BY DEF Time
  <1>0. Apis = {"spans", "catalog"} /\ TRUE \in BOOLEAN /\ FALSE \in BOOLEAN
    BY DEF Apis
  <1>1. CASE Tick
    <2>1. now' = now + 1 /\ now' \in Time
      BY <1>n, <1>1 DEF Tick, Time
    <2>2. (0 .. now) \subseteq (0 .. now')
      BY <1>n, <2>1
    <2>3. success' \in [Apis -> (0 .. now') \cup {Never}] /\ changed' \in [Services -> 0 .. now']
      BY <1>1, <2>2 DEF Tick
    <2>4. QED
      BY <1>1, <2>1, <2>2, <2>3 DEF Tick
  <1>2. ASSUME NEW s \in Spans, Call(s) PROVE TypeOK'
    BY <1>2 DEF Call
  <1>3. ASSUME NEW s \in Spans, Index(s) PROVE TypeOK'
    BY <1>3 DEF Index
  <1>4. ASSUME NEW svc \in Services, NEW m \in Metadata, Define(svc, m) PROVE TypeOK'
    <2>1. changed' \in [Services -> 0 .. now']
      BY <1>n, <1>4 DEF Define
    <2>2. DOMAIN registry' \subseteq Services /\ Range(registry)' \subseteq Metadata
      BY <1>4 DEF Define
    <2>3. QED
      BY <1>4, <2>1, <2>2 DEF Define
  <1>5. ASSUME NEW svc \in Services, Undefine(svc) PROVE TypeOK'
    <2>1. changed' \in [Services -> 0 .. now']
      BY <1>n, <1>5 DEF Undefine
    <2>2. DOMAIN registry' \subseteq Services /\ Range(registry)' \subseteq Metadata
      BY <1>5 DEF Undefine, Restrict
    <2>3. QED
      BY <1>5, <2>1, <2>2 DEF Undefine
  <1>6. ASSUME NEW c \in Commands, NEW e \in Envs \cup {All}, NEW f \in BOOLEAN, NEW w \in Lookbacks,
               Start(c, e, f, w)
        PROVE  TypeOK'
    BY <1>n, <1>6 DEF Start
  <1>7. ASSUME NEW t \in Tables, CreateTable(t) PROVE TypeOK'
    BY <1>7 DEF CreateTable
  <1>8. CASE RecordMigration
    BY <1>8 DEF RecordMigration
  <1>9. CASE Opened
    BY <1>9 DEF Opened
  <1>10. CASE OpenedToParse
    BY <1>n, <1>10, EndIsTyped DEF OpenedToParse
  <1>11. CASE SpansAreFresh
    BY <1>11 DEF SpansAreFresh
  <1>26. CASE SkipSpans
    BY <1>26 DEF SkipSpans
  <1>12. CASE BeginSpans
    BY <1>n, <1>12 DEF BeginSpans
  <1>13. CASE NextPage
    <2>1. pulled' \subseteq indexed
      BY <1>13 DEF NextPage, NextPages, Remaining
    <2>2. pages < MaxPages
      BY <1>13 DEF NextPage
    <2>3. pages' \in 0 .. MaxPages /\ (pc' = "pages" => pages' < MaxPages)
      BY <2>2, <1>13 DEF NextPage
    <2>4. cut' \in BOOLEAN
      BY <1>13, Zenon DEF NextPage
    <2>5. pc' \in {"pages", "commit"} /\ pc = "pages"
      BY <1>13 DEF NextPage
    <2>6. QED
      BY <1>13, <2>1, <2>3, <2>4, <2>5 DEF NextPage
  <1>14. CASE CommitSpans
    BY <1>14 DEF CommitSpans
  <1>15. CASE RecordSpans
    BY <1>0, <1>15, ForgottenIsTyped, RecordIsTyped DEF RecordSpans, Vouch
  <1>16. CASE SpansFail
    BY <1>0, <1>16, EndIsTyped, RecordIsTyped DEF SpansFail
  <1>17. CASE CatalogIsFresh
    BY <1>17, EndIsTyped, ForgottenIsTyped DEF CatalogIsFresh, AfterCatalog
  <1>18. CASE BeginCatalog
    BY <1>n, <1>18 DEF BeginCatalog
  <1>19. CASE InsertCatalog
    BY <1>19 DEF InsertCatalog
  <1>20. CASE RecordCatalog
    BY <1>0, <1>20, EndIsTyped, ForgottenIsTyped, RecordIsTyped DEF RecordCatalog, AfterCatalog
  <1>21. CASE CatalogFails
    BY <1>0, <1>21, EndIsTyped, ForgottenIsTyped, RecordIsTyped DEF CatalogFails, AfterCatalog
  <1>22. CASE Parse
    BY <1>22 DEF Parse
  <1>23. CASE Ends
    BY <1>23, EndIsTyped DEF Ends
  <1>24. CASE UNCHANGED vars
    BY <1>24 DEF vars
  <1> HIDE DEF TypeOK
  <1>25. QED
    BY ConfigOK, <1>0, <1>1, <1>2, <1>3, <1>4, <1>5, <1>6, <1>7, <1>8, <1>9, <1>10, <1>11, <1>12, <1>13, <1>14, <1>15,
       <1>16, <1>17, <1>18, <1>19, <1>20, <1>21, <1>22, <1>23, <1>24, <1>26 DEF Next, World, Step

(* No step but opening makes or records a table, or leaves "open".         *)
LEMMA SchemaStep == TypeOK /\ SchemaInv /\ [Next]_vars => SchemaInv'
  <1> SUFFICES ASSUME TypeOK, SchemaInv, [Next]_vars PROVE SchemaInv'
    OBVIOUS
  <1> USE DEF SchemaInv, SchemaIsReady
  <1>1. CASE World
    BY <1>1 DEF World, Tick, Call, Index, Define, Undefine
  <1>2. ASSUME NEW c, NEW e, NEW f, NEW w, Start(c, e, f, w) PROVE SchemaInv'
    BY <1>2 DEF Start
  <1>3. ASSUME NEW t \in Tables, CreateTable(t) PROVE SchemaInv'
    BY <1>3 DEF CreateTable
  <1>4. CASE RecordMigration
    BY <1>4 DEF RecordMigration
  <1>5. ASSUME Unapplied = {} PROVE tables = Tables
    BY <1>5, MigrationsAre DEF Unapplied, TypeOK
  <1>6. CASE Opened
    BY <1>5, <1>6 DEF Opened
  <1>7. CASE OpenedToParse
    BY <1>5, <1>7 DEF OpenedToParse, End
  <1>8. CASE SpansAreFresh \/ SkipSpans \/ BeginSpans \/ NextPage \/ CommitSpans \/ RecordSpans \/ SpansFail
    BY <1>8 DEF SpansAreFresh, SkipSpans, BeginSpans, NextPage, CommitSpans, RecordSpans, SpansFail, End
  <1>9. CASE CatalogIsFresh \/ BeginCatalog \/ InsertCatalog \/ RecordCatalog \/ CatalogFails
    BY <1>9 DEF CatalogIsFresh, BeginCatalog, InsertCatalog, RecordCatalog, CatalogFails, AfterCatalog, End
  <1>10. CASE Parse \/ Ends
    BY <1>10 DEF Parse, Ends, End
  <1>11. CASE UNCHANGED vars
    BY <1>11 DEF vars
  <1>12. QED
    BY <1>1, <1>2, <1>3, <1>4, <1>6, <1>7, <1>8, <1>9, <1>10, <1>11 DEF Next, Step

(* Time only moves forward, and a call starts now.                         *)
LEMMA CallsStep == TypeOK /\ CallsInv /\ [Next]_vars => CallsInv'
  <1> SUFFICES ASSUME TypeOK, CallsInv, [Next]_vars PROVE CallsInv'
    OBVIOUS
  <1> USE DEF CallsInv
  <1>1. now \in Nat /\ \A s \in DOMAIN started : started[s] \in Nat
    BY Bounds DEF TypeOK, Time, Range
  <1>2. CASE Tick
    BY <1>1, <1>2 DEF Tick
  <1>3. ASSUME NEW s \in Spans, Call(s) PROVE CallsInv'
    BY <1>1, <1>3 DEF Call
  <1>4. CASE UNCHANGED <<now, started>>
    BY <1>4
  <1>5. [Next]_vars => Tick \/ (\E s \in Spans : Call(s)) \/ UNCHANGED <<now, started>>
    BY DEF Next, vars, World, Step, Index, Define, Undefine, Start, CreateTable, RecordMigration, Opened,
       OpenedToParse, SpansAreFresh, SkipSpans, BeginSpans, NextPage, CommitSpans, RecordSpans, SpansFail,
       CatalogIsFresh, BeginCatalog, InsertCatalog, RecordCatalog, CatalogFails, Parse, Ends
  <1>6. QED
    BY <1>2, <1>3, <1>4, <1>5

(* A fetch reads on until nothing of what it had to find remains, or stops *)
(* at MaxPages; then it commits what it read.                              *)
LEMMA FetchStep == TypeOK /\ CallsInv /\ FetchInv /\ [Next]_vars => FetchInv'
  <1> SUFFICES ASSUME TypeOK, CallsInv, FetchInv, [Next]_vars PROVE FetchInv'
    OBVIOUS
  <1> USE DEF FetchInv
  <1>1. /\ now \in Nat /\ fetchedAt \in Nat /\ window \in Nat
        /\ \A s \in indexed : s \in DOMAIN started /\ started[s] \in Nat
        /\ asked \subseteq indexed /\ pulled \subseteq indexed
    BY Bounds DEF TypeOK, Time, Range
  <1>2. CASE World
    <2>1. UNCHANGED <<pc, env, window, fetchedAt, asked, pulled, pages, cut, spans>>
      BY <1>2 DEF World, Tick, Call, Index, Define, Undefine
    <2>2. indexed \subseteq indexed' /\ \A s \in indexed : started'[s] = started[s]
      BY <1>1, <1>2 DEF World, Tick, Call, Index, Define, Undefine
    <2>3. asked \cap Remaining \subseteq Remaining'
      BY <1>1, <2>1, <2>2 DEF Remaining, Matches
    <2>4. QED
      BY <2>1, <2>3 DEF Matches
  <1>3. CASE BeginSpans
    <2>1. asked' \subseteq Remaining'
      BY <1>1, <1>3 DEF BeginSpans, Remaining, Matches, CallsInv
    <2>2. QED
      BY <1>3, <2>1 DEF BeginSpans
  <1>4. CASE NextPage
    <2>1. PICK p \in NextPages :
             /\ pulled' = pulled \cup p
             /\ pc' = IF p = Remaining \/ pages + 1 = MaxPages THEN "commit" ELSE "pages"
             /\ cut' = (p # Remaining /\ pages + 1 = MaxPages)
      BY <1>4 DEF NextPage
    <2>2. /\ pc = "pages" /\ UNCHANGED <<started, indexed, env, window, fetchedAt, asked, spans>>
      BY <1>4 DEF NextPage
    <2>3. p \subseteq Remaining /\ \A s \in p, t \in Remaining \ p : started[s] <= started[t]
      BY <2>1 DEF NextPages
    <2>4. Remaining \ p \subseteq Remaining'
      BY <1>1, <2>1, <2>2, <2>3 DEF Remaining, Matches
    <2>5. \A s \in pulled' : Matches(s, env)'
      BY <2>1, <2>2, <2>3 DEF Remaining, Matches
    <2>6. asked' \subseteq pulled' \cup Remaining'
      BY <2>1, <2>2, <2>3, <2>4
    <2>7. ~cut' /\ pc' = "commit" => p = Remaining
      BY <2>1
    <2>8. pc' \in {"pages", "commit"}
      BY <2>1
    <2>9. ~cut' /\ pc' = "commit" => asked' \subseteq pulled'
      BY <2>1, <2>2, <2>7
    <2>10. QED
      BY <2>5, <2>6, <2>8, <2>9
  <1>5. CASE CommitSpans
    BY <1>5 DEF CommitSpans
  <1>6. CASE RecordSpans
    BY <1>6 DEF RecordSpans, ForgetFetch
  <1>7. ASSUME NEW c, NEW e, NEW f, NEW w, Start(c, e, f, w) PROVE FetchInv'
    BY <1>7 DEF Start, TypeOK
  <1>8. CASE \/ \E t \in Tables : CreateTable(t)
             \/ RecordMigration \/ Opened \/ OpenedToParse \/ SpansAreFresh \/ SkipSpans \/ SpansFail
    BY <1>8 DEF CreateTable, RecordMigration, Opened, OpenedToParse, SpansAreFresh, SkipSpans, SpansFail, End, ForgetFetch
  <1>9. CASE CatalogIsFresh \/ BeginCatalog \/ InsertCatalog \/ RecordCatalog \/ CatalogFails \/ Parse \/ Ends
    BY <1>9 DEF CatalogIsFresh, BeginCatalog, InsertCatalog, RecordCatalog, CatalogFails, AfterCatalog, Parse,
                Ends, End, ForgetFetch
  <1>10. CASE UNCHANGED vars
    BY <1>10 DEF vars, Remaining, Matches
  <1>11. QED
    BY <1>2, <1>3, <1>4, <1>5, <1>6, <1>7, <1>8, <1>9, <1>10 DEF Next, Step

(* Staged rows are only ever added to or tagged anew, and only a commit    *)
(* does either.                                                            *)
LEMMA VouchStep ==
    TypeOK /\ FetchInv /\ SuccessIsStaged /\ EnvTagsAreHonest /\ [Next]_vars
       => SuccessIsStaged' /\ EnvTagsAreHonest'
  <1> SUFFICES ASSUME TypeOK, FetchInv, SuccessIsStaged, EnvTagsAreHonest, [Next]_vars
               PROVE  SuccessIsStaged' /\ EnvTagsAreHonest'
    OBVIOUS
  <1> USE DEF SuccessIsStaged, EnvTagsAreHonest
  <1>1. CASE CommitSpans
    BY <1>1 DEF CommitSpans, FetchInv, Matches
  <1>2. CASE RecordSpans
    BY <1>2 DEF RecordSpans, Vouch, FetchInv
  <1>3. CASE UNCHANGED <<spans, owed>>
    BY <1>3
  <1>4. CommitSpans \/ RecordSpans \/ UNCHANGED <<spans, owed>>
    BY DEF Next, vars, World, Step, Tick, Call, Index, Define, Undefine, Start, CreateTable, RecordMigration,
       Opened, OpenedToParse, SpansAreFresh, SkipSpans, BeginSpans, NextPage, SpansFail, InsertCatalog,
       CatalogIsFresh, BeginCatalog, RecordCatalog, CatalogFails, Parse, Ends
  <1>5. QED
    BY <1>1, <1>2, <1>3, <1>4

(* A listing stages the whole catalog as it is; what changes afterwards    *)
(* changes later than the listing began, so the success recorded with the  *)
(* time of that beginning claims nothing of it.                            *)
LEMMA CatalogStep == TypeOK /\ CatalogInv /\ [Next]_vars => CatalogInv'
  <1> SUFFICES ASSUME TypeOK, CatalogInv, [Next]_vars PROVE CatalogInv'
    OBVIOUS
  <1> USE DEF CatalogInv, CatalogIsLatest, IsStaged
  <1>1. /\ now \in Nat /\ fetchedAt \in Nat /\ fetchedAt <= now
        /\ "spans" \in Apis /\ "catalog" \in Apis
        /\ success["catalog"] # Never => success["catalog"] \in Nat /\ success["catalog"] <= now
        /\ success \in [Apis -> (0 .. now) \cup {Never}]
        /\ changed \in [Services -> 0 .. now] /\ DOMAIN registry \subseteq Services
    BY Bounds DEF TypeOK, Time, Apis
  <1>2. ASSUME NEW svc \in Services, NEW m \in Metadata, Define(svc, m) PROVE CatalogInv'
    <2>1. /\ UNCHANGED <<pc, fetchedAt, success, catalog>> /\ changed'[svc] = now
          /\ \A x \in DOMAIN registry' :
                x # svc => x \in DOMAIN registry /\ registry'[x] = registry[x] /\ changed'[x] = changed[x]
      BY <1>1, <1>2 DEF Define
    <2>2. QED
      BY <1>1, <2>1
  <1>3. ASSUME NEW svc \in Services, Undefine(svc) PROVE CatalogInv'
    <2>1. /\ UNCHANGED <<pc, fetchedAt, success, catalog>>
          /\ \A x \in DOMAIN registry' :
                x \in DOMAIN registry /\ registry'[x] = registry[x] /\ changed'[x] = changed[x]
      BY <1>1, <1>3 DEF Undefine, Restrict
    <2>2. QED
      BY <1>1, <2>1
  <1>4. CASE InsertCatalog
    <2>1. /\ UNCHANGED <<registry, changed, success, fetchedAt>>
          /\ \A x \in DOMAIN registry : x \in DOMAIN catalog' /\ catalog'[x] = registry[x]
      BY <1>4 DEF InsertCatalog
    <2>2. QED
      BY <2>1
  <1>5. CASE RecordCatalog
    <2>1. /\ pc = "log" /\ pc' # "log" /\ UNCHANGED <<registry, changed, catalog>>
          /\ success'["catalog"] = fetchedAt
      BY <1>1, <1>5 DEF RecordCatalog, Record, AfterCatalog, End
    <2>2. QED
      BY <2>1
  <1>6. CASE RecordSpans \/ SpansFail \/ CatalogFails
    <2>1. /\ pc' # "log" /\ UNCHANGED <<registry, changed, catalog>>
          /\ success'["catalog"] = success["catalog"]
      BY <1>1, <1>6 DEF RecordSpans, SpansFail, CatalogFails, Record, AfterCatalog, End
    <2>2. QED
      BY <2>1
  <1>7. CASE Tick \/ (\E s \in Spans : Call(s) \/ Index(s)) \/ UNCHANGED vars
    BY <1>7 DEF Tick, Call, Index, vars
  <1>8. CASE /\ UNCHANGED <<registry, changed, catalog, success>>
             /\ pc' # "log"
    BY <1>8
  <1>9. ASSUME ~Tick, ~\E s \in Spans : Call(s) \/ Index(s), ~UNCHANGED vars,
               ~\E svc \in Services : Undefine(svc) \/ \E m \in Metadata : Define(svc, m),
               ~InsertCatalog, ~RecordCatalog, ~RecordSpans, ~SpansFail, ~CatalogFails
        PROVE  UNCHANGED <<registry, changed, catalog, success>> /\ pc' # "log"
    BY <1>9 DEF Next, World, Step, Start, CreateTable, RecordMigration, Opened, OpenedToParse, SpansAreFresh,
       SkipSpans, BeginSpans, NextPage, CommitSpans, CatalogIsFresh, BeginCatalog, AfterCatalog, Parse, Ends, End
  <1>10. QED
    BY <1>2, <1>3, <1>4, <1>5, <1>6, <1>7, <1>8, <1>9

(* A `run` gets past the spans only with a success no older than the TTL.  *)
LEMMA FreshStep == TypeOK /\ CallsInv /\ FetchInv /\ SuccessIsStaged /\ FreshInv /\ [Next]_vars => FreshInv'
  <1> SUFFICES ASSUME TypeOK, SuccessIsStaged, FreshInv, [Next]_vars PROVE FreshInv'
    OBVIOUS
  <1> USE DEF FreshInv
  <1>1. /\ now \in Nat /\ at \in Nat /\ at <= now /\ fetchedAt \in Nat /\ SpansTTL \in Nat
        /\ success["spans"] \in Nat \cup {Never} /\ Never \notin Nat
        /\ "spans" \in Apis /\ "catalog" \in Apis /\ success \in [Apis -> (0 .. now) \cup {Never}]
        /\ due \subseteq DOMAIN started
    BY Bounds DEF TypeOK, Time, Apis
  <1>2. CASE World
    <2>1. /\ UNCHANGED <<pc, cmd, window, at, fetchedAt, success, owed, due, parsed>>
          /\ \A s \in due : started'[s] = started[s]
      BY <1>1, <1>2 DEF World, Tick, Call, Index, Define, Undefine
    <2>2. QED
      BY <2>1 DEF InWindow
  <1>3. ASSUME NEW c, NEW e, NEW f, NEW w, Start(c, e, f, w), c = "run" => w = Lookback PROVE FreshInv'
    BY <1>3 DEF Start
  <1>4. CASE \/ \E t \in Tables : CreateTable(t)
             \/ RecordMigration \/ Opened \/ OpenedToParse \/ SkipSpans
    BY <1>4 DEF CreateTable, RecordMigration, Opened, OpenedToParse, SkipSpans, End
  <1>5. CASE SpansAreFresh
    BY <1>1, <1>5 DEF SpansAreFresh, IsStale, Reference
  <1>6. CASE BeginSpans
    BY <1>1, <1>6 DEF BeginSpans
  <1>7. CASE NextPage
    BY <1>7 DEF NextPage
  <1>8. CASE CommitSpans
    BY <1>8 DEF CommitSpans
  <1>9. CASE RecordSpans
    <2>1. success'["spans"] = fetchedAt /\ UNCHANGED <<cmd, window, at>> /\ pc' = "catalog" /\ pc = "record"
      BY <1>1, <1>9 DEF RecordSpans, Record
    <2>2. due' \subseteq owed'
      <3>1. CASE AsRunAsks
        BY <1>9, <3>1 DEF RecordSpans, Vouch, AsRunAsks
      <3>2. CASE ~AsRunAsks
        BY <1>9, <3>2 DEF RecordSpans, Vouch
      <3>3. QED
        BY <3>1, <3>2
    <2>3. QED
      BY <1>1, <2>1, <2>2
  <1>10. CASE SpansFail \/ Ends
    BY <1>10 DEF SpansFail, Ends, End
  <1>11. CASE CatalogIsFresh \/ BeginCatalog \/ InsertCatalog \/ RecordCatalog \/ CatalogFails
    <2>1. success'["spans"] = success["spans"]
      BY <1>1, <1>11 DEF CatalogIsFresh, BeginCatalog, InsertCatalog, RecordCatalog, CatalogFails, Record
    <2>2. /\ pc' \in {"list", "log", "parse", "idle"} /\ pc \in {"catalog", "list", "log"}
          /\ cmd' = "none" \/ UNCHANGED <<cmd, window, at>>
          /\ UNCHANGED <<owed, due>>
      BY <1>11 DEF CatalogIsFresh, BeginCatalog, InsertCatalog, RecordCatalog, CatalogFails, AfterCatalog, End
    <2>3. QED
      BY <2>1, <2>2
  <1>12. CASE Parse
    BY <1>12 DEF Parse, SuccessIsStaged, InWindow
  <1>13. CASE UNCHANGED vars
    BY <1>13 DEF vars, InWindow
  <1>14. QED
    BY <1>2, <1>3, <1>4, <1>5, <1>6, <1>7, <1>8, <1>9, <1>10, <1>11, <1>12, <1>13 DEF Next, Step

-----------------------------------------------------------------------------
LEMMA InitInv == Init => TypeOK /\ StagingInv
  <1> SUFFICES ASSUME Init PROVE TypeOK /\ StagingInv
    OBVIOUS
  <1>1. DOMAIN Empty = {}
    BY DEF Empty
  <1>2. TypeOK
    <2>1. 0 \in 0 .. MaxPages /\ 0 \in Time /\ 0 \in 0 .. now
      BY Bounds DEF Init, Time
    <2>2. force \in BOOLEAN /\ cut \in BOOLEAN /\ window \in Lookbacks
      BY Bounds DEF Init
    <2>3. success \in [Apis -> (0 .. now) \cup {Never}] /\ changed \in [Services -> 0 .. now]
      BY <2>1 DEF Init
    <2>4. QED
      BY <1>1, <2>1, <2>2, <2>3 DEF Init, TypeOK, Commands, Range
  <1>3. SchemaInv /\ CallsInv /\ FetchInv /\ FreshInv
    BY <1>1 DEF Init, SchemaInv, SchemaIsReady, CallsInv, FetchInv, FreshInv
  <1>4. SuccessIsStaged /\ EnvTagsAreHonest /\ CatalogInv
    BY <1>1 DEF Init, SuccessIsStaged, EnvTagsAreHonest, CatalogInv, CatalogIsLatest, Apis
  <1>5. QED
    BY <1>2, <1>3, <1>4 DEF StagingInv

(* The store, the commands and the histories are well typed for any spans, *)
(* envs, windows and limits.                                               *)
THEOREM TypeCorrect == Spec => []TypeOK
  <1>1. Init => TypeOK
    BY InitInv
  <1>2. QED
    BY <1>1, TypeStep, PTL DEF Spec

(* The inductive invariant of the store holds throughout.                  *)
THEOREM StagingInvariant == Spec => []StagingInv
  <1>1. Init => StagingInv
    BY InitInv
  <1>2. TypeOK /\ StagingInv /\ [Next]_vars => StagingInv'
    BY SchemaStep, CallsStep, FetchStep, VouchStep, FreshStep, CatalogStep DEF StagingInv
  <1>3. QED
    BY <1>1, <1>2, TypeCorrect, PTL DEF Spec

(* No statement of any command meets a missing table, whatever died while  *)
(* the schema was made: _run_migrations needs no second look.              *)
THEOREM SchemaIsAlwaysReady == Spec => []SchemaIsReady
  <1>1. StagingInv => SchemaIsReady
    BY DEF StagingInv, SchemaInv
  <1>2. QED
    BY <1>1, StagingInvariant, PTL

(* A success in fetch_log has its whole window staged, or what MaxPages    *)
(* let it read, for any page size and any failure on the way.              *)
THEOREM SuccessesAreStaged == Spec => []SuccessIsStaged
  <1>1. StagingInv => SuccessIsStaged
    BY DEF StagingInv
  <1>2. QED
    BY <1>1, StagingInvariant, PTL

(* `run` never serves spans that were fetched longer ago than the TTL, and *)
(* where the fetch it relies on asked for as much as it would have, it     *)
(* leaves out nothing of its env and window that could be found then.      *)
THEOREM RunsServeFreshSpans == Spec => []RunServesFreshSpans
  <1>1. StagingInv => RunServesFreshSpans
    BY DEF StagingInv, FreshInv, RunServesFreshSpans
  <1>2. QED
    BY <1>1, StagingInvariant, PTL

(* Re-fetching a span for another env never mislabels it.                  *)
THEOREM TagsStayHonest == Spec => []EnvTagsAreHonest
  <1>1. StagingInv => EnvTagsAreHonest
    BY DEF StagingInv
  <1>2. QED
    BY <1>1, StagingInvariant, PTL

(* What the catalog has said of a service since before the last recorded   *)
(* success began is what is staged, whatever failed or died in between.    *)
THEOREM CatalogStaysLatest == Spec => []CatalogIsLatest
  <1>1. StagingInv => CatalogIsLatest
    BY DEF StagingInv, CatalogInv
  <1>2. QED
    BY <1>1, StagingInvariant, PTL
=============================================================================
