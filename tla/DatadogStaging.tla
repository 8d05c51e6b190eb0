--------------------------- MODULE DatadogStaging ---------------------------
(***************************************************************************)
(* The SQLite store between Datadog and the pipeline (adapters/datadog).   *)
(* A command opens the store, which brings its schema up to date, fetches  *)
(* what is stale and parses what is staged.  Three commands share it:      *)
(*    "run"    DatadogAdapter.extract, from `sg-ingest run`;               *)
(*    "fetch"  `sg-ingest datadog-fetch`, for any env and window, with or  *)
(*             without --force;                                            *)
(*    "parse"  `sg-ingest datadog-parse`, for any env and window.          *)
(* The store is not safe to share: one command runs at a time.  Every      *)
(* statement or transaction is a step, and the process may die between     *)
(* any two.  Meanwhile services go on calling each other, Datadog indexes  *)
(* the calls late, and its catalog changes.                                *)
(*                                                                         *)
(* A span is its identity: its env and the time it started.  What a span   *)
(* says is the parser's business and is left out.                          *)
(***************************************************************************)
EXTENDS Naturals, FiniteSets, Functions

CONSTANTS
    Spans,        \* the calls that services make
    Envs,         \* the values of the env tag
    All,          \* no env: no filter
    EnvOf,        \* the env each span is tagged with
    DDEnv,        \* the env `run` is configured with
    Services,     \* names in the service catalog
    Metadata,     \* what the catalog may say of a service
    Lookback,     \* how far back `run` looks, ...
    Lookbacks,    \* ... and, with --lookback-hours, the other commands
    SpansTTL, CatalogTTL,
    PageLimit, MaxPages,
    Never,        \* the time of a fetch that has not been
    MaxTime       \* bound of the clock

ASSUME ConfigOK ==
    /\ All \notin Envs /\ Never \notin Nat
    /\ EnvOf \in [Spans -> Envs]
    /\ DDEnv \in Envs \cup {All}
    /\ {SpansTTL, CatalogTTL, MaxTime} \subseteq Nat
    /\ Lookback \in Lookbacks /\ Lookbacks \subseteq Nat
    /\ {PageLimit, MaxPages} \subseteq Nat \ {0}

ASSUME SpansAreFinite == IsFiniteSet(Spans)

VARIABLES
    now,          \* the time
    started,      \* the calls made so far and when
    indexed,      \* those that Datadog's API returns
    registry,     \* the service catalog at Datadog: metadata by name
    tables,       \* the store: its tables, ...
    tracker,      \* ... the migrations recorded in _migrations, ...
    spans,        \* ... the staged spans and the env each was fetched for, ...
    catalog,      \* ... the staged catalog, ...
    success,      \* ... and in fetch_log the last success of each API
    cmd, pc,      \* the command that runs and where it is
    env, force,   \* its options ...
    window,       \* ... and how far back it looks
    at,           \* its time of reference: context.now
    fetchedAt,    \* the time of the fetch under way
    pulled,       \* the rows its open transaction has inserted
    pages,        \* the pages it has read
    parsed,       \* what the parser read
    asked, cut,   \* history: what the fetch had to find; it stopped at MaxPages
    owed,         \* history: the spans that a recorded success vouches for
    due,          \* history: what the last one found of what `run` asks for
    changed       \* history: when the catalog last changed what it says of a service

world == <<now, started, indexed, registry, changed>>
schema == <<tables, tracker>>
staged == <<spans, catalog>>
options == <<cmd, env, force, window, at>>
command == <<pc, options, parsed>>
fetch == <<fetchedAt, pulled, pages, asked, cut>>
vouched == <<owed, due>>
vars == <<world, schema, staged, success, command, fetch, vouched>>

-----------------------------------------------------------------------------
Apis == {"spans", "catalog"}
Commands == {"run", "fetch", "parse"}
Time == 0 .. MaxTime

(* The tables of each migration, in the order of its statements.           *)
Migrations == <<<<"_migrations", "fetch_log">>, <<"spans">>, <<"services_catalog">>>>
Tables == UNION {{Migrations[v][i] : i \in DOMAIN Migrations[v]} : v \in DOMAIN Migrations}

Unapplied == {v \in DOMAIN Migrations : v \notin tracker}
Applying(v) == v \in Unapplied /\ \A w \in Unapplied : v <= w

(* The query of a fetch: env:<env>, or everything.                         *)
Matches(s, e) == e = All \/ EnvOf[s] = e

IsStale(api, ttl, t) == success[api] # Never => t > success[api] + ttl

(* What list_spans has still to return: the spans of its window that match *)
(* and that its cursor has not passed.                                     *)
Remaining ==
    {s \in indexed \ pulled :
        /\ Matches(s, env)
        /\ started[s] + window >= fetchedAt /\ started[s] <= fetchedAt
        /\ \A t \in pulled : started[t] <= started[s]}

(* Its next page, by start time.                                           *)
NextPages ==
    {p \in SUBSET Remaining :
        /\ Cardinality(p) = PageLimit \/ (p = Remaining /\ Cardinality(p) < PageLimit)
        /\ \A s \in p, t \in Remaining \ p : started[s] <= started[t]}

Empty == [x \in {} |-> 0]

-----------------------------------------------------------------------------
TypeOK ==
    /\ now \in Time
    /\ DOMAIN started \subseteq Spans /\ Range(started) \subseteq Time
    /\ indexed \subseteq DOMAIN started
    /\ DOMAIN registry \subseteq Services /\ Range(registry) \subseteq Metadata
    /\ tables \subseteq Tables
    /\ tracker \subseteq DOMAIN Migrations
    /\ DOMAIN spans \subseteq indexed /\ Range(spans) \subseteq Envs \cup {All}
    /\ DOMAIN catalog \subseteq Services /\ Range(catalog) \subseteq Metadata
    /\ success \in [Apis -> (0 .. now) \cup {Never}]
    /\ cmd \in Commands \cup {"none"}
    /\ pc \in {"idle", "open", "spans", "pages", "commit", "record", "catalog", "list", "log",
               "parse", "write"}
    /\ cmd = "none" <=> pc = "idle"
    /\ env \in Envs \cup {All} /\ force \in BOOLEAN /\ window \in Lookbacks
    /\ at \in 0 .. now /\ fetchedAt \in 0 .. now
    /\ parsed \subseteq DOMAIN spans
    /\ pulled \subseteq indexed /\ asked \subseteq indexed
    /\ pages \in 0 .. MaxPages /\ cut \in BOOLEAN
    /\ pc = "pages" => pages < MaxPages
    /\ pc \notin {"pages", "commit", "record"} => pages = 0
    /\ owed \subseteq indexed /\ due \subseteq indexed
    /\ changed \in [Services -> 0 .. now]

Init ==
    /\ now = 0
    /\ started = Empty /\ indexed = {} /\ registry = Empty
    /\ tables = {} /\ tracker = {}
    /\ spans = Empty /\ catalog = Empty
    /\ success = [a \in Apis |-> Never]
    /\ cmd = "none" /\ pc = "idle"
    /\ env = All /\ force = FALSE /\ window = Lookback /\ at = 0 /\ parsed = {}
    /\ fetchedAt = 0 /\ pulled = {} /\ pages = 0
    /\ asked = {} /\ cut = FALSE
    /\ owed = {} /\ due = {}
    /\ changed = [svc \in Services |-> 0]

-----------------------------------------------------------------------------
(* What Datadog observes.                                                  *)
program == <<schema, staged, success, command, fetch, vouched>>

Tick ==
    /\ now < MaxTime
    /\ now' = now + 1
    /\ UNCHANGED <<started, indexed, registry, changed, program>>

Call(s) ==
    /\ s \notin DOMAIN started
    /\ started' = [t \in DOMAIN started \cup {s} |-> IF t = s THEN now ELSE started[t]]
    /\ UNCHANGED <<now, indexed, registry, changed, program>>

Index(s) ==
    /\ s \in DOMAIN started \ indexed
    /\ indexed' = indexed \cup {s}
    /\ UNCHANGED <<now, started, registry, changed, program>>

Define(svc, m) ==
    /\ ~(svc \in DOMAIN registry /\ registry[svc] = m)
    /\ registry' = [x \in DOMAIN registry \cup {svc} |-> IF x = svc THEN m ELSE registry[x]]
    /\ changed' = [changed EXCEPT ![svc] = now]
    /\ UNCHANGED <<now, started, indexed, program>>

Undefine(svc) ==
    /\ svc \in DOMAIN registry
    /\ registry' = Restrict(registry, DOMAIN registry \ {svc})
    /\ changed' = [changed EXCEPT ![svc] = now]
    /\ UNCHANGED <<now, started, indexed, program>>

-----------------------------------------------------------------------------
(* Variant: the pages are counted from command to command.                 *)
ForgetAllButPages ==
    /\ fetchedAt' = 0 /\ pulled' = {} /\ UNCHANGED pages
    /\ asked' = {} /\ cut' = FALSE

ForgetFetch ==
    /\ fetchedAt' = 0 /\ pulled' = {} /\ pages' = 0
    /\ asked' = {} /\ cut' = FALSE

(* The process ends: what it knew goes with it.                            *)
End ==
    /\ cmd' = "none" /\ pc' = "idle"
    /\ env' = All /\ force' = FALSE /\ window' = Lookback /\ at' = 0 /\ parsed' = {}
    /\ ForgetFetch

(* `run` takes the time of reference at once (IngestionContext.now).       *)
Start(c, e, f, w) ==
    /\ cmd = "none"
    /\ cmd' = c /\ pc' = "open"
    /\ env' = e /\ force' = f /\ window' = w
    /\ at' = IF c = "run" THEN now ELSE 0
    /\ UNCHANGED <<world, schema, staged, success, parsed, fetch, vouched>>

(* DatadogStore.__init__ applies the migrations that are not recorded: the *)
(* statements of one, each CREATE ... IF NOT EXISTS and committed by       *)
(* itself, ...                                                             *)
CreateTable(t) ==
    /\ pc = "open"
    /\ \E v \in DOMAIN Migrations :
          /\ Applying(v)
          /\ \E i \in DOMAIN Migrations[v] :
                /\ t = Migrations[v][i] /\ t \notin tables
                /\ \A j \in 1 .. i - 1 : Migrations[v][j] \in tables
    /\ tables' = tables \cup {t}
    /\ UNCHANGED <<world, tracker, staged, success, command, fetch, vouched>>

(* Variant: the version is recorded after its first statement.             *)
RecordMigrationEarly ==
    /\ pc = "open"
    /\ \E v \in DOMAIN Migrations :
          Applying(v) /\ Migrations[v][1] \in tables /\ tracker' = tracker \cup {v}
    /\ UNCHANGED <<world, tables, staged, success, command, fetch, vouched>>

(* ... and then its row in _migrations.                                    *)
RecordMigration ==
    /\ pc = "open"
    /\ \E v \in DOMAIN Migrations :
          /\ Applying(v)
          /\ Range(Migrations[v]) \subseteq tables
          /\ tracker' = tracker \cup {v}
    /\ UNCHANGED <<world, tables, staged, success, command, fetch, vouched>>

Opened ==
    /\ pc = "open" /\ cmd # "parse"
    /\ Unapplied = {}
    /\ pc' = "spans"
    /\ UNCHANGED <<world, schema, staged, success, options, parsed, fetch, vouched>>

(* datadog-parse takes its time of reference now, unless there are no      *)
(* spans to parse.                                                         *)
OpenedToParse ==
    /\ pc = "open" /\ cmd = "parse"
    /\ Unapplied = {}
    /\ IF DOMAIN spans = {}
          THEN End
          ELSE pc' = "parse" /\ at' = now /\ UNCHANGED <<cmd, env, force, window, parsed, fetch>>
    /\ UNCHANGED <<world, schema, staged, success, vouched>>

-----------------------------------------------------------------------------
(* `run` compares with its time of reference, `fetch` with the clock.      *)
Reference == IF cmd = "run" THEN at ELSE now

SpansAreFresh ==
    /\ pc = "spans"
    /\ ~force /\ ~IsStale("spans", SpansTTL, Reference)
    /\ pc' = "catalog"
    /\ UNCHANGED <<world, schema, staged, success, options, parsed, fetch, vouched>>

(* datadog-fetch --no-spans.                                               *)
SkipSpans ==
    /\ pc = "spans" /\ cmd = "fetch"
    /\ pc' = "catalog"
    /\ UNCHANGED <<world, schema, staged, success, options, parsed, fetch, vouched>>

(* fetch_spans takes its time and begins to list the window that ends now, *)
BeginSpans ==
    /\ pc = "spans"
    /\ force \/ IsStale("spans", SpansTTL, Reference)
    /\ pc' = "pages"
    /\ fetchedAt' = now
    /\ asked' = {s \in indexed : Matches(s, env) /\ started[s] + window >= now}
    /\ UNCHANGED <<world, schema, staged, success, options, parsed, pulled, pages, cut, vouched>>

(* insert_spans takes the rows page by page in one transaction, ...        *)
NextPage ==
    /\ pc = "pages"
    /\ \E p \in NextPages :
          /\ pulled' = pulled \cup p
          /\ pc' = IF p = Remaining \/ pages + 1 = MaxPages THEN "commit" ELSE "pages"
          /\ cut' = (p # Remaining /\ pages + 1 = MaxPages)
    /\ pages' = pages + 1
    /\ UNCHANGED <<world, schema, staged, success, options, parsed, fetchedAt, asked, vouched>>

(* Variant: the rows are tagged with the env `run` is configured with.     *)
CommitSpansAsConfigured ==
    /\ pc = "commit"
    /\ pc' = "record"
    /\ spans' = [s \in DOMAIN spans \cup pulled |-> IF s \in pulled THEN DDEnv ELSE spans[s]]
    /\ UNCHANGED <<world, schema, catalog, success, options, parsed, fetch, vouched>>

(* ... and INSERT OR REPLACE tags a row with the env of the latest fetch.  *)
CommitSpans ==
    /\ pc = "commit"
    /\ pc' = "record"
    /\ spans' = [s \in DOMAIN spans \cup pulled |-> IF s \in pulled THEN env ELSE spans[s]]
    /\ UNCHANGED <<world, schema, catalog, success, options, parsed, fetch, vouched>>

(* record_fetch, in a transaction of its own.  Nothing reads the row of a  *)
(* failure.                                                                *)
Record(api, ok) == success' = IF ok THEN [success EXCEPT ![api] = fetchedAt] ELSE success

(* What a success vouches for: all it had to find, or what it read before  *)
(* it stopped at MaxPages.  `run` gets what it would have fetched itself   *)
(* only from a fetch for its env, or for all, that looked as far back.     *)
AsRunAsks == env \in {All, DDEnv} /\ window >= Lookback /\ ~cut

Vouch ==
    /\ owed' = owed \cup (IF cut THEN pulled ELSE asked)
    /\ due' = IF AsRunAsks
                THEN {s \in asked : Matches(s, DDEnv) /\ started[s] + Lookback >= fetchedAt}
                ELSE {}

(* Variant: the success is recorded before the rows are committed.         *)
RecordSpansEarly ==
    /\ pc \in {"commit", "record"}
    /\ Record("spans", TRUE)
    /\ Vouch
    /\ IF pc = "commit" THEN UNCHANGED <<pc, fetch>> ELSE pc' = "catalog" /\ ForgetFetch
    /\ UNCHANGED <<world, schema, staged, options, parsed>>

RecordSpans ==
    /\ pc = "record"
    /\ Record("spans", TRUE)
    /\ Vouch
    /\ pc' = "catalog"
    /\ ForgetFetch
    /\ UNCHANGED <<world, schema, staged, options, parsed>>

(* Variant: `run` goes on, as it does without the catalog.                 *)
SpansFailTolerated ==
    /\ pc \in {"pages", "commit"}
    /\ Record("spans", FALSE)
    /\ pc' = "catalog"
    /\ ForgetFetch
    /\ UNCHANGED <<world, schema, staged, options, parsed, vouched>>

(* A page or a row fails: the transaction is rolled back, the failure is   *)
(* recorded, and the error ends the command.                               *)
SpansFail ==
    /\ pc \in {"pages", "commit"}
    /\ Record("spans", FALSE)
    /\ End
    /\ UNCHANGED <<world, schema, staged, vouched>>

-----------------------------------------------------------------------------
(* The command is through with Datadog: `run` parses, `fetch` is done.     *)
AfterCatalog ==
    IF cmd = "run" THEN pc' = "parse" /\ ForgetFetch /\ UNCHANGED <<options, parsed>> ELSE End

CatalogIsFresh ==
    /\ pc = "catalog"
    /\ ~force /\ ~IsStale("catalog", CatalogTTL, Reference)
    /\ AfterCatalog
    /\ UNCHANGED <<world, schema, staged, success, vouched>>

BeginCatalog ==
    /\ pc = "catalog"
    /\ force \/ IsStale("catalog", CatalogTTL, Reference)
    /\ pc' = "list"
    /\ fetchedAt' = now
    /\ UNCHANGED <<world, schema, staged, success, options, parsed, pulled, pages, asked, cut, vouched>>

(* Variant: a definition that is there already stays.                      *)
CatalogKeepsRows ==
    /\ pc = "list"
    /\ pc' = "log"
    /\ catalog' = [x \in DOMAIN catalog \cup DOMAIN registry |->
                     IF x \in DOMAIN catalog THEN catalog[x] ELSE registry[x]]
    /\ UNCHANGED <<world, schema, spans, success, options, parsed, fetch, vouched>>

(* The whole catalog in one call and one transaction; what is no longer in *)
(* it stays staged.                                                        *)
InsertCatalog ==
    /\ pc = "list"
    /\ pc' = "log"
    /\ catalog' = [x \in DOMAIN catalog \cup DOMAIN registry |->
                     IF x \in DOMAIN registry THEN registry[x] ELSE catalog[x]]
    /\ UNCHANGED <<world, schema, spans, success, options, parsed, fetch, vouched>>

RecordCatalog ==
    /\ pc = "log"
    /\ Record("catalog", TRUE)
    /\ AfterCatalog
    /\ UNCHANGED <<world, schema, staged, vouched>>

(* `run` goes on with what is staged, `fetch` ends either way.             *)
CatalogFails ==
    /\ pc = "list"
    /\ Record("catalog", FALSE)
    /\ AfterCatalog
    /\ UNCHANGED <<world, schema, staged, vouched>>

-----------------------------------------------------------------------------
InWindow(s) == started[s] + window >= at

(* DatadogParser.parse reads the staged spans of the window.  `run` gives  *)
(* it no env, `datadog-parse` the configured one.                          *)
Parse ==
    /\ pc = "parse"
    /\ pc' = "write"
    /\ parsed' = {s \in DOMAIN spans : InWindow(s) /\ (cmd = "parse" /\ env # All => spans[s] = env)}
    /\ UNCHANGED <<world, schema, staged, success, options, fetch, vouched>>

(* What was parsed is handed on, --no-catalog ends the fetch, or the       *)
(* process is killed: an open transaction is rolled back.                  *)
Ends ==
    /\ cmd # "none"
    /\ End
    /\ UNCHANGED <<world, schema, staged, success, vouched>>

-----------------------------------------------------------------------------
World ==
    \/ Tick
    \/ \E s \in Spans : Call(s) \/ Index(s)
    \/ \E svc \in Services : Undefine(svc) \/ \E m \in Metadata : Define(svc, m)

Step ==
    \/ Start("run", DDEnv, FALSE, Lookback)
    \/ \E e \in Envs \cup {All}, f \in BOOLEAN, w \in Lookbacks : Start("fetch", e, f, w)
    \/ \E e \in Envs \cup {All}, w \in Lookbacks : Start("parse", e, FALSE, w)
    \/ \E t \in Tables : CreateTable(t)
    \/ RecordMigration \/ Opened \/ OpenedToParse
    \/ SpansAreFresh \/ SkipSpans \/ BeginSpans \/ NextPage \/ CommitSpans \/ RecordSpans \/ SpansFail
    \/ CatalogIsFresh \/ BeginCatalog \/ InsertCatalog \/ RecordCatalog \/ CatalogFails
    \/ Parse
    \/ Ends

Next == World \/ Step

Spec == Init /\ [][Next]_vars

-----------------------------------------------------------------------------
(* No statement meets a table that is not there, whatever died while the   *)
(* schema was made: the second look of _run_migrations never has to heal.  *)
SchemaIsReady == pc \notin {"idle", "open"} => tables = Tables

(* A recorded success vouches for its window: every span of it that        *)
(* Datadog could return when the fetch began is staged (or, past MaxPages, *)
(* every span that was read), whatever failed or died before and since.    *)
SuccessIsStaged == owed \subseteq DOMAIN spans

(* `run` fails or serves what it stands for: its spans were fetched no     *)
(* longer ago than the TTL, by itself or by the command whose fetch let it *)
(* skip its own; and if that fetch asked for as much as `run` does, then   *)
(* every span of its env and window that Datadog had indexed as the fetch  *)
(* began is there.  After a fetch for another env or a shorter window, or  *)
(* one that MaxPages cut, there is no such promise.                        *)
RunServesFreshSpans ==
    cmd = "run" /\ pc = "write" =>
       /\ success["spans"] # Never /\ at <= success["spans"] + SpansTTL
       /\ \A s \in due : InWindow(s) => s \in parsed

(* A staged span carries an env only when that is its own, however often   *)
(* and for whichever envs it was fetched: datadog-parse --env keeps other  *)
(* traffic out.                                                            *)
EnvTagsAreHonest == \A s \in DOMAIN spans : spans[s] # All => spans[s] = EnvOf[s]

(* What the catalog says of a service, unless it has changed since the     *)
(* last recorded success began, is what is staged: listings that failed or *)
(* died, before or after, leave no older entry behind.                     *)
IsStaged(svc) == svc \in DOMAIN catalog /\ catalog[svc] = registry[svc]

CatalogIsLatest ==
    success["catalog"] # Never =>
       \A svc \in DOMAIN registry : changed[svc] < success["catalog"] => IsStaged(svc)

-----------------------------------------------------------------------------
(* The inductive strengthening of these, part by part.  A recorded         *)
(* migration has its tables.                                               *)
SchemaInv ==
    /\ SchemaIsReady
    /\ \A v \in tracker : Range(Migrations[v]) \subseteq tables

(* No call is later than now.                                              *)
CallsInv == \A s \in DOMAIN started : started[s] <= now

(* What a fetch had to find it has either read or still to read, and what  *)
(* it has read it has committed before it is recorded.                     *)
FetchInv ==
    /\ pc \notin {"pages", "commit", "record"} => pulled = {} /\ cut = FALSE
    /\ pc = "pages" => asked \subseteq pulled \cup Remaining
    /\ pc \in {"pages", "commit"} => \A s \in pulled : Matches(s, env)
    /\ pc \in {"commit", "record"} /\ ~cut => asked \subseteq pulled
    /\ pc = "record" => pulled \subseteq DOMAIN spans

(* A `run` past the spans has a success within the TTL behind it, and the  *)
(* fetch it makes is no older than the run.                                *)
FreshInv ==
    /\ cmd = "run" => window = Lookback
    /\ cmd = "run" /\ pc \in {"pages", "commit", "record"} => at <= fetchedAt
    /\ cmd = "run" /\ pc \in {"catalog", "list", "log", "parse", "write"} =>
          success["spans"] # Never /\ at <= success["spans"] + SpansTTL
    /\ due \subseteq owed
    /\ cmd = "run" /\ pc = "write" => \A s \in due : InWindow(s) => s \in parsed

(* The listing under way has staged what has not changed since it began.   *)
CatalogInv ==
    /\ pc = "log" => \A svc \in DOMAIN registry : changed[svc] < fetchedAt => IsStaged(svc)
    /\ CatalogIsLatest

StagingInv ==
    /\ SchemaInv /\ CallsInv /\ FetchInv /\ FreshInv /\ CatalogInv
    /\ SuccessIsStaged /\ EnvTagsAreHonest
=============================================================================
