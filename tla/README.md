# A TLA+ model of the system graph

The repository builds a graph of a company's services, their code, their tests and the
calls between them. `sg-ingest` collects records from three sources (Datadog traces, GitHub
checkouts, static analysis of those checkouts), merges them and writes JSON files;
`sg-graph load` puts the files into Neo4j; an API and a UI query the graph. An LLM pass may
add suggested edges.

This directory models the parts of it that keep state between steps: the registry of
repositories and their clones, the Datadog store, one run of the pipeline, the way from the
JSON files into the graph, and the cache of a language model's answers. It also models what
is computed in between, where the order of steps or of inputs could show in the result: the
stages of the static analysis, the rollup of traces, and the queries over the graph. TLC checks
each module on a small instance, and TLAPS proves the invariants that matter most for every
value of the constants.

    tlc -config GraphLoad.cfg MCGraphLoad.tla       # one run; PROJECT.json lists them all
    tlc -config GraphStamps.cfg MCGraphLoad.tla     # a run whose property the code violates
    tlapm GraphLoadProofs.tla                       # the proofs of one component

PROJECT.json holds the table from every definition to the source lines it models (`map`),
the hazards each property is for, and for each property a variant of the code that breaks it
(`mutants`). Those variants are in the modules, each before the definition it varies, in a
comment that starts with "Variant:".

## 1. Inventory

### How the parts work together

    Datadog API ──> fetcher ──> SQLite store ──> parser, rollup ──┐ priority 100
    git remotes ──> cloner ──> clone + registry row ──> walker ───┤ priority  80
                               clone ──> test parser, resolvers ──┘ priority  70
                                                                  │
        AdapterRegistry.run_all ─> ResultMerger ─> link connections ─> ResultValidator
                                                                  │
                                           JSON files in ./out  <─┘   (LLM enhance adds one)
                                                  │
                     sg-graph load: migrator, GraphLoader (MERGE) ──> Neo4j ──> API, UI

Components interact through files and databases, not through messages: a command is a
process that opens a store, works through a loop, and ends. There are no threads. What makes
the behaviours hard is what happens *between* two commands or two statements:

* a process that dies between two transactions, or between git and the row that describes
  what git did;
* an outside world that moves on: pushes and force pushes, spans that are indexed late, a
  catalog that changes, a remote that fails;
* state that outlives the command that wrote it and is trusted by the next one: SHAs in a
  row, the time of the last success in `fetch_log`, a tracker node of a migration;
* two commands that nothing keeps apart: a load that reads while a run writes.

### The components

| Component | State | Operations | Hard behaviours | Correct when |
|---|---|---|---|---|
| GitHub registry, cloner, adapter (`ingestion/adapters/github`) | rows in SQLite, clones on disk, records in memory | add, remove, clean, ingest; clone, fetch, reset; walk; record_clone, record_ingest | crash between git and the row, force push, half-written clones, remotes that fail, dropped results | a row marked at a SHA was walked at that SHA; everything registered is ingested in the end |
| Datadog store, fetcher, adapter, client (`adapters/datadog`) | SQLite: spans, catalog, fetch_log, _migrations | open/migrate, is_stale, paged fetch, insert, record_fetch, parse | transactions apart, failed page, page limit, late indexing, two envs in one store | a recorded success has its window; `run` serves nothing stale |
| Adapter registry, merger, enrichment, validator (`core/adapters`) | registered adapters, results, merged dictionaries | register … run_all, merge, link, validate | one of several adapters failing; conflicts between results | the higher priority wins, nothing else is lost, connections keep their source |
| JSON dump, migrator, loader (`ingestion/cli.py`, `core/graph`) | files in ./out, constraints, tracker nodes, nodes and edges | dump, init, load, clear | crash between statements, load during a dump, reload over an older graph | a load that ends is complete, and repeating it changes nothing |
| Trace rollup, span parsing, catalog overlay (`adapters/datadog`) | buckets and last-seen times while spans are read | parse, overlay | equal times in any order, one pair observed with several protocols, names that are a service here and a cache there | counts, errors and times are those of the *set* of spans; the result is closed |
| Test parser adapter (`adapters/testparser`) | facts of a checkout, the records made so far | discover, 14 stages per repository | ids rewritten after they were referred to; walk order; one repository that raises | every reference of a record resolves |
| Resolvers, walker, facts (`core/*`) | none between repositories | calls, coverage, mocks, tables, shell, queries, topics, models, config | re-exports in cycles, shadowed names, ambiguous paths | edges follow imports and do not depend on the walk order |
| Languages, grammars (`core/languages`, `ingestion/grammars`) | none | parse source text into facts | – | – |
| Framework library (`core/frameworks`) | YAML definitions | load, compose, detect | order of overlays | project definitions win |
| LLM passes (`core/llm`, `grammars/llm_grammar.py`) | a cache on disk, a budget, the suggestions | ask, cache, suggest, extract | crash between an answer and its entry, torn entries, failures stored as answers, caps | an answer is paid once, a result is what the cache says |
| Mapper, confidence scorer (`core/*`) | none | pure functions that no command calls | – | – |
| Graph queries, API services (`core/graph`, `api/services`) | none | impact, neighbourhood, overview, callers, dependents | hop bounds, cycles, several answers to one question | what is returned is what is reachable, at its distance, and the answers agree |
| API routers, UI, settings | none of their own | HTTP | – | – |

PROJECT.json lists each with its sources, what of it is modelled and why the rest is not.

## 2. The modules

| Module | Models | Checked by | Proofs |
|---|---|---|---|
| `IngestLedger` | abstract: what incremental ingestion promises | refined by `GitHubIngest` | – |
| `GitHubIngest` | registry, cloner, service, adapter, `sg-ingest github …` | `MCGitHubIngest`, four runs | `GitHubIngestProofs` |
| `DatadogStaging` | store, fetcher, client, adapter, `sg-ingest datadog-…` | `MCDatadogStaging`, one run | `DatadogStagingProofs` |
| `Pipeline` | AdapterRegistry, ResultMerger, linking, validator | `MCPipeline`, one run | `PipelineProofs` |
| `GraphLoad` | the files, `sg-graph init/load/clear`, migrator, loader | `MCGraphLoad`, two runs | `GraphLoadProofs` |
| `LLMPass` | the enhance pass, `LLMGrammar`, `FileCache`, the budget | `MCLLMPass`, one run | `LLMPassProofs` |
| `CodeFacts` | paths, facts, what they declare, modules and re-exports | through `TestParser` | with `TestParser` |
| `CallResolver`, `RouteResolver`, `StackResolvers`, `TestResolvers`, `RecordResolvers` | the resolvers, as functions of a tree and of the artifacts so far | through `TestParser` | with `TestParser` |
| `TestParser` | the adapter: repositories, walk, stages | `MCTestParser`, one run | `TestParserProofs` |
| `TraceRollup` | `DatadogParser`, `TraceParser`, the catalog overlay | through `ServiceMap` | `ServiceMapProofs` |
| `GraphQueries` | hops of `queries.py` and `graph_service.py`, as functions of a graph | through `ServiceMap` | `ServiceMapProofs` |
| `ServiceMap` | composes the rollup, the loader's edges and the queries | `MCServiceMap`, two runs | `ServiceMapProofs` |
| `NaturalLemmas` | nothing: the order of the naturals and recursion over it, for the proofs | – | in itself |

The modules follow the data. `Pipeline` takes each adapter as the results it may return,
which the GitHub, Datadog and test parser modules are about; `GraphLoad` takes the results of
`Pipeline` as its constant `Results`, and suggestions as `LLMPass` makes them.

### GitHubIngest

A commit is a number, its place in the history of the repository; 0 is "no SHA". The row of
a repository is `registered`, `commit` (last_commit_sha), `ingested` (last_ingested_sha),
`status`, `branch`. A clone is what lies at its path: nothing, a directory without `.git`, a
usable or an unusable `.git`, the tree of the working directory and the branch it follows.
`tip` is upstream. `pc`, `cur`, `todo`, `fresh`, `batch` are the running command: the loop of
`extract()`, the `CloneResult` of the repository at hand, the records collected so far. `out`
is what services.json and artifacts.json hold. A repository of the model is a URL, by which the code
keys its rows. It names the service owner/name (adapter.py:146), so that of two URLs that differ in the
host only the merge keeps one; records here are told apart by URL, and the merge is that of `Pipeline`.
Where two such repositories share a directory is `ClonePath`.

One action per step that leaves a trace: git (`FirstClone`, `UpdateUnchanged`,
`UpdateReset` and their failures), the two row updates (`RecordClone`, `RecordIngest`), the
walk, the files; `remove` and `clean` with the directory before the row, as in the code.
`Crash` may fall between any two steps, `CrashInClone` and `CrashInRmtree` inside one that
writes a directory. `AbortExtract` is an exception that leaves `extract()`: `run_all` keeps
the failure and drops the result. The store is documented as not shared between processes, so
one command runs at a time.

`walked` and `fate` are history: the tree of the last recorded ingest, and whether its records
are still in the result of the run, in the files, or gone.

### DatadogStaging

A span is its identity: an env and the time its call started. The clock, the calls, their
late indexing and the catalog change at any moment. A command (`run`, `fetch`, `parse`) opens
the store, applying migrations statement by statement; decides from `success` (the last
success per API in fetch_log) whether to fetch; reads pages into an open transaction
(`pulled`); commits; records the success in a second transaction; and parses what lies in the
window. A command other than `run` may look back less far, or for another env (`window`, `env`).
`owed`, `due` and `changed` are history: the spans that the recorded successes vouch for; of those, what
the last success found of the very window and env that `run` asks for (nothing, if it was for another
env, looked less far or was cut at `MaxPages`); and when Datadog's catalog last changed what it says of a
service, so that `CatalogIsLatest` compares the store with the catalog itself and not with a copy of
what was inserted. Every step may be the last (`Ends`), and a failing page rolls back
(`SpansFail`, `CatalogFails`).

### Pipeline

Items have a kind and an id; connections also source, target and traced route, endpoints
their repository and route. Adapters are registered in any order, and each extracts one of its
possible results or raises. The merge goes item by item (`at`), keeping positions in the
results (`merged`, in dictionary order) rather than copies, so that where a record came from
stays visible. `Link` is the endpoint join with its exact and its suffix match; `Validate` is
the validator's errors and the exit code. `enrichment.py:38` passes over a connection that has its
endpoint already; none has, since no adapter sets `target_endpoint_id`, and the model leaves the test out.

### GraphLoad

A record is its label, id and a version of its properties, a foreign key is an edge. Dump
and load are two processes: `out` is the files, each possibly truncated and not yet written;
`merged` is what the load read of each. The load migrates (`ddl`, `constraints`, `tracker`),
turns records into rows, and merges them in transactions of at most `BatchSize` rows, nodes
first, then resolver edges in the order of the statements, then suggestions. `HasEnds` is the
MATCH of both ends: an edge without them vanishes silently. `loaded` and `settled` are history. A dump
is that of `run` (every file), of `github ingest` or of `datadog-parse` (two files each, of which an
instance has those of its labels). `applied_versions` takes a tracker that it cannot read for an empty
one, so `RecordVersion` may go on to version 2 although the tracker has it.

### LLMPass

A key of the cache is what its prompt tells: of a call, its file and line, callee, caller and
the first candidates (`Question`); of a file, its content and suffix (`ContentKey`). `disk` maps
every key to its entry, `Missing` or `Torn`. A process has a `mode` (which pass, file or null
cache, what an exceeded budget means), its `job`, and works through it (`at`). An answer of the
provider is held in `reply` until `Put` stores it; `Crash` between the two loses it, and may
leave a torn entry, as `write_text` truncates first. The enhance pass has no budget; a walk
checks `WithinCaps` before it asks and counts the file with the answer. `AskRaises` is a provider that raises;
a client that swallows its failure answers with `Failed`, which is stored like any answer.
`paid`, `lost` and `raised` are history.

### CodeFacts, the resolvers and TestParser

A file is its path and kind, a fact a record with its kind, line and what the resolvers read;
source text ends there. An id is the tuple of the parts that the code joins with colons, so that
the rewriting of ids (`Rebase`) is the replacement of one part. `CodeFacts` has what all
resolvers share: test paths, the two ways to make a path relative, declarations, import targets and
re-exports (`Expand`, with the depth bound `MaxAliasDepth`), the enclosing artifact of a line.
`CallResolver` is `CallEdges`: receivers through `self`, parameters, module variables,
aliases, dependency injection, bases. `StackResolvers` is the other languages: PL/SQL and Pro*C
calls, tables, shell scripts, forms. `TestResolvers` is tests, coverage and mocks,
`RecordResolvers` services, endpoints, models, queries, topics and configuration.
`RouteResolver` is what the endpoints are made of, by the strategy of each framework: decorated
functions (FastAPI, Flask) under routers that include each other across files (`Includes`, `Chain`,
with the single mount as the way out for a router that the chain knows nothing of), and annotated
methods of annotated classes (Spring). A path is the sequence of its segments; an argument that is no
literal is the placeholder the grammar makes of it. Where several files end with the path of a
module, the code takes the least of them and the model leaves open which that is.

`TestParser` has the state: the `queue` of repositories, the `tree` of the one at work,
`artifacts` and `tests` as the stages rewrite them, and the `result` of all. One action per stage
in the order of `_extract_repo`; `Walk` takes the files in any order of `Orders`, and `Raise`, at
any stage, loses the result of every repository. Where the code loops over a list and carries
something along (`Expand` over the re-exports, `FunctionArtifacts` and `Tests` over the declarations
seen so far), the model has a recursive function over the positions, never a RECURSIVE operator, so
that it can be proved about.

### TraceRollup, GraphQueries and ServiceMap

`Read` takes one span of the window, none before an older one: spans of one time may come in any
order. It remembers when each service was last seen and fills the bucket of source, target and
endpoint. `Roll` makes connections of the buckets with enough spans and lays the catalog over the
services. `GraphQueries` are functions of a graph of nodes and relationships: a pattern of
variable length matches *trails* (no relationship twice), as in Cypher, and `Impact`,
`Neighborhood`, `Overview`, `Calling` and `Dependents` are read off them. `ServiceMap` puts a
finished rollup and some static records into a graph (`Graph`: an edge needs both its ends) and
states what the queries must return. `Windows` are the sets of spans that a window may select: any, in
the proofs.

## 3. What the runs show

| Run | Instance | Shows |
|---|---|---|
| `gh_linear` | 2 repositories, 2 commits, linear history | a mark is the commit whose tree was walked (`IngestedFromItsTree`, `LinearInv`); records between the mark and the files are carried (`InFlightIsCarried`) and both files get them (`RunPublishesWhatItMarked`); the module implements `IngestLedger` (`LedgerSpec`) |
| `gh_robust` | 1 seed repository, 3 commits, force pushes, half-written directories | a row that does not ask for an ingest was walked for its SHA, its status claims no more, and only such a row is skipped; left alone, repeated runs bring it to its tip (`EventuallyIngested`) |
| `gh_dropped`, `gh_rerun` | the smallest that shows it | two statements of the docs that the code does not keep (section 6) |
| `datadog` | 3 spans, 2 envs, 2 windows, 2 pages of 1, 1 catalog entry, clock to 2 | no statement meets a missing table, a success has its window staged, env tags are true, `run` serves fresh spans and all that a fetch like its own had found, what the catalog says is staged since the last recorded listing |
| `pipeline` | 3 adapters, 2 to 3 results each | `WinnersOutrank`, `NothingIsLost`, `NoDanglingSource`, `LinksAreJustified` |
| `graph_load` | 2 results, 2 labels, batches of 2 | tracker and schema agree where it matters, a completed load has everything, each edge with the stamp of a link or suggestion that gave it, reloading changes nothing |
| `graph_stamps` | the same | a resolver's edge is the LLM's after the load, if the LLM suggests it too (section 6) |
| `llm_pass` | 2 inputs of the enhance pass, 2 walks, at most 3 passes | an answer is asked for again only if a crash lost it (`PaidOnce`), what a pass returns can be read off the cache (`ResultIsTheCache`) |
| `testparser` | a Python repository of 5 files, one of 8 that re-export each other's names, one of 9 files (PL/SQL, Pro*C, shell, Forms, YAML, Python, Java) | after every stage no record refers to an id that nothing bears (`NothingDangles`), calls follow imports, calls, coverage and endpoints do not depend on the walk order, a test covers what its imports and mentions say, to the end of every re-export that the bound cannot cut, and nothing else |
| `service_map` | 10 spans of 3 services in every window, and the calls of a ring of 6 services in every window, depths 0 to 9 | buckets are what the set of spans says, the result is closed, an impact is the neighbourhood by distance, four answers about dependents agree as far as an impact goes |
| `service_hops` | the same | a call is two hops for an impact (section 6) |

### The bounds, and why they are enough

* GitHub: two repositories are needed for one to fail after the other was marked, two commits
  for a clone to be ahead of its row, three commits with force pushes for a tip to come back
  to a SHA the row remembers. `gh_robust` has one repository, for its liveness property and the state
  space of force pushes; the interleaving of more repositories adds no new order: they
  share only the loop and the result. `gh_linear` uses symmetry, which is sound there because
  no repository is a seed and the run has no liveness property.
* Datadog: three spans with pages of one and two pages allow a complete fetch, a fetch cut by
  `MaxPages` and a failed second page. A clock to 2 with a window and a TTL of 1 lets a span leave
  the window, a success go stale, and the catalog change between two fetches a TTL apart. The other
  window, of 0, is shorter than that of `run`; a longer one finds nothing that `run` is owed beside its
  own. `Bounded` keeps the product of the two halves of the store out: in one behaviour spans are
  called or the catalog changes, and the shorter window is asked for with the env of `run` only. The
  interchangeable spans and catalog values are symmetric.
* Pipeline: the results share services, topics and routes, one holds an id twice, and the
  traced route occurs exactly, in lower case, under one open prefix, under two, and not at all.
* GraphLoad: `full` and `partial` overlap, so that a reload meets an older graph; the partial
  one has a link whose end it does not hold, and both have a suggestion for an edge a resolver
  emits. Three nodes of one label in batches of two make a statement take more than one
  transaction. Two labels belong to the two migrations; none is of a file of
  the Datadog adapter, whose dump differs from that of GitHub in its files only.
* LLMPass: three passes are one that pays, one that dies and one that must not pay again. The two
  inputs differ by an artifact, which changes the candidates of a question and so its key; the
  calls are bound, unbound, nested, repeated and outside of any function, answers lie below, at
  and above the confidence and name an artifact that does not exist. The walks have a blank file,
  two files of one content, and files that exceed the one cap or the other.
* TestParser: the repositories have one construct per branch of the resolvers: re-exports over one
  and two levels and in a cycle; names that two
  files declare; calls through every kind of receiver; relative imports of a name, of a submodule and
  of nothing (`from . import *`); a directory named like its repository and a path that ends with
  another. `MaxAliasDepth` is the 5 of the code. `lib` has a name that is re-exported five times, the
  most that must be followed, one in a cycle, and one that the bound cuts (the case of
  function_call_resolver.py:899 in section 6). `api` is walked in all 120 orders of its files, `lib` and
  `ops` in one order and its reverse; the configurations find all repositories, one, the root as one, and
  none. Endpoints may
  depend on the order where two files rival: both mount routers of one name, or both give a base
  path. `OrderDoesNotMatter` asks nothing of the endpoints there
  (`Rival`); the instance has no such files, so the condition is met in every order of its walks. It
  asks nothing of the calls of PL/SQL and of shell scripts, nor of mocks, where the last of equal names
  in the order of the walk wins (oracle_call_resolver.py:69, :156; mock_resolver.py:85-98).
* ServiceMap: the ten spans hold a circle of services, one pair observed with two protocols at one
  time, one name that is a cache and a service, calls within a service and to none. Windows are
  all 1024 subsets of these; `MinSpanCount` 2 makes connections of some buckets only. In the ring of six
  services with a short cut every call is observed twice or not at all, in all 128 ways, and services
  are up to five calls apart, ten relationships: more than the eight an impact goes. The depths lie below
  the clamp (0), within it (1, 2, 4), where an impact asked for twice the depth meets it (4 and 5, the
  default of dependents) and beyond it (9).

Deadlock is not a question in `datadog` (the clock is bounded and all calls may have been made),
`llm_pass` (passes are bounded), `pipeline`, `testparser`, `service_map` and `service_hops` (a run ends), so their
configurations switch the check off; the other
configurations keep it.

### Fairness

Only `gh_robust` uses it (`FairSpec`):

* `SF_vars(StartIngest(Repos))`: `sg-ingest github ingest --all` is run again and again ("ingest
  as many times as you like", src/README.md:140). It is only enabled between commands, hence strong.
* `WF_vars(ProcessStep)`: a started command goes on.
* `WF_vars` of "git answers, one way or the other", and `SF_vars(GitSuccess(r))`: git does not
  fail for ever on a repository where it could succeed. Without it a remote that is always
  down refutes convergence trivially.

Nothing forces users, pushes, crashes or failing walks to stop, so the property assumes it
(`Undisturbed`). It excepts a repository whose clone has a `.git` that cannot be opened, which no run
repairs (section 6).

## 4. What is proved

| Module | Assumptions | Inductive invariant | Theorems |
|---|---|---|---|
| `GitHubIngestProofs` | `ConstantsOK`; for `LinearInv` also `LinearHistory` (no force push, whole directories, one branch, a directory per repository) | `LinearInv`; `RegistryInv` without `LinearHistory` | `TypeCorrect`, `LinearInvariant`, `IngestIsFaithful`, `ImplementsLedger`; `RegistryInvariant`, `CrashesRetry`, `StatusIsHonest`, `NothingIsLostInFlight`, `PublishedAsWalked`, `SkipsAreSafe` |
| `DatadogStagingProofs` | `ConfigOK`, `SpansAreFinite` | `StagingInv` | `TypeCorrect`, `StagingInvariant`, `SchemaIsAlwaysReady`, `SuccessesAreStaged`, `RunsServeFreshSpans`, `TagsStayHonest`, `CatalogStaysLatest` |
| `PipelineProofs` | `AdaptersOK`, `NoneIsNoExitCode`, `SourcesTravelAlong` | `OrderInv`, `MergeInv`, `LinkInv` | `TypeCorrect`, `PipelineInvariant`, `PriorityWins`, `MergeLosesNothing`, `SourcesStay`, `LinkInvariant`, `LinksAreHonest` |
| `GraphLoadProofs` | `ContentOK`, `ContentIsKeyed` | `SchemaInv`, `LoadInv`, `ReloadInv` | `TypeCorrect`, `TrackerIsSafe`, `MergesAreConstrained`, `LoadInvariant`, `LoadIsComplete`, `ProvenanceIsHonest`, `ReloadInvariant`, `ReloadGivesTheSameGraph` |
| `LLMPassProofs` | `ConfigOK`, `JobsOK`, `EntriesAreTold`, `SizeIsOfContent` | `PassInv`, `CacheInv` | `PassInvariant`, `TypeCorrect`, `AnswersArePaidOnce`, `CacheInvariant`, `PassesAgreeWithTheCache` |
| `ServiceMapProofs` | `ConfigOK`; for the queries `DepthsOK`, `StaticOK` | `RollupInv`; the queries need none | `RollupInvariant`, `RollupIsRight`, `ResultIsClosed`; `AlwaysByDistance`, `AlwaysAgree` |
| `TestParserProofs` | `ContentOK`; for the ids `PathsOK`, `NamesOK` and the hypothesis `NoneIsNothing`; for the calls `FactsOK` too | `PublishedInv`; for the ids `UniqueInv` too; for the calls also `ScopeInv` | `PublishedInvariant`, `ReferencesHold`; `UniqueInvariant`, `TypesHold`; `ScopeInvariant`, `CallsAreInScope` |
| `NaturalLemmas` | – | – | lemmas only |

What the assumptions rest on, where they are more than the type of a constant:

* `LinearHistory` restricts what is claimed, not what is modelled: `gh_robust` drops it, and so does
  everything that follows from `RegistryInv`.
* `SourcesTravelAlong`: every adapter emits the service that a connection of its starts from.
* `ContentIsKeyed`: the merger has left one record per id, the enhance pass one suggestion per pair.
* `SizeIsOfContent`: whether a file is blank, and its estimated tokens, are computed from its text
  (`content.strip()`, `_estimate_tokens(content)` of `llm_grammar.py`), so two files of one text
  agree on both. Without it a file could be cheap enough to ask about where its twin was not.
* `StaticOK`: of what the loader relates (loader.py:104-330) only INITIATES, TARGETS and EXPOSES end at
  a service or a connection, and EXPOSES is made of `external_connections`, which only
  the mapper fills and no command calls. Without it, something other than a call could lead into a
  service, and an impact of it would rightly differ from its dependents.
* `ContentOK` of `TestParser`: a grammar gives the facts of a file as a list, and the tables that a
  statement names are finitely many.
* `PathsOK`: a path is a list of names, and a grammar gives every fact of a file the path of that file.
* `NamesOK`: the target of a piece of SQL is a name of at least one part, lower-casing twice is
  lower-casing once, and a lower-cased name is not `None` (oracle_call_resolver.py:166-180 splits
  `qualified.lower()`).
* `FactsOK`: every fact has a kind and a file, an import a module and names, which may be none, and a
  call a receiver, which may be empty (the dictionaries that the grammars fill, tree_sitter_grammar.py:261).
* `NoneIsNothing`: Python's `None` is neither an artifact nor an id. The lookups of the code tell "found
  nothing" from what they find by `is None`, the model by `# None`; an untyped constant could be one of
  the ids. It speaks of every value, so TLC cannot evaluate it and it is the hypothesis of the four
  theorems that need it; in a run `None` is a model value, which is no record and no list.

How the arguments go:

* **GitHub, linear.** "Marked at the commit that was walked" is not inductive: when the fetch finds the
  remembered SHA at the tip, the tree on disk is left alone, and only because the clone is never
  *behind* its row is it the tree of that SHA. `CloneIsNotBehind` says so, `FreshIsOnDisk`
  carries it from the cloner's return to `record_ingest`. The refinement of `IngestLedger`
  follows from the invariant: `RecordIngest` is `Mark`, `DeleteRow` is `Forget`, `Push` is
  `Advance`, the rest stutters. `LinearHistory` is needed: after a force push back to an older
  SHA the argument fails.
* **GitHub, any history.** What survives force pushes, torn directories, branch changes and
  repositories that share a directory is the bookkeeping, and `RegistryInv` is what carries it.
  `RowIsHonest`: a status claims no more than the SHA columns, and a marked SHA had a walk. This
  alone does not survive `record_ingest`, which marks the SHA of the step at hand: `StepAtHand` says
  that the row still holds that SHA, because the loop works on one repository at a time and has left
  it behind (it is in no `todo`). `CarriedByRun` says the same of records in flight: the run will not
  come to their repository again, so nothing overwrites them in the batch. `FilesAgree` makes the
  second file the same as the first, which is what `RunPublishesWhatItMarked` needs at its last step.
  The two action properties follow from the invariant in the state before the step.
* **Datadog.** `FetchInv` follows a fetch: what it had to find is read or remaining, what it read
  matches its env, what it read is committed before it is recorded. `FreshInv` says that a `run`
  past the spans has a success within the TTL of its time of reference; with the first, what is
  due inside the window is parsed, since what is due is owed and what is owed is staged. `CatalogInv`
  adds to `CatalogIsLatest` what holds between the insert and its record: whatever has not changed since
  the listing began is staged. A change after that is later than the success to be recorded.
* **Pipeline.** `OrderInv`: results lie in falling priority and whoever is still to run ranks no
  higher. `MergeInv`: every position passed has a kept record of its key, and a kept record is the
  first of its key. First in the order of the results is then highest in priority.
  `SourcesTravelAlong` is what the adapters guarantee (each emits the service a connection starts
  from); with it the validator can find no error. Links are made in one step from what was kept
  (`LinkInv`: none before, justified after); the work is in that step: the lookup of a connection
  finds an endpoint of the merged result with that very route, or a suffix match only where there is
  no exact one.
* **GraphLoad.** `SchemaInv`: what a migration has not yet constrained is still to do.
  `RowsInv`, `PhasesInv`, `MergedInv`: a row is pending or in the graph, and a phase starts only
  when the one before it is through, so that an edge meets both its ends. Reloading is harder than it
  looks, because a reload does change the graph on the way: edges that a suggestion overrode become
  the resolver's again until the suggestions are merged. `StillAs` says what stays: the nodes, which
  edges there are, and every edge that has no suggestion left to merge. It holds after a load of
  the same files that died, and `HasEverything` says why nothing can be added.
* **LLMPass.** `PaidOnce` alone says nothing of an answer that was paid for and is not stored yet.
  `PaidIsKept` does: a key without a whole entry, and for which no answer waits to be stored, was
  paid for as often as it was lost. `AtWork` ties a waiting answer to the key it was asked for, so
  that `Put` and a torn write meet the right entry. `CacheInv` is `ResultIsTheCache` of the
  calls and files behind `at`. It is inductive only with what it says of the others: an answer is
  awaited only for a key without an entry, so that no `Put` changes what earlier calls have read
  (`pc = "put" => ~Whole(Key)`), every earlier call has its entry, and a file that was given up was
  over the caps. A twin of that file behind it is then over the caps as well, as what was spent only grows
  and the size is that of the content.
* **TraceRollup.** The invariant relates the buckets to the *set* of spans read (`Group`), so that
  a step adds one element to one group: cardinalities grow by one (FiniteSetTheorems).
  `ReadInOrder` makes the first span of a bucket one of its oldest, which is why its protocol is
  that of an oldest span; `SeenIsLatest` makes the ends of a connection alive when it was used.
* **Queries.** Nothing here depends on the state: the two properties are proved of the graph that any
  services and connections make. `Trails` gives the sequences of ways that join end to end and use no
  relationship twice, of every length up to the bound (`TrailsAre`), and `Near` grows by one hop
  (`NearGrows`). A trail of *k* ways stays within *k* hops (`TrailIsNear`); the converse is where
  trails differ from walks: to a node at distance *k* there is a trail of *k* ways, because a way that
  would be repeated had already come to that node at a smaller distance (`NearHasTrail`). So the
  shortest trail is the distance (`FarIsShortest`, `ShortestIsFar`), and the trail but its last way is a
  shortest one to the node before (`HopBefore`). A trail reversed is a trail of the flipped ways, as
  long and of the same types (`Reversal`, `Mirror`), which makes upstream the mirror of downstream.
  For the dependents, a trail against the arrows from a service meets connections and services in turn
  and nothing else (`Alternates`, from `Shaped`): an impact over thirteen types and the dependents
  over two then have the same trails, those that end at a service are of even length, and halving
  commutes with taking the least (`LeastIsHalf`). `DependentsAgree` says where this ends: an impact never
  goes beyond eight relationships, so it is compared with the dependents at four calls or fewer,
  at whatever depth both were asked for.
* **TestParser.** `NothingDangles` of the result is not enough, because a stage publishes records
  that refer to `artifacts` and `tests`, not to the result. `PublishedInv` adds that from the stage
  on where they are published, what is at work *is* in the result, and that a repository has its
  service before its connections. For every resolver a lemma says what its references are taken from:
  each of the seven ways a call may be bound ends in a lookup among the artifacts; a PL/SQL call, a
  table and a script that nothing declares gets a stub, which is added with the reference; the
  class and method of a mock, what a test covers and the handler of an endpoint are looked up in the
  same lists. Stages that rewrite records keep their ids and only add references
  (`StaysConsistent`). The lists that the recursive functions make are followed position by position.
* **TestParser, ids.** That one id has one artifact is not inductive either, because a stage may only
  append what the stages before did not make. `UniqueInv` therefore says, stage by stage, which kinds
  of artifact there are so far, and that the id of a function, class or method is made of its kind, its
  file under the root and its name. Then each stage is an argument of its own. *Declared:* a fact whose
  id is known is passed over. *Rewritten:* `Rebase` puts a path that is relative to the repository in
  place of one under the root, and two files under one directory have different relative paths
  (`RelativeOnce`), so two ids stay two. *Stubs:* a callee gets one only if `Routine` found nothing, and
  it would have found any routine that bears the stub's id, in a repository named `external` as well; two
  callees of one id are one, because their names are in lower case already. *Tables and scripts* are
  of kinds that no stage before makes. Stages that only add references leave the ids alone (`Alike`).
* **TestParser, calls.** `CallsFollowImports` is of one state, the one after a single step, so the work
  is in what that step computes, and `ScopeInv` only says what it starts from: nobody calls yet, and
  every artifact is of a file of the tree, by the path that the resolver knows it by (two functions make
  a path relative, `RebasedFile`). The step is followed through a set of files that no import leads out
  of (`Contained`), with the file of the caller in it. Every lookup stays in such a set: a module that an
  import of one of its files may name opens only into it (`LeadsInside`), a name that an aggregator
  in it re-exports stands for one that is in it (`ReExportsInside`), so the stack and the findings of
  `Expand` do, however the re-exports go in circles and wherever the bound cuts them (`ExpandInside`);
  then so does each of the seven ways of a receiver, an injected function and an annotated one.
  That the files which the property calls reachable are such a set is a counting argument: a hop that
  adds nothing ends it, every other adds a file, and there are as many hops as files (`ReachFacts`).
  The proof found the property too strong as it was first stated, which no run had shown: an aggregator's
  relative import was read with its level only, and the call resolver ignores the level (section 6).
  `ReadAs` has both readings for an aggregator, and the instance now has such an import.

**Recursion and induction.** An induction theorem takes the formula as an operator, which the provers
cannot instantiate. `NaturalLemmas` gets along without: a set of naturals that is not empty has
a least element (`Least`, from `WFMin`), so the set of positions where a formula holds, if it has 0
and is closed under the next, has them all (`UpTo`); and a function that is given by its value one
position below exists (`Recursion`), applied to the step as a function on pairs. Both are first-order
statements about sets, and are what the proofs about `FunctionArtifacts`, `Tests`, `FlattenSeq`, `Trails` and
`Near` stand on, and those about `Expand` and `Reach`.

Only model-checked, and why:

* `EventuallyIngested`: liveness under fairness and ENABLED are beyond TLAPS as it is used here.
* `OrderDoesNotMatter`, `CoverageIsFaithful`: the first compares the result of two lists of one set of
  facts through every lookup, the second compares the program's index of references with the
  definition by imports; these are what recursive definitions compute, for every input. `MCTestParser`
  has every order of the walk of its instance for them. `CoverageIsFaithful` says what is true of the code at
  any bound: all is found where the names that a name stands for are no more than fit on one way of that
  depth (`NeverCut`), and what is covered never lies beyond it. Between the two the program may find a
  name or miss it (section 6). Of a test whose path another file's path ends with, only the first half is
  asked, and nothing of a test that shares its name with another of its file or lies below a directory
  named like the repository.
* `RerunIsNoOp`, `DroppedRecordsAreRetried`, `ResolverEdgesStay` and `ACallIsOneHop` do not hold (section 6).

## 5. What is left out, and why

* Text: wording of warnings and summaries, formatting, logging, previews and `list`/`status`
  output. Ids and properties are model values.
* The records of a walk, beyond the tree they come from (`GitHubIngest`), and the properties of
  nodes, beyond a version (`GraphLoad`).
* Parsers of source text (tree-sitter, regular expressions), HTTP, the React client, settings.
* Two processes on one SQLite store: documented as unsupported (github/store.py:16).
* Neo4j's driver: a session runs one statement or one batch in a transaction.
* The YAML of the framework library: loading and overlaying are I/O and dictionary updates; the
  resolvers' modules take the composed definitions as `Library`.
* Mapper and confidence scorer: pure functions that no command calls, only their tests.
* Queries of one pattern, counts, search, the dashboard and the Markdown report: they read and
  print.
* `_build_relationships` of the command line: a pure function of the merged records, written to a
  file that the loader does not read.

## 6. Where code and docs disagree

| Run | Statement | What the code does |
|---|---|---|
| `gh_dropped` | service.py:17: a crash mid-extract is retried | the mark is committed per repository while the records are in memory; a later failure or crash drops them, and the row asks for no retry |
| – | cloner.py:11: an unreadable clone is cloned anew | a clone with a `.git` that cannot be opened fails for ever |
| `gh_rerun` | README.md:156: a rerun is a no-op | a skipped repository contributes nothing, and the files are overwritten without it |
| `graph_stamps` | enhance.py:6: the LLM never overrides a resolver's edge | the suggestion is merged into the same relationship, whose source and confidence it sets |
| – | config.py:30: the env keeps other traffic out | `run` parses whatever is staged, for whichever env it was fetched, and skips its own fetch after one for another env |
| – | store.py:298: no half-written windows | a fetch that is cut at `max_pages` is recorded as a success, and the rest is not fetched within the TTL |
| – | validator.py:23: errors block the load | errors are printed, the files are written all the same; `NoDanglingSource` shows that the adapters give no occasion |
| – | validator.py:50: the loader creates stub services | it matches both ends: an artifact of an unknown repository loses its edge |
| – | cli.py:418: `--branch` tracks the branch | only the first clone does; a later change of the row's branch reaches no clone that exists |
| – | store.py:223: a failure makes the next run retry | only successes are looked at |
| – | budgets.py:3, :45: every call passes one budget of the whole run | every grammar of every walker has its own, and the enhance pass has none |
| – | anthropic_client.py:81: better to lose a file than the run | the empty answer of a failure is cached, so that the file is lost to every later run |
| – | cache.py:3: the same file, the same answer | the cached facts name the file they were first extracted from |
| – | oracle_call_resolver.py:5: CALL facts in PL/SQL files | CALL facts of every language become calls of PL/SQL routines |
| – | oracle_call_resolver.py:154: only a unique match | of several routines of one name the last one is taken |
| – | base.py:36: an allowlist of repos | a filter that nothing passes scans the whole root as one repository |
| – | function_call_resolver.py:426 | the level of a relative import is ignored but for re-exports: `from .shop.app import main` is looked up from the root |
| – | function_call_resolver.py:899 | a name first met at the greatest depth is not followed when it is met again nearer: a re-export two steps away can be missed, by the order of the others |
| – | coverage_resolver.py:112 | a test under a directory named like its repository covers all it imports, whatever it mentions |
| – | coverage_resolver.py:24: IMPORT facts in its file | also those of a file whose path ends with the test's |
| – | test_resolver.py:76 | methods of one name in two classes of a file are two tests of one id |
| – | decorator.py:282: prefixes in the order FastAPI would | one include per router is kept, the last in the walk; the paths under its other includes are missing |
| – | nodes.py:70: GET, POST, PUT, DELETE, PATCH, RPC | `@app.route` gives the method ROUTE |
| – | annotation.py:118: `method=` normalized | `RequestMethod.GET` becomes `<MEMBER:GET>` |
| – | decorator.py:164 | `app.mount` with a path never gives a prefix: the router is looked for in the argument of the path |
| `service_hops` | graph_service.py:28: a call is a single hop | INITIATES and TARGETS are two hops: a depth of 1 finds no service |
| – | queries.py:46: dependents up to a depth | a row for every length at which a caller reaches the service (`DependentsAgree` compares the least) |
| – | loader.py:251: CONTAINS for producers, consumers, mocks | they get none; nothing leads from a service to its topics |

## 7. Plan

Done: the modules of section 2 with their runs and proofs. What is left, most important first:

1. The framework library's overlays, as functions against a reference.
2. `OrderDoesNotMatter` of the calls alone, from what the lookups share with `CallsAreInScope`.
