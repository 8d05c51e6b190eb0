------------------------------ MODULE TestParser ------------------------------
(***************************************************************************)
(* TestParserAdapter: the repositories under a root, one after the other,  *)
(* each walked file by file and then taken through the resolvers.  A later *)
(* stage refers to what an earlier one made by ids that were rewritten in  *)
(* between, the order of the files is the file system's, and whatever      *)
(* raises loses the result of every repository.                            *)
(***************************************************************************)
EXTENDS CallResolver, StackResolvers, TestResolvers, RecordResolvers, FiniteSets

CONSTANTS
    Content,         \* the facts that a grammar gives for each file, were it read
    Unread,          \* files that are too large or cannot be read
    Links,           \* symbolic links
    Root,            \* the path of the root
    IsDir,           \* whether the root is a directory
    Subdirs,         \* the names of its directories, sorted
    HasMarker,       \* whether a repository's markers lie in the root
    ExcludedDirs,    \* of the adapter
    WalkerExcluded,  \* of the walker
    Configs,         \* [single, filter] as the settings and the command line give them
    Orders(_)        \* orders in which a walk may meet a set of files

(* A grammar gives the facts of a file as a list, and the tables that a    *)
(* statement names are finitely many.                                      *)
Facts == UNION {ToSet(Content[f]) : f \in DOMAIN Content}
ASSUME ContentOK ==
    /\ \A f \in DOMAIN Content : Content[f] \in Seq(Facts)
    /\ \A fact \in Facts : fact.kind = "sql" => IsFiniteSet(fact.tables)

(* A path is a list of names, a file is its path and its kind, and the     *)
(* facts of a file name it; a module and a receiver are lists of names     *)
(* too.  What a statement calls has a name, which in lower case is a name  *)
(* that is in lower case.                                                  *)
IsList(s) == s \in Seq(ToSet(s))
ASSUME PathsOK ==
    /\ IsList(Root) /\ IsList(Subdirs)
    /\ \A f \in DOMAIN Content :
          /\ f = [path |-> f.path, ext |-> f.ext] /\ IsList(f.path)
          /\ \A fact \in ToSet(Content[f]) : fact.file = f
ASSUME FactsOK ==
    \A fact \in Facts :
        /\ {"kind", "file"} \subseteq DOMAIN fact
        /\ fact.kind = "import" =>
              /\ {"module", "names"} \subseteq DOMAIN fact
              /\ IsList(fact.module) /\ IsList(fact.names)
        /\ fact.kind = "call" => "receiver" \in DOMAIN fact /\ IsList(fact.receiver)
ASSUME NamesOK ==
    \A fact \in {x \in Facts : x.kind = "sql"} : fact.target # None =>
        /\ IsList(fact.target) /\ fact.target # <<>>
        /\ \A name \in ToSet(fact.target) :
              Lower(name) # None /\ Lower(Lower(name)) = Lower(name)

VARIABLES
    queue,      \* repositories that are left, the one at work first
    pc,
    tree, fws,  \* of the repository at work
    artifacts,
    tests,
    result

work == <<tree, fws, artifacts, tests>>
vars == <<queue, pc, work, result>>

root == Head(queue)
repo == Last(root)

-----------------------------------------------------------------------------
(* _discover_repos.  A filter that no directory passes leaves the root.    *)
Discovered(config) ==
    LET single == IF config.single = None THEN HasMarker ELSE config.single
        passes(name) == config.filter = {} \/ name \in config.filter
        found == FlattenSeq(MapSeq(Subdirs, LAMBDA d :
                     IF d \notin ExcludedDirs /\ passes(d) THEN <<Append(Root, d)>> ELSE <<>>))
    IN  IF ~IsDir THEN <<Root>>
        ELSE IF single THEN IF passes(Last(Root)) THEN <<Root>> ELSE <<>>
        ELSE IF found = <<>> THEN <<Root>>
        ELSE found

(* The files that a walk comes to.  No directory above the root may be     *)
(* excluded either.                                                        *)
Walked(dir) ==
    {f \in DOMAIN Content :
        /\ IsPrefix(dir, f.path)
        /\ ToSet(Dirs(f)) \cap WalkerExcluded = {}
        /\ f \notin Links}

FactsOf(f) == IF f \in Unread THEN <<>> ELSE Content[f]

Nothing ==
    [services |-> {}, artifacts |-> {}, endpoints |-> {}, tests |-> {}, mocks |-> {},
     models |-> {}, queries |-> {}, topics |-> {}, sites |-> {}, connections |-> {}]

Init ==
    /\ queue = <<>>
    /\ pc = "discover"
    /\ tree = <<>> /\ fws = <<>> /\ artifacts = <<>> /\ tests = <<>>
    /\ result = Nothing

Emit(field, records) == result' = [result EXCEPT ![field] = @ \cup records]
Then(stage, next) == pc = stage /\ pc' = next /\ UNCHANGED queue

Discover(config) ==
    /\ pc = "discover"
    /\ queue' = Discovered(config)
    /\ pc' = IF queue' = <<>> THEN "done" ELSE "walk"
    /\ UNCHANGED <<work, result>>

(* The walk comes to each file once, in whichever order; the frameworks    *)
(* that its facts betray, and the services.                                *)
Walk(order) ==
    /\ Then("walk", "functions")
    /\ order \in Seq(Walked(root)) /\ ToSet(order) = Walked(root) /\ IsInjective(order)
    /\ tree' = FlattenSeq(MapSeq(order, FactsOf))
    /\ fws' = Detected(tree')
    /\ Emit("services", {ServiceOf(tree', repo)} \cup FormsServices(tree', repo))
    /\ UNCHANGED <<artifacts, tests>>

Rebased(t, dir) == MapSeq(FunctionArtifacts(t, Last(dir)), LAMBDA a : Rebase(a, dir))

DeclareFunctions ==
    /\ Then("functions", "calls")
    /\ artifacts' = Rebased(tree, root)
    /\ UNCHANGED <<tree, fws, tests, result>>

Called(as, t, dir) == WithCalls(as, CallEdges(Context(t, dir, as)))

ResolveCalls ==
    /\ Then("calls", "oracle")
    /\ artifacts' = Called(artifacts, tree, root)
    /\ UNCHANGED <<tree, fws, tests, result>>

ResolveOracleCalls ==
    /\ Then("oracle", "tables")
    /\ artifacts' = WithOracleCalls(artifacts, tree)
    /\ UNCHANGED <<tree, fws, tests, result>>

ResolveDbAccess ==
    /\ Then("tables", "shell")
    /\ artifacts' = WithTables(artifacts, tree, repo)
    /\ UNCHANGED <<tree, fws, tests, result>>

ResolveShellInvokes ==
    /\ Then("shell", "endpoints")
    /\ artifacts' = WithShellCalls(artifacts, tree, repo)
    /\ Emit("artifacts", ToSet(artifacts'))
    /\ UNCHANGED <<tree, fws, tests>>

ResolveEndpoints ==
    /\ Then("endpoints", "tests")
    /\ Emit("endpoints", Endpoints(tree, root, artifacts, fws))
    /\ UNCHANGED work

ResolveTests ==
    /\ Then("tests", "coverage")
    /\ tests' = MapSeq(Tests(tree, repo, fws), LAMBDA t : RebaseTest(t, root))
    /\ UNCHANGED <<tree, fws, artifacts, result>>

ResolveCoverage ==
    /\ Then("coverage", "mocks")
    /\ tests' = WithCoverage(tests, tree, root, artifacts)
    /\ Emit("tests", ToSet(tests'))
    /\ UNCHANGED <<tree, fws, artifacts>>

ResolveMocks ==
    /\ Then("mocks", "models")
    /\ Emit("mocks", Mocks(tree, root, tests, artifacts, fws))
    /\ UNCHANGED work

ResolveDataModels ==
    /\ Then("models", "queries")
    /\ Emit("models", DataModels(tree, root, fws))
    /\ UNCHANGED work

ResolveQueries ==
    /\ Then("queries", "kafka")
    /\ Emit("queries", Queries(tree, root, artifacts, fws))
    /\ UNCHANGED work

ResolveKafka ==
    /\ Then("kafka", "config")
    /\ result' = [result EXCEPT !.topics = @ \cup Topics(tree, root, artifacts, fws),
                                !.sites = @ \cup KafkaSites(tree, root, artifacts, fws)]
    /\ UNCHANGED work

(* The last stage; the next repository begins with nothing but the result. *)
BindConfig ==
    /\ pc = "config"
    /\ Emit("connections", ConfigConnections(tree, repo))
    /\ queue' = Tail(queue)
    /\ pc' = IF queue' = <<>> THEN "done" ELSE "walk"
    /\ tree' = <<>> /\ fws' = <<>> /\ artifacts' = <<>> /\ tests' = <<>>

(* A grammar or a resolver raises: run_all keeps nothing of this adapter.  *)
Raise ==
    /\ pc \notin {"discover", "done", "failed"}
    /\ pc' = "failed"
    /\ result' = Nothing
    /\ queue' = <<>>
    /\ tree' = <<>> /\ fws' = <<>> /\ artifacts' = <<>> /\ tests' = <<>>

Next ==
    \/ \E c \in Configs : Discover(c)
    \/ pc = "walk" /\ \E order \in Orders(Walked(root)) : Walk(order)
    \/ DeclareFunctions \/ ResolveCalls
    \/ ResolveOracleCalls \/ ResolveDbAccess \/ ResolveShellInvokes
    \/ ResolveEndpoints \/ ResolveTests \/ ResolveCoverage \/ ResolveMocks
    \/ ResolveDataModels \/ ResolveQueries \/ ResolveKafka \/ BindConfig
    \/ Raise

Spec == Init /\ [][Next]_vars

-----------------------------------------------------------------------------
Stages == {"walk", "functions", "calls", "oracle", "tables", "shell", "endpoints", "tests",
           "coverage", "mocks", "models", "queries", "kafka", "config"}

(* One record of a repository for one id, and the id of a function, a      *)
(* class or a method names the file that its record names.                 *)
TypeOK ==
    /\ pc \in Stages \cup {"discover", "done", "failed"}
    /\ (queue # <<>>) <=> pc \in Stages
    /\ DOMAIN result = DOMAIN Nothing
    /\ \A i \in DOMAIN artifacts :
          LET a == artifacts[i]
          IN  /\ a.type \in Bodies \cup {"class", "table", "script"}
              /\ a.id[1] \in {"fn", "class", "method"} => a.id[3] = a.file
              /\ \A j \in DOMAIN artifacts : artifacts[j].id = a.id => i = j

(* No record refers to an id that nothing bears: the artifacts at work     *)
(* after any stage, and the result of all repositories at any time,        *)
(* although the stages run over lists that others extend and rewrite.      *)
IdsOf(records) == {r.id : r \in records}
NothingDangles ==
    /\ \A i \in DOMAIN artifacts :
          artifacts[i].calls \cup artifacts[i].reads \cup artifacts[i].writes \subseteq Ids(artifacts)
    /\ UNION {a.calls \cup a.reads \cup a.writes : a \in result.artifacts} \subseteq IdsOf(result.artifacts)
    /\ {e.handler : e \in result.endpoints} \cup {m.artifact : m \in result.mocks}
         \cup {q.enclosing : q \in result.queries} \subseteq IdsOf(result.artifacts) \cup {None}
    /\ {s.function : s \in result.sites} \cup UNION {t.covers : t \in result.tests}
         \subseteq IdsOf(result.artifacts)
    /\ {<<"topic", s.topic>> : s \in result.sites} \subseteq result.topics
    /\ {m.test : m \in result.mocks} \subseteq IdsOf(result.tests)
    /\ {c.source : c \in result.connections} \subseteq IdsOf(result.services)

(* The inductive strengthening.  What is at work is in lists; once it is   *)
(* published it is in the result, and so is the repository's service.      *)
AreArtifacts(as) ==
    IsList(as) /\ \A i \in DOMAIN as : {"id", "calls", "reads", "writes"} \subseteq DOMAIN as[i]
AreTests(ts) == IsList(ts) /\ \A i \in DOMAIN ts : {"id", "covers"} \subseteq DOMAIN ts[i]

AfterTests == {"mocks", "models", "queries", "kafka", "config"}
AfterShell == AfterTests \cup {"endpoints", "tests", "coverage"}

PublishedInv ==
    /\ NothingDangles
    /\ DOMAIN result = DOMAIN Nothing
    /\ tree \in Seq(Facts) /\ AreArtifacts(artifacts) /\ AreTests(tests)
    /\ pc \in Stages \ {"walk"} => <<repo>> \in IdsOf(result.services)
    /\ pc \in AfterShell => ToSet(artifacts) \subseteq result.artifacts
    /\ pc \in AfterTests => ToSet(tests) \subseteq result.tests

(* And of TypeOK: which kinds of artifacts there are before a stage adds   *)
(* others, that a routine bears its name in its id, and that the facts at  *)
(* work are of files under the repository at work.                         *)
Repositories == {Root} \cup {Append(Root, d) : d \in ToSet(Subdirs)}
FactsUnder(dir) == UNION {ToSet(Content[f]) : f \in Walked(dir)}
DeclaredKinds == {"class", "proc", "fn", "method"}

WellFormed(a) ==
    /\ DOMAIN a = {"id", "type", "name", "file", "first", "last", "calls", "reads", "writes"}
    /\ 1 \in DOMAIN a.id
    /\ a.type \in Bodies \cup {"class", "table", "script"}
    /\ a.id[1] \in {"fn", "class", "method"} => a.id[3] = a.file

OfKinds(as, kinds) == \A i \in DOMAIN as : as[i].id[1] \in kinds
RoutinesAreNamed(as) ==
    \A i \in DOMAIN as :
        as[i].id[1] = "proc" => as[i].type \in Routines /\ as[i].id[4] = as[i].name

UniqueInv ==
    /\ TypeOK
    /\ queue \in Seq(Repositories)
    /\ \A i \in DOMAIN artifacts : WellFormed(artifacts[i])
    /\ pc = "functions" => tree \in Seq(FactsUnder(root))
    /\ pc \in {"calls", "oracle"} => OfKinds(artifacts, DeclaredKinds) /\ RoutinesAreNamed(artifacts)
    /\ pc = "tables" => OfKinds(artifacts, DeclaredKinds)
    /\ pc = "shell" => OfKinds(artifacts, DeclaredKinds \cup {"table"})

-----------------------------------------------------------------------------
(* Files that an import may name: the module, one of the imported names as *)
(* a submodule, or what is under a module that is imported as such.  The   *)
(* level of a relative import counts where an aggregator re-exports, and   *)
(* nowhere else.                                                           *)
ModuleOf(f) == IF IsAggregator(f) THEN PackageOf(f) ELSE f.path
ReadAs(import) ==
    {import.module} \cup
    (IF IsAggregator(import.file) THEN {TargetModule(import, PackageOf(import.file))} ELSE {})

Leads(import, m) ==
    \E read \in ReadAs(import) :
       IF import.names = <<>>
       THEN /\ import.module # <<>>
            /\ IsPrefix(IF import.alias = None THEN <<read[1]>> ELSE read, m)
       ELSE m = read \/ \E name \in ToSet(import.names) : IsPrefix(Append(read, name), m)

InScope(located, f, g) ==
    f = g \/ \E i \in DOMAIN located :
                located[i].kind = "import" /\ located[i].file = f /\ Leads(located[i], ModuleOf(g))

Reach(located, f) ==
    LET files == {located[i].file : i \in DOMAIN located}
        reach[n \in 0..Cardinality(files)] ==
            IF n = 0 THEN {f}
            ELSE LET nearer == reach[n - 1]
                 IN  {g \in files : \E h \in nearer : InScope(located, h, g)}
    IN  reach[Cardinality(files)]

FileOf(id) == (CHOOSE a \in ToSet(artifacts) : a.id = id).file

(* The callee of every call that the call resolver binds is declared in    *)
(* the caller's file, or in a file that its imports lead to.               *)
CallsFollowImports ==
    pc = "oracle" =>
        LET located == Located(tree, root)
        IN  \A a \in ToSet(artifacts) :
                {FileOf(id) : id \in a.calls} \subseteq Reach(located, a.file)

(* The same tree with its files in one fixed order.                        *)
Listing(S) == FoldSet(LAMBDA x, s : Append(s, x), <<>>, S)
Sorted(t) ==
    LET files == {t[i].file : i \in DOMAIN t}
    IN  FlattenSeq(MapSeq(Listing(files), LAMBDA f : InFile(t, f)))

(* Files rival where they both give a base path, or mount a router of one  *)
(* name: of those the last or the first in the walk counts.                *)
GivesBase(f, routes) ==
    \E i \in DOMAIN routes.bases :
       LET base == routes.bases[i]
       IN  \/ f.kind = "call" /\ CalleeOf(f) = base.callee
           \/ f.kind = "config" /\ f.key = base.key

MountsAlike(f, g, routes) ==
    \E i \in DOMAIN routes.mounts :
       LET Token(c) == IF c.kind = "call" /\ c \in ToSet(MountCalls(<<c>>, routes.mounts[i]))
                       THEN Last(c.args[routes.mounts[i].router].value) ELSE None
       IN  Token(f) # None /\ Token(f) = Token(g)

Rival(t, routes) ==
    \E f, g \in {x \in ToSet(t) : x.kind \in {"call", "config"}} :
       /\ f.file # g.file
       /\ \/ GivesBase(f, routes) /\ GivesBase(g, routes)
          \/ MountsAlike(f, g, routes)

(* Calls, coverage and, where no files rival, endpoints do not depend on   *)
(* the order in which the file system lists the files.                     *)
OrderDoesNotMatter ==
    LET sorted == Sorted(tree)
        as == Called(Rebased(sorted, root), sorted, root)
    IN  /\ pc = "oracle" => ToSet(artifacts) = ToSet(as)
        /\ pc = "mocks" =>
              ToSet(tests) = ToSet(WithCoverage(tests, sorted, root, SelectSeq(artifacts,
                                 LAMBDA a : a.type \notin {"table", "script"})))
        /\ pc = "tests" /\ ~(\E fw \in ToSet(fws) : fw.routes # None /\ Rival(tree, fw.routes)) =>
              {e \in result.endpoints : e.id[2] = repo} = Endpoints(sorted, root, artifacts, fws)

(* And of CallsFollowImports: before calls are resolved nobody calls, and  *)
(* every artifact is of a file of the tree.                                *)
ScopeInv ==
    /\ CallsFollowImports
    /\ pc = "calls" =>
          \A i \in DOMAIN artifacts :
              /\ artifacts[i].calls = {}
              /\ \E j \in DOMAIN tree : artifacts[i].file = RelTo(tree[j].file, root)

-----------------------------------------------------------------------------
(* What a name stands for through at most MaxAliasDepth re-exports.  If    *)
(* no re-export leads out of that, and there are no more names than fit on *)
(* one way of that depth, all of them ought to be found, over whatever     *)
(* ways and cycles they are re-exported.                                   *)
ReExported(located, keys) == {r.as : r \in {s \in ToSet(ReExports(located)) : s.of \in keys}}
StandsFor(located, key) ==
    LET upTo[n \in 0..MaxAliasDepth] ==
            IF n = 0 THEN {key}
            ELSE LET fewer == upTo[n - 1] IN fewer \cup ReExported(located, fewer)
    IN  upTo[MaxAliasDepth]

NeverCut(located, key) ==
    LET keys == StandsFor(located, key)
    IN  ReExported(located, keys) \subseteq keys /\ Cardinality(keys) <= MaxAliasDepth + 1

(* The modules that a test's own file imports as such, and the names that  *)
(* it imports and the test mentions.                                       *)
Own(located, test) == {f \in OfKind(located, "import") : f.file = test.file}
OwnReferences(located, test) ==
    (CHOOSE s \in OfKind(located, "symbol") : s.file = test.file /\ s.name = test.name).refs

OwnModules(located, test) == {i.module : i \in {j \in Own(located, test) : j.names = <<>>}}
OwnNames(located, test) ==
    {key \in UNION {{<<i.module, n>> : n \in ToSet(i.names)} : i \in Own(located, test)} :
        OwnReferences(located, test) # None => key[2] \in OwnReferences(located, test)}

Covers(located, test, a, names) ==
    \/ \E m \in OwnModules(located, test) : a.file \in ToSet(CandidateFiles(m, test.file))
    \/ \E name \in names : \E key \in StandsFor(located, name) :
          a.file \in ToSet(CandidateFiles(key[1], test.file)) /\ a.name = key[2]

(* The program takes the mentions of the last test of a name in a file,    *)
(* loses the path of a test below a directory that is named like the       *)
(* repository, and takes for a test's the imports of any file whose path   *)
(* ends with its own.                                                      *)
Recognized(test) ==
    /\ repo \notin ToSet(Dirs(test.file))
    /\ Len(SelectSeq(tests, LAMBDA t : t.id = test.id)) = 1
Alone(located, test) ==
    \A i \in DOMAIN located : ~IsStrictSuffix(test.file.path, located[i].file.path)

(* A test covers everything that it imports and mentions, followed over    *)
(* re-exports to the end where the bound on their depth cannot cut, and    *)
(* nothing that lies beyond that bound or that it does not import.         *)
CoverageIsFaithful ==
    pc = "mocks" =>
        LET located == Located(tree, root)
        IN  \A t \in {u \in ToSet(tests) : Recognized(u)} : \A a \in ToSet(artifacts) :
               LET names == OwnNames(located, t)
               IN  /\ Covers(located, t, a, {n \in names : NeverCut(located, n)}) => a.id \in t.covers
                   /\ Alone(located, t) /\ a.id \in t.covers => Covers(located, t, a, names)
=============================================================================
