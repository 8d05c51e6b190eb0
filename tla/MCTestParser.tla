----------------------------- MODULE MCTestParser -----------------------------
(***************************************************************************)
(* Three repositories under the root <<"w">>.  "api" is a Python package     *)
(* that re-exports names over one and two levels and in a cycle, a module  *)
(* that calls through every kind of receiver, and its tests.  "ops" is a   *)
(* PL/SQL package, a Pro*C program, a shell script, a Python job and two   *)
(* test files of which one's path ends with the other's.  "lib" re-exports *)
(* a name as often as the bound allows, one in a cycle, and one over two   *)
(* ways, of which the longer comes first and ends at the bound.            *)
(***************************************************************************)
EXTENDS TestParser, TLC

At(file, facts) == MapSeq(facts, LAMBDA x : [file |-> file] @@ x)
Py(dir, path) == [path |-> <<"w", dir>> \o path, ext |-> "py"]
File(dir, path, ext) == [path |-> <<"w", dir>> \o path, ext |-> ext]

NoneFor == [k \in {} |-> None]
Symbol(sym, name, line, end) ==
    [kind |-> "symbol", sym |-> sym, name |-> name, line |-> line, end |-> end, class |-> None,
     pkg |-> None, params |-> NoneFor, selfs |-> <<>>, refs |-> None]
Function(name, line, end) == Symbol("function", name, line, end)
Method(class, name, line, end) == [Symbol("method", name, line, end) EXCEPT !.class = class]
Test(class, name, line, refs) ==
    [Symbol(IF class = None THEN "function" ELSE "method", name, line, line + 1)
        EXCEPT !.class = class, !.refs = refs]
Procedure(name, line, end) == [Symbol("procedure", name, line, end) EXCEPT !.pkg = "pay"]
Class(name, line, end, bases) ==
    [kind |-> "class", name |-> name, line |-> line, end |-> end, bases |-> bases]
Import(level, module, names) ==
    [kind |-> "import", line |-> 1, level |-> level, module |-> module, names |-> names, alias |-> None,
     as |-> NoneFor]
Args(line, receiver, method, args) ==
    [kind |-> "call", line |-> line, receiver |-> receiver, method |-> method, args |-> args,
     kwargs |-> NoneFor]
Call(line, receiver, method) == Args(line, receiver, method, <<>>)
Arg(is, value) == [is |-> is, value |-> value]
Path(segments) == Arg("str", <<"/">> \o segments)
Kw(name, arg) == [k \in {name} |-> arg]
With(call, name, arg) == [call EXCEPT !.kwargs = Kw(name, arg)]
Decorator(line, symbol, callee, args) ==
    [kind |-> "decorator", line |-> line, symbol |-> symbol, callee |-> callee, args |-> args,
     kwargs |-> NoneFor]
Annotation(line, on, symbol, callee, args) ==
    [kind |-> "annotation", line |-> line, on |-> on, symbol |-> symbol, type |-> None,
     callee |-> <<callee>>, args |-> args, kwargs |-> NoneFor]
Config(line, key, host, path) ==
    [kind |-> "config", line |-> line, key |-> key, host |-> host, path |-> path]
Sql(line, op, tables, target) ==
    [kind |-> "sql", line |-> line, op |-> op, tables |-> tables, target |-> target, script |-> None]
Assign(line, target, hint, from, source) ==
    [kind |-> "assign", line |-> line, scope |-> "module", target |-> target, hint |-> hint,
     from |-> from, source |-> source]
Shell1(line, base, dir) ==
    Call(line, <<>>, base[1]) @@ [base |-> base, dir |-> dir]

-----------------------------------------------------------------------------
Init1 == File("api", <<"shop">>, "init")
Init2 == File("api", <<"shop", "inner">>, "init")
Core == Py("api", <<"shop", "core">>)
App == Py("api", <<"shop", "app">>)
TestApp == Py("api", <<"tests", "test_app">>)

ApiContent == Init1 :> At(Init1, <<
        Import(1, <<"core">>, <<"helper", "Repo", "db", "Session">>),
        Import(1, <<"inner">>, <<"far">>), Function("setup", 5, 6),
        Import(1, <<"shop", "app">>, <<"main">>), Call(6, <<>>, "main"),
        Import(1, <<>>, <<>>),
        Import(1, <<>>, <<"shop">>), Function("boot", 7, 8),
        Call(8, <<"shop">>, "setup"), Call(8, <<"shop">>, "Repo")>>)
    @@ Init2 :> At(Init2, <<Import(2, <<>>, <<"far">>), Import(2, <<"core">>, <<"far">>),
        Function("helper", 3, 4), Function("setup", 5, 6),
        Assign(7, "sub", None, "call", "APIRouter"), Call(7, <<>>, "APIRouter"),
        Import(2, <<"core">>, <<"router">>),
        With(Args(8, <<"sub">>, "include_router", <<Arg("name", <<"router">>)>>),
             "prefix", Arg("name", <<"PREFIX">>))>>)
    @@ Core :> At(Core, <<
        Import(0, <<"orm">>, <<"Base">>),
        Class("Repo", 1, 10, {<<"orm", "Base">>}),
        [Method("Repo", "__init__", 2, 3) EXCEPT !.params = [self |-> None]],
        Method("Repo", "get", 4, 9),
        Function("helper", 12, 13),
        Function("far", 14, 15),
        Call(15, <<>>, "main"),
        Assign(17, "db", None, "call", "Repo"),
        Assign(18, "Session", None, "other", None),
        Args(18, <<>>, "Depends", <<Arg("name", <<"helper">>)>>),
        Assign(20, "router", None, "call", "APIRouter"),
        With(Call(20, <<>>, "APIRouter"), "prefix", Path(<<"core">>)),
        Decorator(11, "helper", <<"router", "get">>, <<Path(<<"help">>)>>)>>)
    @@ App :> At(App, <<
        Import(0, <<"shop">>, <<"helper", "Repo", "db", "Session", "far", "setup", "inner">>),
        Import(0, <<"fastapi">>, <<"FastAPI">>),
        [Import(0, <<"shop", "core">>, <<>>) EXCEPT !.alias = "c"],
        Import(0, <<"shop", "core">>, <<>>),
        Import(0, <<"kafka">>, <<"Producer">>),
        Class("Service", 10, 19, {}),
        [Method("Service", "__init__", 11, 12) EXCEPT
            !.params = [repo |-> "Repo"],
            !.selfs = <<[attr |-> "repo", hint |-> None, source |-> "repo", from |-> "name"]>>],
        Method("Service", "run", 13, 16),
        Call(14, <<"self", "repo">>, "get"),
        Call(15, <<"self">>, "stop"),
        Method("Service", "stop", 17, 18),
        [Function("main", 22, 40) EXCEPT !.params = [s |-> "Service", x |-> "Session"]],
        Call(23, <<>>, "helper"),
        Call(24, <<"c">>, "helper"),
        Call(25, <<"shop", "core">>, "far"),
        Call(26, <<"db">>, "get"),
        Call(27, <<"s">>, "run"),
        Args(28, <<>>, "Depends", <<Arg("name", <<"helper">>)>>),
        Args(29, <<"db">>, "execute", <<Arg("str", <<"select">>)>>),
        Args(30, <<"p">>, "send", <<Arg("str", <<"orders">>)>>),
        Call(31, <<>>, "far"),
        Call(32, <<"unknown">>, "call"),
        Call(33, <<>>, "setup"),
        Decorator(21, "main", <<"app", "get">>, <<Path(<<>>)>>),
        With(Call(41, <<>>, "FastAPI"), "root_path", Path(<<"v1">>)),
        With(Args(42, <<"app">>, "include_router", <<Arg("attr", <<"inner", "sub">>)>>),
             "prefix", Path(<<"old">>)),
        With(Args(43, <<"app">>, "include_router", <<Arg("attr", <<"inner", "sub">>)>>),
             "prefix", Path(<<"new">>))>>)
    @@ TestApp :> At(TestApp, <<
        Import(0, <<"shop">>, <<"helper", "Repo">>),
        Import(0, <<"shop", "app">>, <<"Service", "main">>),
        Import(0, <<"orm">>, <<"Base">>),
        Import(0, <<"pytest">>, <<>>),
        Test(None, "test_main", 4, {"main", "helper"}),
        Decorator(3, "test_main", <<"patch">>, <<Arg("str", <<"shop", "core", "helper">>)>>),
        Decorator(3, "test_main", <<"patch", "object">>,
                  <<Arg("name", <<"Repo">>), Arg("str", <<"get">>)>>),
        Test("TestRepo", "test_twice", 7, {"Repo"}),
        Test("TestService", "test_twice", 9, {"Service"})>>)

-----------------------------------------------------------------------------
Pay == File("ops", <<"db", "pay">>, "pkb")
Load == File("ops", <<"load">>, "pc")
Run == File("ops", <<"run">>, "sh")
Jobs == Py("ops", <<"jobs">>)
Conf == File("ops", <<"conf">>, "yml")
Ctl == File("ops", <<"Ctl">>, "java")
Form == File("ops", <<"orders">>, "fmb")
TestJobs == Py("ops", <<"tests", "test_jobs">>)
TestOps == Py("ops", <<"ops", "tests", "test_jobs">>)

OpsContent == Pay :> At(Pay, <<
        Procedure("post", 1, 9), Call(3, <<>>, "log"),
        Procedure("log", 10, 20), Sql(12, "insert", {"LEDGER"}, None)>>)
    @@ Load :> At(Load, <<
        Function("load", 1, 20),
        Sql(5, "call", {}, <<"pay", "POST">>),
        Sql(6, "execute", {}, <<"audit", "write">>),
        Sql(7, "select", {"ledger"}, None)>>)
    @@ Run :> At(Run, <<
        Function("nightly", 2, 8),
        Shell1(4, <<"load", None>>, FALSE),
        Shell1(5, <<"jobs", "py">>, TRUE),
        [Sql(6, "script", {}, None) EXCEPT !.script = <<"pay", "pkb">>]>>)
    @@ Jobs :> At(Jobs, <<
        Function("cleanup", 1, 9), Call(3, <<>>, "log"), Sql(4, "delete", {"Ledger"}, None),
        Import(0, <<"fastapi">>, <<"APIRouter">>), Import(0, <<"flask">>, <<"Blueprint">>),
        Assign(11, "loop", None, "call", "APIRouter"),
        With(Call(11, <<>>, "APIRouter"), "prefix", Path(<<"loop">>)),
        Args(12, <<"loop">>, "include_router", <<Arg("name", <<"loop">>)>>),
        Decorator(14, "looped", <<"loop", "get">>, <<Path(<<"x">>)>>), Function("looped", 15, 16),
        With(Args(17, <<"site">>, "register_blueprint", <<Arg("name", <<"bp">>)>>),
             "url_prefix", Path(<<"bp">>)),
        Decorator(18, "page", <<"bp", "route">>, <<Path(<<"page">>)>>), Function("page", 19, 20)>>)
    @@ Ctl :> At(Ctl, <<
        Import(0, <<"spring", "web">>, <<>>),
        Class("Ctl", 2, 20, {}), Annotation(1, "class", "Ctl", "RequestMapping", <<Path(<<"ctl">>)>>),
        Method("Ctl", "list", 5, 6), Annotation(4, "method", "list", "GetMapping", <<>>),
        Method("Ctl", "find", 9, 10),
        With(Annotation(8, "method", "find", "RequestMapping", <<Path(<<"find">>)>>),
             "method", Arg("member", <<"GET">>))>>)
    @@ Conf :> At(Conf, <<
        Config(1, "api.url", "api", None), Config(2, "name", None, None),
        Config(3, "context-path", None, <<"base">>)>>)
    @@ Form :> At(Form, <<Symbol("form_app", "orders", 1, 1)>>)
    @@ TestJobs :> At(TestJobs, <<
        Import(0, <<"jobs">>, <<"cleanup">>), Test(None, "test_jobs", 3, {})>>)
    @@ TestOps :> At(TestOps, <<
        Import(0, <<"jobs">>, <<>>), Import(0, <<"pytest">>, <<>>), Test(None, "test_jobs", 3, {})>>)

-----------------------------------------------------------------------------
Pack(name) == File("lib", <<name>>, "init")
Leaf == Py("lib", <<"leaf">>)
TestLib == Py("lib", <<"tests", "test_lib">>)

LibContent == Pack("top") :> At(Pack("top"), <<
        Import(0, <<"hub">>, <<"far">>),
        Import(0, <<"a">>, <<"near", "round", "far">>)>>)
    @@ Pack("a") :> At(Pack("a"), <<
        Import(0, <<"b">>, <<"near", "far">>),
        Import(0, <<"leaf">>, <<"round">>), Import(0, <<"top">>, <<"round">>)>>)
    @@ Pack("b") :> At(Pack("b"), <<Import(0, <<"c">>, <<"near", "far">>)>>)
    @@ Pack("c") :> At(Pack("c"), <<Import(0, <<"d">>, <<"near", "far">>)>>)
    @@ Pack("d") :> At(Pack("d"), <<Import(0, <<"hub">>, <<"near", "far">>)>>)
    @@ Pack("hub") :> At(Pack("hub"), <<Import(0, <<"leaf">>, <<"far">>), Function("near", 2, 3)>>)
    @@ Leaf :> At(Leaf, <<Function("round", 1, 2), Function("far", 3, 4)>>)
    @@ TestLib :> At(TestLib, <<
        Import(0, <<"top">>, <<"near", "round", "far">>),
        Test(None, "test_near", 2, {"near"}), Test(None, "test_round", 4, {"round"}),
        Test(None, "test_far", 6, {"far"})>>)

MCContent == ApiContent @@ OpsContent @@ LibContent

-----------------------------------------------------------------------------
Framework ==
    [name |-> None, imports |-> {}, keys |-> {}, globs |-> {}, testDecorators |-> {},
     integration |-> {}, e2e |-> {}, external |-> {}, mockDecorators |-> {}, mockWith |-> {},
     mockFields |-> {}, modelBases |-> {}, modelDecorators |-> {}, modelAnnotations |-> {},
     modelKind |-> "class", queryCallees |-> {}, queryMethods |-> {}, queryAnnotations |-> {},
     queryArg |-> 1, produceCallees |-> {}, produceMethods |-> {}, consumeCallees |-> {},
     consumeAnnotations |-> {}, topicArg |-> 1, topicKwarg |-> "topic",
     routes |-> None]

Patterns(names) == {<<"{any}", n>> : n \in names}
Mount(method, kwarg) == [method |-> method, router |-> 1, kwarg |-> kwarg, prefix |-> 0]
Base(callee, kwarg, key) == [callee |-> callee, kwarg |-> kwarg, key |-> key]
RoutesUnder(methods, mounts, bases) ==
    [patterns |-> Patterns(methods), methods |-> methods, mounts |-> mounts, bases |-> bases,
     annotations |-> {}, verbs |-> NoneFor, classPrefixes |-> {}]

MCLibrary == <<
    [Framework EXCEPT !.name = "kafka", !.imports = {"kafka"}, !.produceMethods = {"send"}],
    [Framework EXCEPT !.name = "orm", !.imports = {"orm"}, !.external = {<<"orm">>},
        !.modelBases = {"Base"}, !.modelKind = "orm", !.queryMethods = {"execute"}],
    [Framework EXCEPT !.name = "pytest", !.imports = {"pytest"},
        !.mockDecorators = {<<"patch">>, <<"patch", "object">>}],
    [Framework EXCEPT !.name = "fastapi", !.imports = {"fastapi"},
        !.routes = RoutesUnder({"get", "post"},
            <<Mount("include_router", "prefix"), [Mount("mount", None) EXCEPT !.prefix = 1]>>,
            <<Base(<<"FastAPI">>, "root_path", None)>>)],
    [Framework EXCEPT !.name = "flask", !.imports = {"flask"},
        !.routes = RoutesUnder({"route", "get"}, <<Mount("register_blueprint", "url_prefix")>>, <<>>)],
    [Framework EXCEPT !.name = "spring", !.imports = {"spring"},
        !.routes = [RoutesUnder({}, <<>>, <<Base(None, None, "context-path")>>) EXCEPT
            !.annotations = {<<"GetMapping">>, <<"RequestMapping">>},
            !.verbs = [c \in {<<"GetMapping">>} |-> "get"], !.classPrefixes = {<<"RequestMapping">>}]]>>

MCTestNames == {"test_app", "test_jobs", "test_lib"}
MCTestPrefixed == {"test_main", "test_twice", "test_jobs",
                   "test_near", "test_round", "test_far"}
MCEndsWith == {<<n, n>> : n \in {"load", "run", "jobs"}}
MCLower(name) ==
    CASE name = "POST" -> "post" [] name \in {"LEDGER", "Ledger"} -> "ledger" [] OTHER -> name

MCRoot == <<"w">>
MCSubdirs == <<"api", "lib", "ops">>
MCConfigs == [single : {None, TRUE}, filter : {{}, {"api"}, {"zzz"}}]

(* Every order of up to five files; of more, an order and its reverse.     *)
MCOrders(files) ==
    IF Cardinality(files) <= 5 THEN SetToSeqs(files)
    ELSE {Listing(files), Reverse(Listing(files))}
=============================================================================
