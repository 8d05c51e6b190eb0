----------------------------- MODULE RouteResolver -----------------------------
(***************************************************************************)
(* The routes of a repository, put together by the strategy of each        *)
(* framework that was detected: decorators on functions under routers that *)
(* include each other across files (Python), annotations on methods of     *)
(* annotated classes (Java).                                               *)
(*                                                                         *)
(* A path is the sequence of its segments.  An argument is [is, value]; a  *)
(* string that begins with a slash has "/" as the first of its pieces.     *)
(***************************************************************************)
EXTENDS CodeFacts

IsPath(arg) == arg.is = "str" /\ arg.value # <<>> /\ arg.value[1] = "/"
IsText(arg) == arg.is # "other"

(* What is no literal goes into the path as the placeholder that it is.    *)
Pieces(arg) ==
    CASE IsPath(arg) -> Tail(arg.value)
      [] arg.is = "str" /\ ~IsPath(arg) -> arg.value
      [] OTHER -> <<arg.is>> \o arg.value

KwargOf(fact, name) == name \in DOMAIN fact.kwargs /\ IsText(fact.kwargs[name])

-----------------------------------------------------------------------------
(* The base path, of the first source that gives one: a keyword of the     *)
(* call that makes the application, or a value of the configuration.       *)
BaseOfCalls(tree, routes) ==
    FirstHit(routes.bases, LAMBDA base :
        LET Is(c) == /\ CalleeOf(c) = base.callee
                     /\ KwargOf(c, base.kwarg) /\ IsPath(c.kwargs[base.kwarg])
            call == FirstWith(Where(tree, "call"), Is)
        IN  IF call = None THEN None ELSE Pieces(call.kwargs[base.kwarg]))

BaseOfConfig(tree, routes) ==
    LET keys == {routes.bases[i].key : i \in DOMAIN routes.bases}
        value == FirstWith(Where(tree, "config"), LAMBDA f : f.key \in keys /\ f.path # None)
    IN  IF value = None THEN None ELSE value.path

OrNothing(path) == IF path = None THEN <<>> ELSE path

-----------------------------------------------------------------------------
(* Mounts: the calls that hang one router under another.                   *)
MountCalls(tree, mount) ==
    SelectSeq(Where(tree, "call"), LAMBDA c :
        c.method = mount.method /\ mount.router \in DOMAIN c.args /\ IsText(c.args[mount.router]))

MountPrefix(call, mount) ==
    IF KwargOf(call, mount.kwarg) THEN Pieces(call.kwargs[mount.kwarg])
    ELSE IF mount.prefix \notin DOMAIN call.args THEN <<>>
    ELSE IF IsPath(call.args[mount.prefix]) THEN Pieces(call.args[mount.prefix]) ELSE <<>>

(* Where a router is declared that an include names: a variable that was   *)
(* imported, or one of the same file; or a variable of an imported module. *)
(* The least path counts of all files that end with that of the module;    *)
(* which one is least is left open.                                        *)
ModuleFile(module, tree) ==
    LET files == {tree[i].file : i \in DOMAIN tree}
        Ending(ext) == {f \in files : f.ext = ext /\ IsSuffix(module, f.path)}
    IN  IF module = <<>> THEN None
        ELSE FirstHit(<<"py", "init">>, LAMBDA ext :
                IF Ending(ext) = {} THEN None ELSE CHOOSE f \in Ending(ext) : TRUE)

BoundAs(import, name) == IF name \in DOMAIN import.as THEN import.as[name] ELSE name
Router(file, var) == [file |-> file, var |-> var]

ImportedRouter(tree, import, token) ==
    LET head == IF token.is = "attr" THEN Front(token.value) ELSE token.value
        bound == {n \in ToSet(import.names) : <<BoundAs(import, n)>> = head}
        name == CHOOSE n \in bound : TRUE
        file == ModuleFile(IF token.is = "attr" THEN Append(import.module, name) ELSE import.module, tree)
    IN  IF bound = {} THEN None
        ELSE IF file = None THEN None
        ELSE Router(file, IF token.is = "attr" THEN <<Last(token.value)>> ELSE <<name>>)

ChildRouter(tree, token, file) ==
    LET imported == FirstHit(InFile(Where(tree, "import"), file),
                             LAMBDA f : ImportedRouter(tree, f, token))
    IN  IF token.is \notin {"name", "attr"} THEN None
        ELSE IF imported # None THEN imported
        ELSE IF token.is = "name" THEN Router(file, token.value) ELSE None

(* Every include_router that chains a router to another, in the order of   *)
(* the walk.                                                               *)
Includes(tree, routes) ==
    LET Of(mount) ==
            MapSeq(MountCalls(tree, mount), LAMBDA c :
                [child |-> ChildRouter(tree, c.args[mount.router], c.file),
                 parent |-> Router(c.file, c.receiver), prefix |-> MountPrefix(c, mount)])
        all == FlattenSeq(MapSeq(SelectSeq(routes.mounts, LAMBDA m : m.method = "include_router"), Of))
    IN  SelectSeq(all, LAMBDA i : i.child # None /\ i.parent.var # <<>>)

(* The prefix that a router was constructed with; the variable is that of  *)
(* the assignment on the line of the call.                                 *)
OwnPrefix(tree, router) ==
    LET VarAt(c) == LastWith(InFile(Where(tree, "assign"), c.file), LAMBDA a :
                       /\ a.scope = "module" /\ a.from = "call" /\ a.source = "APIRouter"
                       /\ a.line = c.line)
        Makes(c) == /\ c.method = "APIRouter" /\ c.file = router.file
                    /\ VarAt(c) # None
                    /\ <<VarAt(c).target>> = router.var
        call == LastWith(Where(tree, "call"), Makes)
    IN  IF call = None THEN <<>>
        ELSE IF KwargOf(call, "prefix") THEN Pieces(call.kwargs["prefix"]) ELSE <<>>

(* The last include of a router is its only one.                           *)
IncludeOf(includes, router) == LastWith(includes, LAMBDA i : i.child = router)

(* A router, the one that includes it, and so on up, until none does or    *)
(* one comes up again.                                                     *)
Chain(includes, router) ==
    LET up[n \in 0 .. Len(includes)] ==
            IF n = 0 THEN <<router>>
            ELSE LET c == up[n - 1]
                     above == IncludeOf(includes, Last(c))
                 IN  IF above = None \/ Contains(Front(c), Last(c)) THEN c ELSE Append(c, above.parent)
    IN  up[Len(includes)]

ChainPrefix(tree, includes, chain) ==
    LET Own(i) == IF Contains(SubSeq(chain, 1, i - 1), chain[i]) THEN <<>> ELSE OwnPrefix(tree, chain[i])
        Above(i) == IF i = Len(chain) THEN <<>> ELSE IncludeOf(includes, chain[i]).prefix
    IN  FlattenSeq(Reverse([i \in DOMAIN chain |-> Above(i) \o Own(i)]))

-----------------------------------------------------------------------------
(* Where the graph knows nothing of a router, a mount of its name: one     *)
(* that names the module of the file, else one that names no module.       *)
Stem(file) == IF file.ext = "init" THEN "__init__" ELSE Last(file.path)

Mounts(tree, routes) ==
    LET Of(mount) ==
            MapSeq(MountCalls(tree, mount), LAMBDA c :
                [router |-> c.args[mount.router], prefix |-> MountPrefix(c, mount)])
    IN  FlattenSeq(MapSeq(routes.mounts, Of))

PickedMount(mounts, receiver, file) ==
    LET Of(m) == m.router.is \in {"name", "attr"} /\ <<Last(m.router.value)>> = receiver
        hinted == FirstWith(mounts, LAMBDA m : Of(m) /\ Front(m.router.value) = <<Stem(file)>>)
        bare == FirstWith(mounts, LAMBDA m : Of(m) /\ m.router.is = "name")
    IN  IF hinted # None THEN hinted.prefix ELSE IF bare # None THEN bare.prefix ELSE <<>>

(* "{any}" stands for one receiver or more.                                *)
MatchesPattern(callee, pattern) ==
    \/ callee = pattern
    \/ pattern[1] = "{any}" /\ IsStrictSuffix(Tail(pattern), callee)

(* The first declaration at or after the line.                             *)
SymbolAt(tree, file, line) ==
    LET after == SelectSeq(InFile(tree, file), LAMBDA f : f.kind \in {"symbol", "class"} /\ f.line >= line)
    IN  FirstWith(after, LAMBDA f : \A i \in DOMAIN after : f.line <= after[i].line)

NameOf(symbol) == IF symbol = None THEN None ELSE symbol.name

IsRoute(dec, routes) ==
    /\ \E p \in routes.patterns : MatchesPattern(dec.callee, p)
    /\ routes.methods # {} => Last(dec.callee) \in routes.methods
    /\ \E i \in DOMAIN dec.args : IsPath(dec.args[i])

RoutePrefix(tree, routes, dec) ==
    LET receiver == IF Len(dec.callee) = 1 THEN dec.callee ELSE Front(dec.callee)
        includes == Includes(tree, routes)
        chain == Chain(includes, Router(dec.file, receiver))
        prefix == ChainPrefix(tree, includes, chain)
    IN  IF prefix = <<>> /\ Len(chain) = 1
        THEN PickedMount(Mounts(tree, routes), receiver, dec.file) ELSE prefix

DecoratedRoutes(tree, routes) ==
    {[method |-> <<Last(d.callee)>>,
      path |-> OrNothing(BaseOfCalls(tree, routes)) \o RoutePrefix(tree, routes, d)
                 \o Pieces(FirstWith(d.args, IsPath)),
      file |-> d.file, symbol |-> NameOf(SymbolAt(tree, d.file, d.line))] :
        d \in {e \in OfKind(tree, "decorator") : IsRoute(e, routes)}}

-----------------------------------------------------------------------------
(* The first argument that is a path, else value or path by keyword.       *)
PathOf(ann) ==
    LET args == ann.args \o MapSeq(SelectSeq(<<"value", "path">>, LAMBDA k : KwargOf(ann, k)),
                                   LAMBDA k : ann.kwargs[k])
        arg == FirstWith(args, IsPath)
    IN  IF arg = None THEN None ELSE Pieces(arg)

(* By the name of the annotation, else by its argument; a placeholder for  *)
(* a constant stays one.                                                   *)
VerbOf(ann, routes) ==
    CASE ann.callee \in DOMAIN routes.verbs -> <<routes.verbs[ann.callee]>>
      [] ann.callee \notin DOMAIN routes.verbs /\ KwargOf(ann, "method") ->
            LET arg == ann.kwargs["method"]
            IN  IF arg.is = "str" THEN <<Lower(Last(arg.value))>> ELSE <<arg.is>> \o arg.value
      [] OTHER -> IF ann.callee = <<"RequestMapping">> THEN <<"any">> ELSE None

(* The innermost class around a symbol.                                    *)
ClassAround(tree, symbol) ==
    LET around == SelectSeq(InFile(Where(tree, "class"), symbol.file),
                     LAMBDA c : c.line <= symbol.line /\ (c.end = None \/ c.end >= symbol.line))
    IN  FirstWith(around, LAMBDA c : \A i \in DOMAIN around : around[i].line <= c.line)

ClassPrefix(tree, routes, class) ==
    LET ann == LastWith(Where(tree, "annotation"), LAMBDA a :
                  /\ a.callee \in routes.classPrefixes /\ a.on = "class"
                  /\ a.file = class.file /\ a.symbol = class.name /\ PathOf(a) # None)
    IN  IF ann = None THEN <<>> ELSE PathOf(ann)

AnnotatedRoutes(tree, routes) ==
    LET Handler(a) == FirstWith(InFile(Where(tree, "symbol"), a.file),
                          LAMBDA s : s.name = a.symbol /\ s.sym = "method")
        Class(a) == IF Handler(a) = None THEN None ELSE ClassAround(tree, Handler(a))
        Prefix(a) == IF Class(a) = None THEN <<>> ELSE ClassPrefix(tree, routes, Class(a))
    IN  {[method |-> VerbOf(a, routes),
          path |-> OrNothing(BaseOfConfig(tree, routes)) \o Prefix(a) \o OrNothing(PathOf(a)),
          file |-> a.file, symbol |-> a.symbol] :
            a \in {b \in OfKind(tree, "annotation") :
                      b.callee \in routes.annotations /\ b.on = "method" /\ VerbOf(b, routes) # None}}

-----------------------------------------------------------------------------
(* The strategies that are registered, by the name of a framework.         *)
Decorating == {"fastapi", "flask"}
Annotating == {"spring"}

RoutesOf(tree, fw) ==
    CASE fw.routes # None /\ fw.name \in Decorating -> DecoratedRoutes(tree, fw.routes)
      [] fw.routes # None /\ fw.name \in Annotating -> AnnotatedRoutes(tree, fw.routes)
      [] OTHER -> {}

Routes(tree, fws) == UNION {RoutesOf(tree, fw) : fw \in ToSet(fws)}
=============================================================================
