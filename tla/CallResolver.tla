----------------------------- MODULE CallResolver -----------------------------
(***************************************************************************)
(* FunctionCallResolver: which artifact each call of a repository reaches, *)
(* through the imports of the file, the types of parameters, attributes    *)
(* and module variables, and the dependencies that a framework injects.    *)
(*                                                                         *)
(* A context cx holds the located tree, the repository, its artifacts and  *)
(* the re-exports of its aggregators.                                      *)
(***************************************************************************)
EXTENDS CodeFacts

Context(tree, root, artifacts) ==
    LET located == Located(tree, root)
    IN  [tree |-> located, repo |-> Last(root), artifacts |-> artifacts,
         reExports |-> ReExports(located)]

-----------------------------------------------------------------------------
(* What a file imports: names from modules, modules under an alias, and    *)
(* modules under their own name.  The level of a relative import is not    *)
(* looked at here.                                                         *)
Imports(cx, file) == InFile(Where(cx.tree, "import"), file)

FromImports(cx, file) ==
    FlattenSeq(MapSeq(Imports(cx, file),
        LAMBDA f : MapSeq(f.names, LAMBDA n : [module |-> f.module, name |-> n])))

(* Variant: what any file imports.                                         *)
FromImportsOfAll(cx, file, name) ==
    FlattenSeq(MapSeq(Keep(Where(cx.tree, "import"), LAMBDA f : Contains(f.names, name)),
        LAMBDA f : <<[module |-> f.module, name |-> name]>>))

FromImportsOf(cx, file, name) == Keep(FromImports(cx, file), LAMBDA i : i.name = name)

(* "from . import *" gives neither a name nor a module, and binds nothing. *)
ModuleImports(cx, file) ==
    Keep(Imports(cx, file), LAMBDA f : f.names = <<>> /\ f.module # <<>>)

BareImports(cx, file) ==
    {f.module : f \in {g \in ToSet(ModuleImports(cx, file)) : g.alias = None}}

(* An explicit alias, of equal ones the last; the head of a bare import    *)
(* stands for itself.                                                      *)
AliasedModule(cx, file, head) ==
    LET explicit == LastWith(ModuleImports(cx, file), LAMBDA f : f.alias = head)
    IN  IF explicit # None THEN explicit.module
        ELSE IF \E m \in BareImports(cx, file) : m[1] = head THEN <<head>> ELSE None

-----------------------------------------------------------------------------
(* Types.  Symbols are known by the ids that FunctionResolver gives them.  *)
Symbols(cx) == Where(cx.tree, "symbol")

ParamType(cx, artifact, param) ==
    LET symbol == LastWith(Symbols(cx),
            LAMBDA s : /\ s.sym \in {"function", "method"} /\ ~Procedural(s)
                       /\ DOMAIN s.params # {}
                       /\ DeclaredId(s, cx.repo) = artifact.id)
    IN  IF symbol = None \/ param \notin DOMAIN symbol.params THEN None ELSE symbol.params[param]

(* The type that an assignment tells: its hint, the class that it calls,   *)
(* or in a constructor the type of the parameter that it names.            *)
ToldType(assign, params) ==
    IF assign.hint # None THEN assign.hint
    ELSE CASE assign.from = "call" -> assign.source
           [] assign.from = "name" /\ assign.source \in DOMAIN params -> params[assign.source]
           [] OTHER -> None

SelfAttributeType(cx, file, class, attr) ==
    LET Tells(s, a) == ToldType(a, s.params) # None
        init == LastWith(InFile(Symbols(cx), file),
            LAMBDA s : /\ s.sym = "method" /\ s.name = "__init__" /\ s.class = class
                       /\ \E i \in DOMAIN s.selfs : Tells(s, s.selfs[i]))
        assign == LastWith(init.selfs, LAMBDA a : a.attr = attr /\ Tells(init, a))
    IN  IF init = None THEN None
        ELSE IF assign = None THEN None ELSE ToldType(assign, init.params)

ModuleAssignments(cx, file) ==
    Keep(InFile(Where(cx.tree, "assign"), file), LAMBDA a : a.scope = "module")

NoParams == [p \in {} |-> None]
ModuleVarType(cx, file, var) ==
    LET assign == LastWith(ModuleAssignments(cx, file),
                     LAMBDA a : a.target = var /\ ToldType(a, NoParams) # None)
    IN  IF assign = None THEN None ELSE ToldType(assign, NoParams)

-----------------------------------------------------------------------------
(* Lookups.  Each looks in the file itself before it follows an import.    *)
ByModule(cx, module, name, file) ==
    FirstHit(Places(module, name, file, cx.reExports),
             LAMBDA p : NamedIn(cx.artifacts, p.file, p.name))

(* In the files that the module itself may be.                             *)
Directly(cx, module, name, file) ==
    FirstHit(CandidateFiles(module, file), LAMBDA f : NamedIn(cx.artifacts, f, name))

(* A bare name: of the same file, or imported by name.                     *)
NamedTarget(cx, name, file) ==
    LET local == NamedIn(cx.artifacts, file, name)
    IN  IF local # None THEN local
        ELSE FirstHit(FromImportsOf(cx, file, name), LAMBDA i : ByModule(cx, i.module, name, file))

MethodOf(cx, file, class, name) ==
    IdIn(FirstWith(cx.artifacts,
        LAMBDA a : a.type = "method" /\ a.file = file /\ a.id[4] = class /\ a.name = name))

MethodByModule(cx, module, type, name, file) ==
    FirstHit(Places(module, type, file, cx.reExports),
             LAMBDA p : MethodOf(cx, p.file, p.name, name))

MethodByType(cx, type, name, file) ==
    LET local == MethodOf(cx, file, type, name)
    IN  IF local # None THEN local
        ELSE FirstHit(FromImportsOf(cx, file, type),
                 LAMBDA i : MethodByModule(cx, i.module, type, name, file))

(* A variable of another module, imported by name: where it is bound.      *)
BoundAt(cx, p) ==
    LET type == ModuleVarType(cx, p.file, p.name)
    IN  IF type = None THEN None ELSE [file |-> p.file, type |-> type]

SingletonByModule(cx, module, var, file) ==
    FirstHit(Places(module, var, file, cx.reExports), LAMBDA p : BoundAt(cx, p))

ImportedSingleton(cx, var, file) ==
    FirstHit(FromImportsOf(cx, file, var), LAMBDA i : SingletonByModule(cx, i.module, var, file))

-----------------------------------------------------------------------------
(* The ways in which a receiver may lead to a method.                      *)
ClassOf(artifact) == IF artifact.type = "method" THEN artifact.id[4] ELSE None

OfType(cx, type, name, file) == IF type = None THEN None ELSE MethodByType(cx, type, name, file)

(* self.attr.method()                                                      *)
ThroughAttribute(cx, call, caller) ==
    IF Len(call.receiver) >= 2 /\ call.receiver[1] = "self" /\ caller.type = "method"
    THEN OfType(cx, SelfAttributeType(cx, caller.file, ClassOf(caller), call.receiver[2]),
                call.method, call.file)
    ELSE None

ThroughBareImport(cx, call) ==
    IF \E m \in BareImports(cx, call.file) : IsPrefix(m, call.receiver)
    THEN ByModule(cx, call.receiver, call.method, call.file) ELSE None

(* A submodule of no module ("from . import n") is looked up with a dot    *)
(* before its name, and no re-export is known by such a name.              *)
Submodule(cx, module, call) ==
    IF module = <<>> THEN Directly(cx, call.receiver, call.method, call.file)
    ELSE ByModule(cx, module \o call.receiver, call.method, call.file)

ThroughSubmodule(cx, call) ==
    FirstHit(FromImportsOf(cx, call.file, call.receiver[1]), LAMBDA i : Submodule(cx, i.module, call))

ThroughSingleton(cx, call) ==
    LET bound == ImportedSingleton(cx, call.receiver[1], call.file)
        own == MethodOf(cx, bound.file, bound.type, call.method)
    IN  IF bound = None THEN None
        ELSE IF own # None THEN own ELSE MethodByType(cx, bound.type, call.method, call.file)

(* An alias ends the search, whether it leads anywhere or not.             *)
ThroughReceiver(cx, call, caller) ==
    LET head == call.receiver[1]
        first == FirstHit(<<ThroughAttribute(cx, call, caller), ThroughBareImport(cx, call)>>,
                          LAMBDA id : id)
        module == AliasedModule(cx, call.file, head)
    IN  IF first # None THEN first
        ELSE IF module # None
        THEN ByModule(cx, module \o Tail(call.receiver), call.method, call.file)
        ELSE FirstHit(<<ThroughSubmodule(cx, call),
                        OfType(cx, ParamType(cx, caller, head), call.method, call.file),
                        OfType(cx, ModuleVarType(cx, call.file, head), call.method, call.file),
                        ThroughSingleton(cx, call)>>, LAMBDA id : id)

CallTarget(cx, call, caller) ==
    CASE call.receiver = <<>> -> NamedTarget(cx, call.method, call.file)
      [] call.receiver \in {<<"self">>, <<"cls">>} /\ caller.type = "method" ->
            MethodOf(cx, caller.file, ClassOf(caller), call.method)
      [] OTHER -> ThroughReceiver(cx, call, caller)

(* Depends(fn): the framework calls fn.                                    *)
NamesDependency(call) ==
    call.method = "Depends" /\ call.args # <<>> /\ call.args[1].is = "name"

Injected(cx, call) ==
    IF NamesDependency(call) THEN NamedTarget(cx, call.args[1].value[1], call.file) ELSE None

-----------------------------------------------------------------------------
(* Alias = Annotated[T, Depends(fn)]: the dependencies that sit on the     *)
(* line of a module's assignment belong to its target.                     *)
AliasDependencies(cx, file, alias) ==
    LET TargetAt(line) == LastWith(ModuleAssignments(cx, file), LAMBDA a : a.line = line)
        Of(call) == /\ NamesDependency(call)
                    /\ LET a == TargetAt(call.line)
                       IN  IF a = None THEN FALSE ELSE a.target = alias
    IN  {call.args[1].value[1] : call \in ToSet(Keep(InFile(Where(cx.tree, "call"), file), Of))}

(* Where a parameter's type is such an alias: its file, from which the     *)
(* dependencies are looked up.                                             *)
AliasByModule(cx, module, type, file) ==
    FirstWith(Places(module, type, file, cx.reExports),
              LAMBDA p : AliasDependencies(cx, p.file, p.name) # {})

AliasSource(cx, type, file) ==
    IF AliasDependencies(cx, file, type) # {} THEN [file |-> file, name |-> type]
    ELSE FirstHit(FromImportsOf(cx, file, type), LAMBDA i : AliasByModule(cx, i.module, type, file))

ParamTypes(cx, a) ==
    {ParamType(cx, a, p) : p \in UNION {DOMAIN s.params : s \in ToSet(Symbols(cx))}} \ {None}

AnnotatedTargets(cx, a) ==
    UNION {LET source == AliasSource(cx, type, a.file)
           IN  IF source = None THEN {}
               ELSE {NamedTarget(cx, dep, source.file) :
                        dep \in AliasDependencies(cx, source.file, source.name)} :
           type \in ParamTypes(cx, a)}

-----------------------------------------------------------------------------
(* A call outside of any artifact has no caller.                           *)
EdgeOfCall(cx, call) ==
    LET caller == Enclosing(cx.artifacts, call.file, call.line)
        target == FirstHit(<<CallTarget(cx, call, caller), Injected(cx, call)>>, LAMBDA id : id)
    IN  IF caller = None THEN {}
        ELSE IF target \in {None, caller.id} THEN {} ELSE {<<caller.id, target>>}

CallEdges(cx) ==
    (UNION {EdgeOfCall(cx, call) : call \in OfKind(cx.tree, "call")})
    \cup (UNION {{<<a.id, t>> : t \in AnnotatedTargets(cx, a) \ {None, a.id}} :
                a \in {b \in ToSet(cx.artifacts) : b.type \in {"function", "method"}}})

WithCalls(artifacts, edges) ==
    MapSeq(artifacts,
        LAMBDA a : [a EXCEPT !.calls = @ \cup {e[2] : e \in {d \in edges : d[1] = a.id}}])
=============================================================================
