---------------------------- MODULE TestResolvers ----------------------------
(***************************************************************************)
(* The frameworks that a repository uses, its tests, the artifacts that    *)
(* they cover by importing them, and the mocks that decorate them.         *)
(*                                                                         *)
(* A framework is a record of what its definition lists; the callee of a   *)
(* decorator and the text of an argument are sequences of segments.        *)
(***************************************************************************)
EXTENDS CodeFacts

CONSTANTS
    Library,      \* the definitions of frameworks in the order of their names
    TestPrefixed  \* names that begin like a test's

(* detect_frameworks: one rule that matches is enough.                     *)
Detected(tree) ==
    SelectSeq(Library, LAMBDA fw :
        \/ \E f \in OfKind(tree, "import") : f.module # <<>> /\ f.module[1] \in fw.imports
        \/ \E f \in OfKind(tree, "config") : f.key \in fw.keys
        \/ \E i \in DOMAIN tree : BaseName(tree[i].file) \in fw.globs)

(* What the detected definitions list under a heading.                     *)
Merged(fws, heading) == UNION {fw[heading] : fw \in ToSet(fws)}

-----------------------------------------------------------------------------
(* TestResolver.                                                           *)
Decorations(tree) == {f \in ToSet(tree) : f.kind \in {"decorator", "annotation"}}
CalleesOn(tree, symbol) ==
    {d.callee : d \in {e \in Decorations(tree) : e.file = symbol.file /\ e.symbol = symbol.name}}

IsTest(fws, symbol, callees) ==
    /\ symbol.sym \in {"function", "method"}
    /\ \/ symbol.name \in TestPrefixed
       \/ callees \cap Merged(fws, "testDecorators") # {}

ImportedModules(tree, file) ==
    UNION {{f.module, <<f.module[1]>>} :
        f \in {g \in ToSet(InFile(Where(tree, "import"), file)) : g.module # <<>>}}

(* The top of what a decorator patches; the type of a mocked field and the *)
(* module that it was imported from.                                       *)
MockedModules(tree, file, fws) ==
    {<<d.args[1].value[1]>> : d \in {e \in Decorations(tree) :
        /\ e.kind = "decorator" /\ e.file = file /\ e.args # <<>>
        /\ e.callee \in Merged(fws, "mockDecorators") \cup Merged(fws, "mockWith")
        /\ e.args[1].is = "str"}}
    \cup UNION {{<<d.type>>} \cup UNION {{m, <<m[1]>>} :
                    m \in {n \in ImportedModules(tree, file) : Last(n) = d.type}} :
        d \in {e \in Decorations(tree) :
            /\ e.kind = "annotation" /\ e.file = file
            /\ e.callee \in Merged(fws, "mockFields") /\ e.type # None}}

Under(f, dir, sub) ==
    \E i \in DOMAIN f.path : i + 1 \in DOMAIN f.path /\ f.path[i] = dir /\ f.path[i + 1] = sub

(* Markers and paths of end-to-end tests come first, then whatever makes a *)
(* test an integration test: a marker, an external module that it imports  *)
(* and does not mock, its path.                                            *)
TestType(tree, fws, symbol, callees) ==
    CASE \/ callees \cap Merged(fws, "e2e") # {} \/ Under(symbol.file, "tests", "e2e") -> "e2e"
      [] \/ callees \cap Merged(fws, "integration") # {}
         \/ (ImportedModules(tree, symbol.file) \cap Merged(fws, "external"))
               \ MockedModules(tree, symbol.file, fws) # {}
         \/ Under(symbol.file, "tests", "integration") -> "integration"
      [] Under(symbol.file, "tests", "component") -> "component"
      [] OTHER -> "unit"

(* The id of a test names its file, not its class.                         *)
TestId(repo, file, name) == <<"test", repo, file, name>>

Tests(tree, repo, fws) ==
    LET TestOf(s) ==
            [id |-> TestId(repo, s.file, s.name), name |-> s.name, file |-> s.file,
             type |-> TestType(tree, fws, s, CalleesOn(tree, s)), covers |-> {}]
        tests[n \in 0 .. Len(tree)] ==
            IF n = 0 THEN <<>>
            ELSE IF tree[n].kind = "symbol" /\ IsTest(fws, tree[n], CalleesOn(tree, tree[n]))
            THEN Append(tests[n - 1], TestOf(tree[n])) ELSE tests[n - 1]
    IN  tests[Len(tree)]

RebaseTest(test, root) ==
    LET rel == MakeRelative(test.file, root)
    IN  IF rel = test.file THEN test
        ELSE [test EXCEPT !.file = rel, !.id = TestId(Last(root), rel, test.name)]

-----------------------------------------------------------------------------
(* CoverageResolver.                                                       *)

(* The imports of a test's file, and of every file whose path ends with    *)
(* the test's.                                                             *)
ImportsForTest(located, file) ==
    {f \in OfKind(located, "import") :
        f.file = file \/ (f.file.ext = file.ext /\ IsStrictSuffix(file.path, f.file.path))}

(* What a test mentions; None when its grammar does not tell.              *)
References(located, file, name) ==
    LET symbol == LastWith(Where(located, "symbol"),
                     LAMBDA s : s.refs # None /\ s.file = file /\ s.name = name)
    IN  IF symbol = None THEN None ELSE symbol.refs

(* A test covers an imported name only if it mentions it.                  *)
Touched(refs, name) == IF refs = None THEN TRUE ELSE name \in refs

CoveredBy(import, file, refs, artifacts, reExports) ==
    IF import.names = <<>>
    THEN {a.id : a \in {b \in ToSet(artifacts) :
                            b.file \in ToSet(CandidateFiles(import.module, file))}}
    ELSE UNION {{a.id : a \in {b \in ToSet(artifacts) :
                    \E p \in ToSet(Places(import.module, n, file, reExports)) :
                        b.file = p.file /\ b.name = p.name}} :
            n \in {m \in ToSet(import.names) : Touched(refs, m)}}

(* The paths of the tests are relative by now and are made so once more.   *)
WithCoverage(tests, tree, root, artifacts) ==
    LET located == Located(tree, root)
        reExports == ReExports(located)
        Covers(test) ==
            LET file == RelTo(test.file, root)
                refs == References(located, file, test.name)
            IN  UNION {CoveredBy(i, file, refs, artifacts, reExports) :
                          i \in ImportsForTest(located, file)}
    IN  MapSeq(tests, LAMBDA t : [t EXCEPT !.covers = Covers(t)])

-----------------------------------------------------------------------------
(* MockResolver.                                                           *)
PatchesObject(callee) == IsSuffix(<<"patch", "object">>, callee)

(* The class in the first argument of patch.object.                        *)
ClassToken(arg) ==
    IF arg.is \in {"name", "attr"} THEN Last(arg.value) ELSE None

(* The last method of that class and name, in whichever file.              *)
MethodNamed(artifacts, class, name) ==
    IdIn(LastWith(artifacts, LAMBDA a : a.type = "method" /\ a.id[4] = class /\ a.name = name))

(* What a decorator patches and the artifact that it is, if it is one;     *)
(* None when its arguments do not tell.                                    *)
Patched(dec, artifacts, reExports) ==
    IF PatchesObject(dec.callee)
    THEN IF Len(dec.args) < 2 \/ dec.args[2].is = "other" \/ ClassToken(dec.args[1]) = None
         THEN None
         ELSE LET class == ClassToken(dec.args[1])
                  method == Last(dec.args[2].value)
              IN  [target |-> <<class, method>>, artifact |-> MethodNamed(artifacts, class, method)]
    ELSE IF dec.args = <<>> \/ dec.args[1].is = "other" THEN None
    ELSE LET target == dec.args[1].value
         IN  [target |-> target,
              artifact |-> IF dec.args[1].is # "str" \/ Len(target) < 2 THEN None
                           ELSE FirstHit(Places(Front(target), Last(target), dec.file, reExports),
                                         LAMBDA p : NamedIn(artifacts, p.file, p.name))]

(* One mock for every target that a test's decorators patch, the first.    *)
Mocks(tree, root, tests, artifacts, fws) ==
    LET located == Located(tree, root)
        reExports == ReExports(located)
        Decorated(d) == LastWith(tests, LAMBDA t : t.file = d.file /\ t.name = d.symbol)
        Mocking(d) ==
            /\ d.kind = "decorator" /\ d.callee \in Merged(fws, "mockDecorators")
            /\ Decorated(d) # None /\ Patched(d, artifacts, reExports) # None
        MockOf(d) ==
            LET test == Decorated(d).id
                patched == Patched(d, artifacts, reExports)
            IN  [id |-> <<"mock", Last(root), test, patched.target>>,
                 test |-> test, artifact |-> patched.artifact]
    IN  FirstOfEachId(located, Mocking, MockOf)
=============================================================================
