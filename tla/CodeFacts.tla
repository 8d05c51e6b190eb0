------------------------------ MODULE CodeFacts ------------------------------
(***************************************************************************)
(* The facts that a walk collects of a repository, and what every resolver *)
(* reads off them: the artifacts a file declares, what it imports, where a *)
(* module may be found, and which artifact encloses a line.                *)
(*                                                                         *)
(* A file is [path, ext]: its directories and its name, and the kind of    *)
(* file that the language profiles tell apart; "init" is a package's       *)
(* __init__.py, whose path is the package.  A module is the sequence of    *)
(* its segments.  An id is the tuple of the parts that the program joins   *)
(* with colons.                                                            *)
(***************************************************************************)
EXTENDS Naturals, SequencesExt

CONSTANTS
    None,
    TestNames,      \* base names that a profile's patterns take for a test
    EndsWith,       \* pairs of base names, the first of which ends with the second
    MaxAliasDepth,  \* _MAX_ALIAS_DEPTH
    Lower(_)        \* a name in lower case

-----------------------------------------------------------------------------
(* The first element that passes, the last one, and the first thing found. *)
FirstWith(s, Test(_)) ==
    LET i == SelectInSeq(s, Test) IN IF i = 0 THEN None ELSE s[i]
LastWith(s, Test(_)) ==
    LET i == SelectLastInSeq(s, Test) IN IF i = 0 THEN None ELSE s[i]
FirstHit(s, Find(_)) ==
    LET x == FirstWith(s, LAMBDA y : Find(y) # None) IN IF x = None THEN None ELSE Find(x)
MapSeq(s, Op(_)) == [i \in DOMAIN s |-> Op(s[i])]
FirstOf(S) == CHOOSE i \in S : \A j \in S : i <= j
IdIn(found) == IF found = None THEN None ELSE found.id

(* The elements that pass, in their order: SelectSeq, by positions.        *)
Picked(s, at) == FlattenSeq([i \in DOMAIN s |-> IF i \in at THEN <<s[i]>> ELSE <<>>])
Keep(s, Test(_)) == Picked(s, {i \in DOMAIN s : Test(s[i])})

(* The records of the elements that pass; of one id, the first's.          *)
FirstOfEachId(s, Test(_), Record(_)) ==
    LET passing == {i \in DOMAIN s : Test(s[i])}
    IN  {Record(s[i]) : i \in
            {j \in passing : \A k \in passing : k < j => Record(s[k]).id # Record(s[j]).id}}

-----------------------------------------------------------------------------
(* Paths.                                                                  *)
PlSql == {"pks", "pkb", "sql"}
Shell == {"sh"}
Dirs(f) == IF f.ext = "init" THEN f.path ELSE Front(f.path)
BaseName(f) == IF f.ext = "init" THEN <<"__init__", "py">> ELSE <<Last(f.path), f.ext>>

(* A directory that makes a test of everything under it; the patterns of   *)
(* the other profiles only ever match a base name.                         *)
TestDirs(f) ==
    CASE f.ext \in {"py", "init"} -> {"tests"}
      [] f.ext \in PlSql -> {"utplsql"}
      [] f.ext \in {"sh", "java", "c", "pc"} -> {}
      [] OTHER -> {"tests", "test"}

(* The whole path decides, what is above the repository included.          *)
IsTestPath(f) ==
    \/ ToSet(Dirs(f)) \cap TestDirs(f) # {}
    \/ f.ext # "init" /\ Last(f.path) \in TestNames

From(f, i) == [f EXCEPT !.path = SubSeq(@, i, Len(@))]

MakeRelative(f, root) == IF IsPrefix(root, f.path) THEN From(f, Len(root) + 1) ELSE f

(* A path that is not under the root, a relative one for instance, is cut  *)
(* after the first directory that has the root's name.                     *)
RelTo(f, root) ==
    LET named == {i \in DOMAIN Dirs(f) : f.path[i] = Last(root)}
    IN  IF IsPrefix(root, f.path) THEN From(f, Len(root) + 1)
        ELSE IF named # {} THEN From(f, FirstOf(named) + 1) ELSE f

-----------------------------------------------------------------------------
(* The tree of a repository: its facts in the order of the walk.           *)
Where(tree, kind) == Keep(tree, LAMBDA f : f.kind = kind)
OfKind(tree, kind) == {tree[i] : i \in {j \in DOMAIN tree : tree[j].kind = kind}}
InFile(facts, file) == Keep(facts, LAMBDA f : f.file = file)
CalleeOf(fact) == IF fact.kind = "call" THEN Append(fact.receiver, fact.method) ELSE fact.callee
Located(tree, root) == MapSeq(tree, LAMBDA f : [f EXCEPT !.file = RelTo(@, root)])

Procedural(fact) == fact.sym \in {"procedure", "trigger"} \/ (fact.sym = "function" /\ fact.pkg # None)

(* The id of what a fact declares in a file; fields and forms declare no   *)
(* artifact.                                                               *)
DeclaredId(fact, repo) ==
    CASE fact.kind = "class" -> <<"class", repo, fact.file, fact.name>>
      [] fact.kind = "symbol" /\ Procedural(fact) -> <<"proc", repo, fact.pkg, fact.name>>
      [] fact.kind = "symbol" /\ fact.sym = "function" /\ ~Procedural(fact) ->
            <<"fn", repo, fact.file, fact.name>>
      [] fact.kind = "symbol" /\ fact.sym = "method" ->
            <<"method", repo, fact.file, fact.class, fact.name>>
      [] OTHER -> None

Artifact(id, type, name, file, first, last) ==
    [id |-> id, type |-> type, name |-> name, file |-> file, first |-> first, last |-> last,
     calls |-> {}, reads |-> {}, writes |-> {}]

ArtifactOf(fact, repo) ==
    Artifact(DeclaredId(fact, repo), IF fact.kind = "class" THEN "class" ELSE fact.sym,
             fact.name, fact.file, fact.line, fact.end)

Known(artifacts, id) == \E i \in DOMAIN artifacts : artifacts[i].id = id

(* FunctionResolver: what the facts declare outside of test files; the     *)
(* first declaration of an id stays.                                       *)
FunctionArtifacts(tree, repo) ==
    LET declared[n \in 0 .. Len(tree)] ==
            IF n = 0 THEN <<>>
            ELSE LET found == declared[n - 1]
                     fact == tree[n]
                 IN  IF \/ DeclaredId(fact, repo) = None \/ IsTestPath(fact.file)
                        \/ Known(found, DeclaredId(fact, repo))
                     THEN found ELSE Append(found, ArtifactOf(fact, repo))
    IN  declared[Len(tree)]

(* Variant: the id keeps the path that it was made of.                     *)
RebaseFileOnly(artifact, root) == [artifact EXCEPT !.file = MakeRelative(artifact.file, root)]

(* The id of a procedure does not name its file and stays.                 *)
Rebase(artifact, root) ==
    LET rel == MakeRelative(artifact.file, root)
    IN  IF rel = artifact.file THEN artifact
        ELSE [artifact EXCEPT !.file = rel,
                              !.id = IF @[1] = "proc" THEN @ ELSE [@ EXCEPT ![3] = rel]]

-----------------------------------------------------------------------------
(* Modules and files.                                                      *)
Templates(f) ==
    CASE f.ext \in {"py", "init"} -> <<"py", "init">>
      [] f.ext \in PlSql -> <<"pks", "pkb", "sql">>
      [] f.ext = "java" -> <<"java">>
      [] OTHER -> <<>>  \* nothing is imported there

CandidateFiles(module, f) ==
    IF module = <<>> THEN <<>>
    ELSE MapSeq(Templates(f), LAMBDA ext : [path |-> module, ext |-> ext])

IsAggregator(f) == f.ext \in {"init", "pks"}

(* The module of an aggregator; the longer template needs a directory.     *)
PackageOf(f) == IF f.path = <<>> THEN <<"__init__">> ELSE f.path

(* A relative import, one level up from the package for every dot but the  *)
(* first.                                                                  *)
TargetModule(import, package) ==
    IF import.level = 0 \/ import.level > Len(package) THEN import.module
    ELSE SubSeq(package, 1, Len(package) - import.level + 1) \o import.module

(* What the aggregators of a tree re-export, in the order of the facts.    *)
ReExports(tree) ==
    LET imports == Keep(Where(tree, "import"), LAMBDA f : IsAggregator(f.file))
        Names(f) ==
            LET package == PackageOf(f.file)
                target == TargetModule(f, package)
            IN  MapSeq(IF target = <<>> THEN <<>> ELSE f.names,
                       LAMBDA n : [of |-> <<package, n>>, as |-> <<target, n>>])
    IN  FlattenSeq(MapSeq(imports, Names))

(* Variant: one re-export less than the bound.                             *)
VisitBelow(at, reExports) ==
    LET top == Last(at.stack)
        rest == Front(at.stack)
        next == Keep(reExports, LAMBDA r : r.of = top.key)
    IN  IF at.stack = <<>> THEN at
        ELSE IF Contains(at.found, top.key) \/ top.depth >= MaxAliasDepth
        THEN [at EXCEPT !.stack = rest]
        ELSE [stack |-> rest \o MapSeq(next, LAMBDA r : [key |-> r.as, depth |-> top.depth + 1]),
              found |-> Append(at.found, top.key)]

(* The names that a name may stand for: depth first, the last re-export    *)
(* of a name before the others, and each name once.                        *)
Visit(at, reExports) ==
    LET top == Last(at.stack)
        rest == Front(at.stack)
        next == Keep(reExports, LAMBDA r : r.of = top.key)
    IN  IF at.stack = <<>> THEN at
        ELSE IF Contains(at.found, top.key) \/ top.depth > MaxAliasDepth
        THEN [at EXCEPT !.stack = rest]
        ELSE [stack |-> rest \o MapSeq(next, LAMBDA r : [key |-> r.as, depth |-> top.depth + 1]),
              found |-> Append(at.found, top.key)]

(* A re-export is pushed once at most, with the name that it re-exports.   *)
Expand(module, name, reExports) ==
    LET visits == Len(reExports) + 1
        after[n \in 0 .. visits] ==
            IF n = 0 THEN [stack |-> <<[key |-> <<module, name>>, depth |-> 0]>>, found |-> <<>>]
            ELSE Visit(after[n - 1], reExports)
    IN  after[visits].found

(* Where a name that f imports from a module may be declared, in the order *)
(* in which the program looks.                                             *)
Places(module, name, f, reExports) ==
    FlattenSeq(MapSeq(Expand(module, name, reExports),
        LAMBDA key : MapSeq(CandidateFiles(key[1], f),
            LAMBDA file : [file |-> file, name |-> key[2]])))

-----------------------------------------------------------------------------
(* Variant: an equal base name is enough.                                  *)
NamedInAlike(artifacts, file, name) ==
    IdIn(LastWith(artifacts, LAMBDA a : BaseName(a.file) = BaseName(file) /\ a.name = name))

(* An index by file and name keeps the last artifact.                      *)
NamedIn(artifacts, file, name) ==
    IdIn(LastWith(artifacts, LAMBDA a : a.file = file /\ a.name = name))

Span(a) == a.last - a.first

(* The innermost artifact around a line, the first of equal ones.          *)
Enclosing(artifacts, file, line) ==
    LET Around(a) == a.file = file /\ a.first <= line /\ line <= a.last
    IN  FirstWith(artifacts, LAMBDA a :
            Around(a) /\ \A b \in ToSet(artifacts) : Around(b) => Span(a) <= Span(b))
=============================================================================
