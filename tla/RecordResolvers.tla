--------------------------- MODULE RecordResolvers ---------------------------
(***************************************************************************)
(* The remaining records of a repository: its service and those of its     *)
(* Oracle forms, endpoints, data models, queries, Kafka call sites and the *)
(* connections that its configuration names.                               *)
(***************************************************************************)
EXTENDS RouteResolver

CONSTANTS
    FormsExtras,   \* ORACLE_FORMS_APPS
    HintedKeys     \* keys of configuration that hint at a target

Ids(artifacts) == {artifacts[i].id : i \in DOMAIN artifacts}

-----------------------------------------------------------------------------
(* The language that most symbols are written in; of equal ones the first. *)
Language(tree) ==
    LET symbols == Where(tree, "symbol")
        Ext(s) == IF s.file.ext = "init" THEN "py" ELSE s.file.ext
        Count(e) == Len(SelectSeq(symbols, LAMBDA s : Ext(s) = e))
        most == FirstWith(symbols, LAMBDA s : \A i \in DOMAIN symbols : Count(Ext(symbols[i])) <= Count(Ext(s)))
    IN  IF most = None THEN "unknown" ELSE Ext(most)

ServiceOf(tree, repo) == [id |-> <<repo>>, language |-> Language(tree)]

(* extract_forms_services: an app of the repository and an app of the      *)
(* settings have different ids.                                            *)
FormsServices(tree, repo) ==
    {[id |-> <<"forms", repo, s.name>>, language |-> "forms"] :
        s \in {t \in OfKind(tree, "symbol") : t.sym = "form_app"}}
    \cup {[id |-> <<"forms", "config", name>>, language |-> "forms"] : name \in FormsExtras}

-----------------------------------------------------------------------------
(* The routes of all frameworks; a handler is looked up by its file and    *)
(* name.                                                                   *)
Endpoints(tree, root, artifacts, fws) ==
    {[id |-> <<"endpoint", Last(root), r.method, r.path>>,
      handler |-> NamedIn(artifacts, MakeRelative(r.file, root), r.symbol)] : r \in Routes(tree, fws)}

-----------------------------------------------------------------------------
(* DataModelResolver: a class of a known base, or under a known decorator  *)
(* or annotation.  The last segment of a dotted name is enough.            *)
Matches(class, tree, fw) ==
    LET OnClass(kind) == {d.callee : d \in {e \in OfKind(tree, kind) :
            e.file = class.file /\ e.symbol = class.name /\ (kind = "annotation" => e.on = "class")}}
        Listed(callee, names) == callee \in names \/ <<Last(callee)>> \in names
    IN  \/ \E b \in class.bases : Last(b) \in fw.modelBases
        \/ \E c \in OnClass("decorator") : Listed(c, fw.modelDecorators)
        \/ \E c \in OnClass("annotation") : Listed(c, fw.modelAnnotations)

DataModels(tree, root, fws) ==
    LET IsModel(c) == c.kind = "class" /\ \E fw \in ToSet(fws) : Matches(c, tree, fw)
        Model(c) ==
            [id |-> <<"dm", Last(root), RelTo(c.file, root), c.name>>,
             kind |-> FirstWith(fws, LAMBDA fw : Matches(c, tree, fw)).modelKind]
    IN  FirstOfEachId(tree, IsModel, Model)

-----------------------------------------------------------------------------
(* A call site, or an annotation, that a framework knows; the text of its  *)
(* argument must be a literal.                                             *)
Occurrences(tree) == Where(tree, "call") \o Where(tree, "annotation")
IsLiteral(arg) == arg.is = "str"
LastSegment(callee) == <<Last(callee)>>

(* QueryResolver.                                                          *)
QueryPattern(fact, fws) ==
    FirstWith(fws, LAMBDA fw :
        \/ /\ fact.kind = "call"
           /\ CalleeOf(fact) \in fw.queryCallees \/ fact.method \in fw.queryMethods
        \/ /\ fact.kind = "annotation"
           /\ {fact.callee, LastSegment(fact.callee)} \cap fw.queryAnnotations # {})

(* One query on a line of a file: the calls before the annotations.        *)
Queries(tree, root, artifacts, fws) ==
    LET Is(f) == LET fw == QueryPattern(f, fws)
                 IN  IF fw = None THEN FALSE
                     ELSE fw.queryArg \in DOMAIN f.args /\ IsLiteral(f.args[fw.queryArg])
        QueryAt(f) ==
            LET file == RelTo(f.file, root)
            IN  [id |-> <<"q", Last(root), file, f.line>>,
                 enclosing |-> IdIn(Enclosing(artifacts, file, f.line))]
    IN  FirstOfEachId(Occurrences(tree), Is, QueryAt)

-----------------------------------------------------------------------------
(* KafkaResolver.                                                          *)
Role(fact, fw) ==
    CASE /\ fact.kind = "call"
         /\ CalleeOf(fact) \in fw.produceCallees \/ fact.method \in fw.produceMethods -> "produce"
      [] fact.kind = "call" /\ {CalleeOf(fact), <<fact.method>>} \cap fw.consumeCallees # {} -> "consume"
      [] /\ fact.kind = "annotation" /\ fact.on = "method"
         /\ {fact.callee, LastSegment(fact.callee)} \cap fw.consumeAnnotations # {} -> "consume"
      [] OTHER -> None

(* The topic: a literal keyword argument, else the positional one.         *)
Topic(fact, fw) ==
    IF fw.topicKwarg \in DOMAIN fact.kwargs /\ IsLiteral(fact.kwargs[fw.topicKwarg])
    THEN fact.kwargs[fw.topicKwarg].value
    ELSE IF fw.topicArg \in DOMAIN fact.args /\ IsLiteral(fact.args[fw.topicArg])
    THEN fact.args[fw.topicArg].value ELSE None

(* The first framework that gives a role and a topic.                      *)
Speaking(f, fws) == FirstWith(fws, LAMBDA fw : Role(f, fw) # None /\ Topic(f, fw) # None)
Speaker(f, root, artifacts) == IdIn(Enclosing(artifacts, RelTo(f.file, root), f.line))

(* A site outside of any artifact is dropped.                              *)
IsSite(f, root, artifacts, fws) == Speaking(f, fws) # None /\ Speaker(f, root, artifacts) # None
KafkaSites(tree, root, artifacts, fws) ==
    LET Site(f) ==
            LET fw == Speaking(f, fws)
            IN  [id |-> <<Role(f, fw), Last(root), RelTo(f.file, root), f.line>>, role |-> Role(f, fw),
                 function |-> Speaker(f, root, artifacts), topic |-> Topic(f, fw)]
    IN  FirstOfEachId(Occurrences(tree),
                      LAMBDA f : IsSite(f, root, artifacts, fws), Site)

(* The topics of every site, the ones that share a line with another       *)
(* included.                                                               *)
Topics(tree, root, artifacts, fws) ==
    {<<"topic", Topic(f, Speaking(f, fws))>> : f \in
        {g \in ToSet(Occurrences(tree)) : IsSite(g, root, artifacts, fws)}}

-----------------------------------------------------------------------------
(* ConfigBindingResolver: values that name a host under a key that hints   *)
(* at one.                                                                 *)
ConfigConnections(tree, repo) ==
    {[id |-> <<"conn", "cfg", repo, f.key, f.host>>, source |-> <<repo>>] :
        f \in {g \in OfKind(tree, "config") : g.key \in HintedKeys /\ g.host # None}}
=============================================================================
