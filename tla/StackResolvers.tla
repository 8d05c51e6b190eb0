---------------------------- MODULE StackResolvers ----------------------------
(***************************************************************************)
(* The resolvers of the Oracle stack, in the order in which the adapter    *)
(* runs them over the same list of artifacts: calls of PL/SQL procedures   *)
(* (resolve_oracle_calls), tables read and written (resolve_db_access) and *)
(* what shell scripts invoke (resolve_shell_invokes).  They read the facts *)
(* under their absolute paths.                                             *)
(***************************************************************************)
EXTENDS CodeFacts

Extended(artifacts, field, edges) ==
    MapSeq(artifacts,
        LAMBDA a : [a EXCEPT ![field] = @ \cup {e[2] : e \in {d \in edges : d[1] = a.id}}])

-----------------------------------------------------------------------------
(* The same file under two conventions: an equal base name is enough.      *)
SameFile(a, f) ==
    \/ BaseName(a.file) = BaseName(f)
    \/ /\ Len(a.file.path) = 1 /\ a.file.ext = f.ext
       /\ <<Last(f.path), Last(a.file.path)>> \in EndsWith

Bodies == {"procedure", "function", "trigger", "method"}

(* enclosing_artifact_id_for: the innermost body around the line, else the *)
(* latest declaration before it (grammars that tell no end).               *)
BodyAround(artifacts, fact) ==
    LET bodies == {a \in ToSet(artifacts) : a.type \in Bodies /\ SameFile(a, fact.file)}
        around == {a \in bodies : Span(a) > 0 /\ a.first <= fact.line /\ fact.line <= a.last}
        before == {a \in bodies \ around : a.first <= fact.line}
    IN  IdIn(IF around # {}
             THEN FirstWith(artifacts, LAMBDA a : a \in around /\ \A b \in around : Span(a) <= Span(b))
             ELSE FirstWith(artifacts, LAMBDA a : a \in before /\ \A b \in before : b.first <= a.first))

-----------------------------------------------------------------------------
(* resolve_oracle_calls.                                                   *)
Routines == {"procedure", "function", "trigger"}

(* A callee in lower case: its last two parts if it has a package, one     *)
(* otherwise.  A shell command with a suffix reads like a package.         *)
Qualified(parts) == MapSeq(IF Len(parts) > 2 THEN SubSeq(parts, Len(parts) - 1, Len(parts)) ELSE parts,
                           Lower)
CalleeParts(call) ==
    IF call.file.ext \notin Shell THEN Qualified(Append(call.receiver, call.method))
    ELSE IF call.dir THEN <<>>
    ELSE Qualified(IF call.base[2] = None THEN <<call.method>> ELSE call.base)

(* The last routine of the name, in whichever file or language.            *)
Routine(artifacts, callee) ==
    IdIn(LastWith(artifacts,
        LAMBDA a : /\ a.type \in Routines
                   /\ callee # <<>> /\ Lower(a.name) = Last(callee)
                   /\ Len(callee) = 2 => a.id[1] = "proc" /\ a.id[3] # None /\ a.id[3] = callee[1]))

StubId(callee) ==
    <<"proc", "external", IF Len(callee) = 2 THEN callee[1] ELSE None, Last(callee)>>
Stub(callee) ==
    Artifact(StubId(callee), "procedure", None,  \* the callee, under no lookup
             [path |-> callee, ext |-> "external"], 1, 1)

(* EXEC SQL CALL and the like; a callee that nobody declares gets a stub.  *)
Invocations(tree) ==
    {f \in OfKind(tree, "sql") : f.op \in {"call", "execute"} /\ f.target # None}

Unknown(artifacts, tree) ==
    {Qualified(f.target) : f \in {g \in Invocations(tree) :
        Routine(artifacts, Qualified(g.target)) = None}}

OracleEdges(artifacts, tree) ==
    LET Edge(fact, target) == <<BodyAround(artifacts, fact), target>>
        calls == {Edge(f, Routine(artifacts, CalleeParts(f))) : f \in OfKind(tree, "call")}
        sqls == {Edge(f, LET callee == Qualified(f.target)
                         IN  IF callee \in Unknown(artifacts, tree) THEN StubId(callee)
                             ELSE Routine(artifacts, callee)) : f \in Invocations(tree)}
    IN  {e \in calls \cup sqls : None \notin {e[1], e[2]}}

(* Variant: the unknown callees are not added.                             *)
WithOracleCallsNoStubs(artifacts, tree) ==
    Extended(artifacts, "calls", OracleEdges(artifacts, tree))

WithOracleCalls(artifacts, tree) ==
    Extended(artifacts, "calls", OracleEdges(artifacts, tree))
    \o MapSeq(SetToSeq(Unknown(artifacts, tree)), Stub)

-----------------------------------------------------------------------------
(* resolve_db_access.                                                      *)
ReadOps == {"select"}
WriteOps == {"insert", "update", "delete", "merge", "truncate"}

TableId(repo, table) == <<"table", repo, table>>
Table(repo, table) ==
    Artifact(TableId(repo, table), "table", table, [path |-> <<table>>, ext |-> "sql:"], 1, 1)

(* The statements that touch a table from within a body.                   *)
Accesses(artifacts, tree, ops) ==
    {f \in OfKind(tree, "sql") : f.op \in ops /\ BodyAround(artifacts, f) # None}

AccessEdges(artifacts, tree, repo, ops) ==
    UNION {{<<BodyAround(artifacts, f), TableId(repo, Lower(t))>> : t \in f.tables} :
               f \in Accesses(artifacts, tree, ops)}

Tables(artifacts, tree) ==
    UNION {{Lower(t) : t \in f.tables} : f \in Accesses(artifacts, tree, ReadOps \cup WriteOps)}

WithTables(artifacts, tree, repo) ==
    Extended(Extended(artifacts, "reads", AccessEdges(artifacts, tree, repo, ReadOps)),
             "writes", AccessEdges(artifacts, tree, repo, WriteOps))
    \o MapSeq(SetToSeq(Tables(artifacts, tree)), LAMBDA t : Table(repo, t))

-----------------------------------------------------------------------------
(* resolve_shell_invokes.                                                  *)
InShell(tree, kind) == {f \in OfKind(tree, kind) : f.file.ext \in Shell}
ShellFunctions(tree) == {s \in InShell(tree, "symbol") : s.sym = "function"}

(* Every script that defines a function becomes an artifact.               *)
ScriptId(repo, f) == <<"script", repo, BaseName(f)>>
Scripts(tree) == {s.file : s \in ShellFunctions(tree)}
Script(repo, f) ==
    Artifact(ScriptId(repo, f), "script", None,  \* its base name, under no lookup
             [f EXCEPT !.path = <<Last(f.path)>>], 1, 1)

FunctionIn(artifacts, base) ==
    IdIn(LastWith(artifacts, LAMBDA a : a.type = "function" /\ BaseName(a.file) = base))
FunctionNamed(artifacts, name) ==
    IdIn(LastWith(artifacts, LAMBDA a : a.type = "function" /\ a.name = name))

(* A command: the last function of a file of that name, else, when it has  *)
(* no path, the last function of that name.                                *)
Invoked(artifacts, call) ==
    LET byFile == FunctionIn(artifacts, call.base)
    IN  IF byFile # None THEN byFile
        ELSE IF call.dir THEN None ELSE FunctionNamed(artifacts, call.method)

(* sqlplus @script.sql                                                     *)
SqlScript(artifacts, fact) ==
    LET byFile == FunctionIn(artifacts, fact.script)
    IN  IF byFile # None THEN byFile
        ELSE IdIn(FirstWith(artifacts, LAMBDA a : BaseName(a.file) = fact.script))

(* The function before the line, under its name, else the script.          *)
EnclosingScript(artifacts, tree, repo, fact) ==
    LET before == {s \in ShellFunctions(tree) : s.file = fact.file /\ s.line <= fact.line}
        nearest == FirstWith(tree, LAMBDA f : f \in before /\ \A s \in before : s.line <= f.line)
        named == IF nearest = None THEN None ELSE FunctionNamed(artifacts, nearest.name)
    IN  IF named # None THEN named
        ELSE IF ScriptId(repo, fact.file) \in {ScriptId(repo, f) : f \in Scripts(tree)}
        THEN ScriptId(repo, fact.file) ELSE None

ShellEdges(artifacts, tree, repo) ==
    LET Edge(fact, target) == <<EnclosingScript(artifacts, tree, repo, fact), target>>
        calls == {Edge(f, Invoked(artifacts, f)) : f \in InShell(tree, "call")}
        sqls == {Edge(f, SqlScript(artifacts, f)) :
                    f \in {g \in InShell(tree, "sql") : g.op = "script"}}
    IN  {e \in calls \cup sqls : None \notin {e[1], e[2]} /\ e[1] # e[2]}

(* Scripts of one base name are one artifact.                              *)
NewScripts(tree, repo) ==
    LET files == Scripts(tree)
    IN  {CHOOSE f \in files : ScriptId(repo, f) = id : id \in {ScriptId(repo, f) : f \in files}}

WithShellCalls(artifacts, tree, repo) ==
    Extended(artifacts \o MapSeq(SetToSeq(NewScripts(tree, repo)), LAMBDA f : Script(repo, f)),
             "calls", ShellEdges(artifacts, tree, repo))
=============================================================================
