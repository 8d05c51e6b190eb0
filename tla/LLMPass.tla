------------------------------- MODULE LLMPass -------------------------------
(***************************************************************************)
(* The two places where the program asks a language model, and the cache   *)
(* of its answers on disk, which outlives the process.                     *)
(*                                                                         *)
(* The enhance pass (LLMEnhancer) asks which artifact an unresolved call   *)
(* refers to and adds suggestions beside the resolvers' edges.  A walk     *)
(* hands the files that no native grammar claims to LLMGrammar, which      *)
(* asks for the facts of their content, within a budget.  A process may    *)
(* die at any moment: between an answer and its entry, or while the entry  *)
(* is written.                                                             *)
(***************************************************************************)
EXTENDS Naturals, Sequences, FiniteSets

CONSTANTS
    Inputs,         \* what a pass is given: artifacts in dict order, calls in tree order
    EndsWith,       \* pairs of file names, the first of which ends with the second
    MaxCandidates,  \* the artifacts that a question lists
    MinConfidence,
    Answers,        \* [target, confidence] as the provider may answer
    Walks,          \* sequences of the files that LLMGrammar is given
    Payloads,       \* sets of records as the provider may list them
    AllowedKinds,   \* of the records that are kept
    MaxFiles,
    MaxTokens,
    None, Missing, Torn,
    MaxPasses       \* bounds the runs

VARIABLES
    disk,       \* the cache: the entry of every key
    mode,       \* the pass, its cache and whether an exceeded budget is an error
    job,        \* what the pass is given
    at,         \* the call or the file that it has come to
    reply,      \* an answer that is not yet stored
    suggested,  \* the confidence of each suggestion, by caller and target
    facts,      \* what each file gave
    usage,      \* LLMUsage of this process
    pc

(* History: how often the provider answered for an entry of the file       *)
(* cache, how often the answer was lost with the process, and whether it    *)
(* failed this pass.                                                       *)
VARIABLES paid, lost, raised, passes

pass == <<mode, job, suggested, facts>>
history == <<paid, lost, raised, passes>>
vars == <<disk, mode, job, at, reply, suggested, facts, usage, pc, history>>

-----------------------------------------------------------------------------
(* The questions of the enhance pass.                                      *)
Callable(in) == {i \in DOMAIN in.artifacts : in.artifacts[i].type \in {"function", "method"}}
Ids(in) == {in.artifacts[i].id : i \in DOMAIN in.artifacts}

(* The functions and methods around a call; the innermost encloses it, of  *)
(* equal ones the first.                                                   *)
Around(in, c) ==
    {i \in Callable(in) :
        LET a == in.artifacts[i]
        IN  <<c.file, a.file>> \in EndsWith /\ a.first <= c.line /\ c.line <= a.last}

Span(in, i) == in.artifacts[i].last - in.artifacts[i].first

Enclosing(in, c) ==
    in.artifacts[CHOOSE i \in Around(in, c) :
        \A j \in Around(in, c) :
           Span(in, i) < Span(in, j) \/ (Span(in, i) = Span(in, j) /\ i <= j)]

(* The names that the resolver has bound in an artifact.                   *)
BoundNames(in, a) ==
    {in.artifacts[i].name : i \in {j \in DOMAIN in.artifacts : in.artifacts[j].id \in a.calls}}

Pending(in, c) ==
    /\ c.callee # None
    /\ Around(in, c) # {}
    /\ c.method \notin BoundNames(in, Enclosing(in, c))

(* The first candidates in the order of their ids, and how many are cut.   *)
Candidates(in) ==
    LET ids == {in.artifacts[i].id : i \in Callable(in)}
        listed == {i \in ids : Cardinality({j \in ids : j < i}) < MaxCandidates}
    IN  [listed |-> listed, more |-> Cardinality(ids \ listed)]

(* The key of a prompt: what the prompt tells of the call, its caller and  *)
(* the candidates.                                                         *)
Question(in, c) ==
    [file |-> c.file, line |-> c.line, callee |-> c.callee,
     caller |-> Enclosing(in, c).name, of |-> Enclosing(in, c).file,
     candidates |-> Candidates(in)]

(* The key of a file: its content and its suffix, not its path.            *)
ContentKey(f) == [suffix |-> f.suffix, content |-> f.content]

Questions ==
    UNION {{Question(in, in.calls[i]) :
               i \in {j \in DOMAIN in.calls : Around(in, in.calls[j]) # {}}} : in \in Inputs}
Contents == UNION {{ContentKey(w[i]) : i \in DOMAIN w} : w \in Walks}
Keys == Questions \cup Contents

-----------------------------------------------------------------------------
(* parse_extract_facts_response: records that do not fit are dropped, an   *)
(* end before the beginning loses only itself.                             *)
Parse(payload, f) ==
    {[file |-> f.file, kind |-> r.kind, line |-> r.line,
      end |-> IF r.end # None /\ r.end < r.line THEN None ELSE r.end] :
        r \in {s \in payload : s.kind \in AllowedKinds /\ s.line >= 1}}

(* AnthropicClient answers in any case: a call that fails (no package, no  *)
(* key, no network, no text) is an answer without a target and without     *)
(* confidence, or a payload without records.                               *)
Failed == [target |-> None, confidence |-> 0]
ClientAnswers == Answers \cup {Failed}
ClientPayloads == Payloads \cup {{}}

FactSets ==
    UNION {UNION {{Parse(p, w[i]) : p \in ClientPayloads} : i \in DOMAIN w} : w \in Walks}

ASSUME ConfigOK == MaxFiles \in Nat /\ MaxTokens \in Nat /\ MaxPasses \in Nat

ASSUME JobsOK ==
    /\ \A in \in Inputs : Len(in.calls) \in Nat /\ DOMAIN in.calls = 1 .. Len(in.calls)
    /\ \A w \in Walks : Len(w) \in Nat /\ DOMAIN w = 1 .. Len(w)
    /\ \A w \in Walks : \A i \in DOMAIN w : w[i].tokens \in Nat

(* Whether a file is blank, and the estimate of its tokens, are read off   *)
(* its content.                                                            *)
ASSUME SizeIsOfContent ==
    \A w \in Walks : \A i, j \in DOMAIN w :
       w[i].content = w[j].content => w[i].tokens = w[j].tokens /\ w[i].blank = w[j].blank

(* A file that is not there, or not whole, is no answer.                   *)
ASSUME EntriesAreTold ==
    /\ Missing # Torn
    /\ {Missing, Torn} \cap ClientAnswers = {}
    /\ {Missing, Torn} \cap FactSets = {}

Accepted(in, answer) ==
    /\ answer.target # None /\ answer.target \in Ids(in)
    /\ answer.confidence >= MinConfidence

(* Variant: the last suggestion of a pair stays.                           *)
SuggestLast(in, c, answer) ==
    IF Accepted(in, answer)
    THEN LET id == <<Enclosing(in, c).id, answer.target>>
         IN  [p \in DOMAIN suggested \cup {id} |->
                 IF p = id THEN answer.confidence ELSE suggested[p]]
    ELSE suggested

(* merged.suggestions.setdefault: the first suggestion of a pair stays.    *)
Suggest(in, c, answer) ==
    IF Accepted(in, answer)
    THEN LET id == <<Enclosing(in, c).id, answer.target>>
         IN  [p \in DOMAIN suggested \cup {id} |->
                 IF p \in DOMAIN suggested THEN suggested[p] ELSE answer.confidence]
    ELSE suggested

-----------------------------------------------------------------------------
Modes == [pass : {"enhance", "walk"}, cache : {"file", "null"}, failOpen : BOOLEAN]

Entry(key) == IF mode.cache = "file" THEN disk[key] ELSE Missing
Hit(key) == Entry(key) \notin {Missing, Torn}

Enhancing == pc = "enhance" /\ at <= Len(job.calls)
Call == job.calls[at]
Walking == pc = "walk" /\ at <= Len(job)
File == job[at]
Key == IF mode.pass = "enhance" THEN Question(job, Call) ELSE ContentKey(File)

NoUse == [files |-> 0, tokens |-> 0]
NoMode == [pass |-> "enhance", cache |-> "null", failOpen |-> TRUE]

Init ==
    /\ disk = [k \in Keys |-> Missing]
    /\ mode = NoMode /\ job = <<>> /\ at = 1
    /\ reply = None
    /\ suggested = [p \in {} |-> 0] /\ facts = <<>>
    /\ usage = NoUse
    /\ pc = "idle"
    /\ paid = [k \in Keys |-> 0] /\ lost = [k \in Keys |-> 0]
    /\ raised = FALSE /\ passes = 0

(* The memory of a process, when it has just begun.                        *)
Fresh(m, j) ==
    /\ mode' = m /\ job' = j /\ at' = 1
    /\ reply' = None
    /\ suggested' = [p \in {} |-> 0] /\ facts' = <<>>
    /\ usage' = NoUse
    /\ raised' = FALSE

Start(m, j) ==
    /\ pc \in {"idle", "done", "failed"}
    /\ passes < MaxPasses
    /\ Fresh(m, j)
    /\ passes' = passes + 1
    /\ pc' = m.pass
    /\ UNCHANGED <<disk, paid, lost>>

(* The enhance pass has no budget to exceed.                               *)
StartEnhance(m, in) == m.pass = "enhance" /\ m.failOpen /\ Start(m, in)
StartWalk(m, w) == m.pass = "walk" /\ Start(m, w)

-----------------------------------------------------------------------------
(* A call that has no text or no function around it, or that the resolver  *)
(* has bound.                                                              *)
SkipCall ==
    /\ Enhancing
    /\ ~Pending(job, Call)
    /\ at' = at + 1
    /\ UNCHANGED <<disk, pass, reply, usage, pc, history>>

AnswerCached ==
    /\ Enhancing /\ Pending(job, Call)
    /\ Hit(Key)
    /\ suggested' = Suggest(job, Call, Entry(Key))
    /\ at' = at + 1
    /\ UNCHANGED <<disk, mode, job, reply, facts, usage, pc, history>>

Pay(key) == paid' = [paid EXCEPT ![key] = @ + (IF mode.cache = "file" THEN 1 ELSE 0)]

(* The provider answers.  The enhance pass has no budget to ask, though     *)
(* budgets.py:3 says that every call passes through one.                   *)
Ask(answer) ==
    /\ Enhancing /\ Pending(job, Call)
    /\ ~Hit(Key)
    /\ reply' = answer
    /\ Pay(Key)
    /\ pc' = "put"
    /\ UNCHANGED <<disk, pass, at, usage, lost, raised, passes>>

(* The provider raises: the call is passed over, nothing is stored.        *)
AskRaises ==
    /\ Enhancing /\ Pending(job, Call)
    /\ ~Hit(Key)
    /\ raised' = TRUE
    /\ at' = at + 1
    /\ UNCHANGED <<disk, pass, reply, usage, pc, paid, lost, passes>>

-----------------------------------------------------------------------------
WithinCaps(f) ==
    /\ usage.files + 1 <= MaxFiles
    /\ usage.tokens + f.tokens <= MaxTokens

FileGives(found) ==
    /\ facts' = Append(facts, found)
    /\ at' = at + 1

BlankFile ==
    /\ Walking /\ File.blank
    /\ FileGives({})
    /\ UNCHANGED <<disk, mode, job, reply, suggested, usage, pc, history>>

FactsCached ==
    /\ Walking /\ ~File.blank
    /\ Hit(Key)
    /\ FileGives(Entry(Key))
    /\ UNCHANGED <<disk, mode, job, reply, suggested, usage, pc, history>>

(* The file is given up; nothing is stored.                                *)
OverBudget ==
    /\ Walking /\ ~File.blank
    /\ ~Hit(Key) /\ ~WithinCaps(File)
    /\ mode.failOpen
    /\ FileGives({})
    /\ UNCHANGED <<disk, mode, job, reply, suggested, usage, pc, history>>

OverBudgetRaises ==
    /\ Walking /\ ~File.blank
    /\ ~Hit(Key) /\ ~WithinCaps(File)
    /\ ~mode.failOpen
    /\ pc' = "failed"
    /\ UNCHANGED <<disk, pass, at, reply, usage, history>>

Record(u, f) == [files |-> u.files + 1, tokens |-> u.tokens + f.tokens]

Extract(payload) ==
    /\ Walking /\ ~File.blank
    /\ ~Hit(Key) /\ WithinCaps(File)
    /\ reply' = Parse(payload, File)
    /\ usage' = Record(usage, File)
    /\ Pay(Key)
    /\ pc' = "put"
    /\ UNCHANGED <<disk, pass, at, lost, raised, passes>>

-----------------------------------------------------------------------------
(* Variant: only what leads to a suggestion, or to facts, is worth a file. *)
StoreUseful(key, value) ==
    IF mode.cache = "file" /\ (mode.pass = "enhance" /\ value # Torn => Accepted(job, value))
    THEN [disk EXCEPT ![key] = value] ELSE disk

(* Variant: "none of them" is stored as null.                              *)
StoreNull(key, value) ==
    IF mode.cache # "file" THEN disk
    ELSE [disk EXCEPT ![key] =
            IF mode.pass = "enhance" /\ value # Torn /\ value.target = None THEN None ELSE value]

Store(key, value) ==
    IF mode.cache = "file" THEN [disk EXCEPT ![key] = value] ELSE disk

Put ==
    /\ pc = "put"
    /\ disk' = Store(Key, reply)
    /\ IF mode.pass = "enhance"
       THEN suggested' = Suggest(job, Call, reply) /\ at' = at + 1 /\ UNCHANGED facts
       ELSE FileGives(reply) /\ UNCHANGED suggested
    /\ reply' = None
    /\ pc' = mode.pass
    /\ UNCHANGED <<mode, job, usage, history>>

Finish ==
    /\ \/ pc = "enhance" /\ at > Len(job.calls)
       \/ pc = "walk" /\ at > Len(job)
    /\ pc' = "done"
    /\ UNCHANGED <<disk, pass, at, reply, usage, history>>

(* The process dies.  write_text truncates before it writes: an entry that *)
(* was being written may be torn, and the answer is lost.                  *)
Crash ==
    /\ pc \in {"enhance", "walk", "put"}
    /\ IF pc = "put"
       THEN /\ \/ UNCHANGED disk
               \/ disk' = Store(Key, Torn)
            /\ lost' = [lost EXCEPT ![Key] = @ + (IF mode.cache = "file" THEN 1 ELSE 0)]
       ELSE UNCHANGED <<disk, lost>>
    /\ Fresh(NoMode, <<>>)
    /\ pc' = "idle"
    /\ UNCHANGED <<paid, passes>>

Next ==
    \/ \E m \in Modes, in \in Inputs : StartEnhance(m, in)
    \/ \E m \in Modes, w \in Walks : StartWalk(m, w)
    \/ SkipCall \/ AnswerCached \/ AskRaises
    \/ \E a \in ClientAnswers : Ask(a)
    \/ BlankFile \/ FactsCached \/ OverBudget \/ OverBudgetRaises
    \/ \E p \in ClientPayloads : Extract(p)
    \/ Put \/ Finish \/ Crash

Spec == Init /\ [][Next]_vars

-----------------------------------------------------------------------------
Entries(key) ==
    {Missing, Torn} \cup (IF key \in Questions THEN ClientAnswers ELSE FactSets)

(* Every entry of the cache is missing, torn or an answer to its own kind  *)
(* of key, and a pass is somewhere in what it was given.                   *)
TypeOK ==
    /\ DOMAIN disk = Keys /\ \A k \in Keys : disk[k] \in Entries(k)
    /\ mode \in Modes
    /\ pc \in {"idle", "enhance", "walk", "put", "done", "failed"}
    /\ at \in Nat \ {0}
    /\ pc \in {"enhance", "walk", "put", "done"} =>
          job \in (IF mode.pass = "enhance" THEN Inputs ELSE Walks)
    /\ pc = "put" => reply \in Entries(Key) \ {Missing, Torn}
    /\ usage \in [files : Nat, tokens : Nat]
    /\ paid \in [Keys -> Nat] /\ lost \in [Keys -> Nat]

(* "Re-runs on unchanged input are free": with the file cache the provider *)
(* is asked again for an answer only when the process died before the      *)
(* entry was whole, over any number of passes, crashes and torn entries.   *)
PaidOnce == \A k \in Keys : paid[k] <= 1 + lost[k]

(* What a pass ought to give, read off the cache alone.                    *)
Whole(key) == disk[key] \notin {Missing, Torn}
Justified(in) ==
    {i \in DOMAIN in.calls :
        LET c == in.calls[i]
        IN  Pending(in, c) /\ Whole(Question(in, c)) /\ Accepted(in, disk[Question(in, c)])}
Pair(in, i) == <<Enclosing(in, in.calls[i]).id, disk[Question(in, in.calls[i])].target>>
First(s) == CHOOSE i \in s : \A j \in s : i <= j
ExpectedOf(in, js) ==
    [p \in {Pair(in, i) : i \in js} |->
        disk[Question(in, in.calls[First({i \in js : Pair(in, i) = p})])].confidence]
Expected(in) == ExpectedOf(in, Justified(in))
Given(f) == IF ~f.blank /\ Whole(ContentKey(f)) THEN disk[ContentKey(f)] ELSE {}

(* A pass that ends leaves nothing that a second pass would find           *)
(* different: its suggestions, and the facts of each of its files, are     *)
(* what the cache on disk says, whoever wrote the entries, in whatever     *)
(* pass, and however many processes died on the way.                       *)
ResultIsTheCache ==
    pc = "done" /\ mode.cache = "file" =>
       IF mode.pass = "enhance"
       THEN ~raised => suggested = Expected(job)
       ELSE \A i \in DOMAIN job : facts[i] = Given(job[i])

-----------------------------------------------------------------------------
(* The inductive strengthening of the first two.   What is waiting to be  *)
(* stored belongs to the call or file that the pass has come to, and an    *)
(* answer that was paid for is on disk, about to be, or lost.              *)
AtWork ==
    /\ pc \in {"enhance", "walk"} => mode.pass = pc
    /\ pc = "put" => at <= Len(IF mode.pass = "enhance" THEN job.calls ELSE job)
    /\ pc = "put" /\ mode.pass = "enhance" => Pending(job, Call)

Awaited(key) == pc = "put" /\ mode.cache = "file" /\ Key = key

PaidIsKept ==
    \A k \in Keys :
       /\ paid[k] <= 1 + lost[k]
       /\ ~Whole(k) /\ ~Awaited(k) => paid[k] <= lost[k]

PassInv == TypeOK /\ AtWork /\ PaidIsKept

(* The inductive strengthening of the last: it holds of the calls, and of  *)
(* the files, that a pass has behind it.  No entry it went by is written   *)
(* again: an answer is stored only where there was none, and every call    *)
(* behind has one, unless the provider raised; a file behind has one, or   *)
(* was given up for want of budget, of which there is never more later.    *)
Behind(in) == {i \in Justified(in) : i < at}

SuggestedSoFar ==
    /\ \A i \in DOMAIN job.calls :
          i < at /\ Pending(job, job.calls[i]) => Whole(Question(job, job.calls[i]))
    /\ suggested = ExpectedOf(job, Behind(job))

GivenUp(f) == ~f.blank /\ ~Whole(ContentKey(f))

FactsSoFar ==
    /\ facts \in Seq(FactSets \cup {{}}) /\ Len(facts) = at - 1
    /\ \A i \in DOMAIN job :
          i < at =>
             /\ facts[i] = Given(job[i])
             /\ GivenUp(job[i]) => ~WithinCaps(job[i])
             /\ pc = "put" => ContentKey(job[i]) # Key

CacheInv ==
    mode.cache = "file" =>
       /\ pc = "put" => ~Whole(Key) /\ (mode.pass = "walk" => ~File.blank)
       /\ pc = "done" => at > Len(IF mode.pass = "enhance" THEN job.calls ELSE job)
       /\ pc \in {"enhance", "put", "done"} /\ mode.pass = "enhance" /\ ~raised => SuggestedSoFar
       /\ pc \in {"walk", "put", "done"} /\ mode.pass = "walk" => FactsSoFar
=============================================================================
