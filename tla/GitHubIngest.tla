---------------------------- MODULE GitHubIngest ----------------------------
(***************************************************************************)
(* The GitHub half of sg-ingest: the registry of repositories in SQLite    *)
(* (store.py), the shallow clones on disk (cloner.py), the service that    *)
(* keeps the two together (service.py), the adapter that walks a clone and *)
(* skips one whose SHA it has already ingested (adapter.py), and the       *)
(* `sg-ingest github ...` commands that drive them (cli.py).               *)
(*                                                                         *)
(* One command runs at a time: the store is "single-threaded and not safe  *)
(* to share across processes" (store.py:16).  What interleaves with it is  *)
(* the upstream, which is pushed to at any moment, and a crash, which can  *)
(* fall between any two steps that leave a trace on disk.                  *)
(*                                                                         *)
(* A commit is a number: the position it has in the history of its         *)
(* repository.  A working tree is the repository and the commit it was     *)
(* checked out from; commit 0 stands for "no SHA" in a row and for "not    *)
(* the complete tree of any commit" in a working tree.                     *)
(*                                                                         *)
(* Records are told apart by the URL they come from.  The code names a     *)
(* service owner/name (adapter.py:146): where two URLs differ in the host  *)
(* only, as GitHub and a GitHub Enterprise may, the merge keeps one of the *)
(* two, which is the business of Pipeline.                                 *)
(***************************************************************************)
EXTENDS Naturals

CONSTANTS
    Repos,      \* the canonical URLs a user may register
    NoRepo,     \* "no repository": not a member of Repos
    Paths,      \* the directories clones_dir/<owner>/<name>
    ClonePath,  \* the directory of each repository: target_path(owner, name)
    Branches,   \* the branches of the upstream repositories
    Main,       \* the branch HEAD points to upstream
    AnyBranch,  \* the empty --branch option: follow HEAD
    Tracks,     \* the --branch options users give, AnyBranch among them or not
    Seeds,      \* GITHUB_REPOS, registered whenever an adapter is built
    MaxCommit,  \* bound on the commits of a repository, for model checking
    ForcePush,  \* may a push move a branch back to an earlier commit?
    TornFiles   \* may a crash or a failure leave a directory half written?

ASSUME ConstantsOK ==
    /\ NoRepo \notin Repos
    /\ ClonePath \in [Repos -> Paths]
    /\ Main \in Branches
    /\ AnyBranch \notin Branches
    /\ Tracks \subseteq Branches \cup {AnyBranch}
    /\ Seeds \subseteq Repos
    /\ MaxCommit \in Nat \ {0}
    /\ ForcePush \in BOOLEAN
    /\ TornFiles \in BOOLEAN

VARIABLES
    tip,         \* upstream: the commit each branch of each repository is at
    registered,  \* the URLs that have a row in the table `repos`
    commit,      \* column last_commit_sha
    ingested,    \* column last_ingested_sha
    status,      \* column status
    branch,      \* column default_branch
    clone,       \* what is on disk at each path
    pc,          \* the step the running command is at
    cur,         \* the repository that step is about
    todo,        \* repositories the loop of the command has still to visit
    fresh,       \* CloneResult / FreshResult of the repository at hand
    batch,       \* AdapterResult: the tree whose records it holds, by repository
    failed,      \* RunReport.failures is not empty: the command exits with 1
    out,         \* the records that went into services.json and artifacts.json
    walked,      \* history: the SHA and the tree of the last recorded ingest
    fate         \* history: what became of the records of that ingest

row == <<registered, commit, ingested, status, branch>>
run == <<pc, cur, todo, fresh, batch, failed>>
history == <<walked, fate>>
vars == <<tip, row, clone, run, out, history>>

-----------------------------------------------------------------------------
Status == {"registered", "cloned", "ingested", "error"}
Tree == [of : Repos \cup {NoRepo}, at : Nat]
NoTree == [of |-> NoRepo, at |-> 0]
NoRecords == [r \in Repos |-> NoTree]

(* A directory is absent, holds no .git, holds a .git that git can use, or *)
(* a .git that it cannot.                                                  *)
Clone == [git : {"absent", "nogit", "ok", "broken"}, tree : Tree, track : Branches]
NoClone == [git |-> "absent", tree |-> NoTree, track |-> Main]
FreshResult == [sha : Nat, changed : BOOLEAN]
Walk == [sha : Nat, tree : Tree]
Fate == {"none", "in_flight", "published", "dropped"}
Files == {"services", "artifacts"}

NothingFresh == [sha |-> 0, changed |-> FALSE]
NotWalked == [sha |-> 0, tree |-> NoTree]

Steps == {"idle", "loop", "cloned", "failed", "fresh", "walked", "dump_services",
          "dump_artifacts", "rmtree", "delete_row", "clean_one", "clean_all", "clear_sha"}

(* The steps that are about one repository.                                *)
StepsOnOne == {"cloned", "failed", "fresh", "walked", "rmtree", "delete_row", "clean_one"}

TypeOK ==
    /\ tip \in [Repos -> [Branches -> Nat \ {0}]]
    /\ registered \subseteq Repos
    /\ commit \in [Repos -> Nat]
    /\ ingested \in [Repos -> Nat]
    /\ status \in [Repos -> Status]
    /\ branch \in [Repos -> Branches \cup {AnyBranch}]
    /\ clone \in [Paths -> Clone]
    /\ pc \in Steps
    /\ cur \in Repos \cup {NoRepo}
    /\ pc \in StepsOnOne => cur \in Repos
    /\ todo \subseteq Repos
    /\ fresh \in FreshResult
    /\ batch \in [Repos -> Tree]
    /\ failed \in BOOLEAN
    /\ out \in [Files -> [Repos -> Tree]]
    /\ walked \in [Repos -> Walk]
    /\ fate \in [Repos -> Fate]

Init ==
    /\ tip = [r \in Repos |-> [b \in Branches |-> 1]]
    /\ registered = {}
    /\ commit = [r \in Repos |-> 0]
    /\ ingested = [r \in Repos |-> 0]
    /\ status = [r \in Repos |-> "registered"]
    /\ branch = [r \in Repos |-> AnyBranch]
    /\ clone = [p \in Paths |-> NoClone]
    /\ pc = "idle"
    /\ cur = NoRepo
    /\ todo = {}
    /\ fresh = NothingFresh
    /\ batch = NoRecords
    /\ failed = FALSE
    /\ out = [f \in Files |-> NoRecords]
    /\ walked = [r \in Repos |-> NotWalked]
    /\ fate = [r \in Repos |-> "none"]

(* The command ends, having done all it had to or by raising.              *)
EndCommand ==
    /\ pc' = "idle"
    /\ cur' = NoRepo
    /\ todo' = {}
    /\ fresh' = NothingFresh
    /\ batch' = NoRecords
    /\ failed' = FALSE

-----------------------------------------------------------------------------
(* Upstream: somebody pushes.                                              *)
Push(r, b) ==
    /\ \E n \in 1 .. MaxCommit :
          /\ n > tip[r][b] \/ (ForcePush /\ n # tip[r][b])
          /\ tip' = [tip EXCEPT ![r][b] = n]
    /\ UNCHANGED <<row, clone, run, out, history>>

-----------------------------------------------------------------------------
(* sg-ingest github add: upsert_repo in one transaction.  Re-adding keeps  *)
(* the SHAs and the status.                                                *)
AddRepo(r, b) ==
    /\ pc = "idle"
    /\ registered' = registered \cup {r}
    /\ branch' = [branch EXCEPT ![r] = b]
    /\ UNCHANGED <<tip, commit, ingested, status, clone, run, out, history>>

(* sg-ingest github remove: the clone goes first (unless --keep-clone),    *)
(* the row after it.                                                       *)
StartRemove(r, keep) ==
    /\ pc = "idle"
    /\ r \in registered
    /\ pc' = IF keep THEN "delete_row" ELSE "rmtree"
    /\ cur' = r
    /\ UNCHANGED <<tip, row, clone, todo, fresh, batch, failed, out, history>>

RemoveClone ==
    /\ pc = "rmtree"
    /\ clone' = [clone EXCEPT ![ClonePath[cur]] = NoClone]
    /\ pc' = "delete_row"
    /\ UNCHANGED <<tip, row, cur, todo, fresh, batch, failed, out, history>>

DeleteRow ==
    /\ pc = "delete_row"
    /\ registered' = registered \ {cur}
    /\ commit' = [commit EXCEPT ![cur] = 0]
    /\ ingested' = [ingested EXCEPT ![cur] = 0]
    /\ status' = [status EXCEPT ![cur] = "registered"]
    /\ branch' = [branch EXCEPT ![cur] = AnyBranch]
    /\ walked' = [walked EXCEPT ![cur] = NotWalked]
    /\ fate' = [fate EXCEPT ![cur] = "none"]
    /\ EndCommand
    /\ UNCHANGED <<tip, clone, out>>

(* sg-ingest github clean URL: wipes the clone, then forgets the SHA; when *)
(* there is no clone it returns before touching the row.                   *)
StartClean(r) ==
    /\ pc = "idle"
    /\ r \in registered
    /\ clone[ClonePath[r]].git # "absent"
    /\ pc' = "clean_one"
    /\ cur' = r
    /\ UNCHANGED <<tip, row, clone, todo, fresh, batch, failed, out, history>>

CleanClone ==
    /\ pc = "clean_one"
    /\ clone' = [clone EXCEPT ![ClonePath[cur]] = NoClone]
    /\ pc' = "clear_sha"
    /\ todo' = {cur}
    /\ UNCHANGED <<tip, row, cur, fresh, batch, failed, out, history>>

(* sg-ingest github clean --all: wipes every directory under clones_dir,   *)
(* one after the other, then forgets the SHA of every row.                 *)
StartCleanAll ==
    /\ pc = "idle"
    /\ pc' = "clean_all"
    /\ UNCHANGED <<tip, row, clone, cur, todo, fresh, batch, failed, out, history>>

CleanNext(p) ==
    /\ pc = "clean_all"
    /\ clone[p].git # "absent"
    /\ clone' = [clone EXCEPT ![p] = NoClone]
    /\ UNCHANGED <<tip, row, run, out, history>>

CleanedAll ==
    /\ pc = "clean_all"
    /\ \A p \in Paths : clone[p].git = "absent"
    /\ pc' = "clear_sha"
    /\ todo' = registered
    /\ UNCHANGED <<tip, row, clone, cur, fresh, batch, failed, out, history>>

(* Variant: the SHA goes, the status stays.                                *)
ClearShaKeepsStatus(r) ==
    /\ pc = "clear_sha"
    /\ r \in todo
    /\ commit' = [commit EXCEPT ![r] = 0]
    /\ todo' = todo \ {r}
    /\ UNCHANGED <<tip, registered, ingested, status, branch, clone, pc, cur, fresh, batch, failed, out, history>>

ClearSha(r) ==
    /\ pc = "clear_sha"
    /\ r \in todo
    /\ commit' = [commit EXCEPT ![r] = 0]
    /\ status' = [status EXCEPT ![r] = "registered"]
    /\ todo' = todo \ {r}
    /\ UNCHANGED <<tip, registered, ingested, branch, clone, pc, cur, fresh, batch, failed, out, history>>

CleanDone ==
    /\ pc = "clear_sha"
    /\ todo = {}
    /\ EndCommand
    /\ UNCHANGED <<tip, row, clone, out, history>>

-----------------------------------------------------------------------------
(* sg-ingest github ingest URL | --all.  Building the adapter registers    *)
(* the seed repositories it does not find; then extract() takes the        *)
(* registered ones the filter allows.                                      *)
StartIngest(filter) ==
    /\ pc = "idle"
    /\ registered' = registered \cup Seeds
    /\ todo' = (registered \cup Seeds) \cap filter
    /\ pc' = "loop"
    /\ UNCHANGED <<tip, commit, ingested, status, branch, clone, cur, fresh, batch, failed, out, history>>

(* The ref a clone follows is fixed when it is made: `clone --branch b`    *)
(* fetches b only, a plain clone keeps origin/HEAD.                        *)
Followed(r) == IF branch[r] = AnyBranch THEN Main ELSE branch[r]

(* The cloner's step for r, up to its return: pc' = "cloned" is a          *)
(* CloneResult, pc' = "failed" an exception.                               *)
Visit(r) ==
    /\ pc = "loop"
    /\ r \in todo
    /\ cur' = r
    /\ todo' = todo \ {r}
    /\ UNCHANGED <<tip, row, batch, failed, out, history>>

LooksLikeGitRepo(p) == clone[p].git \in {"ok", "broken"}

(* No .git at the destination: whatever is there is removed, and a shallow *)
(* clone made.                                                             *)
FirstClone(r) ==
    LET p == ClonePath[r]
        new == tip[r][Followed(r)]
    IN  /\ Visit(r)
        /\ ~LooksLikeGitRepo(p)
        /\ clone' = [clone EXCEPT ![p] =
                        [git |-> "ok", tree |-> [of |-> r, at |-> new], track |-> Followed(r)]]
        /\ fresh' = [sha |-> new, changed |-> TRUE]
        /\ pc' = "cloned"

(* A failed clone cleans up what it left; an error of the cleaning itself  *)
(* is suppressed, so that a half-written clone may stay.                   *)
HalfClones(r) ==
    [git : {"nogit", "ok", "broken"}, tree : {[of |-> r, at |-> 0]}, track : {Followed(r)}]

FirstCloneFails(r) ==
    /\ Visit(r)
    /\ ~LooksLikeGitRepo(ClonePath[r])
    /\ \E left \in {NoClone} \cup (IF TornFiles THEN HalfClones(r) ELSE {}) :
          clone' = [clone EXCEPT ![ClonePath[r]] = left]
    /\ pc' = "failed"
    /\ UNCHANGED fresh

(* Variant: any clone that has a SHA in the row passes for unchanged.      *)
UpdateUnchangedUnchecked(r) ==
    LET p == ClonePath[r]
    IN  /\ Visit(r)
        /\ clone[p].git = "ok"
        /\ commit[r] # 0
        /\ fresh' = [sha |-> tip[r][clone[p].track], changed |-> FALSE]
        /\ pc' = "cloned"
        /\ UNCHANGED clone

(* There is a .git: fetch the ref the clone follows.  When it is at the    *)
(* SHA the row holds, the working tree is left as it is ...                *)
UpdateUnchanged(r) ==
    LET p == ClonePath[r]
        new == tip[r][clone[p].track]
    IN  /\ Visit(r)
        /\ clone[p].git = "ok"
        /\ commit[r] # 0 /\ new = commit[r]
        /\ fresh' = [sha |-> new, changed |-> FALSE]
        /\ pc' = "cloned"
        /\ UNCHANGED clone

(* Variants: the reset is left out; the SHA returned is the previous one.  *)
UpdateWithoutReset(r) ==
    LET p == ClonePath[r]
        new == tip[r][clone[p].track]
    IN  /\ Visit(r)
        /\ clone[p].git = "ok"
        /\ ~(commit[r] # 0 /\ new = commit[r])
        /\ fresh' = [sha |-> new, changed |-> TRUE]
        /\ pc' = "cloned"
        /\ UNCHANGED clone

UpdateReturnsPrevious(r) ==
    LET p == ClonePath[r]
        new == tip[r][clone[p].track]
    IN  /\ Visit(r)
        /\ clone[p].git = "ok"
        /\ ~(commit[r] # 0 /\ new = commit[r])
        /\ clone' = [clone EXCEPT ![p].tree = [of |-> r, at |-> new]]
        /\ fresh' = [sha |-> commit[r], changed |-> TRUE]
        /\ pc' = "cloned"

(* ... and otherwise git reset --hard makes it the new one.                *)
UpdateReset(r) ==
    LET p == ClonePath[r]
        new == tip[r][clone[p].track]
    IN  /\ Visit(r)
        /\ clone[p].git = "ok"
        /\ ~(commit[r] # 0 /\ new = commit[r])
        /\ clone' = [clone EXCEPT ![p].tree = [of |-> r, at |-> new]]
        /\ fresh' = [sha |-> new, changed |-> TRUE]
        /\ pc' = "cloned"

(* The fetch fails, or there is a .git that git cannot open: the clone is  *)
(* left alone and not made anew.                                           *)
UpdateFails(r) ==
    /\ Visit(r)
    /\ LooksLikeGitRepo(ClonePath[r])
    /\ pc' = "failed"
    /\ UNCHANGED <<clone, fresh>>

(* The reset fails half way.                                               *)
ResetFails(r) ==
    /\ Visit(r)
    /\ TornFiles
    /\ clone[ClonePath[r]].git = "ok"
    /\ clone' = [clone EXCEPT ![ClonePath[r]].tree.at = 0]
    /\ pc' = "failed"
    /\ UNCHANGED fresh

(* Variant: a repository that fails takes the result of the others along.  *)
MarkErrorDiscards ==
    /\ pc = "failed"
    /\ status' = [status EXCEPT ![cur] = "error"]
    /\ pc' = "loop"
    /\ cur' = NoRepo
    /\ batch' = NoRecords
    /\ UNCHANGED <<tip, registered, commit, ingested, branch, clone, todo, fresh, failed, out, history>>

(* ensure_fresh after the cloner raised: the row is marked, the adapter    *)
(* warns and goes on with the next repository.                             *)
MarkError ==
    /\ pc = "failed"
    /\ status' = [status EXCEPT ![cur] = "error"]
    /\ pc' = "loop"
    /\ cur' = NoRepo
    /\ UNCHANGED <<tip, registered, commit, ingested, branch, clone, todo, fresh, batch, failed, out, history>>

(* Variant: the row is marked as ingested as soon as it is cloned.         *)
RecordCloneMarks ==
    /\ pc = "cloned"
    /\ commit' = [commit EXCEPT ![cur] = fresh.sha]
    /\ ingested' = [ingested EXCEPT ![cur] = fresh.sha]
    /\ status' = [status EXCEPT ![cur] = "cloned"]
    /\ pc' = "fresh"
    /\ UNCHANGED <<tip, registered, branch, clone, cur, todo, fresh, batch, failed, out, history>>

(* ensure_fresh after the cloner returned.                                 *)
RecordClone ==
    /\ pc = "cloned"
    /\ commit' = [commit EXCEPT ![cur] = fresh.sha]
    /\ status' = [status EXCEPT ![cur] = "cloned"]
    /\ pc' = "fresh"
    /\ UNCHANGED <<tip, registered, ingested, branch, clone, cur, todo, fresh, batch, failed, out, history>>

(* Variant: any ingest at all counts.                                      *)
IsIngestedAtAll(r, sha) == ingested[r] # 0

IsIngested(r, sha) == ingested[r] # 0 /\ ingested[r] = sha

(* Variant: an unchanged clone is skipped whether it was ingested or not.  *)
SkipUnchanged ==
    /\ pc = "fresh"
    /\ ~fresh.changed
    /\ pc' = "loop"
    /\ cur' = NoRepo
    /\ fresh' = NothingFresh
    /\ UNCHANGED <<tip, row, clone, todo, batch, failed, out, history>>

Skip ==
    /\ pc = "fresh"
    /\ ~fresh.changed /\ IsIngested(cur, fresh.sha)
    /\ pc' = "loop"
    /\ cur' = NoRepo
    /\ fresh' = NothingFresh
    /\ UNCHANGED <<tip, row, clone, todo, batch, failed, out, history>>

(* Variant: the walk loses track of the repository it is about.            *)
WalkCloneOfNone ==
    /\ pc = "fresh"
    /\ ~(~fresh.changed /\ IsIngested(cur, fresh.sha))
    /\ batch' = [batch EXCEPT ![cur] = clone[ClonePath[cur]].tree]
    /\ pc' = "walked"
    /\ cur' = NoRepo
    /\ UNCHANGED <<tip, row, clone, todo, fresh, failed, out, history>>

(* Walk the clone and append its records to the result.                    *)
WalkClone ==
    /\ pc = "fresh"
    /\ ~(~fresh.changed /\ IsIngested(cur, fresh.sha))
    /\ batch' = [batch EXCEPT ![cur] = clone[ClonePath[cur]].tree]
    /\ pc' = "walked"
    /\ UNCHANGED <<tip, row, clone, cur, todo, fresh, failed, out, history>>

RecordIngest ==
    /\ pc = "walked"
    /\ ingested' = [ingested EXCEPT ![cur] = fresh.sha]
    /\ status' = [status EXCEPT ![cur] = "ingested"]
    /\ walked' = [walked EXCEPT ![cur] = [sha |-> fresh.sha, tree |-> batch[cur]]]
    /\ fate' = [fate EXCEPT ![cur] = "in_flight"]
    /\ pc' = "loop"
    /\ cur' = NoRepo
    /\ fresh' = NothingFresh
    /\ UNCHANGED <<tip, registered, commit, branch, clone, todo, batch, failed, out>>

(* What a run that dies or raises does to the records it was carrying.     *)
Drop == fate' = [r \in Repos |-> IF fate[r] = "in_flight" THEN "dropped" ELSE fate[r]]

(* A walk that fails, or a database error, leaves extract() with an        *)
(* exception: run_all keeps the failure and none of the result, and the    *)
(* command goes on to write what it has, which is nothing.                 *)
AbortExtract ==
    /\ pc \in {"cloned", "failed", "fresh", "walked"}
    /\ pc' = "dump_services"
    /\ cur' = NoRepo
    /\ todo' = {}
    /\ fresh' = NothingFresh
    /\ batch' = NoRecords
    /\ failed' = TRUE
    /\ Drop
    /\ UNCHANGED <<tip, row, clone, out, walked>>

(* Variant: services.json is not written.                                  *)
FinishWithoutServices ==
    /\ pc = "loop"
    /\ todo = {}
    /\ pc' = "dump_artifacts"
    /\ UNCHANGED <<tip, row, clone, cur, todo, fresh, batch, failed, out, history>>

FinishExtract ==
    /\ pc = "loop"
    /\ todo = {}
    /\ pc' = "dump_services"
    /\ UNCHANGED <<tip, row, clone, cur, todo, fresh, batch, failed, out, history>>

DumpServices ==
    /\ pc = "dump_services"
    /\ out' = [out EXCEPT !["services"] = batch]
    /\ pc' = "dump_artifacts"
    /\ UNCHANGED <<tip, row, clone, cur, todo, fresh, batch, failed, history>>

DumpArtifacts ==
    /\ pc = "dump_artifacts"
    /\ out' = [out EXCEPT !["artifacts"] = batch]
    /\ fate' = [r \in Repos |-> IF fate[r] = "in_flight" THEN "published" ELSE fate[r]]
    /\ EndCommand
    /\ UNCHANGED <<tip, row, clone, walked>>

-----------------------------------------------------------------------------
(* The process is killed between two steps.                                *)
Crash ==
    /\ pc # "idle"
    /\ EndCommand
    /\ Drop
    /\ UNCHANGED <<tip, row, clone, out, walked>>

(* The process is killed inside a step that writes a directory: a clone or *)
(* a reset under way (loop), or an rmtree.                                 *)
CrashInClone(r) ==
    /\ TornFiles
    /\ pc = "loop"
    /\ r \in todo
    /\ IF LooksLikeGitRepo(ClonePath[r])
          THEN clone' = [clone EXCEPT ![ClonePath[r]].tree.at = 0]
          ELSE \E half \in HalfClones(r) : clone' = [clone EXCEPT ![ClonePath[r]] = half]
    /\ EndCommand
    /\ Drop
    /\ UNCHANGED <<tip, row, out, walked>>

CrashInRmtree(p) ==
    /\ TornFiles
    /\ \/ pc \in {"rmtree", "clean_one"} /\ ClonePath[cur] = p
       \/ pc = "clean_all"
    /\ clone[p].git # "absent"
    /\ \E git \in {"nogit", "ok", "broken"} :
          clone' = [clone EXCEPT ![p] = [@ EXCEPT !.git = git, !.tree.at = 0]]
    /\ EndCommand
    /\ Drop
    /\ UNCHANGED <<tip, row, out, walked>>

-----------------------------------------------------------------------------
UserStep ==
    \/ \E r \in Repos, b \in Tracks : AddRepo(r, b)
    \/ \E r \in Repos, keep \in BOOLEAN : StartRemove(r, keep)
    \/ \E r \in Repos : StartClean(r)
    \/ StartCleanAll

GitSuccess(r) ==
    \/ FirstClone(r)
    \/ UpdateUnchanged(r)
    \/ UpdateReset(r)

GitFailure(r) ==
    \/ FirstCloneFails(r)
    \/ UpdateFails(r)
    \/ ResetFails(r)

(* What a started command does by itself, once git has answered.           *)
ProcessStep ==
    \/ RemoveClone
    \/ DeleteRow
    \/ CleanClone
    \/ \E p \in Paths : CleanNext(p)
    \/ CleanedAll
    \/ \E r \in Repos : ClearSha(r)
    \/ CleanDone
    \/ MarkError
    \/ RecordClone
    \/ Skip
    \/ WalkClone
    \/ RecordIngest
    \/ FinishExtract
    \/ DumpServices
    \/ DumpArtifacts

CrashStep ==
    \/ Crash
    \/ \E r \in Repos : CrashInClone(r)
    \/ \E p \in Paths : CrashInRmtree(p)

Next ==
    \/ \E r \in Repos, b \in Branches : Push(r, b)
    \/ UserStep
    \/ \E filter \in {Repos} \cup {{r} : r \in Repos} : StartIngest(filter)
    \/ \E r \in Repos : GitSuccess(r) \/ GitFailure(r)
    \/ ProcessStep
    \/ AbortExtract
    \/ CrashStep

Spec == Init /\ [][Next]_vars

(* The runs of the tool are repeated for ever, a started command goes on   *)
(* unless it is killed, and git does not fail for ever where it can work.  *)
Fairness ==
    /\ SF_vars(StartIngest(Repos))
    /\ WF_vars(ProcessStep)
    /\ WF_vars(\E r \in Repos : GitSuccess(r) \/ GitFailure(r))
    /\ \A r \in Repos : SF_vars(GitSuccess(r))

FairSpec == Spec /\ Fairness

-----------------------------------------------------------------------------
(* RepoStatus.needs_ingest, as `github status` shows it.                   *)
NeedsIngest(r) == ingested[r] = 0 \/ ingested[r] # commit[r]

(* "A crash mid-extract leaves last_ingested_sha # last_commit_sha and the *)
(* next run retries" (service.py:17): a row that no longer asks for an     *)
(* ingest has had a walk made for exactly the SHA it holds.                *)
CrashMidExtractRetries ==
    \A r \in registered : ~NeedsIngest(r) => walked[r].sha = commit[r]

(* The column `status` never claims more than the SHA columns: "ingested"  *)
(* means the SHA last seen is the SHA last ingested, and "cloned" that     *)
(* there is one.                                                           *)
StatusAgreesWithShas ==
    \A r \in registered :
        /\ status[r] = "ingested" => ~NeedsIngest(r)
        /\ status[r] = "cloned" => commit[r] # 0

(* Between record_ingest and the JSON files the records of a repository    *)
(* are carried by the result of the run, as the tree they came from, and   *)
(* nothing is in flight when no command runs.                              *)
InFlightIsCarried ==
    \A r \in Repos :
        fate[r] = "in_flight" => pc # "idle" /\ batch[r] = walked[r].tree

(* A run that reaches its end has put in both files, for every repository  *)
(* it marked as ingested, the tree it walked.                              *)
RunPublishesWhatItMarked ==
    [][\A r \in Repos :
          fate[r] = "in_flight" /\ fate'[r] = "published"
             => \A f \in Files : out'[f][r] = walked'[r].tree]_vars

(* A repository is passed over only when `github status` would not show it *)
(* as needing an ingest.                                                   *)
SkipOnlyWhatIsIngested ==
    [][pc = "fresh" /\ pc' = "loop" => ~NeedsIngest(cur)]_vars

(* The inductive strengthening of the five properties above.  A row claims *)
(* no more than its SHA columns hold, and never less than was walked ...   *)
RowIsHonest(r) ==
    /\ status[r] = "ingested" => ingested[r] # 0 /\ ingested[r] = commit[r]
    /\ status[r] = "cloned" => commit[r] # 0
    /\ ingested[r] # 0 => walked[r].sha = ingested[r]

(* ... the step at hand is about a repository the loop has left behind,    *)
(* and from "fresh" on its row holds the SHA of that step ...              *)
AtHand == {"cloned", "failed", "fresh", "walked"}

StepAtHand ==
    /\ pc \in AtHand => cur \notin todo
    /\ pc \in {"cloned", "fresh", "walked"} => fresh.sha # 0
    /\ pc \in {"fresh", "walked"} => commit[cur] = fresh.sha

(* ... what is in flight belongs to a run under way, which will not touch  *)
(* those records again, and holds the tree that was walked ...             *)
CarriedByRun(r) ==
    fate[r] = "in_flight" =>
       /\ pc \in AtHand \cup {"loop", "dump_services", "dump_artifacts"}
       /\ r \notin todo
       /\ pc \in AtHand => r # cur
       /\ batch[r] = walked[r].tree

(* ... and the first file is written from the same result as the second.   *)
FilesAgree == pc = "dump_artifacts" => out["services"] = batch

RegistryInv ==
    /\ \A r \in Repos : RowIsHonest(r) /\ CarriedByRun(r)
    /\ StepAtHand
    /\ FilesAgree

(* service.py:17 and adapter.py:13 promise that what was marked as         *)
(* ingested but did not get through is retried: no row is marked at its    *)
(* SHA while the records of that ingest were dropped by the run.           *)
DroppedRecordsAreRetried ==
    \A r \in registered : fate[r] = "dropped" => NeedsIngest(r)

(* README.md:156: "Re-running with no upstream changes is a no-op": a run  *)
(* without failures leaves the records of an ingested repository that      *)
(* upstream has not changed in the files that hold them.                   *)
RerunIsNoOp ==
    [][\A r \in Repos, f \in Files :
          /\ out[f][r] # NoTree
          /\ ~failed /\ status[r] # "error"
          /\ ~NeedsIngest(r) /\ commit[r] = tip[r][Followed(r)]
          => out'[f][r] = out[f][r]]_vars

-----------------------------------------------------------------------------
(* When upstream histories only grow, every repository has a directory of  *)
(* its own and one branch, and directories are written whole.              *)
LinearHistory ==
    /\ ~ForcePush
    /\ ~TornFiles
    /\ Branches = {Main}
    /\ \A r, s \in Repos : ClonePath[r] = ClonePath[s] => r = s

(* A row is marked as ingested at a commit only when the tree that was     *)
(* walked is the complete tree of that commit of that repository.          *)
IngestedFromItsTree ==
    \A r \in Repos : ingested[r] # 0 => walked[r].tree = [of |-> r, at |-> ingested[r]]

(* The inductive strengthening.  A clone on disk is never behind the row:  *)
(* its tree is a commit between what the row remembers and the tip, so a   *)
(* fetch that finds the remembered SHA at the tip has found the SHA of the *)
(* tree.  A crash between git and record_clone leaves it strictly ahead.   *)
CloneIsNotBehind(r) ==
    LET c == clone[ClonePath[r]]
    IN  c.git # "absent" =>
           /\ c.git = "ok"
           /\ c.tree.of = r
           /\ c.tree.at # 0 /\ c.tree.at <= tip[r][Main]
           /\ commit[r] <= c.tree.at
           /\ ingested[r] <= c.tree.at

FreshIsOnDisk ==
    pc \in {"cloned", "fresh", "walked"} =>
       /\ cur \in Repos
       /\ clone[ClonePath[cur]].git = "ok"
       /\ clone[ClonePath[cur]].tree = [of |-> cur, at |-> fresh.sha]
       /\ pc = "walked" => batch[cur] = [of |-> cur, at |-> fresh.sha]

LinearInv ==
    /\ \A r \in Repos :
          /\ commit[r] <= tip[r][Main] /\ ingested[r] <= tip[r][Main]
          /\ CloneIsNotBehind(r)
          /\ walked[r].tree.at = ingested[r]
    /\ IngestedFromItsTree
    /\ FreshIsOnDisk

(* The ledger of ingested commits, as the abstract specification has it.   *)
Ledger == INSTANCE IngestLedger
             WITH upstream <- [r \in Repos |-> tip[r][Main]],
                  ledger <- ingested,
                  content <- [r \in Repos |-> walked[r].tree.at]

LedgerSpec == Ledger!Spec

(* Once users, pushes, crashes and failing walks leave the tool alone,     *)
(* repeated runs mark every registered repository at the tip it follows,   *)
(* whatever state they started from: rows that clean or remove left half   *)
(* way, clones ahead of their row, histories that were rewritten.  Only a  *)
(* clone whose .git cannot be read is beyond them (cloner.py:213).         *)
Undisturbed ==
    <>[][ProcessStep \/ ~(\/ \E r \in Repos, b \in Branches : Push(r, b)
                          \/ UserStep \/ CrashStep \/ AbortExtract)]_vars

EventuallyIngested ==
    Undisturbed =>
       \A r \in Repos :
          <>[](r \in registered /\ clone[ClonePath[r]].git # "broken"
                 => ingested[r] = tip[r][clone[ClonePath[r]].track])
=============================================================================
