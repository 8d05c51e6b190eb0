------------------------- MODULE GitHubIngestProofs -------------------------
(***************************************************************************)
(* Theorems about GitHubIngest for every set of repositories, every bound  *)
(* on commits and every behaviour of git, users and crashes.               *)
(***************************************************************************)
EXTENDS GitHubIngest, TLAPS

-----------------------------------------------------------------------------
(* Type correctness, whatever the environment may do.                      *)
LEMMA EmptyTypeOK ==
  /\ NoTree \in Tree /\ NoClone \in Clone
  /\ NotWalked \in Walk /\ NothingFresh \in FreshResult
<1>1. NoTree \in Tree
  BY DEF NoTree, Tree
<1> QED
  BY <1>1, ConstantsOK DEF NoClone, Clone, NotWalked, Walk, NothingFresh, FreshResult

LEMMA CloneExceptTypeOK ==
  ASSUME NEW c \in Clone, NEW n \in Nat, NEW git \in {"absent", "nogit", "ok", "broken"}
  PROVE  /\ \A r \in Repos : [c EXCEPT !.tree = [of |-> r, at |-> n]] \in Clone
         /\ [c EXCEPT !.tree.at = n] \in Clone
         /\ [c EXCEPT !.git = git, !.tree.at = n] \in Clone
<1>1. (\A r \in Repos : [of |-> r, at |-> n] \in Tree) /\ [c.tree EXCEPT !.at = n] \in Tree
  BY DEF Clone, Tree
<1> QED
  BY <1>1 DEF Clone

LEMMA HalfCloneTypeOK ==
  ASSUME NEW r \in Repos, TypeOK
  PROVE  HalfClones(r) \subseteq Clone
<1>1. Followed(r) \in Branches
  BY ConstantsOK DEF Followed, TypeOK
<1> QED
  BY <1>1 DEF HalfClones, Clone, Tree

LEMMA InitTypeOK == Init => TypeOK
<1> SUFFICES ASSUME Init PROVE TypeOK
  OBVIOUS
<1>1. NoTree \in Tree
  BY EmptyTypeOK
<1>2. /\ clone \in [Paths -> Clone]
      /\ walked \in [Repos -> Walk]
      /\ fresh \in FreshResult
  BY EmptyTypeOK DEF Init
<1>3. NoRecords \in [Repos -> Tree]
  BY <1>1 DEF NoRecords
<1>4. out \in [Files -> [Repos -> Tree]]
  BY <1>3 DEF Init
<1>5. tip \in [Repos -> [Branches -> Nat \ {0}]]
  BY DEF Init
<1> QED
  BY <1>2, <1>3, <1>4, <1>5, ConstantsOK DEF Init, TypeOK, Status, Fate, Steps, StepsOnOne

LEMMA PushTypeOK == TypeOK /\ (\E r \in Repos, b \in Branches : Push(r, b)) => TypeOK'
  BY ConstantsOK DEF Push, TypeOK, row, run, history

(* EndCommand and the two updates of `fate` keep the types of what they    *)
(* set.                                                                    *)
LEMMA EndCommandTypeOK ==
  ASSUME EndCommand
  PROVE  /\ pc' = "idle" /\ pc' \in Steps /\ cur' \in Repos \cup {NoRepo} /\ todo' \subseteq Repos
         /\ fresh' \in FreshResult /\ batch' \in [Repos -> Tree] /\ failed' \in BOOLEAN
  BY DEF EndCommand, Steps, NothingFresh, FreshResult, NoRecords, NoTree, Tree

LEMMA UserStepTypeOK == TypeOK /\ UserStep => TypeOK'
<1> SUFFICES ASSUME TypeOK, UserStep PROVE TypeOK'
  OBVIOUS
<1>1. ASSUME NEW r \in Repos, NEW b \in Tracks, AddRepo(r, b) PROVE TypeOK'
  BY <1>1, ConstantsOK DEF AddRepo, TypeOK, run, history
<1>2. ASSUME NEW r \in Repos, NEW keep \in BOOLEAN, StartRemove(r, keep) PROVE TypeOK'
  BY <1>2 DEF StartRemove, TypeOK, row, history, Steps, StepsOnOne
<1>3. ASSUME NEW r \in Repos, StartClean(r) PROVE TypeOK'
  BY <1>3 DEF StartClean, TypeOK, row, history, Steps, StepsOnOne
<1>4. CASE StartCleanAll
  BY <1>4 DEF StartCleanAll, TypeOK, row, history, Steps, StepsOnOne
<1> QED
  BY <1>1, <1>2, <1>3, <1>4 DEF UserStep

LEMMA GitTypeOK ==
  ASSUME TypeOK, NEW r \in Repos, GitSuccess(r) \/ GitFailure(r)
  PROVE  TypeOK'
<1> USE ConstantsOK DEF TypeOK, Visit, row, history, Steps, StepsOnOne, FreshResult
<1>1. ClonePath[r] \in Paths /\ Followed(r) \in Branches
  BY DEF Followed
<1>2. tip[r][Followed(r)] \in Nat /\ tip[r][clone[ClonePath[r]].track] \in Nat
  BY <1>1 DEF Clone
<1>3. CASE FirstClone(r)
  BY <1>1, <1>2, <1>3 DEF FirstClone, Clone, Tree
<1>4. CASE UpdateUnchanged(r)
  BY <1>1, <1>2, <1>4 DEF UpdateUnchanged
<1>5. CASE UpdateReset(r)
  <2>1. clone' \in [Paths -> Clone]
    BY <1>1, <1>2, <1>5, CloneExceptTypeOK DEF UpdateReset
  <2> QED
    BY <1>2, <1>5, <2>1 DEF UpdateReset
<1>6. CASE FirstCloneFails(r)
  <2>0. PICK left \in {NoClone} \cup HalfClones(r) :
              clone' = [clone EXCEPT ![ClonePath[r]] = left]
    BY <1>6 DEF FirstCloneFails
  <2>1. clone' \in [Paths -> Clone]
    <3>1. left \in Clone
      BY EmptyTypeOK, HalfCloneTypeOK
    <3> QED
      BY <2>0, <3>1
  <2> QED
    BY <1>6, <2>1 DEF FirstCloneFails
<1>7. CASE UpdateFails(r)
  BY <1>7 DEF UpdateFails
<1>8. CASE ResetFails(r)
  <2>1. clone' \in [Paths -> Clone]
    BY <1>1, <1>8, CloneExceptTypeOK DEF ResetFails
  <2> QED
    BY <1>8, <2>1 DEF ResetFails
<1> QED
  BY <1>3, <1>4, <1>5, <1>6, <1>7, <1>8 DEF GitSuccess, GitFailure

LEMMA ProcessStepTypeOK == TypeOK /\ ProcessStep => TypeOK'
<1> SUFFICES ASSUME TypeOK, ProcessStep PROVE TypeOK'
  OBVIOUS
<1> USE ConstantsOK DEF TypeOK, row, history, run, Steps, StepsOnOne
<1>1. CASE RemoveClone
  BY <1>1, EmptyTypeOK DEF RemoveClone
<1>2. CASE DeleteRow
  BY <1>2, EndCommandTypeOK, EmptyTypeOK DEF DeleteRow, Status, Fate
<1>3. CASE CleanClone
  BY <1>3, EmptyTypeOK DEF CleanClone
<1>4. ASSUME NEW p \in Paths, CleanNext(p) PROVE TypeOK'
  BY <1>4, EmptyTypeOK DEF CleanNext
<1>5. CASE CleanedAll
  BY <1>5 DEF CleanedAll
<1>6. ASSUME NEW r \in Repos, ClearSha(r) PROVE TypeOK'
  BY <1>6 DEF ClearSha, Status
<1>7. CASE CleanDone
  BY <1>7, EndCommandTypeOK DEF CleanDone
<1>8. CASE MarkError
  BY <1>8 DEF MarkError, Status
<1>9. CASE RecordClone
  BY <1>9 DEF RecordClone, Status, FreshResult
<1>10. CASE Skip
  BY <1>10 DEF Skip, NothingFresh, FreshResult
<1>11. CASE WalkClone
  BY <1>11 DEF WalkClone, Clone
<1>12. CASE RecordIngest
  BY <1>12 DEF RecordIngest, Status, NothingFresh, FreshResult, Walk, Fate
<1>13. CASE FinishExtract
  BY <1>13 DEF FinishExtract
<1>14. CASE DumpServices
  BY <1>14 DEF DumpServices, Files
<1>15. CASE DumpArtifacts
  BY <1>15, EndCommandTypeOK DEF DumpArtifacts, Files, Fate
<1> QED
  BY <1>1, <1>2, <1>3, <1>4, <1>5, <1>6, <1>7, <1>8, <1>9, <1>10, <1>11, <1>12, <1>13,
     <1>14, <1>15 DEF ProcessStep

LEMMA AbortTypeOK == TypeOK /\ AbortExtract => TypeOK'
  BY DEF TypeOK, AbortExtract, Drop, Fate, Steps, StepsOnOne, NothingFresh, FreshResult, NoRecords,
         NoTree, Tree, row

LEMMA CrashTypeOK == TypeOK /\ CrashStep => TypeOK'
<1> SUFFICES ASSUME TypeOK, CrashStep PROVE TypeOK'
  OBVIOUS
<1> USE ConstantsOK, EndCommandTypeOK DEF TypeOK, row, Drop, Fate, StepsOnOne
<1>1. CASE Crash
  BY <1>1 DEF Crash
<1>2. ASSUME NEW r \in Repos, CrashInClone(r) PROVE TypeOK'
  <2>1. ClonePath[r] \in Paths /\ Followed(r) \in Branches
    BY DEF Followed
  <2>2. clone' \in [Paths -> Clone]
    <3>1. PICK c \in Clone : clone' = [clone EXCEPT ![ClonePath[r]] = c]
      <4>1. CASE LooksLikeGitRepo(ClonePath[r])
        <5>1. [clone[ClonePath[r]] EXCEPT !.tree.at = 0] \in Clone
          BY <2>1, CloneExceptTypeOK
        <5> QED
          BY <1>2, <4>1, <5>1 DEF CrashInClone
      <4>2. CASE ~LooksLikeGitRepo(ClonePath[r])
        BY <1>2, <4>2, HalfCloneTypeOK DEF CrashInClone
      <4> QED
        BY <4>1, <4>2
    <3> QED
      BY <3>1
  <2> QED
    BY <1>2, <2>2 DEF CrashInClone
<1>3. ASSUME NEW p \in Paths, CrashInRmtree(p) PROVE TypeOK'
  <2>1. clone' \in [Paths -> Clone]
    <3>1. PICK git \in {"nogit", "ok", "broken"} :
              clone' = [clone EXCEPT ![p] = [clone[p] EXCEPT !.git = git, !.tree.at = 0]]
      BY <1>3 DEF CrashInRmtree
    <3>2. [clone[p] EXCEPT !.git = git, !.tree.at = 0] \in Clone
      BY CloneExceptTypeOK
    <3> QED
      BY <3>1, <3>2
  <2> QED
    BY <1>3, <2>1 DEF CrashInRmtree
<1> QED
  BY <1>1, <1>2, <1>3 DEF CrashStep

(* Every reachable state is well typed: the invariant TypeOK of the runs.  *)
THEOREM TypeCorrect == Spec => []TypeOK
<1>1. TypeOK /\ [Next]_vars => TypeOK'
  <2> SUFFICES ASSUME TypeOK, [Next]_vars PROVE TypeOK'
    OBVIOUS
  <2>1. ASSUME NEW filter \in {Repos} \cup {{r} : r \in Repos}, StartIngest(filter)
        PROVE  TypeOK'
    BY <2>1, ConstantsOK DEF StartIngest, TypeOK, history, Steps, StepsOnOne
  <2>2. CASE UNCHANGED vars
    BY <2>2 DEF vars, row, run, history, TypeOK
  <2> QED
    BY <2>1, <2>2, PushTypeOK, UserStepTypeOK, GitTypeOK, ProcessStepTypeOK, AbortTypeOK,
       CrashTypeOK DEF Next
<1> QED
  BY InitTypeOK, <1>1, PTL DEF Spec

-----------------------------------------------------------------------------
(* Under LinearHistory the clone on disk is never behind the row, and a    *)
(* SHA is marked as ingested only from its own tree.                       *)
LEMMA LinearInit == Init => LinearInv
  BY ConstantsOK
  DEF Init, LinearInv, CloneIsNotBehind, IngestedFromItsTree, FreshIsOnDisk, NoClone,
      NotWalked, NoTree

(* A step that touches nothing but the run, or that forgets SHAs and       *)
(* clones, and that does not claim to have a fresh clone at hand.          *)
LEMMA ForgettingStep ==
  ASSUME TypeOK, LinearInv,
         tip' = tip, walked' = walked, ingested' = ingested,
         \A r \in Repos : commit'[r] \in {commit[r], 0},
         \A p \in Paths : clone'[p] \in {clone[p], NoClone},
         pc' \notin {"cloned", "fresh", "walked"}
  PROVE  LinearInv'
<1>1. IngestedFromItsTree' /\ FreshIsOnDisk'
  BY DEF LinearInv, IngestedFromItsTree, FreshIsOnDisk
<1>2. ASSUME NEW r \in Repos
      PROVE  /\ commit'[r] <= tip'[r][Main] /\ ingested'[r] <= tip'[r][Main]
             /\ walked'[r].tree.at = ingested'[r]
  <2>1. tip[r][Main] \in Nat
    BY ConstantsOK DEF TypeOK
  <2>2. commit'[r] = commit[r] \/ commit'[r] = 0
    OBVIOUS
  <2> QED
    BY <2>1, <2>2 DEF LinearInv
<1>3. ASSUME NEW r \in Repos PROVE CloneIsNotBehind(r)'
  <2>1. CASE clone'[ClonePath[r]] = NoClone
    BY <2>1 DEF CloneIsNotBehind, NoClone
  <2>2. CASE clone'[ClonePath[r]] = clone[ClonePath[r]]
    <3>1. clone[ClonePath[r]].tree.at \in Nat
      BY ConstantsOK DEF TypeOK, Clone, Tree
    <3> QED
      BY <2>2, <3>1 DEF LinearInv, CloneIsNotBehind
  <2> QED
    BY <2>1, <2>2, ConstantsOK
<1> QED
  BY <1>1, <1>2, <1>3 DEF LinearInv

LEMMA PushLinear ==
  ASSUME LinearHistory, TypeOK, LinearInv, NEW r \in Repos, NEW b \in Branches, Push(r, b)
  PROVE  LinearInv'
<1>1. \A s \in Repos : tip[s][Main] <= tip'[s][Main] /\ tip'[s][Main] \in Nat /\ tip[s][Main] \in Nat
  BY ConstantsOK DEF LinearHistory, Push, TypeOK
<1>2. UNCHANGED <<commit, ingested, walked, clone, pc, cur, fresh, batch>>
  BY DEF Push, row, run, history
<1>3. ASSUME NEW s \in Repos
      PROVE  /\ commit'[s] <= tip'[s][Main] /\ ingested'[s] <= tip'[s][Main]
             /\ walked'[s].tree.at = ingested'[s]
  BY <1>1, <1>2 DEF LinearInv, TypeOK
<1>4. ASSUME NEW s \in Repos PROVE CloneIsNotBehind(s)'
  <2>1. clone[ClonePath[s]].tree.at \in Nat
    BY ConstantsOK DEF TypeOK, Clone, Tree
  <2> QED
    BY <1>1, <1>2, <2>1 DEF LinearInv, CloneIsNotBehind
<1>5. IngestedFromItsTree' /\ FreshIsOnDisk'
  BY <1>2 DEF LinearInv, IngestedFromItsTree, FreshIsOnDisk
<1> QED
  BY <1>3, <1>4, <1>5 DEF LinearInv

(* git has put the tip of r in its directory, which no other repository    *)
(* has: the tip is at or beyond everything the row remembers.              *)
LEMMA CheckoutLinear ==
  ASSUME LinearHistory, TypeOK, LinearInv, NEW r \in Repos,
         UNCHANGED <<tip, row, walked>>,
         clone' \in [Paths -> Clone],
         \A p \in Paths \ {ClonePath[r]} : clone'[p] = clone[p],
         clone'[ClonePath[r]].git = "ok",
         clone'[ClonePath[r]].tree = [of |-> r, at |-> tip[r][Main]],
         pc' = "cloned", cur' = r, fresh'.sha = tip[r][Main]
  PROVE  LinearInv'
<1>1. tip[r][Main] \in Nat \ {0}
  BY ConstantsOK DEF TypeOK
<1>2. ASSUME NEW s \in Repos PROVE CloneIsNotBehind(s)'
  <2>1. CASE s = r
    BY <1>1, <2>1 DEF LinearInv, CloneIsNotBehind, row
  <2>2. CASE s # r
    <3>1. ClonePath[s] \in Paths \ {ClonePath[r]}
      BY <2>2, ConstantsOK DEF LinearHistory
    <3> QED
      BY <3>1 DEF LinearInv, CloneIsNotBehind, row
  <2> QED
    BY <2>1, <2>2
<1>3. FreshIsOnDisk'
  BY DEF FreshIsOnDisk
<1>4. IngestedFromItsTree'
  BY DEF LinearInv, IngestedFromItsTree, row
<1> QED
  BY <1>2, <1>3, <1>4 DEF LinearInv, row

LEMMA GitLinear ==
  ASSUME LinearHistory, TypeOK, LinearInv, NEW r \in Repos, GitSuccess(r) \/ GitFailure(r)
  PROVE  LinearInv'
<1> DEFINE p == ClonePath[r]
<1>1. p \in Paths /\ Followed(r) = Main /\ clone[p].track = Main
  BY ConstantsOK DEF LinearHistory, Followed, TypeOK, Clone
<1>2. clone' \in [Paths -> Clone]
  BY GitTypeOK DEF TypeOK
<1>3. tip[r][Main] \in Nat /\ commit[r] \in Nat /\ clone[p].tree \in Tree
  BY <1>1, ConstantsOK DEF TypeOK, Clone
<1>4. CASE FirstClone(r)
  BY <1>1, <1>2, <1>4, CheckoutLinear DEF FirstClone, Visit, history, TypeOK
<1>5. CASE UpdateReset(r)
  BY <1>1, <1>2, <1>5, CheckoutLinear DEF UpdateReset, Visit, history, TypeOK, Clone
<1>6. CASE UpdateUnchanged(r)
  <2>1. clone[p].git = "ok" /\ tip[r][Main] = commit[r] /\ fresh'.sha = tip[r][Main]
    BY <1>1, <1>6 DEF UpdateUnchanged
  <2>2. clone[p].tree = [of |-> r, at |-> tip[r][Main]]
    <3>1. clone[p].tree.of = r /\ clone[p].tree.at <= tip[r][Main] /\ commit[r] <= clone[p].tree.at
      BY <2>1 DEF LinearInv, CloneIsNotBehind
    <3>2. clone[p].tree.at = tip[r][Main]
      BY <1>3, <2>1, <3>1 DEF Tree
    <3> QED
      BY <1>3, <3>1, <3>2 DEF Tree
  <2> QED
    BY <1>2, <1>6, <2>1, <2>2, CheckoutLinear DEF UpdateUnchanged, Visit, history
<1>7. CASE FirstCloneFails(r)
  <2>1. clone' = [clone EXCEPT ![p] = NoClone]
    BY <1>7 DEF FirstCloneFails, LinearHistory
  <2> QED
    BY <1>1, <1>7, <2>1, ForgettingStep DEF FirstCloneFails, Visit, row, history, TypeOK
<1>8. CASE UpdateFails(r)
  BY <1>8, ForgettingStep DEF UpdateFails, Visit, row, history
<1>9. CASE ResetFails(r)
  BY <1>9 DEF ResetFails, LinearHistory
<1> QED
  BY <1>4, <1>5, <1>6, <1>7, <1>8, <1>9 DEF GitSuccess, GitFailure

LEMMA ProcessStepLinear ==
  ASSUME LinearHistory, TypeOK, LinearInv, ProcessStep
  PROVE  LinearInv'
<1> USE DEF row, history, run
<1>1. CASE RemoveClone
  BY <1>1, ForgettingStep DEF RemoveClone, TypeOK
<1>2. CASE DeleteRow
  <2>1. cur \in Repos /\ tip[cur][Main] \in Nat
    BY <1>2, ConstantsOK DEF DeleteRow, TypeOK, StepsOnOne
  <2>2. ASSUME NEW r \in Repos
        PROVE  /\ commit'[r] <= tip'[r][Main] /\ ingested'[r] <= tip'[r][Main]
               /\ walked'[r].tree.at = ingested'[r]
               /\ ingested'[r] # 0 => walked'[r].tree = [of |-> r, at |-> ingested'[r]]
    BY <1>2, <2>1 DEF DeleteRow, LinearInv, IngestedFromItsTree, TypeOK, NotWalked, NoTree
  <2>3. ASSUME NEW r \in Repos PROVE CloneIsNotBehind(r)'
    <3>1. clone[ClonePath[r]].tree.at \in Nat
      BY ConstantsOK DEF TypeOK, Clone, Tree
    <3> QED
      BY <1>2, <2>1, <3>1 DEF DeleteRow, LinearInv, CloneIsNotBehind, TypeOK
  <2>4. FreshIsOnDisk'
    BY <1>2 DEF DeleteRow, EndCommand, FreshIsOnDisk
  <2> QED
    BY <2>2, <2>3, <2>4 DEF LinearInv, IngestedFromItsTree
<1>3. CASE CleanClone
  BY <1>3, ForgettingStep DEF CleanClone, TypeOK
<1>4. ASSUME NEW p \in Paths, CleanNext(p) PROVE LinearInv'
  BY <1>4, ForgettingStep DEF CleanNext, TypeOK
<1>5. CASE CleanedAll
  BY <1>5, ForgettingStep DEF CleanedAll
<1>6. ASSUME NEW r \in Repos, ClearSha(r) PROVE LinearInv'
  BY <1>6, ForgettingStep DEF ClearSha, TypeOK
<1>7. CASE CleanDone
  BY <1>7, ForgettingStep DEF CleanDone, EndCommand
<1>8. CASE MarkError
  BY <1>8, ForgettingStep DEF MarkError
<1>9. CASE RecordClone
  <2>1. cur \in Repos /\ tip[cur][Main] \in Nat /\ clone[ClonePath[cur]].git = "ok"
        /\ clone[ClonePath[cur]].tree = [of |-> cur, at |-> fresh.sha]
    BY <1>9, ConstantsOK DEF RecordClone, LinearInv, FreshIsOnDisk, TypeOK
  <2>2. fresh.sha <= tip[cur][Main] /\ fresh.sha \in Nat
    BY <2>1 DEF LinearInv, CloneIsNotBehind, TypeOK, FreshResult
  <2>3. \A r \in Repos : commit'[r] = IF r = cur THEN fresh.sha ELSE commit[r]
    BY <1>9 DEF RecordClone, TypeOK
  <2>4. UNCHANGED <<tip, ingested, walked, clone, cur, fresh, batch>> /\ pc' = "fresh"
    BY <1>9 DEF RecordClone
  <2>5. ASSUME NEW r \in Repos PROVE CloneIsNotBehind(r)' /\ commit'[r] <= tip'[r][Main]
    BY <2>1, <2>2, <2>3, <2>4 DEF LinearInv, CloneIsNotBehind
  <2>6. FreshIsOnDisk' /\ IngestedFromItsTree'
    BY <2>1, <2>4 DEF FreshIsOnDisk, LinearInv, IngestedFromItsTree
  <2> QED
    BY <2>4, <2>5, <2>6 DEF LinearInv
<1>10. CASE Skip
  BY <1>10, ForgettingStep DEF Skip
<1>11. CASE WalkClone
  <2>1. UNCHANGED <<tip, commit, ingested, walked, clone, cur, fresh>> /\ pc' = "walked"
    BY <1>11 DEF WalkClone
  <2>2. FreshIsOnDisk'
    BY <1>11, <2>1 DEF WalkClone, LinearInv, FreshIsOnDisk, TypeOK
  <2> QED
    BY <2>1, <2>2 DEF LinearInv, CloneIsNotBehind, IngestedFromItsTree
<1>12. CASE RecordIngest
  <2>1. cur \in Repos /\ tip[cur][Main] \in Nat /\ clone[ClonePath[cur]].git = "ok"
        /\ clone[ClonePath[cur]].tree = [of |-> cur, at |-> fresh.sha]
        /\ batch[cur] = [of |-> cur, at |-> fresh.sha]
    BY <1>12, ConstantsOK DEF RecordIngest, LinearInv, FreshIsOnDisk, TypeOK
  <2>2. fresh.sha <= tip[cur][Main] /\ fresh.sha \in Nat
    BY <2>1 DEF LinearInv, CloneIsNotBehind, TypeOK, FreshResult
  <2>3. \A r \in Repos : /\ ingested'[r] = IF r = cur THEN fresh.sha ELSE ingested[r]
                         /\ walked'[r] = IF r = cur THEN [sha |-> fresh.sha, tree |-> batch[cur]]
                                                    ELSE walked[r]
    BY <1>12 DEF RecordIngest, TypeOK
  <2>4. UNCHANGED <<tip, commit, clone>> /\ pc' = "loop"
    BY <1>12 DEF RecordIngest
  <2>5. ASSUME NEW r \in Repos
        PROVE  /\ CloneIsNotBehind(r)' /\ ingested'[r] <= tip'[r][Main]
               /\ walked'[r].tree.at = ingested'[r]
               /\ ingested'[r] # 0 => walked'[r].tree = [of |-> r, at |-> ingested'[r]]
    BY <2>1, <2>2, <2>3, <2>4 DEF LinearInv, CloneIsNotBehind, IngestedFromItsTree
  <2> QED
    BY <2>4, <2>5 DEF LinearInv, IngestedFromItsTree, FreshIsOnDisk
<1>13. CASE FinishExtract
  BY <1>13, ForgettingStep DEF FinishExtract
<1>14. CASE DumpServices
  BY <1>14, ForgettingStep DEF DumpServices
<1>15. CASE DumpArtifacts
  BY <1>15, ForgettingStep DEF DumpArtifacts, EndCommand
<1> QED
  BY <1>1, <1>2, <1>3, <1>4, <1>5, <1>6, <1>7, <1>8, <1>9, <1>10, <1>11, <1>12, <1>13,
     <1>14, <1>15 DEF ProcessStep

LEMMA OtherStepLinear ==
  ASSUME LinearHistory, TypeOK, LinearInv,
         \/ UserStep
         \/ \E filter \in {Repos} \cup {{r} : r \in Repos} : StartIngest(filter)
         \/ AbortExtract
         \/ CrashStep
  PROVE  LinearInv'
<1> USE ForgettingStep DEF row, history, run
<1>1. ASSUME NEW r \in Repos, NEW b \in Tracks, AddRepo(r, b) PROVE LinearInv'
  BY <1>1 DEF AddRepo
<1>2. ASSUME NEW r \in Repos, NEW keep \in BOOLEAN, StartRemove(r, keep) PROVE LinearInv'
  BY <1>2 DEF StartRemove
<1>3. ASSUME NEW r \in Repos, StartClean(r) PROVE LinearInv'
  BY <1>3 DEF StartClean
<1>4. CASE StartCleanAll
  BY <1>4 DEF StartCleanAll
<1>5. ASSUME NEW filter \in {Repos} \cup {{r} : r \in Repos}, StartIngest(filter)
      PROVE  LinearInv'
  BY <1>5 DEF StartIngest
<1>6. CASE AbortExtract
  BY <1>6 DEF AbortExtract
<1>7. CASE CrashStep
  <2>1. Crash
    BY <1>7 DEF CrashStep, CrashInClone, CrashInRmtree, LinearHistory
  <2> QED
    BY <2>1 DEF Crash, EndCommand
<1> QED
  BY <1>1, <1>2, <1>3, <1>4, <1>5, <1>6, <1>7 DEF UserStep

LEMMA LinearStep ==
  ASSUME LinearHistory, TypeOK, LinearInv, [Next]_vars
  PROVE  LinearInv'
<1>1. CASE UNCHANGED vars
  BY <1>1 DEF vars, row, run, history, LinearInv, CloneIsNotBehind, IngestedFromItsTree,
              FreshIsOnDisk
<1> QED
  BY <1>1, PushLinear, GitLinear, ProcessStepLinear, OtherStepLinear DEF Next

(* The inductive invariant holds in every reachable state.                 *)
THEOREM LinearInvariant == ASSUME LinearHistory PROVE Spec => []LinearInv
<1>1. TypeOK /\ LinearInv /\ [Next]_vars => LinearInv'
  BY LinearStep
<1> QED
  BY <1>1, LinearInit, TypeCorrect, PTL DEF Spec

(* No repository is ever marked as ingested at a commit whose complete     *)
(* tree was not what the walk saw, however crashes, failures and commands  *)
(* interleave with the upstream.                                           *)
THEOREM IngestIsFaithful == ASSUME LinearHistory PROVE Spec => []IngestedFromItsTree
<1>1. LinearInv => IngestedFromItsTree
  BY DEF LinearInv
<1> QED
  BY <1>1, LinearInvariant, PTL

-----------------------------------------------------------------------------
(* The registry implements the ledger of ingested commits.                 *)
LEMMA LedgerInit == Init => Ledger!Init
  BY ConstantsOK DEF Init, Ledger!Init, NotWalked, NoTree

(* What a step leaves of the three variables the ledger is read from.      *)
LEMMA LedgerStutter ==
  ASSUME UNCHANGED <<tip, ingested, walked>>
  PROVE  UNCHANGED Ledger!vars
  BY DEF Ledger!vars

LEMMA LedgerAdvance ==
  ASSUME LinearHistory, TypeOK, NEW r \in Repos, NEW b \in Branches, Push(r, b)
  PROVE  Ledger!Advance(r)
<1>1. b = Main
  BY DEF LinearHistory
<1>2. PICK n \in 1 .. MaxCommit : n > tip[r][b] /\ tip' = [tip EXCEPT ![r][b] = n]
  BY DEF Push, LinearHistory
<1>3. \A s \in Repos : tip'[s][Main] = IF s = r THEN n ELSE tip[s][Main]
  BY <1>1, <1>2, ConstantsOK DEF TypeOK
<1>4. n \in Nat
  BY <1>2, ConstantsOK
<1>5. UNCHANGED <<ingested, walked>>
  BY DEF Push, row, history
<1> QED
  BY <1>1, <1>2, <1>3, <1>4, <1>5 DEF Ledger!Advance

LEMMA LedgerForget ==
  ASSUME TypeOK, DeleteRow
  PROVE  \E r \in Repos : Ledger!Forget(r)
<1>1. cur \in Repos
  BY DEF DeleteRow, TypeOK, StepsOnOne
<1>2. \A r \in Repos : walked'[r].tree.at = IF r = cur THEN 0 ELSE walked[r].tree.at
  BY DEF DeleteRow, TypeOK, NotWalked, NoTree
<1>3. ingested' = [ingested EXCEPT ![cur] = 0] /\ UNCHANGED tip
  BY DEF DeleteRow
<1> QED
  BY <1>1, <1>2, <1>3 DEF Ledger!Forget

LEMMA LedgerMark ==
  ASSUME LinearHistory, TypeOK, LinearInv, RecordIngest
  PROVE  \E r \in Repos : Ledger!Mark(r)
<1>1. cur \in Repos /\ tip[cur][Main] \in Nat /\ ingested[cur] \in Nat /\ fresh.sha \in Nat
  BY ConstantsOK DEF RecordIngest, TypeOK, StepsOnOne, FreshResult
<1>2. /\ clone[ClonePath[cur]].git = "ok"
      /\ clone[ClonePath[cur]].tree = [of |-> cur, at |-> fresh.sha]
      /\ batch[cur] = [of |-> cur, at |-> fresh.sha]
  BY DEF RecordIngest, LinearInv, FreshIsOnDisk
<1>3. fresh.sha \in ingested[cur] .. tip[cur][Main]
  BY <1>1, <1>2 DEF LinearInv, CloneIsNotBehind
<1>4. \A r \in Repos : walked'[r].tree.at = IF r = cur THEN fresh.sha ELSE walked[r].tree.at
  BY <1>2 DEF RecordIngest, TypeOK
<1>5. ingested' = [ingested EXCEPT ![cur] = fresh.sha] /\ UNCHANGED tip
  BY DEF RecordIngest
<1> QED
  BY <1>1, <1>3, <1>4, <1>5 DEF Ledger!Mark

LEMMA LedgerStep ==
  ASSUME LinearHistory, TypeOK, LinearInv, [Next]_vars
  PROVE  [Ledger!Next]_Ledger!vars
<1> USE LedgerStutter DEF row, run, history
<1>1. ASSUME NEW r \in Repos, NEW b \in Branches, Push(r, b) PROVE Ledger!Next
  BY <1>1, LedgerAdvance DEF Ledger!Next
<1>2. CASE UserStep
  BY <1>2 DEF UserStep, AddRepo, StartRemove, StartClean, StartCleanAll
<1>3. ASSUME NEW filter \in {Repos} \cup {{r} : r \in Repos}, StartIngest(filter)
      PROVE  UNCHANGED Ledger!vars
  BY <1>3 DEF StartIngest
<1>4. ASSUME NEW r \in Repos, GitSuccess(r) \/ GitFailure(r)
      PROVE  UNCHANGED Ledger!vars
  <2>1. Visit(r)
    BY <1>4 DEF GitSuccess, GitFailure, FirstClone, UpdateUnchanged, UpdateReset,
                FirstCloneFails, UpdateFails, ResetFails
  <2> QED
    BY <2>1 DEF Visit
<1>5. CASE DeleteRow
  BY <1>5, LedgerForget DEF Ledger!Next
<1>6. CASE RecordIngest
  BY <1>6, LedgerMark DEF Ledger!Next
<1>7. CASE ProcessStep /\ ~DeleteRow /\ ~RecordIngest
  BY <1>7 DEF ProcessStep, RemoveClone, CleanClone, CleanNext, CleanedAll, ClearSha,
              CleanDone, MarkError, RecordClone, Skip, WalkClone, FinishExtract,
              DumpServices, DumpArtifacts
<1>8. CASE AbortExtract \/ CrashStep
  BY <1>8 DEF AbortExtract, CrashStep, Crash, CrashInClone, CrashInRmtree
<1>9. CASE UNCHANGED vars
  BY <1>9 DEF vars
<1> QED
  BY <1>1, <1>2, <1>3, <1>4, <1>5, <1>6, <1>7, <1>8, <1>9 DEF Next

(* Incremental ingestion implements IngestLedger: the column               *)
(* last_ingested_sha only advances, within what upstream has reached, and  *)
(* each entry stands for the content of its own commit.                    *)
THEOREM ImplementsLedger == ASSUME LinearHistory PROVE Spec => LedgerSpec
<1>1. TypeOK /\ LinearInv /\ [Next]_vars => [Ledger!Next]_Ledger!vars
  BY LedgerStep
<1> QED
  BY <1>1, LedgerInit, TypeCorrect, LinearInvariant, PTL DEF Spec, LedgerSpec, Ledger!Spec

-----------------------------------------------------------------------------
(* The registry, whatever upstream, git and crashes do: no assumption on   *)
(* the histories, on the directories or on what a crash leaves in them.    *)
LEMMA RegistryInit == Init => RegistryInv
  BY DEF Init, RegistryInv, RowIsHonest, StepAtHand, AtHand, CarriedByRun, FilesAgree

(* A step of the run that leaves the rows and the history alone, and the   *)
(* records of a run that goes on.                                          *)
LEMMA RunStep ==
  ASSUME RegistryInv, UNCHANGED <<commit, ingested, status, walked, fate, batch>>,
         todo' \subseteq todo, StepAtHand', FilesAgree',
         pc' \in AtHand \cup {"loop", "dump_services", "dump_artifacts"},
         pc' \in AtHand => (pc \in AtHand /\ cur' = cur) \/ cur' \in todo
  PROVE  RegistryInv'
<1>1. ASSUME NEW r \in Repos PROVE RowIsHonest(r)' /\ CarriedByRun(r)'
  BY DEF RegistryInv, RowIsHonest, CarriedByRun, AtHand
<1> QED
  BY <1>1 DEF RegistryInv

(* A command that is not an ingestion, or that ends: nothing is in flight  *)
(* after it.                                                               *)
LEMMA OtherCommandStep ==
  ASSUME RegistryInv, \A r \in Repos : RowIsHonest(r)',
         pc' \notin AtHand \cup {"dump_artifacts"},
         \A r \in Repos : fate'[r] # "in_flight"
  PROVE  RegistryInv'
  BY DEF RegistryInv, StepAtHand, FilesAgree, CarriedByRun, AtHand

LEMMA UserStepRegistry ==
  ASSUME TypeOK, RegistryInv, UserStep
  PROVE  RegistryInv'
<1>1. pc = "idle" /\ UNCHANGED <<commit, ingested, status, walked, fate>>
      /\ pc' \in {"idle", "delete_row", "rmtree", "clean_one", "clean_all"}
  BY DEF UserStep, AddRepo, StartRemove, StartClean, StartCleanAll, row, run, history
<1>2. ASSUME NEW r \in Repos PROVE RowIsHonest(r)' /\ fate'[r] # "in_flight"
  BY <1>1 DEF RegistryInv, RowIsHonest, CarriedByRun, AtHand
<1> QED
  BY <1>1, <1>2, OtherCommandStep DEF AtHand

LEMMA StartIngestRegistry ==
  ASSUME RegistryInv, NEW filter, StartIngest(filter)
  PROVE  RegistryInv'
<1>1. pc = "idle" /\ pc' = "loop" /\ UNCHANGED <<commit, ingested, status, walked, fate>>
  BY DEF StartIngest, history
<1>2. ASSUME NEW r \in Repos PROVE RowIsHonest(r)' /\ fate'[r] # "in_flight"
  BY <1>1 DEF RegistryInv, RowIsHonest, CarriedByRun, AtHand
<1> QED
  BY <1>1, <1>2, OtherCommandStep DEF AtHand

LEMMA GitRegistry ==
  ASSUME TypeOK, RegistryInv, NEW r \in Repos, GitSuccess(r) \/ GitFailure(r)
  PROVE  RegistryInv'
<1> USE DEF row, history
<1>1. Visit(r) /\ pc' \in {"cloned", "failed"}
  BY DEF GitSuccess, GitFailure, FirstClone, UpdateUnchanged, UpdateReset, FirstCloneFails,
         UpdateFails, ResetFails
<1>2. pc' = "cloned" => fresh'.sha # 0
  <2>1. ClonePath[r] \in Paths /\ Followed(r) \in Branches
    BY ConstantsOK DEF Followed, TypeOK
  <2>2. tip[r][Followed(r)] # 0 /\ tip[r][clone[ClonePath[r]].track] # 0
    BY <2>1 DEF TypeOK, Clone
  <2> QED
    BY <2>2 DEF GitSuccess, GitFailure, FirstClone, UpdateUnchanged, UpdateReset,
                FirstCloneFails, UpdateFails, ResetFails
<1>3. StepAtHand' /\ FilesAgree'
  BY <1>1, <1>2 DEF Visit, StepAtHand, FilesAgree, AtHand
<1> QED
  BY <1>1, <1>3, RunStep DEF Visit, AtHand

LEMMA ProcessStepRegistry ==
  ASSUME TypeOK, RegistryInv, ProcessStep
  PROVE  RegistryInv'
<1> USE DEF row, run, history
<1>0. \A r \in Repos : RowIsHonest(r) /\ CarriedByRun(r)
  BY DEF RegistryInv
<1>1. CASE RemoveClone \/ CleanClone \/ (\E p \in Paths : CleanNext(p)) \/ CleanedAll \/ CleanDone
  <2>1. /\ pc \in {"rmtree", "clean_one", "clean_all", "clear_sha"}
        /\ pc' \in {"delete_row", "clear_sha", "clean_all", "idle"}
        /\ UNCHANGED <<commit, ingested, status, walked, fate>>
    BY <1>1 DEF RemoveClone, CleanClone, CleanNext, CleanedAll, CleanDone, EndCommand
  <2>2. ASSUME NEW r \in Repos PROVE RowIsHonest(r)' /\ fate'[r] # "in_flight"
    BY <1>0, <2>1 DEF RowIsHonest, CarriedByRun, AtHand
  <2> QED
    BY <2>1, <2>2, OtherCommandStep DEF AtHand
<1>2. CASE DeleteRow
  <2>1. ASSUME NEW r \in Repos PROVE RowIsHonest(r)' /\ fate'[r] # "in_flight"
    <3>1. fate[r] # "in_flight"
      BY <1>0, <1>2 DEF DeleteRow, CarriedByRun, AtHand
    <3>2. CASE r = cur
      BY <1>2, <3>2 DEF DeleteRow, RowIsHonest, TypeOK
    <3>3. CASE r # cur
      BY <1>0, <1>2, <3>1, <3>3 DEF DeleteRow, RowIsHonest, TypeOK
    <3> QED
      BY <3>2, <3>3
  <2> QED
    BY <1>2, <2>1, OtherCommandStep DEF DeleteRow, EndCommand, AtHand
<1>3. ASSUME NEW s \in Repos, ClearSha(s) PROVE RegistryInv'
  <2>1. ASSUME NEW r \in Repos PROVE RowIsHonest(r)' /\ fate'[r] # "in_flight"
    BY <1>0, <1>3 DEF ClearSha, RowIsHonest, CarriedByRun, AtHand, TypeOK
  <2> QED
    BY <1>3, <2>1, OtherCommandStep DEF ClearSha, AtHand
<1>4. CASE MarkError
  <2>1. ASSUME NEW r \in Repos PROVE RowIsHonest(r)' /\ CarriedByRun(r)'
    BY <1>0, <1>4 DEF MarkError, RowIsHonest, CarriedByRun, AtHand, TypeOK
  <2> QED
    BY <1>4, <2>1 DEF MarkError, RegistryInv, StepAtHand, FilesAgree, AtHand
<1>5. CASE RecordClone
  <2>1. cur \in Repos /\ fresh.sha # 0 /\ cur \notin todo
    BY <1>5 DEF RecordClone, TypeOK, StepsOnOne, RegistryInv, StepAtHand, AtHand
  <2>2. ASSUME NEW r \in Repos PROVE RowIsHonest(r)' /\ CarriedByRun(r)'
    BY <1>0, <1>5, <2>1 DEF RecordClone, RowIsHonest, CarriedByRun, AtHand, TypeOK
  <2> QED
    BY <1>5, <2>1, <2>2 DEF RecordClone, RegistryInv, StepAtHand, FilesAgree, AtHand, TypeOK
<1>6. CASE Skip
  BY <1>6, RunStep DEF Skip, StepAtHand, FilesAgree, AtHand
<1>7. CASE WalkClone
  <2>1. ASSUME NEW r \in Repos PROVE RowIsHonest(r)' /\ CarriedByRun(r)'
    BY <1>0, <1>7 DEF WalkClone, RowIsHonest, CarriedByRun, AtHand, TypeOK
  <2> QED
    BY <1>7, <2>1 DEF WalkClone, RegistryInv, StepAtHand, FilesAgree, AtHand
<1>8. CASE RecordIngest
  <2>1. cur \in Repos /\ fresh.sha # 0 /\ cur \notin todo /\ commit[cur] = fresh.sha
    BY <1>8 DEF RecordIngest, TypeOK, StepsOnOne, RegistryInv, StepAtHand, AtHand
  <2>2. ASSUME NEW r \in Repos PROVE RowIsHonest(r)' /\ CarriedByRun(r)'
    BY <1>0, <1>8, <2>1 DEF RecordIngest, RowIsHonest, CarriedByRun, AtHand, TypeOK
  <2> QED
    BY <1>8, <2>2 DEF RecordIngest, RegistryInv, StepAtHand, FilesAgree, AtHand
<1>9. CASE FinishExtract \/ DumpServices
  <2>1. pc' \in {"dump_services", "dump_artifacts"} /\ todo' = todo
        /\ UNCHANGED <<commit, ingested, status, walked, fate, batch>>
    BY <1>9 DEF FinishExtract, DumpServices
  <2>2. FilesAgree'
    BY <1>9 DEF FinishExtract, DumpServices, FilesAgree, TypeOK, Files
  <2> QED
    BY <2>1, <2>2, RunStep DEF StepAtHand, AtHand
<1>10. CASE DumpArtifacts
  <2>1. ASSUME NEW r \in Repos PROVE RowIsHonest(r)' /\ fate'[r] # "in_flight"
    BY <1>0, <1>10 DEF DumpArtifacts, RowIsHonest
  <2> QED
    BY <1>10, <2>1, OtherCommandStep DEF DumpArtifacts, EndCommand, AtHand
<1> QED
  BY <1>1, <1>2, <1>3, <1>4, <1>5, <1>6, <1>7, <1>8, <1>9, <1>10 DEF ProcessStep

(* A run that dies or raises keeps its rows and loses its records.         *)
LEMMA DyingRegistry ==
  ASSUME RegistryInv, AbortExtract \/ CrashStep
  PROVE  RegistryInv'
<1>1. /\ Drop /\ UNCHANGED <<commit, ingested, status, walked>>
      /\ pc' \in {"idle", "dump_services"}
  BY DEF AbortExtract, CrashStep, Crash, CrashInClone, CrashInRmtree, EndCommand, row
<1>2. ASSUME NEW r \in Repos PROVE RowIsHonest(r)' /\ fate'[r] # "in_flight"
  BY <1>1 DEF RegistryInv, RowIsHonest, Drop
<1> QED
  BY <1>1, <1>2, OtherCommandStep DEF AtHand

LEMMA RegistryStep == TypeOK /\ RegistryInv /\ [Next]_vars => RegistryInv'
<1> SUFFICES ASSUME TypeOK, RegistryInv, [Next]_vars PROVE RegistryInv'
  OBVIOUS
<1>1. ASSUME UNCHANGED <<row, run, out, history>> PROVE RegistryInv'
  BY <1>1 DEF RegistryInv, RowIsHonest, StepAtHand, CarriedByRun, FilesAgree, row, run, history
<1>2. ASSUME NEW r \in Repos, NEW b \in Branches, Push(r, b) PROVE RegistryInv'
  BY <1>1, <1>2 DEF Push
<1>3. CASE UNCHANGED vars
  BY <1>1, <1>3 DEF vars
<1> QED
  BY <1>2, <1>3, UserStepRegistry, StartIngestRegistry, GitRegistry, ProcessStepRegistry,
     DyingRegistry DEF Next

(* The inductive invariant of the registry.                                *)
THEOREM RegistryInvariant == Spec => []RegistryInv
  BY RegistryInit, RegistryStep, TypeCorrect, PTL DEF Spec

(* Whatever crashes and failures do, a row that no longer asks for an      *)
(* ingest holds the SHA a walk was made for.                               *)
THEOREM CrashesRetry == Spec => []CrashMidExtractRetries
<1>1. TypeOK /\ RegistryInv => CrashMidExtractRetries
  BY DEF TypeOK, RegistryInv, RowIsHonest, CrashMidExtractRetries, NeedsIngest
<1> QED
  BY <1>1, TypeCorrect, RegistryInvariant, PTL

(* The column `status` is never ahead of the SHA columns.                  *)
THEOREM StatusIsHonest == Spec => []StatusAgreesWithShas
<1>1. TypeOK /\ RegistryInv => StatusAgreesWithShas
  BY DEF TypeOK, RegistryInv, RowIsHonest, StatusAgreesWithShas, NeedsIngest
<1> QED
  BY <1>1, TypeCorrect, RegistryInvariant, PTL

(* Records in flight are in the result of a run that is under way, and are *)
(* those of the tree that was walked.                                      *)
THEOREM NothingIsLostInFlight == Spec => []InFlightIsCarried
<1>1. RegistryInv => InFlightIsCarried
  BY DEF RegistryInv, CarriedByRun, InFlightIsCarried, AtHand
<1> QED
  BY <1>1, RegistryInvariant, PTL

(* What a run publishes, it publishes in both files and as it walked it.   *)
THEOREM PublishedAsWalked == Spec => RunPublishesWhatItMarked
<1> DEFINE Published(r) == fate[r] = "in_flight" /\ fate'[r] = "published"
<1>1. ASSUME TypeOK, RegistryInv, [Next]_vars, NEW r \in Repos, Published(r), NEW f \in Files
      PROVE  out'[f][r] = walked'[r].tree
  <2>1. DumpArtifacts
    <3>1. fate'[r] # fate[r] /\ fate'[r] \notin {"none", "in_flight", "dropped"}
      BY <1>1
    <3>2. fate[r] = "in_flight"
      BY <1>1
    <3>3. ~ UNCHANGED fate
      BY <3>1
    <3>4. ~ Drop
      BY <3>1, <3>2 DEF Drop
    <3>5. ~ DeleteRow /\ ~ RecordIngest
      BY <3>1, <1>1 DEF DeleteRow, RecordIngest, TypeOK
    <3>6. ~ UserStep /\ \A filter \in {Repos} \cup {{q} : q \in Repos} : ~ StartIngest(filter)
      BY <3>3 DEF UserStep, AddRepo, StartRemove, StartClean, StartCleanAll, StartIngest, history
    <3>7. \A q \in Repos : ~ (GitSuccess(q) \/ GitFailure(q))
      BY <3>3 DEF GitSuccess, GitFailure, FirstClone, UpdateUnchanged, UpdateReset,
                  FirstCloneFails, UpdateFails, ResetFails, Visit, history
    <3>8. ~ AbortExtract /\ ~ CrashStep
      BY <3>4 DEF AbortExtract, CrashStep, Crash, CrashInClone, CrashInRmtree
    <3>9. ASSUME ProcessStep PROVE DumpArtifacts
      BY <3>3, <3>5, <3>9
         DEF ProcessStep, RemoveClone, CleanClone, CleanNext, CleanedAll, ClearSha, CleanDone,
             MarkError, RecordClone, Skip, WalkClone, FinishExtract, DumpServices, history
    <3>10. \A q \in Repos, b \in Branches : ~ Push(q, b)
      BY <3>3 DEF Push, history
    <3> QED
      BY <1>1, <3>3, <3>6, <3>7, <3>8, <3>9, <3>10 DEF Next, vars, history
  <2>2. out["services"] = batch /\ batch[r] = walked[r].tree
    BY <1>1, <2>1 DEF DumpArtifacts, RegistryInv, FilesAgree, CarriedByRun
  <2> QED
    BY <1>1, <2>1, <2>2 DEF DumpArtifacts, TypeOK, Files
<1>2. TypeOK /\ RegistryInv /\ [Next]_vars
         => [\A r \in Repos : Published(r) => \A f \in Files : out'[f][r] = walked'[r].tree]_vars
  BY <1>1
<1> QED
  BY <1>2, TypeCorrect, RegistryInvariant, PTL DEF Spec, RunPublishesWhatItMarked

(* A repository is passed over only when its row does not ask for an       *)
(* ingest.                                                                 *)
THEOREM SkipsAreSafe == Spec => SkipOnlyWhatIsIngested
<1>1. ASSUME TypeOK, RegistryInv, [Next]_vars, pc = "fresh", pc' = "loop"
      PROVE  ~NeedsIngest(cur)
  <2>1. Skip
    BY <1>1 DEF Next, Push, UserStep, AddRepo, StartRemove, StartClean, StartCleanAll, StartIngest,
         GitSuccess, GitFailure, FirstClone, UpdateUnchanged, UpdateReset, FirstCloneFails,
         UpdateFails, ResetFails, Visit, AbortExtract, CrashStep, Crash, CrashInClone,
         CrashInRmtree, EndCommand, ProcessStep, RemoveClone, DeleteRow, CleanClone, CleanNext,
         CleanedAll, ClearSha, CleanDone, MarkError, RecordClone, WalkClone, RecordIngest,
         FinishExtract, DumpServices, DumpArtifacts, vars, run
  <2> QED
    BY <1>1, <2>1 DEF Skip, IsIngested, NeedsIngest, RegistryInv, StepAtHand
<1>2. TypeOK /\ RegistryInv /\ [Next]_vars => [pc = "fresh" /\ pc' = "loop" => ~NeedsIngest(cur)]_vars
  BY <1>1
<1> QED
  BY <1>2, TypeCorrect, RegistryInvariant, PTL DEF Spec, SkipOnlyWhatIsIngested
=============================================================================
