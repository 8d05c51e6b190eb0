---------------------------- MODULE LLMPassProofs ----------------------------
(***************************************************************************)
(* The passes that ask a language model, for any inputs, files, answers,   *)
(* caps and number of passes and crashes.                                  *)
(***************************************************************************)
EXTENDS LLMPass, NaturalLemmas, TLAPS

USE DEF pass, history

(* A question has other fields than the key of a file's content.           *)
LEMMA QuestionsAreNoContents == Questions \cap Contents = {}
  <1> SUFFICES ASSUME NEW q \in Questions, NEW c \in Contents PROVE q # c
    OBVIOUS
  <1>1. "line" \in DOMAIN q
    BY DEF Questions, Question
  <1>2. DOMAIN c = {"suffix", "content"}
    BY DEF Contents, ContentKey
  <1>3. QED
    BY <1>1, <1>2

LEMMA AnswersAreWhole ==
  ASSUME NEW v, v \in ClientAnswers \/ v \in FactSets
  PROVE  v \notin {Missing, Torn}
  BY EntriesAreTold

(* The key of the call or of the file that a pass has come to.             *)
LEMMA KeyOfCall ==
  ASSUME TypeOK, pc \in {"enhance", "put"}, mode.pass = "enhance",
         at <= Len(job.calls), Pending(job, Call)
  PROVE  Key \in Questions /\ Key \in Keys /\ job \in Inputs
  <1>1. job \in Inputs /\ at \in DOMAIN job.calls
    BY JobsOK DEF TypeOK
  <1>2. Around(job, job.calls[at]) # {} /\ Key = Question(job, job.calls[at])
    BY DEF Pending, Call, Key
  <1>3. Key \in Questions
    BY <1>1, <1>2 DEF Questions
  <1>4. QED
    BY <1>1, <1>3 DEF Keys

LEMMA KeyOfFile ==
  ASSUME TypeOK, pc \in {"walk", "put"}, mode.pass = "walk", at <= Len(job)
  PROVE  /\ Key \in Contents /\ Key \in Keys /\ Key \notin Questions
         /\ job \in Walks /\ at \in DOMAIN job /\ File.tokens \in Nat
  <1>1. job \in Walks /\ at \in DOMAIN job
    BY JobsOK DEF TypeOK
  <1>2. Key = ContentKey(job[at]) /\ File = job[at]
    BY DEF Key, File
  <1>3. Key \in Contents /\ File.tokens \in Nat
    BY <1>1, <1>2, JobsOK DEF Contents
  <1>4. QED
    BY <1>1, <1>3, QuestionsAreNoContents DEF Keys

(* What waits to be stored is an answer to its key.                        *)
LEMMA KeyToStore ==
  ASSUME TypeOK, AtWork, pc = "put"
  PROVE  Key \in Keys
  <1>1. CASE mode.pass = "enhance"
    BY <1>1, KeyOfCall DEF AtWork
  <1>2. CASE mode.pass = "walk"
    BY <1>2, KeyOfFile DEF AtWork
  <1>3. QED
    BY <1>1, <1>2 DEF TypeOK, Modes

(* Where nothing was stored, paid for or lost, nothing is owed.            *)
LEMMA NothingStored ==
  ASSUME PaidIsKept, pc # "put", UNCHANGED <<disk, paid, lost>>
  PROVE  PaidIsKept'
  BY DEF PaidIsKept, Whole, Awaited

LEMMA StoreIsTyped ==
  ASSUME TypeOK, NEW k \in Keys, NEW v \in Entries(k), disk' = Store(k, v)
  PROVE  DOMAIN disk' = Keys /\ \A l \in Keys : disk'[l] \in Entries(l)
  <1>1. CASE mode.cache = "file"
    BY <1>1 DEF Store, TypeOK
  <1>2. CASE mode.cache # "file"
    BY <1>2 DEF Store, TypeOK
  <1>3. QED
    BY <1>1, <1>2

-----------------------------------------------------------------------------
LEMMA InitInv == Init => PassInv
  <1> SUFFICES ASSUME Init PROVE PassInv
    OBVIOUS
  <1>1. TypeOK
    BY DEF Init, TypeOK, NoMode, NoUse, Modes, Entries
  <1>2. AtWork
    BY DEF Init, AtWork
  <1>3. PaidIsKept
    BY DEF Init, PaidIsKept
  <1>4. QED
    BY <1>1, <1>2, <1>3 DEF PassInv

LEMMA StartKeeps ==
  ASSUME PassInv, NEW m \in Modes, NEW j,
         j \in (IF m.pass = "enhance" THEN Inputs ELSE Walks), Start(m, j)
  PROVE  PassInv'
  <1>1. /\ mode' = m /\ job' = j /\ at' = 1 /\ usage' = NoUse /\ pc' = m.pass
        /\ UNCHANGED <<disk, paid, lost>> /\ pc # "put"
    BY DEF Start, Fresh
  <1>2. m.pass \in {"enhance", "walk"}
    BY DEF Modes
  <1>3. TypeOK'
    BY <1>1, <1>2 DEF PassInv, TypeOK, NoUse, Entries
  <1>4. AtWork'
    BY <1>1, <1>2 DEF AtWork
  <1>5. PaidIsKept'
    BY <1>1, NothingStored DEF PassInv
  <1>6. QED
    BY <1>3, <1>4, <1>5 DEF PassInv

(* A step of a pass that goes on to the next call or file, or ends, and    *)
(* leaves the cache and the counters alone.                                *)
LEMMA MovesOn ==
  ASSUME PassInv, pc \in {"enhance", "walk"}, at' \in Nat \ {0},
         pc' = pc \/ pc' \in {"done", "failed"},
         UNCHANGED <<disk, mode, job, usage, paid, lost>>
  PROVE  PassInv'
  <1>1. TypeOK'
    BY DEF PassInv, TypeOK, Entries
  <1>2. AtWork'
    BY DEF PassInv, AtWork
  <1>3. PaidIsKept'
    BY NothingStored DEF PassInv
  <1>4. QED
    BY <1>1, <1>2, <1>3 DEF PassInv

(* The answer to a key that is not whole, paid for and not yet stored.     *)
LEMMA PaidFor ==
  ASSUME PassInv, pc # "put", pc' = "put", UNCHANGED <<disk, mode, job, at, lost>>,
         Key \in Keys, ~Hit(Key), Pay(Key)
  PROVE  PaidIsKept' /\ paid' \in [Keys -> Nat]
  <1>1. paid \in [Keys -> Nat] /\ lost \in [Keys -> Nat]
    BY DEF PassInv, TypeOK
  <1>2. paid' \in [Keys -> Nat]
    BY <1>1 DEF Pay
  <1>3. Key' = Key
    BY DEF Key, Call, File
  <1>4. ASSUME NEW k \in Keys PROVE /\ paid'[k] <= 1 + lost'[k]
                                    /\ ~Whole(k)' /\ ~Awaited(k)' => paid'[k] <= lost'[k]
    <2>1. paid[k] \in Nat /\ lost[k] \in Nat /\ lost' = lost
      BY <1>1
    <2>2. CASE k = Key /\ mode.cache = "file"
      <3>1. ~Whole(k) /\ ~Awaited(k)
        BY <2>2 DEF Hit, Entry, Whole, Awaited
      <3>2. paid[k] <= lost[k]
        BY <3>1 DEF PassInv, PaidIsKept
      <3>3. paid'[k] = paid[k] + 1
        BY <2>2, <1>1 DEF Pay
      <3>4. Awaited(k)'
        BY <1>3, <2>2 DEF Awaited
      <3>5. QED
        BY <2>1, <3>2, <3>3, <3>4
    <2>3. CASE ~(k = Key /\ mode.cache = "file")
      <3>1. paid'[k] = paid[k]
        BY <2>1, <2>3, <1>1 DEF Pay
      <3>2. ~Awaited(k) /\ (Whole(k)' = Whole(k))
        BY DEF Awaited, Whole
      <3>3. QED
        BY <2>1, <3>1, <3>2 DEF PassInv, PaidIsKept
    <2>4. QED
      BY <2>2, <2>3
  <1>5. QED
    BY <1>2, <1>4 DEF PaidIsKept

LEMMA AskKeeps ==
  ASSUME PassInv, NEW a \in ClientAnswers, Ask(a)
  PROVE  PassInv'
  <1>1. /\ Enhancing /\ Pending(job, Call) /\ ~Hit(Key) /\ reply' = a /\ Pay(Key) /\ pc' = "put"
        /\ UNCHANGED <<disk, mode, job, at, usage, lost>>
    BY DEF Ask
  <1>2. pc = "enhance" /\ at <= Len(job.calls) /\ mode.pass = "enhance"
    BY <1>1 DEF Enhancing, PassInv, AtWork
  <1>3. Key \in Questions /\ Key \in Keys /\ job \in Inputs
    BY <1>1, <1>2, KeyOfCall DEF PassInv
  <1>4. PaidIsKept' /\ paid' \in [Keys -> Nat]
    BY <1>1, <1>2, <1>3, PaidFor
  <1>5. Key' = Key
    BY <1>1 DEF Key, Call, File
  <1>6. reply' \in Entries(Key)' \ {Missing, Torn}
    BY <1>1, <1>3, <1>5, AnswersAreWhole DEF Entries
  <1>7. TypeOK'
    <2>1. \A k \in Keys : Entries(k)' = Entries(k)
      BY DEF Entries
    <2>2. QED
      BY <1>1, <1>2, <1>3, <1>4, <1>6, <2>1 DEF PassInv, TypeOK
  <1>8. AtWork'
    BY <1>1, <1>2 DEF AtWork, Call
  <1>9. QED
    BY <1>4, <1>7, <1>8 DEF PassInv

LEMMA ExtractKeeps ==
  ASSUME PassInv, NEW p \in ClientPayloads, Extract(p)
  PROVE  PassInv'
  <1>1. /\ Walking /\ ~Hit(Key) /\ WithinCaps(File) /\ reply' = Parse(p, File)
        /\ usage' = Record(usage, File)
        /\ Pay(Key) /\ pc' = "put" /\ UNCHANGED <<disk, mode, job, at, lost>>
    BY DEF Extract
  <1>2. pc = "walk" /\ at <= Len(job) /\ mode.pass = "walk"
    BY <1>1 DEF Walking, PassInv, AtWork
  <1>3. /\ Key \in Keys /\ Key \notin Questions
        /\ job \in Walks /\ at \in DOMAIN job /\ File.tokens \in Nat
    BY <1>2, KeyOfFile DEF PassInv
  <1>4. PaidIsKept' /\ paid' \in [Keys -> Nat]
    BY <1>1, <1>2, <1>3, PaidFor
  <1>5. Key' = Key
    BY <1>1 DEF Key, Call, File
  <1>6. reply' \in FactSets
    BY <1>1, <1>3 DEF FactSets, File
  <1>7. reply' \in Entries(Key)' \ {Missing, Torn}
    BY <1>3, <1>5, <1>6, AnswersAreWhole DEF Entries
  <1>8. usage' \in [files : Nat, tokens : Nat]
    BY <1>1, <1>3 DEF PassInv, TypeOK, Record
  <1>9. TypeOK'
    <2>1. \A k \in Keys : Entries(k)' = Entries(k)
      BY DEF Entries
    <2>2. QED
      BY <1>1, <1>2, <1>3, <1>4, <1>7, <1>8, <2>1 DEF PassInv, TypeOK
  <1>10. AtWork'
    BY <1>1, <1>2 DEF AtWork
  <1>11. QED
    BY <1>4, <1>9, <1>10 DEF PassInv

LEMMA PutKeeps ==
  ASSUME PassInv, Put
  PROVE  PassInv'
  <1>1. /\ pc = "put" /\ disk' = Store(Key, reply) /\ pc' = mode.pass /\ at' = at + 1
        /\ UNCHANGED <<mode, job, usage, paid, lost>>
    BY DEF Put, FileGives
  <1>2. Key \in Keys
    BY <1>1, KeyToStore DEF PassInv
  <1>3. reply \in Entries(Key) \ {Missing, Torn} /\ at \in Nat \ {0}
    BY <1>1 DEF PassInv, TypeOK
  <1>4. DOMAIN disk' = Keys /\ \A k \in Keys : disk'[k] \in Entries(k)
    BY <1>1, <1>2, <1>3, StoreIsTyped DEF PassInv
  <1>5. mode.pass \in {"enhance", "walk"}
    BY DEF PassInv, TypeOK, Modes
  <1>6. TypeOK'
    <2>1. \A k \in Keys : Entries(k)' = Entries(k)
      BY DEF Entries
    <2>2. QED
      BY <1>1, <1>3, <1>4, <1>5, <2>1 DEF PassInv, TypeOK
  <1>7. AtWork'
    BY <1>1, <1>5 DEF AtWork
  <1>8. ASSUME NEW k \in Keys, ~Whole(k)' PROVE ~Whole(k) /\ ~Awaited(k)
    <2>1. DOMAIN disk = Keys
      BY DEF PassInv, TypeOK
    <2>2. CASE mode.cache = "file" /\ k = Key
      BY <1>1, <1>3, <1>8, <2>1, <2>2 DEF Store, Whole
    <2>3. CASE ~(mode.cache = "file" /\ k = Key)
      BY <1>1, <1>8, <2>1, <2>3 DEF Store, Whole, Awaited
    <2>4. QED
      BY <2>2, <2>3
  <1>9. PaidIsKept'
    BY <1>1, <1>8 DEF PassInv, PaidIsKept
  <1>10. QED
    BY <1>6, <1>7, <1>9 DEF PassInv

LEMMA CrashKeeps ==
  ASSUME PassInv, Crash
  PROVE  PassInv'
  <1>1. /\ mode' = NoMode /\ at' = 1 /\ usage' = NoUse /\ pc' = "idle"
        /\ paid' = paid
    BY DEF Crash, Fresh
  <1>2. paid \in [Keys -> Nat] /\ lost \in [Keys -> Nat] /\ DOMAIN disk = Keys
    BY DEF PassInv, TypeOK
  <1>3. AtWork'
    BY <1>1 DEF AtWork
  <1>4. CASE pc # "put"
    <2>1. UNCHANGED <<disk, lost>>
      BY <1>4 DEF Crash
    <2>2. TypeOK'
      BY <1>1, <2>1 DEF PassInv, TypeOK, NoMode, NoUse, Modes, Entries
    <2>3. QED
      BY <1>1, <1>3, <1>4, <2>1, <2>2, NothingStored DEF PassInv
  <1>5. CASE pc = "put"
    <2>1. Key \in Keys
      BY <1>5, KeyToStore DEF PassInv
    <2>2. lost' = [lost EXCEPT ![Key] = @ + (IF mode.cache = "file" THEN 1 ELSE 0)]
      BY <1>5 DEF Crash
    <2>3. disk' = disk \/ disk' = Store(Key, Torn)
      BY <1>5 DEF Crash
    <2>4. Torn \in Entries(Key)
      BY DEF Entries
    <2>5. DOMAIN disk' = Keys /\ \A k \in Keys : disk'[k] \in Entries(k)
      BY <2>1, <2>3, <2>4, StoreIsTyped DEF PassInv, TypeOK
    <2>6. lost' \in [Keys -> Nat]
      <3>1. lost[Key] \in Nat
        BY <1>2, <2>1
      <3>2. lost[Key] + (IF mode.cache = "file" THEN 1 ELSE 0) \in Nat
        BY <3>1
      <3>3. QED
        BY <1>2, <2>1, <2>2, <3>2
    <2>7. TypeOK'
      <3>1. \A k \in Keys : Entries(k)' = Entries(k)
        BY DEF Entries
      <3>2. QED
        BY <1>1, <1>2, <2>5, <2>6, <3>1 DEF TypeOK, NoMode, NoUse, Modes
    <2>8. ASSUME NEW k \in Keys PROVE /\ paid'[k] <= 1 + lost'[k]
                                      /\ ~Whole(k)' => paid'[k] <= lost'[k]
      <3>1. paid[k] \in Nat /\ lost[k] \in Nat /\ paid[k] <= 1 + lost[k]
        BY <1>2 DEF PassInv, PaidIsKept
      <3>2. CASE mode.cache = "file" /\ k = Key
        <4>1. lost'[k] = lost[k] + 1
          BY <1>2, <2>2, <3>2
        <4>2. QED
          BY <1>1, <3>1, <4>1
      <3>3. CASE ~(mode.cache = "file" /\ k = Key)
        <4>1. lost'[k] = lost[k]
          BY <1>2, <2>2, <3>1, <3>3
        <4>2. disk'[k] = disk[k]
          BY <1>2, <2>3, <3>3 DEF Store
        <4>3. ~Awaited(k)
          BY <3>3 DEF Awaited
        <4>4. QED
          BY <1>1, <3>1, <4>1, <4>2, <4>3 DEF PassInv, PaidIsKept, Whole
      <3>4. QED
        BY <3>2, <3>3
    <2>9. QED
      BY <1>3, <2>7, <2>8 DEF PassInv, PaidIsKept
  <1>6. QED
    BY <1>4, <1>5

-----------------------------------------------------------------------------
LEMMA InvStep == PassInv /\ [Next]_vars => PassInv'
  <1> SUFFICES ASSUME PassInv, [Next]_vars PROVE PassInv'
    OBVIOUS
  <1>0. at \in Nat \ {0} /\ at + 1 \in Nat \ {0}
    BY DEF PassInv, TypeOK
  <1>1. ASSUME NEW m \in Modes, NEW in \in Inputs, StartEnhance(m, in) PROVE PassInv'
    BY <1>1, StartKeeps DEF StartEnhance
  <1>2. ASSUME NEW m \in Modes, NEW w \in Walks, StartWalk(m, w) PROVE PassInv'
    BY <1>2, StartKeeps DEF StartWalk
  <1>3. CASE SkipCall
    BY <1>0, <1>3, MovesOn DEF SkipCall, Enhancing
  <1>4. CASE AnswerCached
    BY <1>0, <1>4, MovesOn DEF AnswerCached, Enhancing
  <1>5. CASE AskRaises
    BY <1>0, <1>5, MovesOn DEF AskRaises, Enhancing
  <1>6. ASSUME NEW a \in ClientAnswers, Ask(a) PROVE PassInv'
    BY <1>6, AskKeeps
  <1>7. CASE BlankFile
    BY <1>0, <1>7, MovesOn DEF BlankFile, Walking, FileGives
  <1>8. CASE FactsCached
    BY <1>0, <1>8, MovesOn DEF FactsCached, Walking, FileGives
  <1>9. CASE OverBudget
    BY <1>0, <1>9, MovesOn DEF OverBudget, Walking, FileGives
  <1>10. CASE OverBudgetRaises
    BY <1>0, <1>10, MovesOn DEF OverBudgetRaises, Walking
  <1>11. ASSUME NEW p \in ClientPayloads, Extract(p) PROVE PassInv'
    BY <1>11, ExtractKeeps
  <1>12. CASE Put
    BY <1>12, PutKeeps
  <1>13. CASE Finish
    BY <1>0, <1>13, MovesOn DEF Finish
  <1>14. CASE Crash
    BY <1>14, CrashKeeps
  <1>15. CASE UNCHANGED vars
    BY <1>15 DEF vars, PassInv, TypeOK, AtWork, PaidIsKept,
                 Entries, Key, Call, File, Whole, Awaited
  <1>16. QED
    BY <1>1, <1>2, <1>3, <1>4, <1>5, <1>6, <1>7, <1>8, <1>9, <1>10, <1>11, <1>12, <1>13, <1>14, <1>15
       DEF Next

(* The inductive invariant, through every pass and every crash.            *)
THEOREM PassInvariant == Spec => []PassInv
  BY InitInv, InvStep, PTL DEF Spec

(* Every entry of the cache is missing, torn or an answer to its own kind  *)
(* of key, whichever process died while it was written.                    *)
THEOREM TypeCorrect == Spec => []TypeOK
  <1>1. PassInv => TypeOK
    BY DEF PassInv
  <1>2. QED
    BY <1>1, PassInvariant, PTL

(* enhance.py:8, "re-runs [...] are free": with the file cache an answer   *)
(* is paid for again only when the one before was lost with its process.   *)
THEOREM AnswersArePaidOnce == Spec => []PaidOnce
  <1>1. PassInv => PaidOnce
    BY DEF PassInv, PaidIsKept, PaidOnce
  <1>2. QED
    BY <1>1, PassInvariant, PTL

-----------------------------------------------------------------------------
(* What a pass leaves is what the cache says.                              *)
LEMMA FirstIsLeast ==
  ASSUME NEW js, js \subseteq Nat, js # {}
  PROVE  First(js) \in js /\ \A j \in js : First(js) <= j
  BY Least DEF First

LEMMA FirstIsUnique ==
  ASSUME NEW js, js \subseteq Nat, NEW i \in js, \A j \in js : i <= j
  PROVE  First(js) = i
  <1>1. First(js) \in Nat /\ i \in Nat /\ First(js) <= i /\ i <= First(js)
    BY FirstIsLeast
  <1>2. QED
    BY <1>1

(* The suggestions that some calls justify are the same as long as the     *)
(* entries of those calls are, ...                                         *)
LEMMA ExpectedStays ==
  ASSUME NEW js, js \subseteq Nat, UNCHANGED job,
         \A i \in js : disk'[Question(job, job.calls[i])] = disk[Question(job, job.calls[i])]
  PROVE  ExpectedOf(job, js)' = ExpectedOf(job, js)
  <1> DEFINE With(p) == {i \in js : Pair(job, i) = p}
  <1>1. \A i \in js : Pair(job, i)' = Pair(job, i)
    BY DEF Pair
  <1>2. \A p : {i \in js : Pair(job, i)' = p} = With(p)
    BY <1>1
  <1>3. {Pair(job, i)' : i \in js} = {Pair(job, i) : i \in js}
    BY <1>1
  <1>4. ASSUME NEW p \in {Pair(job, i) : i \in js} PROVE First(With(p)) \in js
    <2>1. With(p) \subseteq Nat /\ With(p) # {}
      OBVIOUS
    <2>2. QED
      BY <2>1, FirstIsLeast
  <1>5. ExpectedOf(job, js)' =
           [p \in {Pair(job, i)' : i \in js} |->
               disk'[Question(job, job.calls[First({i \in js : Pair(job, i)' = p})])].confidence]
    BY DEF ExpectedOf
  <1>6. ExpectedOf(job, js)' =
           [p \in {Pair(job, i) : i \in js} |->
               disk'[Question(job, job.calls[First(With(p))])].confidence]
    BY <1>2, <1>3, <1>5
  <1>7. ExpectedOf(job, js) =
           [p \in {Pair(job, i) : i \in js} |->
               disk[Question(job, job.calls[First(With(p))])].confidence]
    BY DEF ExpectedOf
  <1>8. QED
    BY <1>4, <1>6, <1>7

(* ... and a later call adds its own, unless its pair has one.             *)
LEMMA ExpectedGrows ==
  ASSUME NEW js, js \subseteq Nat, NEW n \in Nat, \A i \in js : i < n
  PROVE  ExpectedOf(job, js \cup {n})' =
            [p \in DOMAIN ExpectedOf(job, js)' \cup {Pair(job, n)'} |->
                IF p \in DOMAIN ExpectedOf(job, js)' THEN ExpectedOf(job, js)'[p]
                ELSE disk'[Question(job', job'.calls[n])].confidence]
  <1> DEFINE P(i) == Pair(job, i)'
             Dom == {P(i) : i \in js}
             With(p) == {i \in js : P(i) = p}
             WithToo(p) == {i \in js \cup {n} : P(i) = p}
             C(i) == disk'[Question(job', job'.calls[i])].confidence
  <1>1. /\ ExpectedOf(job, js)' = [p \in Dom |-> C(First(With(p)))]
        /\ ExpectedOf(job, js \cup {n})' =
              [p \in {P(i) : i \in js \cup {n}} |-> C(First(WithToo(p)))]
    BY DEF ExpectedOf
  <1>2. {P(i) : i \in js \cup {n}} = Dom \cup {P(n)}
    OBVIOUS
  <1>3. ASSUME NEW p \in Dom PROVE First(WithToo(p)) = First(With(p))
    <2>1. With(p) \subseteq Nat /\ With(p) # {} /\ WithToo(p) \subseteq Nat
      OBVIOUS
    <2>2. First(With(p)) \in With(p) /\ \A j \in With(p) : First(With(p)) <= j
      BY <2>1, FirstIsLeast
    <2>3. First(With(p)) \in WithToo(p) /\ \A j \in WithToo(p) : First(With(p)) <= j
      BY <2>1, <2>2
    <2>4. QED
      BY <2>1, <2>3, FirstIsUnique
  <1>4. ASSUME P(n) \notin Dom PROVE First(WithToo(P(n))) = n
    <2>1. WithToo(P(n)) = {n}
      BY <1>4
    <2>2. QED
      BY <2>1, FirstIsUnique
  <1> HIDE DEF P, With, WithToo, C, Dom
  <1>5. DOMAIN ExpectedOf(job, js)' = Dom /\ \A p \in Dom : ExpectedOf(job, js)'[p] = C(First(With(p)))
    BY <1>1
  <1>6. ExpectedOf(job, js \cup {n})' =
           [p \in Dom \cup {P(n)} |->
               IF p \in Dom THEN ExpectedOf(job, js)'[p] ELSE C(n)]
    BY <1>1, <1>2, <1>3, <1>4, <1>5
  <1>7. QED
    BY <1>5, <1>6 DEF P, C

(* A call is behind: it was bound or has no function around it, or its     *)
(* answer is on disk and has given what Suggest makes of it.               *)
LEMMA CallDone ==
  ASSUME job \in Inputs, at \in DOMAIN job.calls, UNCHANGED job, at' = at + 1, SuggestedSoFar,
         \A i \in DOMAIN job.calls :
            i < at /\ Pending(job, job.calls[i])
               => disk'[Question(job, job.calls[i])] = disk[Question(job, job.calls[i])],
         IF Pending(job, Call)
         THEN /\ disk'[Question(job, Call)] \notin {Missing, Torn}
              /\ suggested' = Suggest(job, Call, disk'[Question(job, Call)])
         ELSE suggested' = suggested
  PROVE  SuggestedSoFar'
  <1> DEFINE Q(i) == Question(job, job.calls[i])
  <1>0. PICK js, n : js = Behind(job) /\ n = at
    OBVIOUS
  <1>1. /\ DOMAIN job.calls \subseteq Nat /\ js \subseteq DOMAIN job.calls /\ n \in DOMAIN job.calls
        /\ \A i \in DOMAIN job.calls : i \in js <=> i \in Justified(job) /\ i < n
    BY <1>0, JobsOK DEF Behind, Justified
  <1>2. \A i \in js : disk'[Q(i)] = disk[Q(i)]
    BY <1>0 DEF Behind, Justified
  <1>3. ExpectedOf(job, js)' = suggested
    BY <1>0, <1>1, <1>2, ExpectedStays DEF SuggestedSoFar
  <1>4. \A i \in DOMAIN job.calls : i < at' <=> i < n \/ i = n
    BY <1>0, <1>1
  <1>5. ASSUME NEW i \in DOMAIN job.calls, i < at', Pending(job, job.calls[i])
        PROVE  Whole(Q(i))'
    <2>1. CASE i = n
      BY <1>0, <1>5, <2>1 DEF Call, Whole
    <2>2. CASE i < n
      BY <1>0, <1>5, <2>2 DEF SuggestedSoFar, Whole
    <2>3. QED
      BY <1>4, <1>5, <2>1, <2>2
  <1>6. \A i \in DOMAIN job.calls :
           i \in Justified(job)' <=>
              Pending(job, job.calls[i]) /\ Whole(Q(i))' /\ Accepted(job, disk'[Q(i)])
    BY DEF Justified
  <1>7. \A i \in DOMAIN job.calls : i < n => (i \in Justified(job)' <=> i \in Justified(job))
    BY <1>0, <1>6 DEF Justified, Whole
  <1>8. \A i : i \in Behind(job)' <=> i \in DOMAIN job.calls /\ i \in Justified(job)' /\ i < at'
    BY DEF Behind, Justified
  <1>9. n \in Nat /\ js \subseteq Nat /\ \A i \in js : i < n
    BY <1>1
  <1>10. CASE n \in Justified(job)'
    <2>1. Behind(job)' = js \cup {n}
      BY <1>1, <1>4, <1>7, <1>8, <1>10
    <2>2. Pending(job, Call) /\ Accepted(job, disk'[Question(job, Call)])
      BY <1>0, <1>1, <1>6, <1>10 DEF Call
    <2>3. Pair(job, n)' = <<Enclosing(job, Call).id, disk'[Question(job, Call)].target>>
      BY <1>0 DEF Pair, Call
    <2>4. suggested' =
             [p \in DOMAIN suggested \cup {Pair(job, n)'} |->
                 IF p \in DOMAIN suggested THEN suggested[p]
                 ELSE disk'[Question(job, Call)].confidence]
      BY <2>2, <2>3 DEF Suggest
    <2>5. ExpectedOf(job, js \cup {n})' = suggested'
      <3>1. ExpectedOf(job, js \cup {n})' =
               [p \in DOMAIN ExpectedOf(job, js)' \cup {Pair(job, n)'} |->
                   IF p \in DOMAIN ExpectedOf(job, js)' THEN ExpectedOf(job, js)'[p]
                   ELSE disk'[Question(job', job'.calls[n])].confidence]
        BY <1>9, ExpectedGrows
      <3>2. QED
        BY <1>0, <1>3, <2>4, <3>1 DEF Call
    <2>6. suggested' = ExpectedOf(job, Behind(job))'
      BY <2>1, <2>5 DEF ExpectedOf
    <2>7. QED
      BY <1>5, <2>6 DEF SuggestedSoFar
  <1>11. CASE n \notin Justified(job)'
    <2>1. Behind(job)' = js
      BY <1>1, <1>4, <1>7, <1>8, <1>11
    <2>2. suggested' = suggested
      <3>1. CASE Pending(job, Call)
        <4>1. ~Accepted(job, disk'[Question(job, Call)])
          BY <1>0, <1>1, <1>6, <1>11, <3>1 DEF Call, Whole
        <4>2. QED
          BY <3>1, <4>1 DEF Suggest
      <3>2. QED
        BY <3>1
    <2>3. suggested' = ExpectedOf(job, Behind(job))'
      BY <1>3, <2>1, <2>2 DEF ExpectedOf
    <2>4. QED
      BY <1>5, <2>3 DEF SuggestedSoFar
  <1>12. QED
    BY <1>10, <1>11

(* A file is behind: it has the facts of its entry, or it was blank or     *)
(* given up and has none.                                                  *)
LEMMA FileDone ==
  ASSUME job \in Walks, at \in DOMAIN job, at \in Nat, UNCHANGED <<job, usage>>, at' = at + 1,
         FactsSoFar, pc' = "walk",
         NEW found, found \in FactSets \cup {{}}, facts' = Append(facts, found),
         \A i \in DOMAIN job :
            i < at /\ ~job[i].blank => disk'[ContentKey(job[i])] = disk[ContentKey(job[i])],
         found = IF ~File.blank /\ disk'[ContentKey(File)] \notin {Missing, Torn}
                 THEN disk'[ContentKey(File)] ELSE {},
         ~File.blank /\ disk'[ContentKey(File)] \in {Missing, Torn} => ~WithinCaps(File)
  PROVE  FactsSoFar'
  <1>1. /\ facts' \in Seq(FactSets \cup {{}}) /\ Len(facts') = at
        /\ facts'[at] = found /\ \A i \in 1 .. (at - 1) : facts'[i] = facts[i]
    BY DEF FactsSoFar
  <1>2. DOMAIN job \subseteq Nat \ {0}
    BY JobsOK
  <1>3. ASSUME NEW i \in DOMAIN job, i < at'
        PROVE  facts'[i] = Given(job[i])' /\ (GivenUp(job[i])' => ~WithinCaps(job[i])')
    <2>1. CASE i = at
      BY <1>1, <2>1 DEF File, Given, GivenUp, Whole, WithinCaps
    <2>2. CASE i # at
      <3>1. i < at /\ i \in 1 .. (at - 1)
        BY <1>2, <1>3, <2>2
      <3>2. facts'[i] = facts[i] /\ facts[i] = Given(job[i])
            /\ (GivenUp(job[i]) => ~WithinCaps(job[i]))
        BY <1>1, <3>1 DEF FactsSoFar
      <3>3. Given(job[i])' = Given(job[i]) /\ (GivenUp(job[i])' <=> GivenUp(job[i]))
        BY <3>1 DEF Given, GivenUp, Whole
      <3>4. QED
        BY <3>2, <3>3 DEF WithinCaps
    <2>3. QED
      BY <2>1, <2>2
  <1>4. Len(facts') = at' - 1
    BY <1>1
  <1>5. QED
    BY <1>1, <1>3, <1>4 DEF FactsSoFar

LEMMA SameSuggestions ==
  ASSUME job \in Inputs, SuggestedSoFar, UNCHANGED <<disk, job, at, suggested>>
  PROVE  SuggestedSoFar'
  <1>1. PICK js : js = Behind(job)
    OBVIOUS
  <1>2. js \subseteq Nat
    BY <1>1, JobsOK DEF Behind, Justified
  <1>3. Behind(job)' = js
    BY <1>1 DEF Behind, Justified, Whole
  <1>4. ExpectedOf(job, js)' = suggested
    BY <1>1, <1>2, ExpectedStays DEF SuggestedSoFar
  <1>5. suggested' = ExpectedOf(job, Behind(job))'
    BY <1>3, <1>4 DEF ExpectedOf
  <1>6. QED
    BY <1>5 DEF SuggestedSoFar, Whole

-----------------------------------------------------------------------------
LEMMA CacheStart ==
  ASSUME NEW m \in Modes, NEW j, j \in (IF m.pass = "enhance" THEN Inputs ELSE Walks), Start(m, j)
  PROVE  CacheInv'
  <1>1. /\ mode' = m /\ job' = j /\ at' = 1 /\ pc' = m.pass
        /\ suggested' = [p \in {} |-> 0] /\ facts' = <<>>
    BY DEF Start, Fresh
  <1>2. CASE m.pass = "enhance"
    <2>1. \A i \in DOMAIN j.calls : ~ (i < 1)
      BY <1>2, JobsOK
    <2>2. Behind(job)' = {}
      BY <1>1, <2>1 DEF Behind, Justified
    <2>3. SuggestedSoFar'
      BY <1>1, <2>1, <2>2 DEF SuggestedSoFar, ExpectedOf
    <2>4. QED
      BY <1>1, <1>2, <2>3 DEF CacheInv
  <1>3. CASE m.pass = "walk"
    <2>1. \A i \in DOMAIN j : ~ (i < 1)
      BY <1>3, JobsOK
    <2>2. FactsSoFar'
      BY <1>1, <2>1 DEF FactsSoFar
    <2>3. QED
      BY <1>1, <1>3, <2>2 DEF CacheInv
  <1>4. QED
    BY <1>2, <1>3 DEF Modes

(* The next call of an enhance pass.                                       *)
LEMMA CacheCall ==
  ASSUME PassInv, CacheInv, SkipCall \/ AnswerCached \/ AskRaises
  PROVE  CacheInv'
  <1>1. /\ pc = "enhance" /\ at <= Len(job.calls) /\ mode.pass = "enhance"
        /\ UNCHANGED <<disk, mode, job, pc>> /\ at' = at + 1
    BY DEF SkipCall, AnswerCached, AskRaises, Enhancing, PassInv, AtWork
  <1>2. job \in Inputs /\ at \in DOMAIN job.calls
    BY <1>1, JobsOK DEF PassInv, TypeOK
  <1>3. ASSUME mode.cache = "file", ~raised' PROVE SuggestedSoFar'
    <2>1. ~AskRaises /\ ~raised
      BY <1>3 DEF AskRaises, SkipCall, AnswerCached
    <2>2. SuggestedSoFar
      BY <1>1, <1>3, <2>1 DEF CacheInv
    <2>3. IF Pending(job, Call)
          THEN /\ disk'[Question(job, Call)] \notin {Missing, Torn}
               /\ suggested' = Suggest(job, Call, disk'[Question(job, Call)])
          ELSE suggested' = suggested
      BY <1>1, <1>3, <2>1 DEF SkipCall, AnswerCached, Hit, Entry, Key
    <2>4. QED
      BY <1>1, <1>2, <2>2, <2>3, CallDone
  <1>4. QED
    BY <1>1, <1>3 DEF CacheInv

(* A question, or a file, goes to the provider.                            *)
LEMMA CacheAsk ==
  ASSUME PassInv, CacheInv, NEW a, Ask(a)
  PROVE  CacheInv'
  <1>1. /\ pc = "enhance" /\ mode.pass = "enhance" /\ pc' = "put" /\ ~Hit(Key)
        /\ UNCHANGED <<disk, mode, job, at, raised, suggested>>
    BY DEF Ask, Enhancing, PassInv, AtWork
  <1>2. Key' = Key
    BY <1>1 DEF Key, Call, File
  <1>3. mode.cache = "file" => ~Whole(Key)'
    BY <1>1, <1>2 DEF Hit, Entry, Whole
  <1>4. SuggestedSoFar => SuggestedSoFar'
    BY <1>1, SameSuggestions DEF PassInv, TypeOK
  <1>5. QED
    BY <1>1, <1>3, <1>4 DEF CacheInv

LEMMA CacheExtract ==
  ASSUME PassInv, CacheInv, NEW p \in ClientPayloads, Extract(p)
  PROVE  CacheInv'
  <1>1. /\ pc = "walk" /\ mode.pass = "walk" /\ pc' = "put" /\ ~Hit(Key) /\ at <= Len(job)
        /\ ~File.blank /\ WithinCaps(File) /\ usage' = Record(usage, File)
        /\ UNCHANGED <<disk, mode, job, at, facts>>
    BY DEF Extract, Walking, PassInv, AtWork
  <1>2. Key' = Key /\ Key = ContentKey(File) /\ File = job[at]
    BY <1>1 DEF Key, Call, File
  <1>3. mode.cache = "file" => ~Whole(Key) /\ ~Whole(Key)'
    BY <1>1, <1>2 DEF Hit, Entry, Whole
  <1>4. job \in Walks /\ at \in DOMAIN job /\ \A i \in DOMAIN job : job[i].tokens \in Nat
    BY <1>1, JobsOK DEF PassInv, TypeOK
  <1>5. usage.files \in Nat /\ usage.tokens \in Nat /\ MaxFiles \in Nat /\ MaxTokens \in Nat
    BY ConfigOK DEF PassInv, TypeOK
  <1>6. usage'.files = usage.files + 1 /\ usage'.tokens = usage.tokens + File.tokens
    BY <1>1 DEF Record
  <1>7. ASSUME mode.cache = "file" PROVE FactsSoFar'
    <2>1. FactsSoFar
      BY <1>1, <1>7 DEF CacheInv
    <2>2. ASSUME NEW i \in DOMAIN job, i < at, ~WithinCaps(job[i]) PROVE ~WithinCaps(job[i])'
      BY <1>1, <1>2, <1>4, <1>5, <1>6, <2>2 DEF WithinCaps
    <2>3. ASSUME NEW i \in DOMAIN job, i < at PROVE ContentKey(job[i]) # Key
      <3>1. SUFFICES ASSUME ContentKey(job[i]) = Key PROVE FALSE
        OBVIOUS
      <3>2. job[i].content = File.content
        BY <1>2, <3>1 DEF ContentKey
      <3>3. job[i].tokens = File.tokens /\ job[i].blank = File.blank
        BY <1>2, <1>4, <3>2, SizeIsOfContent
      <3>4. GivenUp(job[i])
        BY <1>1, <1>3, <1>7, <3>1, <3>3 DEF GivenUp
      <3>5. ~WithinCaps(job[i])
        BY <2>1, <2>3, <3>4 DEF FactsSoFar
      <3>6. QED
        BY <1>1, <3>3, <3>5 DEF WithinCaps
    <2>4. ASSUME NEW i \in DOMAIN job
          PROVE  Given(job[i])' = Given(job[i]) /\ (GivenUp(job[i])' <=> GivenUp(job[i]))
      BY <1>1 DEF Given, GivenUp, Whole
    <2>5. QED
      BY <1>1, <1>2, <2>1, <2>2, <2>3, <2>4 DEF FactsSoFar
  <1>8. QED
    BY <1>1, <1>3, <1>7 DEF CacheInv, File

(* A file that is not asked for.                                           *)
LEMMA CacheFile ==
  ASSUME PassInv, CacheInv, BlankFile \/ FactsCached \/ OverBudget
  PROVE  CacheInv'
  <1>1. /\ pc = "walk" /\ mode.pass = "walk" /\ pc' = "walk" /\ at <= Len(job)
        /\ UNCHANGED <<disk, mode, job, usage>> /\ at' = at + 1
    BY DEF BlankFile, FactsCached, OverBudget, FileGives, Walking, PassInv, AtWork
  <1>2. /\ job \in Walks /\ at \in DOMAIN job /\ at \in Nat
        /\ Key \in Keys /\ Key \notin Questions /\ Key = ContentKey(File)
    BY <1>1, KeyOfFile DEF PassInv, TypeOK, Key
  <1>3. ASSUME mode.cache = "file" PROVE FactsSoFar'
    <2>1. FactsSoFar
      BY <1>1, <1>3 DEF CacheInv
    <2>2. Hit(Key) <=> disk[ContentKey(File)] \notin {Missing, Torn}
      BY <1>2, <1>3 DEF Hit, Entry
    <2>3. Hit(Key) => Entry(Key) = disk[ContentKey(File)] /\ Entry(Key) \in FactSets
      BY <1>2, <1>3 DEF Hit, Entry, Entries, PassInv, TypeOK
    <2>4. CASE BlankFile
      <3>1. File.blank /\ facts' = Append(facts, {})
        BY <2>4 DEF BlankFile, FileGives
      <3>2. QED
        BY <1>1, <1>2, <2>1, <3>1, FileDone
    <2>5. CASE FactsCached
      <3>1. ~File.blank /\ Hit(Key) /\ facts' = Append(facts, Entry(Key))
        BY <2>5 DEF FactsCached, FileGives
      <3>2. QED
        BY <1>1, <1>2, <2>1, <2>2, <2>3, <3>1, FileDone
    <2>6. CASE OverBudget
      <3>1. ~File.blank /\ ~Hit(Key) /\ ~WithinCaps(File) /\ facts' = Append(facts, {})
        BY <2>6 DEF OverBudget, FileGives
      <3>2. QED
        BY <1>1, <1>2, <2>1, <2>2, <3>1, FileDone
    <2>7. QED
      BY <2>4, <2>5, <2>6
  <1>4. QED
    BY <1>1, <1>3 DEF CacheInv

(* The answer is stored, and used.                                         *)
LEMMA CachePut ==
  ASSUME PassInv, CacheInv, Put
  PROVE  CacheInv'
  <1>1. /\ pc = "put" /\ pc' = mode.pass /\ at' = at + 1 /\ disk' = Store(Key, reply)
        /\ UNCHANGED <<mode, job, usage, raised>>
    BY DEF Put, FileGives
  <1>2. /\ Key \in Keys /\ DOMAIN disk = Keys /\ reply \in Entries(Key) \ {Missing, Torn}
        /\ mode.pass \in {"enhance", "walk"} /\ at \in Nat \ {0}
    BY <1>1, KeyToStore DEF PassInv, TypeOK, Modes
  <1>3. ASSUME mode.cache = "file"
        PROVE  disk'[Key] = reply /\ ~Whole(Key) /\ \A k : k # Key => disk'[k] = disk[k]
    BY <1>1, <1>2, <1>3 DEF Store, CacheInv
  <1>4. CASE mode.pass = "enhance"
    <2>1. /\ job \in Inputs /\ at \in DOMAIN job.calls /\ Pending(job, Call)
          /\ suggested' = Suggest(job, Call, reply) /\ Key = Question(job, Call)
      BY <1>1, <1>2, <1>4, JobsOK DEF Put, PassInv, TypeOK, AtWork, Key
    <2>2. ASSUME mode.cache = "file", ~raised' PROVE SuggestedSoFar'
      <3>1. SuggestedSoFar
        BY <1>1, <1>4, <2>2 DEF CacheInv
      <3>2. \A i \in DOMAIN job.calls :
               i < at /\ Pending(job, job.calls[i])
                  => disk'[Question(job, job.calls[i])] = disk[Question(job, job.calls[i])]
        BY <1>3, <2>2, <3>1 DEF SuggestedSoFar
      <3>3. disk'[Question(job, Call)] = reply /\ reply \notin {Missing, Torn}
        BY <1>2, <1>3, <2>1, <2>2
      <3>4. QED
        BY <1>1, <2>1, <3>1, <3>2, <3>3, CallDone
    <2>3. QED
      BY <1>1, <1>4, <2>2 DEF CacheInv
  <1>5. CASE mode.pass = "walk"
    <2>1. /\ job \in Walks /\ at \in DOMAIN job /\ facts' = Append(facts, reply)
          /\ Key \notin Questions /\ Key = ContentKey(File)
      BY <1>1, <1>5, KeyOfFile DEF Put, FileGives, PassInv, AtWork, Key
    <2>2. ASSUME mode.cache = "file" PROVE FactsSoFar'
      <3>1. FactsSoFar
        BY <1>1, <1>5, <2>2 DEF CacheInv
      <3>2. \A i \in DOMAIN job : i < at => disk'[ContentKey(job[i])] = disk[ContentKey(job[i])]
        BY <1>1, <1>3, <2>2, <3>1 DEF FactsSoFar
      <3>3. reply \in FactSets /\ disk'[ContentKey(File)] = reply /\ reply \notin {Missing, Torn}
        BY <1>2, <1>3, <2>1, <2>2 DEF Entries
      <3>4. ~File.blank
        BY <1>1, <1>5, <2>2 DEF CacheInv
      <3>5. QED
        BY <1>1, <1>2, <1>5, <2>1, <3>1, <3>2, <3>3, <3>4, FileDone
    <2>3. QED
      BY <1>1, <1>5, <2>2 DEF CacheInv
  <1>6. QED
    BY <1>2, <1>4, <1>5

LEMMA CacheEnds ==
  ASSUME PassInv, CacheInv, Finish \/ OverBudgetRaises \/ Crash \/ UNCHANGED vars
  PROVE  CacheInv'
  <1>1. CASE Finish
    <2>1. /\ pc \in {"enhance", "walk"} /\ mode.pass = pc /\ pc' = "done"
          /\ at > Len(IF mode.pass = "enhance" THEN job.calls ELSE job)
          /\ UNCHANGED <<disk, mode, job, at, suggested, facts, usage, raised>>
      BY <1>1 DEF Finish, PassInv, AtWork
    <2>2. mode.pass = "enhance" /\ SuggestedSoFar => SuggestedSoFar'
      BY <2>1, SameSuggestions DEF PassInv, TypeOK
    <2>3. FactsSoFar => FactsSoFar'
      BY <2>1 DEF FactsSoFar, Given, GivenUp, Whole, WithinCaps
    <2>4. QED
      BY <2>1, <2>2, <2>3 DEF CacheInv
  <1>2. CASE OverBudgetRaises
    <2>1. pc' = "failed"
      BY <1>2 DEF OverBudgetRaises
    <2>2. QED
      BY <2>1 DEF CacheInv
  <1>3. CASE Crash
    <2>1. mode'.cache = "null"
      BY <1>3 DEF Crash, Fresh, NoMode
    <2>2. QED
      BY <2>1 DEF CacheInv
  <1>4. CASE UNCHANGED vars
    <2>1. UNCHANGED <<disk, mode, job, at, suggested, facts, usage, raised, pc>>
      BY <1>4 DEF vars
    <2>2. FactsSoFar => FactsSoFar'
      BY <2>1 DEF FactsSoFar, Given, GivenUp, Whole, WithinCaps, Key, Call, File
    <2>3. /\ mode.pass = "enhance" /\ pc \in {"enhance", "put", "done"} /\ SuggestedSoFar
                => SuggestedSoFar'
      BY <2>1, SameSuggestions DEF PassInv, TypeOK
    <2>4. QED
      BY <2>1, <2>2, <2>3 DEF CacheInv, Whole, Key, Call, File
  <1>5. QED
    BY <1>1, <1>2, <1>3, <1>4

(* All along a pass, what it gave for the calls and files behind it is     *)
(* what the cache says of them.                                            *)
THEOREM CacheInvariant == Spec => []CacheInv
  <1>1. Init => CacheInv
    BY DEF Init, CacheInv, NoMode
  <1>2. PassInv /\ CacheInv /\ [Next]_vars => CacheInv'
    BY CacheStart, CacheCall, CacheAsk, CacheExtract, CacheFile, CachePut, CacheEnds
       DEF Next, StartEnhance, StartWalk
  <1>3. QED
    BY <1>1, <1>2, PassInvariant, PTL DEF Spec

(* A pass that ends has given what the cache on disk says, whoever wrote   *)
(* the entries and however many processes died on the way: a second pass   *)
(* over the same input finds nothing different.                            *)
THEOREM PassesAgreeWithTheCache == Spec => []ResultIsTheCache
  <1>1. ASSUME PassInv, CacheInv, pc = "done", mode.cache = "file" PROVE ResultIsTheCache
    <2>1. at > Len(IF mode.pass = "enhance" THEN job.calls ELSE job) /\ at \in Nat
      BY <1>1 DEF CacheInv, PassInv, TypeOK
    <2>2. job \in (IF mode.pass = "enhance" THEN Inputs ELSE Walks) /\ mode.pass \in {"enhance", "walk"}
      BY <1>1 DEF PassInv, TypeOK, Modes
    <2>3. CASE mode.pass = "enhance"
      <3>1. \A i \in DOMAIN job.calls : i < at
        BY <2>1, <2>2, <2>3, JobsOK
      <3>2. Behind(job) = Justified(job)
        BY <3>1 DEF Behind, Justified
      <3>3. QED
        BY <1>1, <2>3, <3>2 DEF CacheInv, SuggestedSoFar, ResultIsTheCache, Expected
    <2>4. CASE mode.pass = "walk"
      <3>1. \A i \in DOMAIN job : i < at
        BY <2>1, <2>2, <2>4, JobsOK
      <3>2. QED
        BY <1>1, <2>4, <3>1 DEF CacheInv, FactsSoFar, ResultIsTheCache
    <2>5. QED
      BY <2>2, <2>3, <2>4
  <1>2. PassInv /\ CacheInv => ResultIsTheCache
    BY <1>1 DEF ResultIsTheCache
  <1>3. QED
    BY <1>2, PassInvariant, CacheInvariant, PTL
=============================================================================
