------------------------- MODULE MergeAttemptsProofs -------------------------
(***************************************************************************)
(* Theorems about the rows of the merge runs of one pull request, for any  *)
(* commits, any number of runs and any number of lost, repeated and        *)
(* reordered webhooks.                                                     *)
(***************************************************************************)
EXTENDS MergeAttempts, TLAPS

Row == [state : AttemptStates, success : BOOLEAN]

\* The type invariant in three parts.
GithubTypes ==
  /\ head \in Shas /\ prState \in {"open", "merged", "closed"} /\ armed \in BOOLEAN
  /\ hooks \in [Kinds -> Nat]
  /\ noise \in 0..MaxNoise
RunTypes ==
  /\ step \in [Runs -> Steps] /\ sha \in [Runs -> Shas] /\ result \in [Runs -> Results]
  /\ mergedBy \subseteq Runs \X Shas
RowTypes ==
  /\ attempts \in Seq(Row)
  /\ handling \subseteq [kind : Kinds, id : 1..Len(attempts)]

\* Whoever has heard of the merge is right: the webhooks, their handlers, the
\* runs that merged, and the rows.
NewsIsTrue ==
  /\ hooks["merged"] > 0 => prState = "merged"
  /\ \A h \in handling : h.kind # "closed" /\ (h.kind = "merged" => prState = "merged")
ResultsAreTrue ==
  \A r \in Runs :
    /\ result[r] = "merged" => prState = "merged"
    /\ step[r] = "log" => result[r] # "none"
FailuresAreLegacy ==
  \A i \in DOMAIN attempts : attempts[i].state = LEGACY => ~attempts[i].success

\* A run that merged or armed does not begin again.
ScoredRuns == \A m \in mergedBy : m[2] = sha[m[1]] /\ step[m[1]] # "idle"

AttemptsInv ==
  /\ GithubTypes /\ RunTypes /\ RowTypes
  /\ NewsIsTrue /\ ResultsAreTrue /\ FailuresAreLegacy
  /\ CountedMergesHappened
  /\ ScoredRuns

\* It holds at first.
LEMMA AttemptsInvInit == MergeAttemptsInit => AttemptsInv
<1> SUFFICES ASSUME MergeAttemptsInit PROVE AttemptsInv
  OBVIOUS
<1> USE ShasAssumption, MaxNoiseAssumption DEF MergeAttemptsInit
<1>1. GithubTypes
  <2>1. hooks \in [Kinds -> Nat] /\ noise \in 0..MaxNoise
    OBVIOUS
  <2>2. head \in Shas /\ prState \in {"open", "merged", "closed"} /\ armed \in BOOLEAN
    OBVIOUS
  <2> QED BY <2>1, <2>2 DEF GithubTypes
<1>2. RunTypes
  <2>1. head \in Shas BY <1>1 DEF GithubTypes
  <2> QED BY <2>1 DEF RunTypes, Steps, Results
<1>3. RowTypes BY DEF RowTypes
<1>4. NewsIsTrue BY DEF NewsIsTrue, Kinds
<1>5. ResultsAreTrue BY DEF ResultsAreTrue
<1>6. FailuresAreLegacy /\ CountedMergesHappened
  BY DEF FailuresAreLegacy, CountedMergesHappened
<1>7. ScoredRuns BY DEF ScoredRuns
<1> QED BY <1>1, <1>2, <1>3, <1>4, <1>5, <1>6, <1>7 DEF AttemptsInv

\* A webhook more leaves the counts what they are.
LEMMA EmitCounts ==
  ASSUME hooks \in [Kinds -> Nat], NEW k \in Kinds, Emit(k)
  PROVE  /\ hooks' \in [Kinds -> Nat]
         /\ k # "merged" => hooks'["merged"] = hooks["merged"]
BY DEF Emit, Kinds

\* GitHub's side and the deliveries leave the runs and the rows alone.
LEMMA GithubStep ==
  ASSUME AttemptsInv, UNCHANGED <<mergeRuns, attempts, handling, mergedBy>>, GithubTypes',
         prState = "merged" => prState' = "merged",
         hooks'["merged"] > 0 => prState' = "merged"
  PROVE  AttemptsInv'
BY DEF AttemptsInv, RunTypes, RowTypes, NewsIsTrue, ResultsAreTrue, FailuresAreLegacy,
       CountedMergesHappened, ScoredRuns, mergeRuns

\* A merge run leaves the rows alone until it logs its outcome.
LEMMA RunStepKeeps ==
  ASSUME AttemptsInv, NEW r \in Runs, GithubTypes', RunTypes', UNCHANGED <<attempts, handling>>,
         prState = "merged" => prState' = "merged",
         hooks'["merged"] > 0 => prState' = "merged",
         ResultsAreTrue', ScoredRuns'
  PROVE  AttemptsInv'
BY DEF AttemptsInv, RowTypes, NewsIsTrue, FailuresAreLegacy, CountedMergesHappened

\* Every step of GitHub or of the network keeps it.
LEMMA GithubKeeps ==
  ASSUME AttemptsInv,
         PushCommit \/ MergedOutside \/ ClosedUnmerged \/ Disarmed \/ LoseHook \/ RepeatHook
  PROVE  AttemptsInv'
<1> USE DEF github
<1>0. GithubTypes /\ NewsIsTrue
  BY DEF AttemptsInv
<1>1. CASE PushCommit
  <2>1. head' \in Shas /\ prState' = prState /\ armed' \in BOOLEAN /\ noise' = noise
    BY <1>0, <1>1 DEF PushCommit, GithubTypes
  <2>2. hooks' = hooks \/ Emit("disabled")
    BY <1>1 DEF PushCommit
  <2>3. hooks' \in [Kinds -> Nat] /\ hooks'["merged"] = hooks["merged"]
    BY <1>0, <2>2, EmitCounts DEF GithubTypes, Kinds
  <2> QED BY <1>0, <1>1, <2>1, <2>3, GithubStep DEF PushCommit, GithubTypes, NewsIsTrue
<1>2. CASE MergedOutside
  <2>1. hooks' \in [Kinds -> Nat]
    BY <1>0, <1>2, EmitCounts DEF MergedOutside, GithubTypes, Kinds
  <2> QED BY <1>0, <1>2, <2>1, GithubStep DEF MergedOutside, GithubTypes
<1>3. CASE ClosedUnmerged
  <2>1. hooks' \in [Kinds -> Nat] /\ hooks'["merged"] = hooks["merged"]
    BY <1>0, <1>3, EmitCounts DEF ClosedUnmerged, GithubTypes, Kinds
  <2> QED BY <1>0, <1>3, <2>1, GithubStep DEF ClosedUnmerged, GithubTypes, NewsIsTrue
<1>4. CASE Disarmed
  <2>1. hooks' \in [Kinds -> Nat] /\ hooks'["merged"] = hooks["merged"]
    BY <1>0, <1>4, EmitCounts DEF Disarmed, GithubTypes, Kinds
  <2> QED BY <1>0, <1>4, <2>1, GithubStep DEF Disarmed, GithubTypes, NewsIsTrue
<1>5. CASE LoseHook
  <2>0. noise' \in 0..MaxNoise
    BY <1>0, <1>5, MaxNoiseAssumption DEF LoseHook, Noise, GithubTypes
  <2>1. PICK k \in Kinds : hooks[k] > 0 /\ hooks' = [hooks EXCEPT ![k] = @ - 1]
    BY <1>5 DEF LoseHook
  <2>2. hooks' \in [Kinds -> Nat]
    BY <1>0, <2>1 DEF GithubTypes
  <2>3. hooks'["merged"] > 0 => hooks["merged"] > 0
    BY <1>0, <2>1 DEF GithubTypes, Kinds
  <2> QED BY <1>0, <1>5, <2>0, <2>2, <2>3, GithubStep DEF LoseHook, GithubTypes, NewsIsTrue
<1>6. CASE RepeatHook
  <2>0. noise' \in 0..MaxNoise
    BY <1>0, <1>6, MaxNoiseAssumption DEF RepeatHook, Noise, GithubTypes
  <2>1. PICK k \in Kinds : hooks[k] > 0 /\ hooks' = [hooks EXCEPT ![k] = @ + 1]
    BY <1>6 DEF RepeatHook, Emit
  <2>2. hooks' \in [Kinds -> Nat]
    BY <1>0, <2>1 DEF GithubTypes
  <2>3. hooks'["merged"] > 0 => hooks["merged"] > 0
    BY <1>0, <2>1 DEF GithubTypes, Kinds
  <2> QED BY <1>0, <1>6, <2>0, <2>2, <2>3, GithubStep DEF RepeatHook, GithubTypes, NewsIsTrue
<1> QED BY <1>1, <1>2, <1>3, <1>4, <1>5, <1>6

\* A run that begins, looks, arms or merges keeps it.
LEMMA MergeKeeps ==
  ASSUME AttemptsInv, NEW r \in Runs,
         BeginMerge(r) \/ LookAtHead(r) \/ Enable(r) \/ RestMerge(r)
  PROVE  AttemptsInv'
<1> USE DEF github, Step, Outcome
<1>0. GithubTypes /\ RunTypes /\ NewsIsTrue /\ ResultsAreTrue /\ ScoredRuns
  BY DEF AttemptsInv
<1>1. CASE BeginMerge(r)
  <2>1. GithubTypes' /\ RunTypes'
    BY <1>0, <1>1 DEF BeginMerge, GithubTypes, RunTypes, Steps
  <2>2. ResultsAreTrue'
    BY <1>0, <1>1 DEF BeginMerge, RunTypes, ResultsAreTrue
  <2>3. ScoredRuns'
    <3> SUFFICES ASSUME NEW m \in mergedBy PROVE m[2] = sha'[m[1]] /\ step'[m[1]] # "idle"
      BY <1>1 DEF BeginMerge, ScoredRuns
    <3>1. m[2] = sha[m[1]] /\ step[m[1]] # "idle" /\ m[1] # r
      BY <1>0, <1>1 DEF ScoredRuns, BeginMerge
    <3> QED BY <1>0, <1>1, <3>1 DEF BeginMerge, RunTypes
  <2> QED BY <1>0, <1>1, <2>1, <2>2, <2>3, RunStepKeeps DEF BeginMerge, NewsIsTrue
<1>2. CASE LookAtHead(r)
  <2>1. PICK s \in {"over", "enable"} : step' = [step EXCEPT ![r] = s]
    BY <1>2 DEF LookAtHead
  <2>2. GithubTypes' /\ RunTypes'
    BY <1>0, <1>2, <2>1 DEF LookAtHead, GithubTypes, RunTypes, Steps
  <2>3. ResultsAreTrue' /\ ScoredRuns'
    BY <1>0, <1>2, <2>1 DEF LookAtHead, RunTypes, ResultsAreTrue, ScoredRuns
  <2> QED BY <1>0, <1>2, <2>2, <2>3, RunStepKeeps DEF LookAtHead, NewsIsTrue
<1>3. CASE Enable(r)
  <2>1. \/ Step(r, "log") /\ (Outcome(r, "enabled") \/ Outcome(r, "failed"))
        \/ Step(r, "rest") /\ result' = result
    BY <1>3 DEF Enable
  <2>2. PICK s \in {"log", "rest"}, o \in {"enabled", "failed", result[r]} :
          /\ step' = [step EXCEPT ![r] = s]
          /\ result' = [result EXCEPT ![r] = o]
          /\ s = "log" => o \in {"enabled", "failed"}
    <3>1. result = [result EXCEPT ![r] = result[r]]
      BY <1>0 DEF RunTypes
    <3> QED BY <2>1, <3>1
  <2>3. mergedBy' = mergedBy \/ (head = sha[r] /\ mergedBy' = mergedBy \cup {<<r, head>>})
    BY <1>3 DEF Enable
  <2>4. noise' \in 0..MaxNoise /\ armed' \in BOOLEAN
    <3>1. noise' = noise \/ (noise < MaxNoise /\ noise' = noise + 1)
      BY <1>3 DEF Enable, Noise
    <3>2. armed' = armed \/ armed' = TRUE
      BY <1>3 DEF Enable
    <3>3. noise' \in 0..MaxNoise
      BY <1>0, <3>1, MaxNoiseAssumption DEF GithubTypes
    <3>4. armed' \in BOOLEAN
      BY <1>0, <3>2 DEF GithubTypes
    <3> QED BY <3>3, <3>4
  <2>5. GithubTypes'
    BY <1>0, <1>3, <2>4 DEF Enable, GithubTypes
  <2>6. RunTypes'
    BY <1>0, <1>3, <2>2, <2>3 DEF Enable, GithubTypes, RunTypes, Steps, Results
  <2>7. ResultsAreTrue'
    BY <1>0, <1>3, <2>2 DEF Enable, RunTypes, ResultsAreTrue
  <2>8. ScoredRuns'
    BY <1>0, <1>3, <2>2, <2>3 DEF Enable, RunTypes, ScoredRuns
  <2> QED BY <1>0, <1>3, <2>5, <2>6, <2>7, <2>8, RunStepKeeps DEF Enable, NewsIsTrue
<1>4. CASE RestMerge(r)
  <2>1. PICK o \in {"merged", "failed"} :
          result' = [result EXCEPT ![r] = o] /\ (o = "merged" => prState' = "merged")
    BY <1>4 DEF RestMerge
  <2>2. mergedBy' = mergedBy \/ (head = sha[r] /\ mergedBy' = mergedBy \cup {<<r, head>>})
    BY <1>4 DEF RestMerge, Mergeable
  <2>3. (prState' = "merged" /\ armed' = FALSE /\ Emit("merged")) \/ UNCHANGED <<prState, armed, hooks>>
    BY <1>4 DEF RestMerge
  <2>4. noise' \in 0..MaxNoise
    BY <1>0, <1>4, MaxNoiseAssumption DEF RestMerge, Noise, GithubTypes
  <2>5. GithubTypes'
    <3>1. hooks' \in [Kinds -> Nat]
      BY <1>0, <2>3, EmitCounts DEF GithubTypes, Kinds
    <3> QED BY <1>0, <1>4, <2>3, <2>4, <3>1 DEF RestMerge, GithubTypes
  <2>6. RunTypes'
    BY <1>0, <1>4, <2>1, <2>2 DEF RestMerge, GithubTypes, RunTypes, Steps, Results
  <2>7. ResultsAreTrue'
    BY <1>0, <1>4, <2>1, <2>3 DEF RestMerge, RunTypes, ResultsAreTrue
  <2>8. ScoredRuns'
    BY <1>0, <1>4, <2>2 DEF RestMerge, RunTypes, ScoredRuns
  <2> QED BY <1>0, <1>4, <2>3, <2>5, <2>6, <2>7, <2>8, RunStepKeeps DEF RestMerge, NewsIsTrue
<1> QED BY <1>1, <1>2, <1>3, <1>4

\* A row that is logged tells what its run did.
LEMMA LogKeeps ==
  ASSUME AttemptsInv, NEW r \in Runs, LogAttempt(r)
  PROVE  AttemptsInv'
<1> USE DEF github
<1>0. /\ GithubTypes /\ RunTypes /\ RowTypes /\ NewsIsTrue /\ ResultsAreTrue /\ FailuresAreLegacy
      /\ CountedMergesHappened /\ ScoredRuns
  BY DEF AttemptsInv
<1>1. UNCHANGED <<head, prState, armed, hooks, sha, result, handling, mergedBy>>
  BY DEF LogAttempt
<1>2. step[r] = "log" /\ step' = [step EXCEPT ![r] = "over"]
  BY DEF LogAttempt, Step
<1>3. GithubTypes'
  BY <1>0, <1>1, MaxNoiseAssumption DEF LogAttempt, Noise, GithubTypes
<1>4. RunTypes' /\ ResultsAreTrue' /\ ScoredRuns'
  BY <1>0, <1>1, <1>2 DEF RunTypes, Steps, ResultsAreTrue, ScoredRuns
<1>5. CASE attempts' = attempts
  BY <1>0, <1>1, <1>3, <1>4, <1>5
  DEF AttemptsInv, RowTypes, NewsIsTrue, FailuresAreLegacy, CountedMergesHappened
<1>6. CASE attempts' # attempts
  <2> DEFINE row == [state |-> StateOf(result[r]), success |-> result[r] # "failed"]
  <2>1. attempts' = Append(attempts, row)
    BY <1>6 DEF LogAttempt
  <2>2. result[r] \in {"enabled", "merged", "failed"}
    BY <1>0, <1>2 DEF ResultsAreTrue, RunTypes, Results
  <2>3. /\ row \in Row
        /\ row.state = LEGACY => ~row.success
        /\ IsMerged(row) => prState = "merged"
    BY <1>0, <2>2
    DEF Row, AttemptStates, StateOf, IsMerged, ResultsAreTrue, LEGACY, ENABLED_PENDING_MERGE,
        ACTUALLY_MERGED, DISABLED_EXTERNALLY, DIRECT_MERGED
  <2> HIDE DEF row
  <2>4. /\ attempts' \in Seq(Row) /\ Len(attempts') = Len(attempts) + 1
        /\ \A i \in 1..Len(attempts) : attempts'[i] = attempts[i]
        /\ attempts'[Len(attempts) + 1] = row
    BY <1>0, <2>1, <2>3 DEF RowTypes
  <2>5. RowTypes'
    BY <1>0, <1>1, <2>4 DEF RowTypes
  <2>6. FailuresAreLegacy' /\ CountedMergesHappened'
    BY <1>0, <1>1, <2>3, <2>4 DEF RowTypes, FailuresAreLegacy, CountedMergesHappened
  <2> QED BY <1>0, <1>1, <1>3, <1>4, <2>5, <2>6 DEF AttemptsInv, NewsIsTrue
<1> QED BY <1>5, <1>6

\* A handler settles a row that waits, with news that is true.
LEMMA HandlerKeeps ==
  ASSUME AttemptsInv, Handler
  PROVE  AttemptsInv'
<1> USE DEF github, mergeRuns
<1>0. /\ GithubTypes /\ RunTypes /\ RowTypes /\ NewsIsTrue /\ ResultsAreTrue /\ FailuresAreLegacy
      /\ CountedMergesHappened /\ ScoredRuns
  BY DEF AttemptsInv
<1>1. UNCHANGED <<head, prState, armed, mergeRuns, mergedBy, noise>>
  BY DEF Handler, Receive, MarkRow
<1>2. RunTypes' /\ ResultsAreTrue' /\ ScoredRuns'
  BY <1>0, <1>1 DEF RunTypes, ResultsAreTrue, ScoredRuns
<1>3. ASSUME NEW k \in Kinds, Receive(k) PROVE AttemptsInv'
  <2>1. hooks' \in [Kinds -> Nat] /\ (hooks'["merged"] > 0 => hooks["merged"] > 0)
    BY <1>0, <1>3 DEF Receive, GithubTypes, Kinds
  <2>2. attempts' = attempts /\ hooks[k] > 0
    BY <1>3 DEF Receive
  <2>3. handling' = handling
          \/ (k # "closed" /\ attempts # <<>>
                /\ handling' = handling \cup {[kind |-> k, id |-> Len(attempts)]})
    BY <1>3 DEF Receive, Concerns, Latest
  <2>4. RowTypes'
    BY <1>0, <2>2, <2>3 DEF RowTypes
  <2>5. NewsIsTrue'
    BY <1>0, <1>1, <2>1, <2>2, <2>3 DEF NewsIsTrue
  <2> QED BY <1>0, <1>1, <1>2, <2>1, <2>2, <2>4, <2>5
          DEF AttemptsInv, GithubTypes, FailuresAreLegacy, CountedMergesHappened
<1>4. ASSUME NEW h \in handling, MarkRow(h) PROVE AttemptsInv'
  <2>1. hooks' = hooks /\ handling' = handling \ {h}
    BY <1>4 DEF MarkRow
  <2>2. h.id \in 1..Len(attempts) /\ h.kind # "closed" /\ (h.kind = "merged" => prState = "merged")
    BY <1>0 DEF RowTypes, NewsIsTrue
  <2>3. /\ attempts' \in Seq(Row) /\ Len(attempts') = Len(attempts)
        /\ \A i \in 1..Len(attempts) :
             \/ attempts'[i] = attempts[i]
             \/ attempts'[i].state = DISABLED_EXTERNALLY
             \/ attempts'[i].state = ACTUALLY_MERGED /\ prState = "merged"
    <3>1. CASE attempts' = attempts
      BY <1>0, <3>1 DEF RowTypes
    <3>2. CASE attempts' # attempts
      <4> DEFINE s == IF h.kind = "disabled" THEN DISABLED_EXTERNALLY ELSE ACTUALLY_MERGED
      <4>1. attempts' = [attempts EXCEPT ![h.id] = [attempts[h.id] EXCEPT !.state = s]]
        BY <1>4, <3>2 DEF MarkRow
      <4>2. attempts[h.id] \in Row /\ s \in AttemptStates
        BY <1>0, <2>2 DEF RowTypes, AttemptStates
      <4>3. [attempts[h.id] EXCEPT !.state = s] \in Row /\ [attempts[h.id] EXCEPT !.state = s].state = s
        BY <4>2 DEF Row
      <4>4. s = DISABLED_EXTERNALLY \/ (s = ACTUALLY_MERGED /\ prState = "merged")
        BY <1>0, <2>2 DEF RowTypes, Kinds
      <4> HIDE DEF s
      <4> QED BY <1>0, <2>2, <4>1, <4>3, <4>4 DEF RowTypes
    <3> QED BY <3>1, <3>2
  <2>4. RowTypes' /\ NewsIsTrue' /\ GithubTypes'
    BY <1>0, <1>1, <2>1, <2>3 DEF RowTypes, NewsIsTrue, GithubTypes
  <2>5. FailuresAreLegacy'
    BY <1>0, <2>3 DEF RowTypes, FailuresAreLegacy, LEGACY, DISABLED_EXTERNALLY, ACTUALLY_MERGED
  <2>6. CountedMergesHappened'
    BY <1>0, <1>1, <2>3
    DEF RowTypes, CountedMergesHappened, IsMerged, LEGACY, DISABLED_EXTERNALLY, ACTUALLY_MERGED,
        DIRECT_MERGED
  <2> QED BY <1>2, <2>4, <2>5, <2>6 DEF AttemptsInv
<1> QED BY <1>3, <1>4 DEF Handler

\* Every step keeps the invariant.
LEMMA AttemptsInvNext == AttemptsInv /\ [MergeAttemptsNext]_mergeAttemptsVars => AttemptsInv'
<1> SUFFICES ASSUME AttemptsInv, [MergeAttemptsNext]_mergeAttemptsVars PROVE AttemptsInv'
  OBVIOUS
<1>1. CASE UNCHANGED mergeAttemptsVars
  BY <1>1
  DEF mergeAttemptsVars, github, mergeRuns, AttemptsInv, GithubTypes, RunTypes, RowTypes, NewsIsTrue,
      ResultsAreTrue, FailuresAreLegacy, CountedMergesHappened, ScoredRuns
<1> QED
  BY <1>1, GithubKeeps, MergeKeeps, LogKeeps, HandlerKeeps DEF MergeAttemptsNext, RunStep

\* It holds always.
LEMMA AttemptsInvHolds == MergeAttemptsSpec => []AttemptsInv
BY AttemptsInvInit, AttemptsInvNext, PTL DEF MergeAttemptsSpec

\* GitHub's side, the runs and the rows keep their types.
THEOREM AttemptsTypeCorrect == MergeAttemptsSpec => []MergeAttemptsTypeOK
<1>1. AttemptsInv => MergeAttemptsTypeOK
  BY DEF AttemptsInv, GithubTypes, RunTypes, RowTypes, Row, MergeAttemptsTypeOK
<1> QED BY <1>1, AttemptsInvHolds, PTL

\* The merge KPI counts only what was merged, in whatever order and however
\* often the webhooks come (mark_actually_merged, is_merged).
THEOREM CountedMergesHappenedHolds == MergeAttemptsSpec => []CountedMergesHappened
<1>1. AttemptsInv => CountedMergesHappened
  BY DEF AttemptsInv
<1> QED BY <1>1, AttemptsInvHolds, PTL

\* A run arms or merges the commit it was scored for, whatever is pushed.
THEOREM RunsMergeWhatTheyScoredHolds == MergeAttemptsSpec => []RunsMergeWhatTheyScored
<1>1. AttemptsInv => RunsMergeWhatTheyScored
  BY DEF AttemptsInv, ScoredRuns, RunsMergeWhatTheyScored
<1> QED BY <1>1, AttemptsInvHolds, PTL

\* A row is settled once and never removed (ALLOWED_TRANSITIONS).
THEOREM RowsSettleOnceHolds == MergeAttemptsSpec => RowsSettleOnce
<1> DEFINE Settles ==
      /\ Len(attempts') >= Len(attempts)
      /\ \A i \in DOMAIN attempts :
           attempts'[i] = attempts[i]
             \/ (attempts[i].state = ENABLED_PENDING_MERGE
                   /\ attempts'[i].state \in {ACTUALLY_MERGED, DISABLED_EXTERNALLY})
<1>1. ASSUME AttemptsInv, [MergeAttemptsNext]_mergeAttemptsVars PROVE Settles \/ UNCHANGED mergeAttemptsVars
  <2>0. attempts \in Seq(Row)
    BY <1>1 DEF AttemptsInv, RowTypes
  <2>1. CASE attempts' = attempts
    BY <2>0, <2>1
  <2>2. ASSUME NEW r \in Runs, LogAttempt(r), attempts' # attempts PROVE Settles
    <3>1. PICK row : attempts' = Append(attempts, row)
      BY <2>2 DEF LogAttempt
    <3> QED BY <2>0, <3>1
  <2>3. ASSUME NEW h \in handling, MarkRow(h), attempts' # attempts PROVE Settles
    <3>1. h.id \in 1..Len(attempts)
      BY <1>1 DEF AttemptsInv, RowTypes
    <3>2. PICK s \in {ACTUALLY_MERGED, DISABLED_EXTERNALLY} :
            attempts' = [attempts EXCEPT ![h.id] = [attempts[h.id] EXCEPT !.state = s]]
      BY <2>3 DEF MarkRow
    <3>3. attempts[h.id].state = ENABLED_PENDING_MERGE
      BY <2>3 DEF MarkRow, WaitsForGithub
    <3>4. [attempts[h.id] EXCEPT !.state = s].state = s
      BY <2>0, <3>1 DEF Row
    <3> QED BY <2>0, <3>1, <3>2, <3>3, <3>4
  <2> QED
    BY <1>1, <2>1, <2>2, <2>3
    DEF MergeAttemptsNext, RunStep, Handler, PushCommit, MergedOutside, ClosedUnmerged, Disarmed,
        LoseHook, RepeatHook, BeginMerge, LookAtHead, Enable, RestMerge, Receive,
        mergeAttemptsVars
<1> QED BY <1>1, AttemptsInvHolds, PTL DEF MergeAttemptsSpec, RowsSettleOnce

=============================================================================
