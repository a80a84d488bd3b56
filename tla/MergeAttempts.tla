---------------------------- MODULE MergeAttempts ----------------------------
(***************************************************************************)
(* The record of what auto-merge did to one pull request.  A merge run     *)
(* arms GitHub's own auto-merge for the commit it analysed or merges it    *)
(* itself (gate/engine.py, gate/native_automerge.py), and then inserts a   *)
(* MergeAttempt row; webhooks settle the row when GitHub merges or         *)
(* disarms later (webhook/providers/github.py).  Webhooks overtake each    *)
(* other and the insert, are lost and are delivered twice.                 *)
(***************************************************************************)
EXTENDS Integers, FiniteSets, Sequences

CONSTANTS
  Shas,      \* commits the branch of the pull request may have as its head
  Runs,      \* merge runs: gate runs that every guard let through
  MaxNoise   \* lost and duplicated deliveries, failed inserts, lost answers

ASSUME ShasAssumption == Shas # {}
ASSUME MaxNoiseAssumption == MaxNoise \in Nat

VARIABLES
  head, prState, armed,     \* GitHub: the pull request, and its auto-merge
  hooks,                    \* deliveries under way, per kind
  step, sha, result,        \* merge runs, their analysed commit, their outcome
  attempts,                 \* the rows, in the order of attempted_at
  handling,                 \* webhook handlers that have picked a row
  mergedBy,                 \* history: commits the bot merged or armed
  noise

github == <<head, prState, armed>>
mergeRuns == <<step, sha, result>>
mergeAttemptsVars == <<github, hooks, mergeRuns, attempts, handling, mergedBy, noise>>

Kinds == {"merged", "disabled", "closed"}
Results == {"none", "enabled", "merged", "failed"}
Steps == {"idle", "look", "enable", "rest", "log", "over"}

\* gate/_merge_attempt_states.py
LEGACY == "legacy"
ENABLED_PENDING_MERGE == "enabled_pending_merge"
ACTUALLY_MERGED == "actually_merged"
DISABLED_EXTERNALLY == "disabled_externally"
DIRECT_MERGED == "direct_merged"
IsMerged(row) == row.state \in {ACTUALLY_MERGED, DIRECT_MERGED} \/ (row.state = LEGACY /\ row.success)

MergeAttemptsInit ==
  /\ head = CHOOSE c \in Shas : TRUE
  /\ prState = "open"
  /\ armed = FALSE
  /\ hooks = [k \in Kinds |-> 0]
  /\ step = [r \in Runs |-> "idle"]
  /\ sha = [r \in Runs |-> head]
  /\ result = [r \in Runs |-> "none"]
  /\ attempts = <<>>
  /\ handling = {}
  /\ mergedBy = {}
  /\ noise = 0

Noise == noise < MaxNoise /\ noise' = noise + 1
Step(r, s) == step' = [step EXCEPT ![r] = s]
Outcome(r, o) == result' = [result EXCEPT ![r] = o]
Emit(k) == hooks' = [hooks EXCEPT ![k] = @ + 1]

-----------------------------------------------------------------------------
(* GitHub                                                                  *)

\* A push disarms auto-merge, or leaves it armed for the new head.
PushCommit ==
  /\ prState = "open"
  /\ \E c \in Shas \ {head} : head' = c
  /\ \/ UNCHANGED <<armed, hooks>>
     \/ armed /\ armed' = FALSE /\ Emit("disabled")
  /\ UNCHANGED <<prState, mergeRuns, attempts, handling, mergedBy, noise>>

\* GitHub merges what is armed when the checks pass; a person merges or closes.
MergedOutside ==
  /\ prState = "open"
  /\ prState' = "merged" /\ armed' = FALSE
  /\ Emit("merged")
  /\ UNCHANGED <<head, mergeRuns, attempts, handling, mergedBy, noise>>

ClosedUnmerged ==
  /\ prState = "open"
  /\ prState' = "closed" /\ armed' = FALSE
  /\ Emit("closed")
  /\ UNCHANGED <<head, mergeRuns, attempts, handling, mergedBy, noise>>

Disarmed ==
  /\ armed
  /\ armed' = FALSE
  /\ Emit("disabled")
  /\ UNCHANGED <<head, prState, mergeRuns, attempts, handling, mergedBy, noise>>

LoseHook ==
  /\ Noise
  /\ \E k \in Kinds : hooks[k] > 0 /\ hooks' = [hooks EXCEPT ![k] = @ - 1]
  /\ UNCHANGED <<github, mergeRuns, attempts, handling, mergedBy>>

RepeatHook ==
  /\ Noise
  /\ \E k \in Kinds : hooks[k] > 0 /\ Emit(k)
  /\ UNCHANGED <<github, mergeRuns, attempts, handling, mergedBy>>

-----------------------------------------------------------------------------
(* A merge run                                                             *)

\* The guards let a run through; it is about the head of that moment.
BeginMerge(r) ==
  /\ step[r] = "idle" /\ prState = "open"
  /\ Step(r, "look")
  /\ sha' = [sha EXCEPT ![r] = head]
  /\ UNCHANGED <<github, hooks, result, attempts, handling, mergedBy, noise>>

\* Drift of the head drops the run; a lookup that fails, or the legacy path,
\* which makes none, goes on with the analysed commit.
LookAtHead(r) ==
  /\ step[r] = "look"
  /\ Step(r, IF head # sha[r] THEN "over" ELSE "enable") \/ Step(r, "enable")
  /\ UNCHANGED <<github, hooks, sha, result, attempts, handling, mergedBy, noise>>

\* enablePullRequestAutoMerge with expectedHeadOid: GitHub refuses another head,
\* and then there is no fallback; any other failure falls back to merge_pr, a
\* lost answer included.
Enable(r) ==
  /\ step[r] = "enable"
  /\ \/ /\ prState = "open" /\ head = sha[r]
        /\ armed' = TRUE
        /\ mergedBy' = mergedBy \cup {<<r, head>>}
        /\ \/ Outcome(r, "enabled") /\ Step(r, "log") /\ UNCHANGED noise
           \/ Noise /\ Step(r, "rest") /\ UNCHANGED result
     \/ /\ head # sha[r]
        /\ Outcome(r, "failed") /\ Step(r, "log")
        /\ UNCHANGED <<armed, mergedBy, noise>>
     \/ Step(r, "rest") /\ UNCHANGED <<armed, mergedBy, result, noise>>
  /\ UNCHANGED <<head, prState, hooks, sha, attempts, handling>>

\* merge_pr with the analysed commit: GitHub merges that head or refuses, and
\* the answer may be lost on the way.
SlipMergeable(r) == prState = "open"
Mergeable(r) == prState = "open" /\ head = sha[r]
RestMerge(r) ==
  /\ step[r] = "rest"
  /\ Step(r, "log")
  /\ \/ /\ Mergeable(r)
        /\ prState' = "merged" /\ armed' = FALSE
        /\ Emit("merged")
        /\ mergedBy' = mergedBy \cup {<<r, head>>}
        /\ \/ Outcome(r, "merged") /\ UNCHANGED noise
           \/ Outcome(r, "failed") /\ Noise
     \/ /\ Outcome(r, "failed")
        /\ UNCHANGED <<prState, armed, hooks, mergedBy, noise>>
  /\ UNCHANGED <<head, sha, attempts, handling>>

\* The state a row starts in; a failed insert is logged and forgotten.
StateOf(o) ==
  CASE o = "enabled" -> ENABLED_PENDING_MERGE
    [] o = "merged"  -> DIRECT_MERGED
    [] o = "failed"  -> LEGACY
LogAttempt(r) ==
  /\ step[r] = "log"
  /\ Step(r, "over")
  /\ \/ /\ attempts' = Append(attempts, [state |-> StateOf(result[r]),
                                         success |-> result[r] # "failed"])
        /\ UNCHANGED noise
     \/ Noise /\ UNCHANGED attempts
  /\ UNCHANGED <<github, hooks, sha, result, handling, mergedBy>>

-----------------------------------------------------------------------------
(* The webhooks                                                            *)

\* find_latest_for_pr.  A pull request closed without a merge, and one without
\* a row, is ignored.
SlipConcerns(k) == TRUE
Concerns(k) == k # "closed"
SlipLatest == 1
Latest == Len(attempts)
Receive(k) ==
  /\ hooks[k] > 0
  /\ hooks' = [hooks EXCEPT ![k] = @ - 1]
  /\ handling' = IF Concerns(k) /\ attempts # <<>>
                 THEN handling \cup {[kind |-> k, id |-> Latest]} ELSE handling
  /\ UNCHANGED <<github, mergeRuns, attempts, mergedBy, noise>>

\* mark_actually_merged, mark_disabled_externally: only a row that waits.
SlipWaitsForGithub(id) == TRUE
WaitsForGithub(id) == attempts[id].state = ENABLED_PENDING_MERGE
MarkRow(h) ==
  /\ handling' = handling \ {h}
  /\ attempts' =
       IF WaitsForGithub(h.id)
       THEN [attempts EXCEPT ![h.id].state = IF h.kind = "disabled" THEN DISABLED_EXTERNALLY
                                             ELSE ACTUALLY_MERGED]
       ELSE attempts
  /\ UNCHANGED <<github, hooks, mergeRuns, mergedBy, noise>>

RunStep(r) == LookAtHead(r) \/ Enable(r) \/ RestMerge(r) \/ LogAttempt(r)
Handler == (\E k \in Kinds : Receive(k)) \/ (\E h \in handling : MarkRow(h))
MergeAttemptsNext ==
  \/ PushCommit \/ MergedOutside \/ ClosedUnmerged \/ Disarmed \/ LoseHook \/ RepeatHook
  \/ \E r \in Runs : BeginMerge(r) \/ RunStep(r)
  \/ Handler

\* The event loop runs a handler that is ready.
MergeAttemptsSpec ==
  MergeAttemptsInit /\ [][MergeAttemptsNext]_mergeAttemptsVars /\ WF_mergeAttemptsVars(Handler)

-----------------------------------------------------------------------------
AttemptStates == {LEGACY, ENABLED_PENDING_MERGE, ACTUALLY_MERGED, DISABLED_EXTERNALLY, DIRECT_MERGED}

\* The pull request, the runs and the rows keep their types.
MergeAttemptsTypeOK ==
  /\ head \in Shas /\ prState \in {"open", "merged", "closed"} /\ armed \in BOOLEAN
  /\ hooks \in [Kinds -> Nat]
  /\ step \in [Runs -> Steps] /\ sha \in [Runs -> Shas] /\ result \in [Runs -> Results]
  /\ attempts \in Seq([state : AttemptStates, success : BOOLEAN])
  /\ handling \subseteq [kind : Kinds, id : 1..Len(attempts)]
  /\ mergedBy \subseteq Runs \X Shas
  /\ noise \in 0..MaxNoise

\* A row that counts as merged (is_merged, the definition of the merge KPI)
\* belongs to a pull request that is merged: arming is not counted, and neither
\* is a pull request that was closed, whatever order the webhooks come in.
CountedMergesHappened ==
  \A i \in DOMAIN attempts : IsMerged(attempts[i]) => prState = "merged"

\* A row changes its state once, from enabled_pending_merge, and is not removed
\* (ALLOWED_TRANSITIONS), although late and repeated webhooks pick it again.
RowsSettleOnce ==
  [][/\ Len(attempts') >= Len(attempts)
     /\ \A i \in DOMAIN attempts :
          attempts'[i] = attempts[i]
            \/ (attempts[i].state = ENABLED_PENDING_MERGE
                  /\ attempts'[i].state \in {ACTUALLY_MERGED, DISABLED_EXTERNALLY})]_mergeAttemptsVars

\* What a run merges or arms is the commit that got its score, whatever was
\* pushed since the analysis (expected_sha of native_enable_with_path).
RunsMergeWhatTheyScored == \A m \in mergedBy : m[2] = sha[m[1]]

\* A latest row that waits while the news of the merge is under way is settled
\* by it, unless the delivery is lost or a newer row takes its place.
Waiting(n) == Len(attempts) = n /\ attempts[n].state = ENABLED_PENDING_MERGE
RowsHearOfTheMerge ==
  \A n \in 1..Cardinality(Runs) :
    Waiting(n) /\ hooks["merged"] > 0 ~> ~Waiting(n) \/ noise > 0

=============================================================================
