--------------------------- MODULE MergeRetryQueue ---------------------------
(***************************************************************************)
(* The merge-retry queue.  A gate run whose merge is blocked for a reason  *)
(* that may pass enqueues the commit (gate/engine.py); workers -- the      *)
(* scheduler loop, the cron endpoint and the check_suite trigger -- claim  *)
(* batches of pending rows and retry the merge                             *)
(* (services/merge_retry_service.py over repositories/merge_retry_repo.py);*)
(* a pull_request.synchronize webhook abandons the rows of older commits.  *)
(* Every database access that another session may run between is a step of *)
(* its own: in particular a write-back reads the row with the claim token  *)
(* as a condition, and then updates it by primary key.                     *)
(***************************************************************************)
EXTENDS Integers, FiniteSets, RetryPolicy

CONSTANTS
  PRs,          \* pull requests
  Shas,         \* commit SHAs
  Rows,         \* row ids of merge_retry_queue
  Workers,      \* concurrent runs of process_pending_retries
  Gates,        \* gate runs, each for one pull request
  Hooks,        \* synchronize deliveries, one per push
  MaxAttempts,  \* max_attempts of every row
  Budget,       \* how often each kind of fault may happen
  NoSha, NoCommit, NoRow

Faults == {"crash",    \* a worker dies or is cancelled
           "slow",     \* a live worker holds a claim past the stale cutoff
           "error",    \* an exception while a row is processed
           "log",      \* a MergeAttempt insert fails, and is swallowed
           "remove"}   \* rows deleted: purge of old rows, repository removal

Commits == PRs \X Shas

ASSUME MaxAttemptsAssumption == MaxAttempts \in Nat \ {0}
ASSUME BudgetAssumption == Budget \in [Faults -> Nat]
ASSUME NullAssumption == NoSha \notin Shas /\ NoCommit \notin Commits /\ NoRow \notin Rows

VARIABLES
  \* GitHub
  head, mergedAs, mergedBy, verified,
  \* the table merge_retry_queue
  status, commit, attempts, token, claimed, due,
  \* workers: the rows still to process, the one in progress, the attempts
  \* count read for it, and what is to be written back
  pc, batch, cur, view, intent,
  \* synchronize deliveries: the event, and the rows its SELECT returned
  hookSt, hookCommit, hookRows, hookClaimed,
  \* gate runs
  gateSt, gateCommit, gateRow,
  \* history: MergeAttempt rows per queue row, merge calls per queue row, and
  \* the rows whose own merge call merged; what is left of the fault budget
  logged, puts, landed, left

githubVars == <<head, mergedAs, mergedBy, verified>>
rowVars    == <<status, commit, attempts, token, claimed, due>>
workerVars == <<pc, batch, cur, view, intent>>
hookVars   == <<hookSt, hookCommit, hookRows, hookClaimed>>
gateVars   == <<gateSt, gateCommit, gateRow>>
histVars   == <<logged, puts, landed>>
vars == <<githubVars, rowVars, workerVars, hookVars, gateVars, histVars, left>>

Terminal == {"succeeded", "failed_terminal", "abandoned", "expired"}
Free     == "free"   \* claim_token IS NULL

PrOf(r)  == commit[r][1]
ShaOf(r) == commit[r][2]
Open(p)  == mergedAs[p] = NoSha
Pending(r) == status[r] = "pending"

\* Slips (Slip*): what a definition would be with a plausible mistake in the
\* code.  No specification uses them; they show that the properties bite.
SlipClaimableInFlight(r) == Pending(r)                      \* no claimed_at guard
SlipClaimableNoTakeover(r) == Pending(r) /\ claimed[r] = "none"

\* A claim another worker may take over: none, or older than the cutoff.
Claimable(r) == Pending(r) /\ claimed[r] \in {"none", "stale"}

HeldBy(r) == {w \in Workers : r \in batch[w]}

Spend(f) == left[f] > 0 /\ left' = [left EXCEPT ![f] = @ - 1]

Init ==
  /\ head \in [PRs -> Shas]
  /\ mergedAs = [p \in PRs |-> NoSha]
  /\ mergedBy = [p \in PRs |-> "none"]
  /\ verified = {}
  /\ status   = [r \in Rows |-> "absent"]
  /\ commit   = [r \in Rows |-> NoCommit]
  /\ attempts = [r \in Rows |-> 0]
  /\ token    = [r \in Rows |-> Free]
  /\ claimed  = [r \in Rows |-> "none"]
  /\ due      = [r \in Rows |-> FALSE]
  /\ pc     = [w \in Workers |-> "idle"]
  /\ batch  = [w \in Workers |-> {}]
  /\ cur    = [w \in Workers |-> NoRow]
  /\ view   = [w \in Workers |-> 0]
  /\ intent = [w \in Workers |-> "none"]
  /\ hookSt      = [h \in Hooks |-> "idle"]
  /\ hookCommit  = [h \in Hooks |-> NoCommit]
  /\ hookRows    = [h \in Hooks |-> {}]
  /\ hookClaimed = [h \in Hooks |-> {}]
  /\ gateSt     = [g \in Gates |-> "idle"]
  /\ gateCommit = [g \in Gates |-> NoCommit]
  /\ gateRow    = [g \in Gates |-> NoRow]
  /\ logged = [r \in Rows |-> {}]
  /\ puts   = [r \in Rows |-> 0]
  /\ landed = {}
  /\ left = Budget

-----------------------------------------------------------------------------
(* The worker: process_pending_retries.                                    *)

\* claim_batch takes the rows B in one transaction (FOR UPDATE SKIP LOCKED).
\* The token is a fresh UUID per batch; a worker has one batch at a time, so
\* its name stands for it.  first is the row processed first, whose columns
\* the refresh after the commit has just read.
Claim(w, B, first) ==
  /\ pc[w] = "idle"
  /\ first \in B
  /\ attempts' = [r \in Rows |-> IF r \in B THEN attempts[r] + 1 ELSE attempts[r]]
  /\ token'    = [r \in Rows |-> IF r \in B THEN w ELSE token[r]]
  /\ claimed'  = [r \in Rows |-> IF r \in B THEN "fresh" ELSE claimed[r]]
  /\ pc'    = [pc EXCEPT ![w] = "start"]
  /\ batch' = [batch EXCEPT ![w] = B]
  /\ cur'   = [cur EXCEPT ![w] = first]
  /\ view'  = [view EXCEPT ![w] = attempts[first] + 1]
  /\ UNCHANGED <<githubVars, status, commit, due, intent, hookVars, gateVars, histVars, left>>

\* The periodic sweep.  The subset stands for the LIMIT, for the rows another
\* claim has locked, and for rows that came due after `now` was taken.
Sweep(w) ==
  \E B \in SUBSET {r \in Rows : Claimable(r) /\ due[r]} :
    \E first \in B : Claim(w, B, first)

\* check_suite.completed for a commit: its rows, whether they are due or not.
Trigger(w, s) ==
  \E B \in SUBSET {r \in Rows : Claimable(r) /\ ShaOf(r) = s} :
    \E first \in B : Claim(w, B, first)

SlipThrough(w) ==   \* the current row stays current
  /\ pc'    = [pc EXCEPT ![w] = IF batch[w] = {cur[w]} THEN "idle" ELSE "start"]
  /\ batch' = [batch EXCEPT ![w] = @ \ {cur[w]}]
  /\ UNCHANGED <<cur, view, intent>>

\* The state of a worker that is through with its current row.
Through(w) ==
  LET rest == batch[w] \ {cur[w]} IN
    /\ pc'     = [pc EXCEPT ![w] = IF rest = {} THEN "idle" ELSE "next"]
    /\ batch'  = [batch EXCEPT ![w] = rest]
    /\ cur'    = [cur EXCEPT ![w] = NoRow]
    /\ view'   = [view EXCEPT ![w] = 0]
    /\ intent' = [intent EXCEPT ![w] = "none"]

\* The run ends where it stands; the rows not processed keep their claim.
Stop(w) ==
  /\ pc'     = [pc EXCEPT ![w] = "idle"]
  /\ batch'  = [batch EXCEPT ![w] = {}]
  /\ cur'    = [cur EXCEPT ![w] = NoRow]
  /\ view'   = [view EXCEPT ![w] = 0]
  /\ intent' = [intent EXCEPT ![w] = "none"]

Goto(w, label) == pc' = [pc EXCEPT ![w] = label] /\ UNCHANGED <<batch, cur, view, intent>>

WriteLater(w, i) ==
  /\ pc' = [pc EXCEPT ![w] = "record"]
  /\ intent' = [intent EXCEPT ![w] = i]
  /\ UNCHANGED <<batch, cur, view>>

\* _row_view of the next row: the commits before it expired the session, so
\* the columns are read again.
LoadRow(w, r) ==
  /\ pc[w] = "next" /\ r \in batch[w]
  /\ status[r] # "deleted"
  /\ pc'   = [pc EXCEPT ![w] = "start"]
  /\ cur'  = [cur EXCEPT ![w] = r]
  /\ view' = [view EXCEPT ![w] = attempts[r]]
  /\ UNCHANGED <<githubVars, rowVars, batch, intent, hookVars, gateVars, histVars, left>>

\* The row is gone: the read raises, so does the refresh in
\* _recover_and_release, and so does `row.id` in its except clause.
RowGone(w, r) ==
  /\ r \in batch[w]
  /\ status[r] = "deleted"
  /\ pc[w] = "next" \/ (cur[w] = r /\ pc[w] = "write")
  /\ Stop(w)
  /\ UNCHANGED <<githubVars, rowVars, hookVars, gateVars, histVars, left>>

SlipPreflight(w) ==   \* the cap one too high
  /\ pc[w] = "start"
  /\ IF view[w] > MaxAttempts
       THEN WriteLater(w, "abandoned")
       ELSE WriteLater(w, "release") \/ WriteLater(w, "abandoned") \/ Goto(w, "get")
  /\ UNCHANGED <<githubVars, rowVars, hookVars, gateVars, histVars, left>>

\* _preflight_retry.  The attempts cap comes before the token lookup.
Preflight(w) ==
  /\ pc[w] = "start"
  /\ IF view[w] >= MaxAttempts
       THEN WriteLater(w, "abandoned")            \* max_attempts_exceeded
       ELSE \/ WriteLater(w, "release")           \* no_token
            \/ WriteLater(w, "abandoned")         \* config_changed
            \/ Goto(w, "get")
  /\ UNCHANGED <<githubVars, rowVars, hookVars, gateVars, histVars, left>>

\* _get_pr_data and _settle_before_merge.  An answer without a head SHA is
\* not taken for drift.
GetPr(w) ==
  /\ pc[w] = "get"
  /\ LET r == cur[w] IN
       \/ WriteLater(w, "release")                \* pr_fetch_failed
       \/ ~Open(PrOf(r)) /\ WriteLater(w, "succeeded")
       \/ Open(PrOf(r)) /\ head[PrOf(r)] # ShaOf(r) /\ WriteLater(w, "abandoned")
       \/ Open(PrOf(r)) /\ Goto(w, "put")
  /\ UNCHANGED <<githubVars, rowVars, hookVars, gateVars, histVars, left>>

SlipMergeAt(c) ==   \* the merge request does not carry the SHA
  /\ Open(c[1])
  /\ mergedAs' = [mergedAs EXCEPT ![c[1]] = head[c[1]]]
  /\ mergedBy' = [mergedBy EXCEPT ![c[1]] = "bot"]
  /\ UNCHANGED <<head, verified>>

\* GitHub merges an open pull request whose head is the SHA in the request.
MergeAt(c) ==
  /\ Open(c[1]) /\ head[c[1]] = c[2]
  /\ mergedAs' = [mergedAs EXCEPT ![c[1]] = c[2]]
  /\ mergedBy' = [mergedBy EXCEPT ![c[1]] = "bot"]
  /\ UNCHANGED <<head, verified>>

SlipPutMerge(w) ==   \* the HTTP status of the answer is not looked at
  /\ pc[w] = "put"
  /\ puts' = [puts EXCEPT ![cur[w]] = @ + 1]
  /\ MergeAt(commit[cur[w]]) \/ UNCHANGED githubVars
  /\ WriteLater(w, "succeeded")
  /\ UNCHANGED <<rowVars, hookVars, gateVars, logged, landed, left>>

\* merge_pr with expected_sha = the row's commit, and _handle_merge_failure.
\* The merge may land and its answer be lost; a call may fail for any reason.
PutMerge(w) ==
  /\ pc[w] = "put"
  /\ LET r == cur[w] IN
       /\ puts' = [puts EXCEPT ![r] = @ + 1]
       /\ \/ /\ MergeAt(commit[r])
             /\ landed' = landed \cup {r}
             /\ \E i \in {"succeeded"} \cup LostAnswerOutcomes : WriteLater(w, i)
          \/ /\ \E i \in FailureOutcomes : WriteLater(w, i)
             /\ UNCHANGED <<githubVars, landed>>
  /\ UNCHANGED <<rowVars, hookVars, gateVars, logged, left>>

SlipLogOf(i) == IF i \in {"release", "succeeded"} THEN {} ELSE {"failure"}

\* What log_merge_attempt records before a row is stopped.
LogOf(i) == IF i = "release" THEN {} ELSE IF i = "succeeded" THEN {"success"} ELSE {"failure"}

\* log_merge_attempt (a failed insert is swallowed), then the SELECT of
\* _mark_status or release_claim: by id and claim token, whatever the status.
Record(w) ==
  /\ pc[w] = "record"
  /\ LET r == cur[w] IN
       /\ \/ /\ logged' = [logged EXCEPT ![r] = @ \cup LogOf(intent[w])]
             /\ UNCHANGED left
          \/ LogOf(intent[w]) # {} /\ Spend("log") /\ UNCHANGED logged
       /\ IF token[r] = w /\ status[r] # "deleted"
            THEN Goto(w, "write")
            ELSE Through(w)
  /\ UNCHANGED <<githubVars, rowVars, hookVars, gateVars, puts, landed>>

SlipWriteBack(w) ==   \* release_claim also writes the status column
  /\ pc[w] = "write"
  /\ LET r == cur[w] IN
       /\ status[r] # "deleted"
       /\ status' = [status EXCEPT ![r] = IF intent[w] = "release" THEN "pending" ELSE intent[w]]
       /\ due'     = [due EXCEPT ![r] = FALSE]
       /\ token'   = [token EXCEPT ![r] = Free]
       /\ claimed' = [claimed EXCEPT ![r] = "none"]
  /\ Through(w)
  /\ UNCHANGED <<githubVars, commit, attempts, hookVars, gateVars, histVars, left>>

\* The UPDATE of _mark_status or release_claim: by primary key only.
WriteBack(w) ==
  /\ pc[w] = "write"
  /\ LET r == cur[w] IN
       /\ status[r] # "deleted"
       /\ IF intent[w] = "release"
            THEN due' = [due EXCEPT ![r] = FALSE] /\ UNCHANGED status
            ELSE status' = [status EXCEPT ![r] = intent[w]] /\ UNCHANGED due
       /\ token'   = [token EXCEPT ![r] = Free]
       /\ claimed' = [claimed EXCEPT ![r] = "none"]
  /\ Through(w)
  /\ UNCHANGED <<githubVars, commit, attempts, hookVars, gateVars, histVars, left>>

\* An exception before the write-back is committed: _recover_and_release
\* rolls back, reads the row again and releases it if it is pending.
RowError(w) ==
  /\ pc[w] \in {"start", "get", "put", "record", "write"}
  /\ Spend("error")
  /\ LET r == cur[w] IN
       CASE status[r] = "deleted" -> Stop(w)
         [] Pending(r)            -> WriteLater(w, "release")
         [] OTHER                 -> Through(w)
  /\ UNCHANGED <<githubVars, rowVars, hookVars, gateVars, histVars>>

Crash(w) ==
  /\ pc[w] # "idle"
  /\ Spend("crash")
  /\ Stop(w)
  /\ UNCHANGED <<githubVars, rowVars, hookVars, gateVars, histVars>>

-----------------------------------------------------------------------------
(* Time.                                                                   *)

\* next_retry_at is reached.
ComesDue(r) ==
  /\ Pending(r) /\ ~due[r]
  /\ due' = [due EXCEPT ![r] = TRUE]
  /\ UNCHANGED <<githubVars, status, commit, attempts, token, claimed,
                 workerVars, hookVars, gateVars, histVars, left>>

\* claimed_at falls behind the stale cutoff: always in the end when nobody
\* works on the row, and while a batch is still in progress only if that
\* batch takes longer than the cutoff of 300 s.
GoesStale(r) ==
  /\ Pending(r) /\ claimed[r] = "fresh"
  /\ IF HeldBy(r) = {} THEN UNCHANGED left ELSE Spend("slow")
  /\ claimed' = [claimed EXCEPT ![r] = "stale"]
  /\ UNCHANGED <<githubVars, status, commit, attempts, token, due,
                 workerVars, hookVars, gateVars, histVars>>

-----------------------------------------------------------------------------
(* GitHub: pushes, merges by someone else, synchronize deliveries.         *)

Push(h, p, s) ==
  /\ hookSt[h] = "idle"
  /\ Open(p) /\ s # head[p]
  /\ head' = [head EXCEPT ![p] = s]
  /\ hookSt' = [hookSt EXCEPT ![h] = "sent"]
  /\ hookCommit' = [hookCommit EXCEPT ![h] = <<p, s>>]
  /\ UNCHANGED <<mergedAs, mergedBy, verified, rowVars, workerVars,
                 hookRows, hookClaimed, gateVars, histVars, left>>

OutsideMerge(p) ==
  /\ Open(p)
  /\ mergedAs' = [mergedAs EXCEPT ![p] = head[p]]
  /\ mergedBy' = [mergedBy EXCEPT ![p] = "outside"]
  /\ UNCHANGED <<head, verified, rowVars, workerVars, hookVars, gateVars, histVars, left>>

\* abandon_stale_for_pr, the SELECT.  A delivery may come late, or never.
SyncSelect(h) ==
  /\ hookSt[h] = "sent"
  /\ LET stale == {r \in Rows : /\ Pending(r)
                                /\ PrOf(r) = hookCommit[h][1]
                                /\ ShaOf(r) # hookCommit[h][2]}
     IN /\ hookRows' = [hookRows EXCEPT ![h] = stale]
        /\ hookClaimed' = [hookClaimed EXCEPT ![h] = {r \in stale : token[r] # Free}]
        /\ hookSt' = [hookSt EXCEPT ![h] = IF stale = {} THEN "done" ELSE "loaded"]
  /\ UNCHANGED <<githubVars, rowVars, workerVars, hookCommit, gateVars, histVars, left>>

SyncDone(h) ==
  /\ hookSt' = [hookSt EXCEPT ![h] = "done"]
  /\ hookRows' = [hookRows EXCEPT ![h] = {}]
  /\ hookClaimed' = [hookClaimed EXCEPT ![h] = {}]
  /\ UNCHANGED hookCommit

\* ... and the UPDATE, by primary key.  The session writes the columns that
\* changed: the claim is cleared where the SELECT had seen one.
SyncUpdate(h) ==
  /\ hookSt[h] = "loaded"
  /\ \A r \in hookRows[h] : status[r] # "deleted"
  /\ status'  = [r \in Rows |-> IF r \in hookRows[h] THEN "abandoned" ELSE status[r]]
  /\ token'   = [r \in Rows |-> IF r \in hookClaimed[h] THEN Free ELSE token[r]]
  /\ claimed' = [r \in Rows |-> IF r \in hookClaimed[h] THEN "none" ELSE claimed[r]]
  /\ SyncDone(h)
  /\ UNCHANGED <<githubVars, commit, attempts, due, workerVars, gateVars, histVars, left>>

\* An update that matches no row rolls the whole transaction back.
SyncFails(h) ==
  /\ hookSt[h] = "loaded"
  /\ \E r \in hookRows[h] : status[r] = "deleted"
  /\ SyncDone(h)
  /\ UNCHANGED <<githubVars, rowVars, workerVars, gateVars, histVars, left>>

\* purge_terminal deletes rows that ended days ago, when no run holds them.
Purge(r) ==
  /\ status[r] \in Terminal
  /\ HeldBy(r) = {} /\ \A h \in Hooks : r \notin hookRows[h]
  /\ \A g \in Gates : gateRow[g] # r
  /\ Spend("remove")
  /\ status' = [status EXCEPT ![r] = "deleted"]
  /\ UNCHANGED <<githubVars, commit, attempts, token, claimed, due,
                 workerVars, hookVars, gateVars, histVars>>

\* Deleting a repository deletes its analyses, and with them the queue rows.
RepoRemoved ==
  /\ Spend("remove")
  /\ \E r \in Rows : status[r] \notin {"absent", "deleted"}
  /\ status' = [r \in Rows |-> IF status[r] = "absent" THEN "absent" ELSE "deleted"]
  /\ UNCHANGED <<githubVars, commit, attempts, token, claimed, due,
                 workerVars, hookVars, gateVars, histVars>>

-----------------------------------------------------------------------------
(* The gate run: _run_auto_merge_retry and enqueue_or_bump.                *)

GateGoto(g, label, r) ==
  /\ gateSt'  = [gateSt EXCEPT ![g] = label]
  /\ gateRow' = [gateRow EXCEPT ![g] = r]

\* The analysis scored the head of an open pull request above the threshold
\* and the verifier did not object.
GateStart(g, p) ==
  /\ gateSt[g] = "idle" /\ Open(p)
  /\ gateCommit' = [gateCommit EXCEPT ![g] = <<p, head[p]>>]
  /\ verified' = verified \cup {<<p, head[p]>>}
  /\ GateGoto(g, "merge", NoRow)
  /\ UNCHANGED <<head, mergedAs, mergedBy, rowVars, workerVars, hookVars, histVars, left>>

\* It merges the analyzed commit; or it ends without a merge (drift, auto-
\* merge handed to GitHub, terminal failure); or the reason is one to wait
\* for, and it goes on to enqueue.
GateMerge(g) ==
  /\ gateSt[g] = "merge"
  /\ \/ MergeAt(gateCommit[g]) /\ GateGoto(g, "done", NoRow)
     \/ \E label \in {"done", "lookup"} : GateGoto(g, label, NoRow) /\ UNCHANGED githubVars
  /\ UNCHANGED <<rowVars, workerVars, hookVars, gateCommit, histVars, left>>

PendingFor(c) == {r \in Rows : Pending(r) /\ commit[r] = c}

EnqueueLookup(g) ==
  /\ gateSt[g] = "lookup"
  /\ \/ \E r \in PendingFor(gateCommit[g]) : GateGoto(g, "bump", r)
     \/ PendingFor(gateCommit[g]) = {} /\ GateGoto(g, "insert", NoRow)
  /\ UNCHANGED <<githubVars, rowVars, workerVars, hookVars, gateCommit, histVars, left>>

SlipEnqueueNoIndex(g) ==   \* without the partial unique index
  /\ gateSt[g] = "insert"
  /\ \E r \in Rows :
       /\ status[r] = "absent"
       /\ status' = [status EXCEPT ![r] = "pending"]
       /\ commit' = [commit EXCEPT ![r] = gateCommit[g]]
  /\ GateGoto(g, "done", NoRow)
  /\ UNCHANGED <<githubVars, attempts, token, claimed, due,
                 workerVars, hookVars, gateCommit, histVars, left>>

SlipEnqueueObserved(g) ==   \* the head of the moment, not the analyzed commit
  /\ gateSt[g] = "insert"
  /\ \E r \in Rows :
       /\ status[r] = "absent"
       /\ status' = [status EXCEPT ![r] = "pending"]
       /\ commit' = [commit EXCEPT ![r] = <<gateCommit[g][1], head[gateCommit[g][1]]>>]
  /\ GateGoto(g, "done", NoRow)
  /\ UNCHANGED <<githubVars, attempts, token, claimed, due,
                 workerVars, hookVars, gateCommit, histVars, left>>

\* The INSERT; the partial unique index refuses a second pending row for the
\* commit, and the winner is looked up instead.
EnqueueInsert(g) ==
  /\ gateSt[g] = "insert"
  /\ PendingFor(gateCommit[g]) = {}
  /\ \E r \in Rows :
       /\ status[r] = "absent"
       /\ status' = [status EXCEPT ![r] = "pending"]
       /\ commit' = [commit EXCEPT ![r] = gateCommit[g]]
  /\ GateGoto(g, "done", NoRow)
  /\ UNCHANGED <<githubVars, attempts, token, claimed, due,
                 workerVars, hookVars, gateCommit, histVars, left>>

EnqueueConflict(g) ==
  /\ gateSt[g] = "insert"
  /\ PendingFor(gateCommit[g]) # {}
  /\ GateGoto(g, "recover", NoRow)
  /\ UNCHANGED <<githubVars, rowVars, workerVars, hookVars, gateCommit, histVars, left>>

\* The winner may have been settled since: then the error is raised again.
EnqueueRecover(g) ==
  /\ gateSt[g] = "recover"
  /\ \/ \E r \in PendingFor(gateCommit[g]) : GateGoto(g, "bump", r)
     \/ PendingFor(gateCommit[g]) = {} /\ GateGoto(g, "done", NoRow)
  /\ UNCHANGED <<githubVars, rowVars, workerVars, hookVars, gateCommit, histVars, left>>

\* next_retry_at is moved on the row that was read, by primary key.
EnqueueBump(g) ==
  /\ gateSt[g] = "bump"
  /\ due' = [due EXCEPT ![gateRow[g]] = IF status[gateRow[g]] = "deleted" THEN @ ELSE FALSE]
  /\ GateGoto(g, "done", NoRow)
  /\ UNCHANGED <<githubVars, status, commit, attempts, token, claimed,
                 workerVars, hookVars, gateCommit, histVars, left>>

-----------------------------------------------------------------------------
WorkerStep(w) ==
  \/ \E r \in Rows : LoadRow(w, r) \/ RowGone(w, r)
  \/ Preflight(w) \/ GetPr(w) \/ PutMerge(w) \/ Record(w) \/ WriteBack(w)

GateStep(g) ==
  \/ GateMerge(g) \/ EnqueueLookup(g) \/ EnqueueInsert(g) \/ EnqueueConflict(g)
  \/ EnqueueRecover(g) \/ EnqueueBump(g)

Next ==
  \/ \E w \in Workers :
       \/ Sweep(w) \/ WorkerStep(w) \/ RowError(w) \/ Crash(w)
       \/ \E s \in Shas : Trigger(w, s)
  \/ \E r \in Rows : ComesDue(r) \/ GoesStale(r) \/ Purge(r)
  \/ \E h \in Hooks :
       \/ SyncSelect(h) \/ SyncUpdate(h) \/ SyncFails(h)
       \/ \E p \in PRs, s \in Shas : Push(h, p, s)
  \/ \E p \in PRs : OutsideMerge(p)
  \/ RepoRemoved
  \/ \E g \in Gates : GateStep(g) \/ \E p \in PRs : GateStart(g, p)

Spec == Init /\ [][Next]_vars

\* The scheduler loop sweeps once a minute as long as the process lives, a
\* run that has started goes on, and time passes.
Fairness ==
  /\ \A w \in Workers : WF_vars(WorkerStep(w))
  /\ WF_vars(\E w \in Workers : Sweep(w))
  /\ \A r \in Rows : WF_vars(ComesDue(r)) /\ WF_vars(HeldBy(r) = {} /\ GoesStale(r))

FairSpec == Spec /\ Fairness
-----------------------------------------------------------------------------
(* What must hold of the queue.                                            *)

Busy == {"start", "get", "put", "record", "write"}

GithubOK ==
  /\ head \in [PRs -> Shas]
  /\ mergedAs \in [PRs -> Shas \cup {NoSha}]
  /\ mergedBy \in [PRs -> {"none", "bot", "outside"}]
  /\ verified \subseteq Commits

TableOK ==
  /\ status \in [Rows -> {"absent", "pending", "deleted"} \cup Terminal]
  /\ commit \in [Rows -> Commits \cup {NoCommit}]
  /\ attempts \in [Rows -> Nat]
  /\ token \in [Rows -> Workers \cup {Free}]
  /\ claimed \in [Rows -> {"none", "fresh", "stale"}]
  /\ due \in [Rows -> BOOLEAN]

\* A busy worker has a current row from its batch, one about to write knows
\* what, and an idle one has nothing left to do.
WorkersOK ==
  /\ pc \in [Workers -> {"idle", "next"} \cup Busy]
  /\ batch \in [Workers -> SUBSET Rows]
  /\ cur \in [Workers -> Rows \cup {NoRow}]
  /\ view \in [Workers -> Nat]
  /\ intent \in [Workers -> {"none", "release"} \cup Terminal]
  /\ \A w \in Workers :
       /\ pc[w] \in Busy => cur[w] \in batch[w]
       /\ pc[w] \in {"record", "write"} => intent[w] # "none"
       /\ pc[w] = "idle" => batch[w] = {}

HooksOK ==
  /\ hookSt \in [Hooks -> {"idle", "sent", "loaded", "done"}]
  /\ hookCommit \in [Hooks -> Commits \cup {NoCommit}]
  /\ hookRows \in [Hooks -> SUBSET Rows]
  /\ hookClaimed \in [Hooks -> SUBSET Rows]
  /\ \A h \in Hooks : hookClaimed[h] \subseteq hookRows[h]

GatesOK ==
  /\ gateSt \in [Gates -> {"idle", "merge", "lookup", "insert", "recover", "bump", "done"}]
  /\ gateCommit \in [Gates -> Commits \cup {NoCommit}]
  /\ gateRow \in [Gates -> Rows \cup {NoRow}]

HistoryOK ==
  /\ logged \in [Rows -> SUBSET {"success", "failure"}]
  /\ puts \in [Rows -> Nat]
  /\ landed \subseteq Rows
  /\ left \in [Faults -> Nat]

\* The columns of models/merge_retry.py and the locals of the handlers that
\* process them keep their types and the shape of WorkersOK.
TypeOK == GithubOK /\ TableOK /\ WorkersOK /\ HooksOK /\ GatesOK /\ HistoryOK

\* A commit of a pull request has at most one pending row, whatever gate runs
\* enqueue it at the same time (the recovery in enqueue_or_bump).
OnePendingPerCommit ==
  \A q, r \in Rows : Pending(q) /\ Pending(r) /\ commit[q] = commit[r] => q = r

\* A commit the bot merged had passed the gate, although the worker merges
\* long after the gate ran and without running it again (the SHA-bound
\* invariant of _process_single_retry).
MergedShaVerified ==
  \A p \in PRs : mergedBy[p] = "bot" => <<p, mergedAs[p]>> \in verified

\* A row that was settled never waits again, although the release of a claim
\* and the abandoning of a row may overtake each other (merge_retry.py:6-10).
NoRevival ==
  [][\A r \in Rows : status[r] \in Terminal => status'[r] \in Terminal \cup {"deleted"}]_vars

\* A row ends succeeded only when its pull request really is merged, whichever
\* of the racing workers wrote the result.
SucceededMeansMerged ==
  \A r \in Rows : status[r] = "succeeded" => ~Open(PrOf(r))

\* A row causes at most max_attempts - 1 merge calls, over all the workers
\* that ever claimed it, takeovers and released errors included
\* (_preflight_retry: "N-1").
AttemptBudget ==
  \A r \in Rows : puts[r] = 0 \/ puts[r] < MaxAttempts

\* While no batch outlives the stale cutoff, no row is in the hands of two
\* workers (claimed_at: "prevents duplicate execution").
InFlightExclusive ==
  \A v, w \in Workers : v # w => batch[v] \cap batch[w] = {}

\* A row that a worker stopped has its MergeAttempt, as long as the insert did
\* not fail: the record is written first, so that the purge of the queue does
\* not lose the outcome (_preflight_retry, _record_merged, _record_retry_stop).
OutcomeMirrored ==
  \A r \in Rows :
    /\ status[r] = "succeeded" => "success" \in logged[r]
    /\ status[r] \in {"failed_terminal", "expired"} => "failure" \in logged[r]

\* The retry path implements the abstract merge path.
Abs == INSTANCE ShaBoundMerge
         WITH head <- head, mergedAs <- mergedAs, mergedBy <- mergedBy, verified <- verified
ImplementsShaBoundMerge == Abs!Spec

\* Every row that waits is settled in the end, whatever worker dies on it:
\* the stale cutoff frees it and the attempts cap ends it.
EventuallySettled ==
  \A r \in Rows : Pending(r) ~> ~Pending(r)

-----------------------------------------------------------------------------
(* What the comments of the code say, and the code does not keep.          *)

\* "a late write-back of this worker becomes a no-op once another worker has
\* taken the row over" (services/merge_retry_service.py:258-259).
LateWriteBackIsNoOp ==
  [][\A w \in Workers : WriteBack(w) => token[cur[w]] \in {w, Free}]_vars

\* "a genuine terminal failure -> failed_terminal"
\* (services/merge_retry_service.py:500): the row whose own merge call merged
\* the pull request does not end as a terminal failure.
LandedNeverFails ==
  \A r \in landed : status[r] # "failed_terminal"

\* "abandon old-SHA pending rows" (repositories/merge_retry_repo.py:529): a
\* synchronize delivery does not give up the row of the current head.
SyncAbandonsOldCommits ==
  [][\A h \in Hooks : SyncUpdate(h) =>
       \A r \in hookRows[h] : Pending(r) => ShaOf(r) # head[PrOf(r)]]_vars

\* "even if claim release fails, keep the batch going"
\* (services/merge_retry_service.py:235-236): one row does not end a batch
\* that has others.
RowNeverEndsBatch ==
  [][\A w \in Workers : pc[w] # "idle" /\ pc'[w] = "idle" => batch[w] = {cur[w]}]_vars

=============================================================================
