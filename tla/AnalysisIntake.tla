--------------------------- MODULE AnalysisIntake ---------------------------
(***************************************************************************)
(* How a commit is analysed once.  push and pull_request deliveries of the *)
(* same commit, in any number of processes, wait for a pipeline slot, look *)
(* the commit up, leave a breadcrumb, analyse, save and gate it            *)
(* (worker/pipeline.py); a pre-push hook may store a result without static *)
(* analysis, which a delivery supersedes (api/hook.py); a sweep reports    *)
(* and deletes the breadcrumbs that stay (services/cron_service.py).       *)
(* Every database access is a step of its own: what a delivery has read of *)
(* a row may be stale when it writes.                                      *)
(***************************************************************************)
EXTENDS Integers, FiniteSets, Sequences, SequencesExt

CONSTANTS
  Commits,      \* commit SHAs of one repository
  PRs,          \* pull requests; several may have the same head commit
  Deliveries,   \* webhook deliveries and hook requests, numbered as they arrive
  Limit,        \* PIPELINE_MAX_CONCURRENCY
  MaxFaults,    \* how many faults a behaviour has
  NoPr, NoOne

Faults == {"lose",      \* a task dies (restart, exception in its body)
           "crumb",     \* a breadcrumb write fails, and is swallowed
           "database",  \* the write of pr_number fails, and is rolled back
           "remove"}    \* the repository is removed, with everything of it

ASSUME LimitAssumption == Limit \in Nat \ {0}
ASSUME FaultsAssumption == MaxFaults \in Nat
ASSUME DeliveriesAssumption == Deliveries \subseteq Nat /\ IsFiniteSet(Deliveries)
ASSUME NullAssumption == NoPr \notin PRs /\ NoOne \notin Deliveries

VARIABLES
  \* the database: does the repository exist, the analysis of each commit, and
  \* its breadcrumb (the delivery that wrote it)
  repo, row, crumb,
  \* deliveries: program counter, event, what it read of the row, and how it
  \* came to the analysis it goes on with
  pc, event, commit, pr, seen, via,
  \* ids of a removed repository that a delivery still goes by: "row" to save
  \* under, "crumb" to leave and delete its breadcrumb under
  outdated,
  \* pipeline slots that are free
  permits,
  \* the sweep: the orphans it has reported and not yet deleted
  orphans,
  \* the commits and pull requests without changed files
  empty,
  \* history: gate runs, deliveries that notified, orphans reported, faults
  gates, notified, reported, faults

dbVars   == <<repo, row, crumb>>
jobVars  == <<event, commit, pr, empty>>
locals   == <<seen, via>>
histVars == <<gates, notified, reported>>
vars == <<dbVars, pc, jobVars, locals, outdated, permits, orphans, histVars, faults>>

\* An analysis row: who inserted it (its id), whose result it holds, whether
\* that is a hook result (source = "cli") or a full analysis, and pr_number.
NoRow == [id |-> NoOne, by |-> NoOne, kind |-> "none", pr |-> NoPr]

Waits == {"none", "queued"}
Body == {"ensure", "begin", "analyze", "insert", "supersede", "recover",
         "regate", "gate", "finish", "notify"}
Hook == {"hookRead", "hookInsert"}
Over == {"done", "lostEarly", "lost"}

Init ==
  /\ repo = TRUE
  /\ row = [c \in Commits |-> NoRow]
  /\ crumb = [c \in Commits |-> NoOne]
  /\ pc = [d \in Deliveries |-> "none"]
  /\ event = [d \in Deliveries |-> "push"]
  /\ commit \in [Deliveries -> Commits]
  /\ pr = [d \in Deliveries |-> NoPr]
  /\ seen = [d \in Deliveries |-> NoRow]
  /\ via = [d \in Deliveries |-> "none"]
  /\ outdated = {}
  /\ permits = Limit
  /\ orphans = {}
  /\ empty \in SUBSET (Commits \cup PRs)
  /\ gates = {} /\ notified = {} /\ reported = {}
  /\ faults = <<>>

Fault(f) == Len(faults) < MaxFaults /\ faults' = Append(faults, f)
Happened(f) == Contains(faults, f)
Goto(d, l) == pc' = [pc EXCEPT ![d] = l]
Row(d) == row[commit[d]]
InProgress(d) == pc[d] \in Body \cup {"queued"}
Outdated(d, id) == <<d, id>> \in outdated

\* The end of the body gives the slot back, whatever ended it, and the locals
\* of the task go with it.
Forget(d) == seen' = [seen EXCEPT ![d] = NoRow] /\ via' = [via EXCEPT ![d] = "none"]
SlipEnd(d) == Goto(d, "done") /\ Forget(d) /\ UNCHANGED permits
End(d) == Goto(d, "done") /\ Forget(d) /\ permits' = permits + 1

-----------------------------------------------------------------------------
(* Arrival and slots                                                       *)

\* A push or pull_request event: the body starts at once when a slot is free
\* and nobody waits, and otherwise the delivery queues.
Queue == {e \in Deliveries : pc[e] = "queued"}
SlotTaken(d) ==
  IF permits > 0 /\ Queue = {}
  THEN Goto(d, "ensure") /\ permits' = permits - 1
  ELSE Goto(d, "queued") /\ UNCHANGED permits

Arrives(d) == pc[d] = "none" /\ \A e \in Deliveries : e < d => pc[e] # "none"

ArrivePush(d) ==
  /\ Arrives(d)
  /\ SlotTaken(d)
  /\ UNCHANGED <<dbVars, jobVars, locals, orphans, histVars, faults, outdated>>

ArrivePullRequest(d) ==
  /\ Arrives(d)
  /\ SlotTaken(d)
  /\ event' = [event EXCEPT ![d] = "pull_request"]
  /\ \E p \in PRs : pr' = [pr EXCEPT ![d] = p]
  /\ UNCHANGED <<dbVars, commit, empty, locals, orphans, histVars, faults, outdated>>

\* First come, first served: deliveries have the order in which they arrived.
Dequeue(d) ==
  /\ permits > 0 /\ d \in Queue /\ \A e \in Queue : d <= e
  /\ Goto(d, "ensure")
  /\ permits' = permits - 1
  /\ UNCHANGED <<dbVars, jobVars, locals, orphans, histVars, faults, outdated>>

\* The hook endpoint runs in a thread of its own, without a slot.
ArriveHook(d) ==
  /\ Arrives(d)
  /\ Goto(d, "hookRead")
  /\ event' = [event EXCEPT ![d] = "cli"]
  /\ UNCHANGED <<dbVars, commit, pr, empty, locals, permits, orphans, histVars, faults, outdated>>

-----------------------------------------------------------------------------
(* The pre-push hook: save_hook_result                                     *)

HookRead(d) ==
  /\ pc[d] = "hookRead"
  /\ Goto(d, IF repo /\ Row(d).kind = "none" THEN "hookInsert" ELSE "done")
  /\ UNCHANGED <<dbVars, jobVars, locals, permits, orphans, histVars, faults, outdated>>

\* save_new: the unique constraint on (repo_id, commit_sha) turns a second
\* insert into a duplicate.
HookInsert(d) ==
  /\ pc[d] = "hookInsert"
  /\ row' = IF ~Outdated(d, "row") /\ Row(d).kind = "none"
            THEN [row EXCEPT ![commit[d]] = [id |-> d, by |-> d, kind |-> "cli", pr |-> NoPr]]
            ELSE row
  /\ Goto(d, "done")
  /\ UNCHANGED <<repo, crumb, jobVars, locals, permits, orphans, histVars, faults, outdated>>

-----------------------------------------------------------------------------
(* The body: dedup, breadcrumb, analysis                                   *)

\* A hook result does not count as an analysis (_is_cli_only).
SlipUnanalyzed(r) == r.kind = "none"
Unanalyzed(r) == r.kind # "full"

\* _ensure_repo: a missing repository is created.  The row read here is what
\* _regate_pr_if_needed goes by: its own query returns the object the session
\* already holds.
EnsureRepo(d) ==
  /\ pc[d] = "ensure"
  /\ repo' = TRUE
  /\ \/ /\ Unanalyzed(Row(d))
        /\ Goto(d, "begin")
        /\ UNCHANGED <<locals, permits>>
     \/ /\ ~Unanalyzed(Row(d)) /\ event[d] = "pull_request"
        /\ Goto(d, "regate")
        /\ seen' = [seen EXCEPT ![d] = Row(d)]
        /\ UNCHANGED <<via, permits>>
     \/ /\ ~Unanalyzed(Row(d)) /\ event[d] = "push"
        /\ End(d)
  /\ UNCHANGED <<row, crumb, jobVars, orphans, histVars, faults, outdated>>

\* _begin_attempt: the first delivery of a commit writes the breadcrumb; a
\* write that fails is logged and forgotten.
Begin(d) ==
  /\ pc[d] = "begin"
  /\ \/ /\ crumb' = [crumb EXCEPT ![commit[d]] = IF @ = NoOne /\ ~Outdated(d, "crumb")
                                             THEN d ELSE @]
        /\ UNCHANGED faults
     \/ Fault("crumb") /\ UNCHANGED crumb
  /\ Goto(d, "analyze")
  /\ UNCHANGED <<repo, row, jobVars, locals, permits, orphans, histVars, outdated>>

\* _collect_files takes the files of the pull request, or those of the commit.
Changed(d) == (IF event[d] = "pull_request" THEN pr[d] ELSE commit[d]) \notin empty

\* No changed files (a push of an empty commit): a normal end.
NoChangedFiles(d) ==
  /\ pc[d] = "analyze" /\ ~Changed(d)
  /\ Goto(d, "finish")
  /\ UNCHANGED <<dbVars, jobVars, locals, permits, orphans, histVars, faults, outdated>>

-----------------------------------------------------------------------------
(* Save and gate                                                           *)

\* The files are fetched, analysed and reviewed, and nothing is written until
\* _save_and_gate looks the commit up again: somebody may have saved it during
\* the minutes of the analysis, or removed the repository, or removed it and
\* added it anew.
Save(d) ==
  /\ pc[d] = "analyze" /\ Changed(d)
  /\ seen' = [seen EXCEPT ![d] = Row(d)]
  /\ outdated' = outdated \ {<<d, "row">>}
  /\ Goto(d, IF ~repo THEN "finish" ELSE IF Unanalyzed(Row(d)) THEN "insert" ELSE "recover")
  /\ UNCHANGED <<dbVars, jobVars, via, permits, orphans, histVars, faults>>

\* d holds the analysis that counts: gate it if this is a pull request.
Own(d) ==
  /\ via' = [via EXCEPT ![d] = "own"]
  /\ Goto(d, IF event[d] = "pull_request" THEN "gate" ELSE "finish")

\* save_new inserts, or returns the row that the unique constraint protects: a
\* hook result is superseded, a full one is somebody else's.
InsertNew(d) ==
  /\ pc[d] = "insert" /\ ~Outdated(d, "row") /\ Row(d).kind = "none"
  /\ row' = [row EXCEPT ![commit[d]] = [id |-> d, by |-> d, kind |-> "full", pr |-> pr[d]]]
  /\ Own(d)
  /\ UNCHANGED <<repo, crumb, jobVars, seen, permits, orphans, histVars, faults, outdated>>

SlipInsertConflict(d) ==
  /\ pc[d] = "insert" /\ ~Outdated(d, "row") /\ Row(d).kind # "none"
  /\ seen' = [seen EXCEPT ![d] = Row(d)]
  /\ IF Row(d).kind = "cli" THEN Goto(d, "supersede") /\ UNCHANGED via ELSE Own(d)
  /\ UNCHANGED <<dbVars, jobVars, permits, orphans, histVars, faults, outdated>>
InsertConflict(d) ==
  /\ pc[d] = "insert" /\ ~Outdated(d, "row") /\ Row(d).kind # "none"
  /\ seen' = [seen EXCEPT ![d] = Row(d)]
  /\ Goto(d, IF Row(d).kind = "cli" THEN "supersede" ELSE "recover")
  /\ UNCHANGED <<dbVars, jobVars, via, permits, orphans, histVars, faults, outdated>>

\* The repository went away: the foreign key fails, no row is found, and the
\* exception ends the body at its terminal except.
InsertOrphan(d) ==
  /\ pc[d] = "insert" /\ Outdated(d, "row")
  /\ End(d)
  /\ UNCHANGED <<dbVars, jobVars, orphans, histVars, faults, outdated>>

\* _claim_and_supersede_cli: the locked row is read afresh, and replaced in
\* place only if it still is a hook result.
SlipSupersedable(d) == Row(d).id = seen[d].id /\ seen[d].kind = "cli"
Supersedable(d) == Row(d).id = seen[d].id /\ Row(d).kind = "cli"

Superseded(d) ==
  [Row(d) EXCEPT !.kind = "full", !.by = d, !.pr = IF pr[d] = NoPr THEN @ ELSE pr[d]]
Supersede(d) ==
  /\ pc[d] = "supersede"
  /\ \/ /\ Supersedable(d)
        /\ row' = [row EXCEPT ![commit[d]] = Superseded(d)]
        /\ Own(d)
        /\ UNCHANGED seen
     \/ /\ ~Supersedable(d)
        /\ seen' = [seen EXCEPT ![d] = IF Outdated(d, "row") THEN NoRow ELSE Row(d)]
        /\ Goto(d, "recover")
        /\ UNCHANGED <<row, via>>
  /\ UNCHANGED <<repo, crumb, jobVars, permits, orphans, histVars, faults, outdated>>

\* pr_number is written by primary key; the update of a row that is gone, or
\* a database error, rolls back.
WritePr(d) ==
  /\ Row(d).id = seen[d].id
  /\ row' = [row EXCEPT ![commit[d]].pr = pr[d]]
  /\ UNCHANGED faults
WritePrFails(d) ==
  /\ IF Row(d).id = seen[d].id THEN Fault("database") ELSE UNCHANGED faults
  /\ UNCHANGED row

\* A full analysis of the commit without a gate run yet: the pull request gets
\* one from this delivery.
SlipAdoptable(d) == FALSE
Adoptable(d) == event[d] = "pull_request" /\ seen[d].kind # "none" /\ seen[d].pr = NoPr

\* _race_recover_existing: another delivery saved the commit first.
Recover(d) ==
  /\ pc[d] = "recover"
  /\ \/ ~Adoptable(d) /\ Goto(d, "finish") /\ UNCHANGED <<row, via, faults>>
     \/ /\ Adoptable(d)
        /\ WritePr(d)
        /\ via' = [via EXCEPT ![d] = "recovered"]
        /\ Goto(d, "gate")
     \/ Adoptable(d) /\ WritePrFails(d) /\ Goto(d, "finish") /\ UNCHANGED via
  /\ UNCHANGED <<repo, crumb, jobVars, seen, permits, orphans, histVars, outdated>>

\* _regate_pr_if_needed: the commit was analysed on push, and now belongs to a
\* pull request: no analysis, only the gate.
Regate(d) ==
  /\ pc[d] = "regate"
  /\ \/ ~Adoptable(d) /\ End(d) /\ UNCHANGED <<row, faults>>
     \/ /\ Adoptable(d)
        /\ WritePr(d)
        /\ via' = [via EXCEPT ![d] = "regated"]
        /\ Goto(d, "gate")
        /\ UNCHANGED <<seen, permits>>
     \/ Adoptable(d) /\ WritePrFails(d) /\ End(d)
  /\ UNCHANGED <<repo, crumb, jobVars, orphans, histVars, outdated>>

\* run_gate_check on the result in hand, or on that of the row, which is read
\* again after the commit; its exceptions are swallowed.
Gate(d) ==
  /\ pc[d] = "gate"
  /\ gates' = CASE via[d] = "own" -> gates \cup {<<d, "full">>}
                [] via[d] # "own" /\ Row(d).id = seen[d].id -> gates \cup {<<d, Row(d).kind>>}
                [] OTHER -> gates
  /\ \/ via[d] = "regated" /\ End(d)
     \/ via[d] # "regated" /\ Goto(d, "finish") /\ UNCHANGED <<locals, permits>>
  /\ UNCHANGED <<dbVars, jobVars, orphans, notified, reported, faults, outdated>>

\* _finish_attempt deletes the breadcrumb of the commit, whoever wrote it.
Finish(d) ==
  /\ pc[d] = "finish"
  /\ \/ /\ crumb' = [crumb EXCEPT ![commit[d]] = IF Outdated(d, "crumb") THEN @ ELSE NoOne]
        /\ UNCHANGED faults
     \/ Fault("crumb") /\ UNCHANGED crumb
  /\ \/ via[d] = "own" /\ Goto(d, "notify") /\ UNCHANGED <<locals, permits>>
     \/ via[d] # "own" /\ End(d)
  /\ UNCHANGED <<repo, row, jobVars, orphans, histVars, outdated>>

\* The channels run side by side and fail one by one.
Notify(d) ==
  /\ pc[d] = "notify"
  /\ notified' = notified \cup {d}
  /\ End(d)
  /\ UNCHANGED <<dbVars, jobVars, orphans, gates, reported, faults, outdated>>

-----------------------------------------------------------------------------
(* Faults and the sweep                                                    *)

\* Before or after the breadcrumb was left.
LostAs(d) == IF pc[d] \in {"queued", "ensure", "begin"} THEN "lostEarly" ELSE "lost"
Leave(d) == Goto(d, LostAs(d)) /\ Forget(d)

SlipLose(d) ==
  /\ InProgress(d) /\ Fault("lose")
  /\ Leave(d)
  /\ UNCHANGED <<permits, dbVars, jobVars, orphans, histVars, outdated>>
SlipLoseQueued(d) ==
  /\ InProgress(d) /\ Fault("lose")
  /\ Leave(d)
  /\ permits' = permits + 1
  /\ UNCHANGED <<dbVars, jobVars, orphans, histVars, outdated>>
SlipLoseFinishes(d) ==
  /\ InProgress(d) /\ Fault("lose")
  /\ Leave(d)
  /\ permits' = IF pc[d] \in Body THEN permits + 1 ELSE permits
  /\ crumb' = [crumb EXCEPT ![commit[d]] = NoOne]
  /\ UNCHANGED <<repo, row, jobVars, orphans, histVars, outdated>>

\* The process is stopped, the task cancelled, or an exception reaches the
\* terminal except of the body: no breadcrumb is cleared, the slot is free.
Lose(d) ==
  /\ InProgress(d) /\ Fault("lose")
  /\ Leave(d)
  /\ permits' = IF pc[d] \in Body THEN permits + 1 ELSE permits
  /\ UNCHANGED <<dbVars, jobVars, orphans, histVars, outdated>>

RepoRemoved ==
  /\ repo /\ Fault("remove")
  /\ repo' = FALSE
  /\ row' = [c \in Commits |-> NoRow]
  /\ crumb' = [c \in Commits |-> NoOne]
  /\ outdated' = {d \in Deliveries : pc[d] \in (Body \ {"ensure"}) \cup {"hookInsert"}}
                   \X {"crumb", "row"}
  /\ UNCHANGED <<pc, jobVars, locals, permits, orphans, histVars>>

\* sweep_analysis_attempts: report the breadcrumbs that are 30 minutes old, be
\* their deliveries dead or slow, then delete by id exactly those.
FindOrphans ==
  /\ orphans = {}
  /\ \E old \in SUBSET {c \in Commits : crumb[c] # NoOne} :
       /\ old # {}
       /\ orphans' = {<<c, crumb[c]>> : c \in old}
       /\ reported' = reported \cup old
  /\ UNCHANGED <<dbVars, pc, jobVars, locals, permits, gates, notified, faults, outdated>>

PurgeOrphans ==
  /\ orphans # {}
  /\ crumb' = [c \in Commits |-> IF <<c, crumb[c]>> \in orphans THEN NoOne ELSE crumb[c]]
  /\ orphans' = {}
  /\ UNCHANGED <<repo, row, pc, jobVars, locals, permits, histVars, faults, outdated>>

-----------------------------------------------------------------------------
HookStep(d) == HookRead(d) \/ HookInsert(d)

BodyStep(d) ==
  \/ EnsureRepo(d) \/ Begin(d) \/ NoChangedFiles(d) \/ Save(d)
  \/ InsertNew(d) \/ InsertConflict(d) \/ InsertOrphan(d) \/ Supersede(d)
  \/ Recover(d) \/ Regate(d) \/ Gate(d) \/ Finish(d) \/ Notify(d)

Next ==
  \/ \E d \in Deliveries :
       \/ ArrivePush(d) \/ ArrivePullRequest(d) \/ ArriveHook(d)
       \/ Dequeue(d) \/ HookStep(d) \/ BodyStep(d) \/ Lose(d)
  \/ RepoRemoved \/ FindOrphans \/ PurgeOrphans

Spec == Init /\ [][Next]_vars

\* A task that has started goes on, and a free permit goes to the first of the
\* queue: the event loop runs every ready task.
Fairness == \A d \in Deliveries : WF_vars(BodyStep(d) \/ Dequeue(d))

FairSpec == Spec /\ Fairness

-----------------------------------------------------------------------------
RowRecord == [id : Deliveries \cup {NoOne}, by : Deliveries \cup {NoOne},
              kind : {"none", "cli", "full"}, pr : PRs \cup {NoPr}]

DbOK ==
  /\ repo \in BOOLEAN
  /\ row \in [Commits -> RowRecord]
  /\ crumb \in [Commits -> Deliveries \cup {NoOne}]

JobsOK ==
  /\ pc \in [Deliveries -> Waits \cup Body \cup Hook \cup Over]
  /\ event \in [Deliveries -> {"push", "pull_request", "cli"}]
  /\ commit \in [Deliveries -> Commits]
  /\ empty \subseteq Commits \cup PRs
  /\ pr \in [Deliveries -> PRs \cup {NoPr}]
  /\ seen \in [Deliveries -> RowRecord]
  /\ via \in [Deliveries -> {"none", "own", "recovered", "regated"}]

SlotsOK ==
  /\ outdated \subseteq Deliveries \X {"crumb", "row"}
  /\ permits \in 0..Limit

HistoryOK ==
  /\ orphans \subseteq Commits \X (Deliveries \cup {NoOne})
  /\ gates \subseteq Deliveries \X {"none", "cli", "full"}
  /\ notified \subseteq Deliveries
  /\ reported \subseteq Commits
  /\ faults \in Seq(Faults)

\* The rows, the locals of the handlers and the slots keep their types.
TypeOK == DbOK /\ JobsOK /\ SlotsOK /\ HistoryOK

\* Has the repository stayed (nothing was deleted behind the deliveries)?
Stayed == ~Happened("remove")

\* A gate run, whoever starts it, works on a full analysis and never on the
\* result of a pre-push hook, which ran no static analysis (_is_cli_only).
GatesOnFullResults == \A g \in gates : g[2] = "full"

\* The result of a full analysis, once stored, is not replaced by that of
\* another delivery that analysed the same commit at the same time
\* (_claim_and_supersede_cli, save_new).
FullResultStays ==
  [][\A c \in Commits : row[c].kind = "full" /\ row'[c].id = row[c].id
       => row'[c].kind = "full" /\ row'[c].by = row[c].by]_vars

\* A commit is notified once, however many deliveries analysed it
\* (result_dict = None tells the others to be quiet).
NotifiedOnce ==
  Stayed => \A d, e \in notified : commit[d] = commit[e] => d = e

\* A pull_request delivery ends only when the gate ran, runs or was killed for
\* a pull request with that commit: the dedup never drops the gate.
Gating(e) == e \in {g[1] : g \in gates} \/ pc[e] \in {"gate", "lostEarly", "lost"}
PrNotForgotten ==
  Stayed /\ ~Happened("database") =>
    \A d \in Deliveries :
      pc[d] = "done" /\ event[d] = "pull_request" /\ Changed(d)
        => \E e \in Deliveries : event[e] = "pull_request" /\ commit[e] = commit[d] /\ Gating(e)

\* An analysis that died under a breadcrumb, and whose commit nobody else
\* analysed, can be seen: the breadcrumb is there, or the sweep reported it
\* (models/analysis_attempt.py: a surviving row is the evidence), unless
\* another delivery found no files to analyse in that commit.
Evident(c) == crumb[c] # NoOne \/ c \in reported
Vanished(d) == pc[d] = "lost" /\ Changed(d) /\ Unanalyzed(Row(d))
FoundNothing(c) ==
  \E e \in Deliveries : commit[e] = c /\ pc[e] \in {"done", "lost"} /\ ~Changed(e)
LossIsVisible ==
  Stayed /\ ~Happened("crumb") =>
    \A d \in Deliveries : Vanished(d) => Evident(commit[d]) \/ FoundNothing(commit[d])

\* "This table does not prevent the loss - it makes it detectable"
\* (models/analysis_attempt.py:21): without the exception above.
EveryLossIsVisible ==
  Stayed /\ ~Happened("crumb") =>
    \A d \in Deliveries : Vanished(d) => Evident(commit[d])

\* The permits and the deliveries inside the body add up to the limit, on
\* every way out of the body (_pipeline_slot).
SlotsAccounted ==
  permits + Cardinality({d \in Deliveries : pc[d] \in Body}) = Limit

\* A delivery that was accepted comes to its end, although others wait for the
\* same slots: no slot is lost and nobody waits for itself.
DeliveriesEnd == []<>(\A d \in Deliveries : ~InProgress(d))

=============================================================================
