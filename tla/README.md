# SCAManager: a verification project

SCAManager receives GitHub webhooks, analyses commits and pull requests,
scores them, and acts on the score: it comments, approves or rejects, and
merges. What can really go wrong is in the acting: the merge and the review are
done once on GitHub, by code that runs as webhook handlers, background tasks and
scheduler jobs, in any number of processes, over one database, with an API that
may answer late or not at all. The TLA+ modules in this directory model that
part, TLC checks it on small instances and TLAPS proves the main results for
every instance. Paths are relative to `src/` of the repository.

## Inventory

| Component | State it keeps | Operations | Hard behaviour | What makes it correct | Here |
|---|---|---|---|---|---|
| Merge-retry queue (`repositories/merge_retry_repo.py`, `models/merge_retry.py`) | a row per deferred commit: status, attempts, claim token and time, next retry | enqueue or bump, claim a batch, release, settle, abandon old commits, purge | takeover of stale claims, write-backs of two workers, abandon against release, concurrent enqueues | a commit has one pending row; settled rows stay settled; every row is settled in the end | `MergeRetryQueue` |
| Retry worker (`services/merge_retry_service.py`) | a batch, the row in progress, what it read of it | preflight, read the PR, merge, record, write back, recover | crash in the middle, lost answer, exceptions, rows deleted under it | merges only what passed the gate; bounded merge calls; the outcome is recorded | `MergeRetryQueue` |
| Gate engine (`gate/engine.py`, `gate/actions/`, `gate/github_review.py`, `gate/native_automerge.py`) | none between runs | approve, reject, ask, merge now, arm, or enqueue | the head moves during the analysis; an analysis with gaps scores too high | the merged commit is the analysed one; a score acts only through gaps that are let pass on purpose or go unnoticed | `GateRun`, `MergeAttempts`, `MergeRetryQueue` (partly) |
| Retry decisions (`gate/retry_policy.py`, `gate/merge_reasons.py`) | none | `should_retry`, classification of failures | tag x CI state x age | terminality before age | `RetryPolicy` |
| GitHub webhooks (`webhook/providers/github.py`) | debounce table | synchronize, check_suite, merged, auto-merge disabled | late, lost and reordered deliveries | abandons old commits only | `MergeRetryQueue`, `MergeAttempts`, `AnalysisIntake` (partly) |
| Semi-automatic gate (`webhook/providers/telegram.py`, `repositories/gate_decision_repo.py`) | a decision row with a posting lease | press, claim, post, mark, release | buttons that never expire, double clicks, lost answers, failing database | one verdict; one review unless something failed | `GateDecision` |
| Scheduler and cron (`scheduler.py`, `services/cron_service.py`) | none | sweep every minute, retention, orphan sweep, reports | slow job, dying process | loops forever | fairness, `Sweep`, `Purge`, `FindOrphans`, `PurgeExpired` |
| MergeAttempt lifecycle (`repositories/merge_attempt_repo.py`) | a log row per attempt, state | insert, merged, disabled | webhook before the insert, twice, or never | a row is settled once, and only as what happened | `MergeAttempts` |
| Analysis intake (`worker/pipeline.py`, `repositories/analysis_repo.py`) | an analysis per commit, a breadcrumb, pipeline slots | analyse, regate, supersede, sweep | push, PR and hook results of the same commit; death at any point | one analysis per commit; a pull request gets its gate; a loss is visible; no slot leaks | `AnalysisIntake` |
| Database failover (`database.py`) | active engine | switch, probe | late callers, two switches, a probe that saw something else | a caller gets a session as long as one database answers; the primary comes back | `DatabaseFailover` |
| Limiters (`webhook/loop_guard.py`, OTP in `notifier/telegram_commands.py`) | bounded in-memory maps | allow, record, evict | at the cap; check then record | never more than the limit, nor more keys than the cap | `BotLimiter`, `OtpLimiter` |
| Issue registration (`services/issue_registration_service.py`) | a row per issue | register, show | check, call, insert | the issue of the loser is reported; the winner is named | `IssueRegistration` |
| Insight narrative cache (`repositories/insight_narrative_cache_repo.py`, `services/dashboard_service.py`, `services/repo_insight_service.py`) | a row with a text, its expiry and the last failure | serve, refresh, note a failure, purge | slow page loads, rows born expired, the sweep | no paid call inside the failure window; no stale text | `NarrativeCache` |
| Scorer, merge verifier, sensitive paths (`scorer/`, `gate/merge_verifier.py`, `gate/sensitive_paths.py`) | none | score, veto | boundaries; unanswered guards | 0..100; fail closed | `GateRun` |
| Analysers, AI review | none | analyse a file, review a diff | time-outs, partial results, failures that look like a clean result | gaps are marked, to block or for display; some are not | outcomes only, in `GateRun` |
| Rate limiter, security scan, notifiers, i18n, UI, auth, CLI, MCP, Railway | -- | -- | I/O and wording | -- | not modelled |

The components meet in the database and on GitHub: a webhook starts the
pipeline, the pipeline the gate; the gate merges, asks a person by Telegram, or
enqueues; the scheduler, the cron endpoint and `check_suite` webhooks start
retry workers; `synchronize` webhooks abandon rows behind the workers' backs, and
the webhooks of a merge settle what a merge run recorded.

## Modules

`RetryPolicy` holds the pure decisions: the reason tags of a failed merge, the
CI states, `ShouldRetry`, and how a failure of the worker ends
(`FailureOutcome`).

`ShaBoundMerge` is the abstract specification: pull requests with a head, the
set of commits that passed the gate, and a merge by the bot only of a head that
is in that set, once.

`MergeRetryQueue` is the retry path in full. Its unit of atomicity is one
database transaction, statement or API call, since another session may run
between any two:

* The **table**: `status`, `commit`, `attempts`, `token`, `claimed`, `due` are
  the columns; `claimed` abstracts `claimed_at` to none / fresh / stale (older than
  300 s), `due` abstracts `next_retry_at <= now`. `ComesDue` and `GoesStale` are
  time passing.
* A **worker** is one run of `process_pending_retries`. `pc` is where it is:
  `start` (`_preflight_retry`), `get` (`_get_pr_data`, `_settle_before_merge`),
  `put` (`merge_pr`), `record` (`log_merge_attempt` and the SELECT of
  `_mark_status` or `release_claim`), `write` (their UPDATE), `next` (before the
  next row is read). The token of a batch is a fresh UUID; a worker has one batch
  at a time, so its name stands for the token. The columns of the first row are
  those `claim_batch` refreshed; the later rows are read again when their turn
  comes (`LoadRow`), as the commits in between expire the session. The subset in
  `Sweep` and `Trigger` stands for the LIMIT, for rows another claim has locked
  (SKIP LOCKED), and for rows that came due after `now` was taken. A
  check_suite event that the debounce drops is a `Trigger` that does not happen.
* **Write-backs** check the token in the SELECT and update by primary key, so
  `Record` and `WriteBack` are two steps. `RowError` is an exception before the
  write-back is committed, `RowGone` a row deleted under the worker, `Crash` a
  worker that dies or is cancelled.
* A **gate run** starts (`GateStart`) when an analysis of the head passed every
  guard (score, sensitive paths, verifier); that commit is `verified` from then
  on. It merges (`GateMerge`), ends, or enqueues: lookup, INSERT, conflict with
  the partial unique index, second lookup, bump.
* A **synchronize delivery** is sent by `Push` and may arrive at any later time
  or never: `SyncSelect` (the SELECT), then `SyncUpdate` (the UPDATE, which clears
  the claim only where the SELECT had seen one) or `SyncFails` (a row is gone, and
  the transaction rolls back).
* `OutsideMerge` is a merge by a person, or by GitHub after native auto-merge was
  enabled. `Purge` and `RepoRemoved` delete rows.
* History variables: `logged` (MergeAttempt rows), `puts` (merge calls),
  `landed` (rows whose own call merged), `left` (the remaining fault budget).

`GateDecision` is one analysis whose approval was asked for with buttons: the
row of `gate_decisions` (`decision`, `state`, `lease` for `post_claimed_at`) and
any number of presses, each a background task going through `claim_decision`,
`claim_post_attempt` (or the notice that it is a replay), the head check, the
post, `mark_posted`, and the automatic merge; `failed` and `failedAfter` are the
except clauses, before and after the review was posted. Analyses share
nothing, so one is enough. `mark_posted` and `release_post_claim` read and then
write, and are one step: an event between the two makes no difference, as both
write constants and a posted row stays posted.

`AnalysisIntake` is the way of a commit to its analysis and its gate. A delivery
(`push`, `pull_request`, or the result of a pre-push hook) waits for a slot
(`Queue`, `Dequeue`), and then goes through the stages of `_run_pipeline_body`: `ensure`
(repository and dedup), `begin` (the breadcrumb), `analyze`, `insert` or `supersede`
(the save under the unique key, or over a hook result under the row lock),
`recover` (the conflict), `regate` (a commit analysed on push that turns out to be a
pull request), `gate`, `finish` (the breadcrumb goes), `notify`. `seen` is what the
delivery read of the row, which another one may have changed since; `via` is how
it came by the analysis it goes on with (its own, recovered from a rival, or
regated). A row carries
the delivery that inserted it as its id, the one whose result it holds, its kind
(hook result or full) and its pull request. The hook endpoint reads and inserts
(`hookRead`, `hookInsert`), the sweep reads, reports and then deletes the orphans
(`FindOrphans`, `PurgeOrphans`). Faults are a death at any point (`Lose`, with the
clean-up the code does on the way out), a breadcrumb that fails to be written, a
failed write of `pr_number`, and the removal of the repository, after which a
delivery may still go by the ids it read before: `outdated` says which, for the
repository a save goes under (`row`) and for the one its breadcrumb names (`crumb`).
A later delivery registers the repository again, with another id, so a save under
the old one fails and a breadcrumb of the new one stays out of reach.

`GateRun` goes from the changed files to what the bot does. Static analysis takes
one file at a time and may never return from a tool; the deadline ends it; the
review runs beside it. `actual`, `deserved` and `touches` are what is really there,
next to what was found (`seen`, `review`), so that a property can compare the score
with the one a complete analysis would have given. `CalculateScore` is the formula of
`calculate_score` with its penalties, caps and rounding. The two gate actions run
side by side, as in `gather`, each behind the same three marks.

A gap in the analysis (`outcome`) is of one of three kinds, as in the code:

| What became of a file or of the review | Stops the gate | Kept out of the averages | Source |
|---|---|---|---|
| `cut_short` (a tool timed out, raised, or is missing although provisioned), `not_fetched`, every file `raised`, the deadline | yes | yes | `_run_static_with_timeout`, `analyze_file` |
| review failed | yes | yes | `gate/_common.py`, `scorer/reliability.py` |
| review of part of the diff | yes | no | the guards of both actions |
| `uncovered` (no analyser for the language, or only ones never provisioned), `generic_only` (no dedicated observer) | no | yes | `analyzer/io/static.py:203-218, 287-300`, `scorer/reliability.py` |
| review not asked for: 44 points by default | no | yes | `gate/_common.py`, `scorer/reliability.py` |
| `unnoticed` (an adapter in `KNOWN_FAIL_OPEN` returns `[]` for its own failure, text does not decode, tools switched off), one of several files `raised` (Q2=A) | no | no | `tests/unit/analyzer/test_adapter_fail_open_inventory.py`, `github_client/diff.py:67-71`, `pipeline.py` |
| result of the pre-push hook (`SaveHookResult`) | no gate runs on it | yes | `api/hook.py` |

So a score that is too high because code was not analysed, or that nobody reviewed,
can approve and merge, through the gaps of the fourth to the sixth row; `OnlyToleratedGapsAct` says that it
does so through no other, and `OnlyUnnoticedGapsAverage` that the averages are exposed
to those of the sixth alone (and to reviews of part of a diff). Removing any
single disjunct of `LeavesGaps`, or the check for `uncovered` or `generic_only` from
`Unreliable`, breaks one of the two. The checks for the hook's source and for
default points are covered by others in every result the code makes today (the
hook also marks its result incomplete; defaults come with a status that is itself
excluded or with a failed review), so removing one alone of such a pair breaks
neither property.

`MergeAttempts` takes over where a run may merge: it merges, arms GitHub's
auto-merge or fails, and then inserts a row; `merged`, `closed` and
`auto_merge_disabled` webhooks pick the latest row and settle it in another step,
if it waits then. Webhooks are sent by what happens on GitHub and are delivered in
any order, twice, or never (`noise`).

`IssueRegistration` is one issue of one analysis: the requests that check, call
GitHub and insert; the page that shows it and refreshes its state after a TTL; the
removal of the repository.

`SlidingWindows` is what the two limiters share: what `popleft` takes from a deque
(`Expired`) and the keys that go first when the table is full (`First`). `BotLimiter`
is one action, since `allow` holds its lock throughout; the order of the keys of its
dict is the relation `insertedBefore`. `OtpLimiter` has one action per locked region,
since commands pass the check side by side; the check itself prunes the deque, of a
command that it blocks too. `passed` and `guesses` are histories that the eviction of a
key cuts, as it cuts what the code can remember.

`NarrativeCache` is one cache row and the page loads that read and write it. A
clock of ticks drives the two TTLs; a tick is the longest a page load takes, its
deadline. Cache reads compare with the time a load came in (`asked`).

`DatabaseFailover` is the session factory: callers that saw the primary fail,
the switch under the lock, the probe that switches back. Servers go and come as
they like.

`MCCompanions` puts the parts that share no state side by side. Its variable
`focus` picks one of them per behaviour and the others rest, so the state space is
the sum of theirs and not the product.

`MC*` modules name the model values, the fault budget and the symmetry for TLC.
`*Proofs` modules hold the theorems. Definitions named `Slip...` are what a
definition would be with a plausible mistake in the code; no specification uses
them, and each breaks the property it is listed with in `PROJECT.json`.

## Runs

All runs state `CHECK_DEADLOCK FALSE`: pushes, gate runs, presses, deliveries,
requests and ticks of a clock are bounded per run, and the real system also comes
to rest when there is nothing to do.

| Run | Asks | Shows |
|---|---|---|
| `RetryChaos` | Is anything unsafe when a batch outlives the stale cutoff and a record is lost? 1 PR, 2 commits, 2 rows, 2 workers, 2 gate runs, 1 push, 2 attempts | No: one pending row per commit, only gated commits merged, succeeded means merged, merge calls bounded, no revival, and the refinement of `ShaBoundMerge` |
| `RetryTimely` | Without a slow batch, with an exception and deleted rows: is a row worked on once, and its outcome recorded? | Yes |
| `RetryLive` | Is a waiting row settled in the end? 1 row, 2 workers, 3 attempts, a crash and a slow batch | Yes, under the fairness below |
| `GateClicks` | Four presses, two faults: can the decision flip, can presses alone make two reviews, does the record agree with GitHub? | No, no, yes |
| `RetryLateWriteBack` | Is a late write-back a no-op, as the comment says? | No: a takeover between SELECT and UPDATE is overwritten |
| `RetryLandedFails` | Does a row whose merge landed avoid `failed_terminal`? | No: a lost answer is classified as a terminal failure |
| `RetrySyncLate` | Does synchronize abandon old commits only? | No: a late delivery abandons the current one |
| `RetryBatchEnds` | Does a failing release leave the batch going? | No: a deleted row ends it |
| `IntakeRaces` | Three deliveries of a commit, of any kind, over two slots, with a sweep and one fault: is the commit analysed, gated, notified and accounted for as it should be? | Yes: gate runs only see full results, one delivery notifies, a pull request gets its gate, a death leaves a trace, slots add up, a full result stays, every delivery ends |
| `IntakeEmptyPush` | Does every analysis that dies leave its breadcrumb or a report, as the model class says? | No: a push without changed files deletes the breadcrumb of the pull request analysis that still runs |
| `Companions` | Do gate runs, merge attempts, issue registration, limiters, narrative cache and failover keep their promises, one at a time? | Yes: seventeen properties, three of them liveness, and the types |
| `GateMarkFails` | After a post, is the row posted when the except clause runs? | No: not when `mark_posted` is what failed |

Why the bounds are enough. Two workers are what a takeover needs, two rows what
a batch that outlives one of its rows needs, two gate runs what the enqueue race
and its recovery need, two commits what drift needs (the head may also come back
to the first one: `Push` chooses any other commit). `max_attempts` is 30 in the
code and 2 or 3 here: the cap is one comparison, and 2 already lets a row be
merged, released, taken over and capped. Faults are spent from a budget per kind
(`crash`, `slow`, `error`, `log`, `remove`), so that each can hit every state once.
`RetryLive` uses one row and no symmetry (symmetry is unsound for liveness).
Rows, workers, gate runs, commits and presses are symmetric elsewhere: no
definition tells them apart. Every constant is declared with its assumption
in the module it belongs to.

`IntakeRaces`: two deliveries make a race over the insert, the supersede or the
pull request number, the third is the hook result that the two supersede, or the
one that waits for a slot while two hold one, or the rival that recovers. One
commit is enough, since deliveries of different commits share the slots and
nothing else, and which commit a delivery in a slot has makes no difference to the
next; one pull request, since a second one with the same head is a second value
of `pr_number`, which the dedup only asks whether it is NULL. One fault is what the code is to
survive: two deliveries that die are each judged for themselves.

`Companions`: two files are what "some, not all" needs (all failed / one
tolerated), with issue counts that are nothing or beyond every cap; two merge
runs and two commits, a repeated or lost delivery; two requests and two pages
for one issue; a window and a cap of 2 with three repositories or users over two
keys, so that an eviction always finds a choice; two page loads, with a success
TTL of 3 ticks, a failure window of 2, a load of 1 (3600 s, 120 s, 45 s in the code)
and a clock that passes all of them (5 ticks); two callers, which is what a
late switch needs.

Fairness (`MergeRetryQueue!Fairness`). The scheduler's retry job runs every
60 s in a loop no exception ends (`scheduler.py:163-230`), hence weak fairness of
a sweep; a run that has started goes on (`WorkerStep`) unless it crashes; time
passes (`ComesDue`; `GoesStale` once nobody works on the row). Nothing is
assumed of webhooks, gate runs, pushes or people. The argument: a claim is
released, settled or goes stale, so the row becomes claimable again; every claim
counts an attempt; at the cap, preflight settles the row before anything else.

In `AnalysisIntake` a task that runs goes on and a free slot goes to the first in
the queue, because the event loop runs every task that is ready; nothing is
assumed of arrivals and of the sweep. In `GateRun` the loop (which the deadline is
part of) and the gate actions are fair and the tools are not: `GateComesToAnEnd` must
hold with a tool that hangs. In `MergeAttempts` the handlers of delivered webhooks
are fair, GitHub is not, and `RowsHearOfTheMerge` speaks of deliveries that are
not lost. In `DatabaseFailover` the probe thread and the callers are fair, the
servers are not: `PrimaryComesBack` asks for a primary that stays up.

## What is proved

`tlapm` checks the eight proof modules, for every value of the constants.

*`MergeRetryQueueProofs`*, from `MaxAttemptsAssumption`, `BudgetAssumption` and
`NullAssumption`:

* `TypeCorrect` -- the type invariant, which also says that a busy worker's current
  row is in its batch; inductive by itself.
* `OnePendingHolds` -- inductive by itself. `MergedShaVerifiedHolds` and
  `SucceededMeansMergedHolds` are not; `SafetyInv` adds what is in flight: gate
  runs and rows are about commits that passed the gate (`Gated`; `verified` only
  grows, and the commit of a row never changes), workers and deliveries hold only
  rows that exist (`InHand`), and a worker about to record a success has seen the
  pull request merged (`SuccessDecided`), which it stays.
* `NoRevivalHolds` -- a step changes the status of a settled row only to another
  settled one, or deletes it.
* `Refinement` -- `Spec => ShaBoundMerge!Spec`: every step maps to an abstract
  step or a stutter, from the invariants above.
* `InFlightExclusiveHolds`, assuming `Budget["slow"] = 0`: a pending row in some
  batch has a fresh claim, so nobody can claim it again.
* `OutcomeMirroredHolds`, assuming `Budget["log"] = 0`: a worker about to write
  back has already recorded what it writes, and records are never removed.
* `AttemptBudgetHolds`, by counting. `Can(r)` are the workers that may still call
  `merge_pr` for the row; the calls made and those workers together are at most
  the attempts, and at most `MaxAttempts - 1`. A claim adds one worker and one
  attempt, and the claim that reaches the cap adds none; a merge call turns a
  worker into a call; nothing else adds anything.

*`GateDecisionProofs`*, from `ClicksAssumption`, `MaxFaultsAssumption` and
`NoDecisionAssumption`:

* `TypeCorrect`, `OneVerdictHolds`, `RecordMatchesGithubHolds`.
* `ReviewsCostFaultsHolds`, by counting. `Counted` are the presses that have
  posted or may still post, `Doubtful` those among them that posted without
  knowing it or without getting it recorded, and are about to free the lease.
  As long as the row is not posted, the two numbers together are at most the
  faults so far, plus one while the lease is fresh: whoever takes the lease adds
  one press, and finds a lease that was not fresh; once the row is posted nobody
  takes it any more. `ReviewsCostFaults` alone is not inductive, since a press
  under way has not posted yet. The steps use the cardinality facts of
  `FiniteSetTheorems`.

*`AnalysisIntakeProofs`*, from `LimitAssumption`, `FaultsAssumption`,
`DeliveriesAssumption` and `NullAssumption`. One inductive invariant in eight parts
(`IInv`): the types; the slots (permits and bodies add up, by cardinality); the
rows (`RowsInv`: an id is nobody's before its delivery inserts, a row that was seen to
be full is full as long as it is that row, and who gates has its own result or has
seen a full one); the owners (who goes on with its own analysis, or has notified,
is the one whose result the row holds); events; `StayInv` (while the repository
stays, nobody goes by outdated ids, and who goes on with another's analysis has
seen the row that is there); `PrInv` (a pull request number in the row or in what
somebody saw means that some delivery gates, or was killed at it); `LossInv` (what
was reported, and that a delivery that got far left a trace or a full result). Each part has a step of its own per action,
and the theorems `SlotsAccountedHolds`, `GatesOnFullResultsHolds`,
`NotifiedOnceHolds`, `PrNotForgottenHolds`, `LossIsVisibleHolds` and
`FullResultStaysHolds` follow from it. None of the properties is inductive alone,
since a delivery acts on what it read some steps ago.

*`AnalysisIntakeProofs`* also proves the safety halves of `DeliveriesEnd`, since
liveness is out of reach: `QueueIsServedHolds` (while somebody waits, a slot is free
or a body runs, by the count of the slots) and `DeliveriesMoveOnHolds` (a delivery
only ever goes to a stage of lower `Rank`, and each step of a body and each slot given
does so). What remains to TLC is that a body can always take its next step.

*`GateRunProofs`*, from `FilesAssumption` (finitely many files, at least one, none of
them called like the absence of one):

* `OnlyToleratedGapsActHolds`, `OnlyUnnoticedGapsAverageHolds`,
  `MergeHasConsentHolds`. The invariant says that without a blocking mark every file
  has an outcome, one analysed in order has none of its issues missed
  (`FilesAccounted`), and a whole review is what the diff deserves. Hence the files
  with missed issues are exactly those of the gaps let pass (`MissedIsLetPass`), and
  the two scores are the same expression; no arithmetic is needed. For the averages
  the marks that do not block empty the set of recorded gaps as well.
* `GateRunTypeCorrect`: what is saved is a score of 0..100, for any number of files
  and any counts of issues the profiles allow. `IssueScore` is a sum over the files
  whose issues were found (`CountIsTotal`), penalties and caps bound it whatever it is.
* `GapsOnlyRaiseHolds`: a saved score is never below the one all files would have
  given with the same review. Sums over fewer files are smaller (`CountGrows`), and
  the formula falls with each count (`IssuesCost`). This is the direction in which an
  incomplete analysis errs, and the reason why the marks exist.
* `NeverRepeatsHolds`: every step makes a natural number (`Remaining`) smaller, so a
  gate run cannot go on for ever. What remains to TLC of `GateComesToAnEnd` is that
  something can always go on, with a tool that hangs too.

*`LimiterProofs`*, from `LimitsAssumption` and, for `/connect`,
`HandlersAssumption` (finitely many commands at a time):

* First that the model's choices exist and are unique: `popleft` stops somewhere
  (`ExpiredStops`, `ExpiredIsUnique`), and among finitely many keys there are as many
  first ones as have to go, by insertion (`FirstOfOrdered`) and by activity
  (`FirstOfRanked`). Otherwise a theorem about `CHOOSE` would say nothing.
* `BotEventsBoundedHolds`: `BotInv` says that the keys are in a strict total order
  (`BotsOrdered`), are not too many (`BotsKept`), and that each deque is the history
  less a beginning of which nothing is inside the window (`BotsCovered`), so that
  what the code counts is all there is to count. The bound is not inductive alone,
  since `passed` is never looked at by the code.
* `GuessesBoundedHolds`: `GuessBudget` counts the wrong codes of a user inside the
  window together with the handlers that have passed `is_blocked` for that user. Time
  and eviction only lower the sum; a handler that passes raises it, and finds the
  codes below the limit.
* `OtpKeysBoundedHolds`, from the same invariant: `OtpEvictionMakesRoom`.

*`FiniteLemmas`* holds what these rest on: least elements, first elements, and sums
over finite sets. An induction is made there from a least counterexample, with
`WFMin`: no operator parameter has to be instantiated.

*`MergeAttemptsProofs`*, from `ShasAssumption` and `MaxNoiseAssumption`:
`AttemptsTypeCorrect`, `CountedMergesHappenedHolds`, `RunsMergeWhatTheyScoredHolds`,
`RowsSettleOnceHolds`. The invariant adds that a webhook under way is true
(`NewsIsTrue`), and so is the outcome of a run that has not inserted its row yet
(`ResultsAreTrue`).

*`CompanionsProofs`* has the smaller parts and the composition:

* Issue registration, from `RequestsAssumption`: `RegistrationTypeCorrect`,
  `OrphansAreReportedHolds`, `DuplicateNamesTheTrackedHolds`; the invariant adds
  whether the issue of a request exists, by where the request is.
* Failover: `FailoverTypeCorrect` and `FallbackServesTheCallerHolds`; the invariant
  adds that a fallback that is down is known to every call under way.
* The narrative cache, from `TicksAssumption`: `NarrativeTypeCorrect`;
  `ServedTextIsGenuineHolds`, from how each row is dated (`Dated`); and
  `ReloadsDoNotPayHolds`, assuming that a page load takes at most a tick and less
  than the failure window: the failure to be heeded is in the row, or its window
  was over by a tick when the sweep took it (`Heeded`), and every load under way
  came in at most a tick ago (`Prompt`). With loads longer than a tick a slow one
  could look after the sweep and pay, which is why the assumption is stated.
* `PartsAreThemselves`: a behaviour of the composition that the run checks is, seen
  from each part, a behaviour of that part alone. With it `CompanionsTypeCorrect` and
  `CompanionsSafeHolds` carry the types and all eleven other invariants of the run
  over to the composition.

Every invariant and action property of a passing run is the statement of a theorem.
Only model-checked are the five liveness properties (`EventuallySettled`,
`DeliveriesEnd`, `GateComesToAnEnd`, `RowsHearOfTheMerge`, `PrimaryComesBack`), which
need fairness and ENABLED and are out of the prover's reach, and the violations,
which are counterexamples. What `tlapm` takes as given are the named assumptions on
constants and the theorems of its library on finite sets, functions, sequences and
well-founded orders.

## What the model leaves out

* One repository; a pull request is named by its number alone.
* The legacy merge path (`merge_retry_enabled = False`), except as a merge run
  that fails for good in `MergeAttempts`; the review-comment action, notices and
  failure issues: they change no state modelled here.
* Which diff the verifier and the sensitive-path check were shown; `verified`
  means that the gate passed the analysed commit. What GitHub merges after native
  auto-merge was enabled counts as a merge from outside in `MergeRetryQueue`, so
  `MergedShaVerified` says nothing of it, and `RunsMergeWhatTheyScored` stops at the
  arming: what GitHub does with an armed pull request that is pushed to is its own
  policy.
* A failing foreign key on enqueue after the repository was removed; in
  `IssueRegistration` the same failure is reported as a duplicate without a log,
  so its properties are about a repository that stays.
* In `GateDecision`: the row of the automatic decision (`upsert`), which is taken for
  analyses that get no buttons; the removal of the analysis; the guards of the
  automatic merge beyond the verdict (a free choice there, modelled in `GateRun`).
  Whether the head has moved is a free choice of `CheckHead`. The lease of 60 s
  outlasts the calls of a try, so a try that outlives it costs a fault.
* After a database error the except clause uses the same session without a
  rollback. On PostgreSQL `release_post_claim` then raises too, and the lease
  lapses by itself; where the failed statement leaves the transaction usable, it
  works. Both are in the model (`DatabaseError`, `Crash`).
* In `AnalysisIntake`: that the gate runs once is not claimed, since two processes
  may adopt the same row and the later stages bear a second run; a pull request
  whose delivery died after `pr_number` was written counts as gated
  (`PrNotForgotten`), because later deliveries skip it and nothing in the code says
  that they should not. The loss next to a push without files is left out of
  `LossIsVisible` and shown by `IntakeEmptyPush`.
* In `GateRun`: which tool serves which language; a file's issues are all found or
  missed together, since what counts is whether the score misses any. How often an
  unnoticed gap happens is not a question of the model: it may happen to every file.
  The letter grade is derived from the score and read by people only.
* In `IssueRegistration`: the older of two answers about the state of an issue may
  be stored last, which the TTL repairs.
* In `NarrativeCache`: a load under way when a failure is noted may take the row
  for fresh and be given its empty text, although `record_error` says such a row is
  never served; the property allows exactly that. The insert race of two first
  loads is left to the unique index.
* In `DatabaseFailover`: what is written on the fallback is not carried over, and
  `database.py` promises no such thing; the row-level-security context of a session;
  the probe's own connection running into an exhausted pool, which is one more failed
  probe.
* The debounce of check_suite events only drops a `Trigger`, which the sweep makes
  up for.

### Not modelled

The rate limiter (counters of the slowapi library); the
security scan (one sequential poll a day, whose table nobody else writes);
notifiers and wording; the web pages that only query; session handling and
settings; the command line, MCP and Railway adapters, which are request and
response; the registration of a repository's webhook (add, reinstall), whose
outcome is at GitHub. These are most of the repository's lines, and have no
protocol of their own.

## Plan

1. The safety halves of the other liveness properties: a measure for the retries of a
   row in `MergeRetryQueue` (attempts never fall and every claim adds one), and the
   way of a delivered webhook in `MergeAttempts`.
2. Composition of `AnalysisIntake`, `GateRun` and `MergeRetryQueue` around one pull
   request: the `verified` of the queue as the `acts` of the gate run, as a second
   refinement to be proved.
3. The registration of webhooks: add, reinstall and the cached secret, against
   deliveries that are signed with the older one.
4. The debounce as a table of its own in `MergeRetryQueue`, to see how long the last
   event of a burst can wait for the sweep.
