----------------------------- MODULE RetryPolicy -----------------------------
(***************************************************************************)
(* The pure decisions of the merge-retry path: which merge failures may be *)
(* waited out, for which state of the CI, and how a failed merge call of   *)
(* the retry worker is classified.  Translated from gate/merge_reasons.py, *)
(* gate/retry_policy.py and _handle_merge_failure of                       *)
(* services/merge_retry_service.py.  Reason tags and CI states are the     *)
(* strings of the source.                                                  *)
(***************************************************************************)
EXTENDS Integers

(* Tags of a merge_pr failure (before the colon).                          *)
BlockedStateTags == {"branch_protection_blocked", "dirty_conflict", "behind_base",
                     "draft_pr", "unstable_ci"}

HttpFailureTags == {"permission_denied", "not_mergeable", "unprocessable",
                    "conflict_sha_changed", "http_other"}

ReasonTags == BlockedStateTags \cup HttpFailureTags
                \cup {"unknown_state_timeout", "network_error", "unknown"}

CiStatuses == {"running", "passed", "failed", "unknown"}

RetriableTags == {"unstable_ci", "unknown_state_timeout", "branch_protection_blocked"}

(* should_retry: a retriable tag is waited out only for the CI states that *)
(* can still change the answer.                                            *)
ShouldRetry(tag, ci) ==
  /\ tag \in RetriableTags
  /\ \/ tag = "unstable_ci" /\ ci \in {"running", "passed", "unknown"}
     \/ tag # "unstable_ci" /\ ci = "running"

-----------------------------------------------------------------------------
(* What the worker writes back after a failed merge call: a failure that   *)
(* will not go away stops the row as failed_terminal; one that might, but  *)
(* on a row older than the maximum age, stops it as expired; otherwise the *)
(* claim is released for another try.  Terminality is decided first.       *)
FailureOutcome(tag, ci, expired) ==
  CASE ~ShouldRetry(tag, ci)            -> "failed_terminal"
    [] ShouldRetry(tag, ci) /\ expired  -> "expired"
    [] ShouldRetry(tag, ci) /\ ~expired -> "release"

FailureOutcomes ==
  {FailureOutcome(t, c, e) : t \in ReasonTags, c \in CiStatuses, e \in BOOLEAN}

(* The merge request was sent and no answer came back: NETWORK_ERROR.      *)
LostAnswerOutcomes ==
  {FailureOutcome("network_error", c, e) : c \in CiStatuses, e \in BOOLEAN}
=============================================================================
