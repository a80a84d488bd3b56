------------------------------- MODULE GateRun -------------------------------
(***************************************************************************)
(* From changed files to what the bot does to the pull request.  Static    *)
(* analysis goes file by file under a deadline while the AI review runs    *)
(* (worker/pipeline.py); the results become a score (scorer/calculator.py) *)
(* and the score lets the bot approve, ask for approval or merge           *)
(* (gate/actions, gate/engine.py).  Whatever was not looked at costs no    *)
(* points, so every gap in the analysis raises the score: the model keeps  *)
(* the issues the files really have beside those that were found.  Some    *)
(* gaps stop the gate, some only keep the score out of the averages, and   *)
(* some leave no mark at all.                                              *)
(***************************************************************************)
EXTENDS Integers, FiniteSets, FiniteSetsExt

CONSTANT Files      \* the changed files of the pull request
ASSUME FilesAssumption == IsFiniteSet(Files) /\ Files # {} /\ "no file" \notin Files

VARIABLES
  stage,       \* of the analysis: "none", "static", "verdict", "over"
  actual,      \* what is there: the issues of each file, and the review the
  deserved,    \* diff deserves
  left, busy,  \* files not yet analysed, and the one in the tools
  outcome,     \* what became of each file
  seen,        \* the files none of whose issues was missed
  incomplete,  \* static_analysis_incomplete
  review,      \* AiReviewResult: status, raw scores, truncated
  saved,       \* analyses.score and score_unreliable
  approving, merging,   \* the two gate actions: "idle", ..., "over"
  acts,        \* what they did
  touches,     \* whether the diff touches sensitive paths, when somebody looks
  consent      \* the answers the merge relied on

truth == <<actual, deserved>>
work == <<left, busy, outcome, seen>>
gates == <<approving, merging, acts, touches, consent>>
gateRunVars == <<stage, truth, work, incomplete, review, saved, gates>>

-----------------------------------------------------------------------------
(* The score                                                               *)

\* Counts of issues in one file: nothing, or more than every cap and penalty.
NoIssues == [cqErrors |-> 0, cqWarnings |-> 0, secErrors |-> 0, secWarnings |-> 0]
Profiles ==
  {NoIssues, [cqErrors |-> 1, cqWarnings |-> 30, secErrors |-> 2, secWarnings |-> 4]}

\* Raw scores of a review: commit message (0..20), direction (0..20), tests (0..10).
RawScores == {<<20, 20, 10>>, <<6, 6, 3>>}

ApproveThreshold == 75
RejectThreshold == 50
MergeThreshold == 75

SlipAtLeastZero(n) == n
AtLeastZero(n) == IF n < 0 THEN 0 ELSE n
AtMost(cap, n) == IF n > cap THEN cap ELSE n

\* round() of n / d: to the even neighbour when in the middle.
Rounded(n, d) ==
  LET q == n \div d  r == 2 * (n % d)
  IN  IF r > d \/ (r = d /\ q % 2 = 1) THEN q + 1 ELSE q
Scaled(raw, max, rawMax) == AtLeastZero(AtMost(max, Rounded(raw * max, rawMax)))

AiDefaults == 13 + 21 + 10
AiScore(r) ==
  IF r.status = "success"
  THEN Scaled(r.raw[1], 15, 20) + Scaled(r.raw[2], 25, 20) + Scaled(r.raw[3], 15, 10)
  ELSE AiDefaults

\* Code quality and security, by the issues "found" in the files "in".
Count(found, in, kind) == MapThenSumSet(LAMBDA f : found[f][kind], in)
CodeQuality(errors, warnings) == AtLeastZero(25 - 3 * errors - AtMost(25, warnings))
Security(errors, warnings) == AtLeastZero(20 - 7 * errors - 2 * warnings)
IssueScore(found, in) ==
  CodeQuality(Count(found, in, "cqErrors"), Count(found, in, "cqWarnings"))
    + Security(Count(found, in, "secErrors"), Count(found, in, "secWarnings"))
CalculateScore(found, in, r) == AtMost(100, IssueScore(found, in) + AiScore(r))

-----------------------------------------------------------------------------
(* The analysis                                                            *)

\* Of a file: not reached, analysed by what its language has, its content not
\* fetched, cut short (a tool timed out, raised or is missing although the image
\* should have it), or analyze_file raised and left an empty result; uncovered
\* (no analyser for the language, or only ones the image never had); seen by the
\* generic analyser only; or a gap nobody notices: an adapter that returns [] for
\* its own failure, text that did not decode, tools the repository switched off.
Outcomes == {"none", "analyzed", "not_fetched", "cut_short", "raised", "uncovered",
             "generic_only", "unnoticed"}
Unfound == {"not_fetched", "raised", "uncovered"}
Failed == {"api_error", "parse_error"}
NotAsked == {"disabled", "no_api_key", "empty_diff"}
Statuses == {"none", "success"} \cup Failed \cup NotAsked
NoReview == [status |-> "none", raw |-> <<>>, truncated |-> FALSE]
Unsaved == [score |-> -1, null |-> FALSE, unreliable |-> FALSE]
NoFile == "no file"

Was(o) == {f \in Files : outcome[f] = o}
Score == CalculateScore(actual, seen, review)

GateRunInit ==
  /\ stage = "none"
  /\ actual = [f \in Files |-> CHOOSE p \in Profiles : TRUE]
  /\ deserved = CHOOSE r \in RawScores : TRUE
  /\ left = Files /\ busy = NoFile
  /\ outcome = [f \in Files |-> "none"] /\ seen = {}
  /\ incomplete = FALSE
  /\ review = NoReview
  /\ saved = Unsaved
  /\ approving = "idle" /\ merging = "idle"
  /\ acts = {} /\ touches = FALSE /\ consent = {}

StartAnalysis ==
  /\ stage = "none"
  /\ stage' = "static"
  /\ actual' \in [Files -> Profiles]
  /\ deserved' \in RawScores
  /\ UNCHANGED <<work, incomplete, review, saved, gates>>

StartFile ==
  /\ stage = "static" /\ busy = NoFile
  /\ \E f \in left : busy' = f
  /\ UNCHANGED <<stage, truth, left, outcome, seen, incomplete, review, saved, gates>>

\* The tools of a file may take for ever: nothing but the deadline ends them.
FinishFile ==
  /\ busy # NoFile
  /\ \E o \in Outcomes \ {"none"} :
       /\ outcome' = [outcome EXCEPT ![busy] = o]
       /\ \/ seen' = seen \cup {busy} /\ (o \in Unfound => actual[busy] = NoIssues)
          \/ seen' = seen /\ o # "analyzed" /\ actual[busy] # NoIssues
  /\ left' = left \ {busy}
  /\ busy' = NoFile
  /\ UNCHANGED <<stage, truth, incomplete, review, saved, gates>>

\* The deadline is looked at between two files, and wait_for cuts a file short.
SlipDeadline ==
  /\ stage = "static" /\ left # {} /\ busy = NoFile
  /\ left' = {} /\ incomplete' = TRUE
  /\ UNCHANGED <<stage, truth, busy, outcome, seen, review, saved, gates>>
Deadline ==
  /\ stage = "static" /\ left # {}
  /\ left' = {} /\ busy' = NoFile
  /\ incomplete' = TRUE
  /\ UNCHANGED <<stage, truth, outcome, seen, review, saved, gates>>

\* The safety nets after the loop: every file raised, one was cut short or not
\* fetched.  A language that is uncovered or generic only is recorded and does
\* not block, nor does one file of several that raised (Q2=A).
LeavesGaps == Files = Was("raised") \/ Was("cut_short") # {} \/ Was("not_fetched") # {}

\* review_code, which has its own timeout.  A review of part of the diff may
\* say anything.
ReviewCode ==
  /\ stage = "static" /\ review.status = "none"
  /\ \E s \in Statuses \ {"none"} :
       review' \in IF s # "success" THEN {[NoReview EXCEPT !.status = s]}
                   ELSE {[status |-> s, raw |-> deserved, truncated |-> FALSE]}
                        \cup [status : {s}, raw : RawScores, truncated : {TRUE}]
  /\ UNCHANGED <<stage, truth, work, incomplete, saved, gates>>

\* score_is_unreliable reads every mark of the result; a failed review also
\* nulls the score that is stored.  Twice two checks cover each other: a result
\* of the hook is marked incomplete as well, and the statuses of a review nobody
\* asked for are among those with default points.
ReviewFailed == review.status \in Failed
DefaultsApplied == review.status # "success"
SlipUnreliable(source) ==
  \/ ReviewFailed \/ incomplete \/ source = "cli"
  \/ review.status \in NotAsked \/ DefaultsApplied
  \/ Was("uncovered") # {}
Unreliable(source) ==
  \/ ReviewFailed \/ incomplete \/ source = "cli"
  \/ review.status \in NotAsked \/ DefaultsApplied
  \/ Was("uncovered") # {} \/ Was("generic_only") # {}
Verdict(source) ==
  [score |-> Score, null |-> ReviewFailed, unreliable |-> Unreliable(source)]
Averaged == saved # Unsaved /\ ~saved.null /\ ~saved.unreliable

\* Both have returned: score and save, and the gate actions start.
SaveVerdict ==
  /\ stage = "static" /\ left = {} /\ busy = NoFile /\ review.status # "none"
  /\ stage' = "verdict"
  /\ incomplete' = (incomplete \/ LeavesGaps)
  /\ UNCHANGED <<truth, work, review>>
  /\ saved' = Verdict("pr")'
  /\ approving' = "start" /\ merging' = "start"
  /\ UNCHANGED <<acts, touches, consent>>

\* Or the result comes from the hook of a developer's machine: no file was
\* analysed and the review says anything.  It is saved, and no gate runs on it
\* (a delivery first replaces it: AnalysisIntake).
SaveHookResult ==
  /\ stage = "none"
  /\ stage' = "over"
  /\ actual' \in [Files -> Profiles]
  /\ deserved' \in RawScores
  /\ review' \in {[status |-> "success", raw |-> raw, truncated |-> FALSE] : raw \in RawScores}
                 \cup {[NoReview EXCEPT !.status = "parse_error"]}
  /\ incomplete' = TRUE
  /\ UNCHANGED <<work, gates>>
  /\ saved' = Verdict("cli")'

-----------------------------------------------------------------------------
(* The gate actions, side by side                                          *)

\* Each of the actions looks at the same three marks before it does anything.
SlipVouched == ~incomplete /\ ~ReviewFailed
Vouched == ~incomplete /\ ~review.truncated /\ ~ReviewFailed

Act(a) == acts' = acts \cup {a}

\* approve_mode = "auto": a review when the head has not moved and GitHub
\* takes it, and then the decision row.
AutoApprove ==
  /\ approving = "start"
  /\ approving' = "over"
  /\ \/ ~Vouched /\ UNCHANGED acts
     \/ Vouched /\ saved.score >= ApproveThreshold /\ Act("approve")
     \/ Vouched /\ saved.score < RejectThreshold /\ Act("reject")
     \/ Vouched /\ saved.score \in RejectThreshold..(ApproveThreshold - 1) /\ Act("skip")
     \/ Vouched /\ UNCHANGED acts
  /\ UNCHANGED <<stage, truth, work, incomplete, review, saved, merging, touches, consent>>

\* approve_mode = "semi-auto": buttons with the score on them.
AskForApproval ==
  /\ approving = "start"
  /\ approving' = "over"
  /\ \/ Vouched /\ Act("buttons")
     \/ UNCHANGED acts
  /\ UNCHANGED <<stage, truth, work, incomplete, review, saved, merging, touches, consent>>

ApproveDisabled ==
  /\ approving = "start"
  /\ approving' = "over"
  /\ UNCHANGED <<stage, truth, work, incomplete, review, saved, merging, acts, touches, consent>>

\* AutoMergeAction, and the threshold at the head of _run_auto_merge.
StartMerge ==
  /\ merging = "start"
  /\ \/ merging' = "paths" /\ Vouched /\ saved.score >= MergeThreshold
     \/ merging' = "over"
  /\ UNCHANGED <<stage, truth, work, incomplete, review, saved, approving, acts, touches, consent>>

\* sensitive_paths_block_merge: a list that cannot be had is not an empty list.
SlipHeld(answer) == answer = "sensitive"
Held(answer) == answer \in {"sensitive", "unlistable"}
CheckPaths ==
  /\ merging = "paths"
  /\ touches' \in BOOLEAN
  /\ \E answer \in {"switched_off", "unlistable", IF touches' THEN "sensitive" ELSE "harmless"} :
       \/ Held(answer) /\ merging' = "over" /\ consent' = consent
       \/ ~Held(answer) /\ merging' = "verify" /\ consent' = consent \cup {answer}
  /\ UNCHANGED <<stage, truth, work, incomplete, review, saved, approving, acts>>

\* verifier_blocks_merge: every answer but a literal yes blocks; without a key
\* or with the switch off nobody is asked.
Blocks(answer) == answer \notin {"not_asked", "safe"}
Verify ==
  /\ merging = "verify"
  /\ \E answer \in {"not_asked", "safe", "unsafe", "manipulated", "too_large", "error"} :
       \/ Blocks(answer) /\ merging' = "over" /\ consent' = consent
       \/ ~Blocks(answer) /\ merging' = "merge" /\ consent' = consent \cup {answer}
  /\ UNCHANGED <<stage, truth, work, incomplete, review, saved, approving, acts, touches>>

\* What follows is MergeAttempts and the retry queue.
HandOver ==
  /\ merging = "merge"
  /\ merging' = "over"
  /\ Act("merge")
  /\ UNCHANGED <<stage, truth, work, incomplete, review, saved, approving, touches, consent>>

\* gather() has both outcomes.
GateEnds ==
  /\ stage = "verdict" /\ approving = "over" /\ merging = "over"
  /\ stage' = "over"
  /\ UNCHANGED <<truth, work, incomplete, review, saved, gates>>

GateLoop == StartFile \/ Deadline \/ ReviewCode \/ SaveVerdict
GateActions ==
  \/ AutoApprove \/ AskForApproval \/ ApproveDisabled
  \/ StartMerge \/ CheckPaths \/ Verify \/ HandOver \/ GateEnds
GateRunNext == StartAnalysis \/ SaveHookResult \/ FinishFile \/ GateLoop \/ GateActions

\* What is ready runs; only the tools of a file may never come back.
GateRunSpec ==
  GateRunInit /\ [][GateRunNext]_gateRunVars
    /\ WF_gateRunVars(GateLoop) /\ WF_gateRunVars(GateActions)

-----------------------------------------------------------------------------
\* The analysis and its verdict keep their types.
GateRunTypeOK ==
  /\ stage \in {"none", "static", "verdict", "over"}
  /\ actual \in [Files -> Profiles] /\ deserved \in RawScores /\ touches \in BOOLEAN
  /\ left \subseteq Files /\ busy \in Files \cup {NoFile}
  /\ outcome \in [Files -> Outcomes] /\ seen \subseteq Files
  /\ incomplete \in BOOLEAN
  /\ review.status \in Statuses /\ review.truncated \in BOOLEAN
  /\ saved.score \in -1..100
  /\ approving \in {"idle", "start", "over"}
  /\ merging \in {"idle", "start", "paths", "verify", "merge", "over"}
  /\ acts \subseteq {"approve", "reject", "skip", "buttons", "merge"}

\* Files whose issues were missed without any mark of it in the result, and
\* files whose gap is recorded for the reader and the averages only.
Overlooked ==
  {f \in Files \ seen : \/ outcome[f] = "unnoticed"
                        \/ outcome[f] = "raised" /\ Was("raised") # Files}
Recorded == {f \in Files \ seen : outcome[f] \in {"uncovered", "generic_only"}}
Deserved == [status |-> "success", raw |-> deserved, truncated |-> FALSE]

\* A score that approves, rejects, shows buttons or merges counts every issue of
\* the diff but those of the gaps the code lets pass, and its review is the one
\* the diff deserves or was never asked for (44 points by default).  Too high a
\* score does act, then, through an uncovered language or a generic analyser
\* (analyzer/io/static.py: visible, not blocking), an adapter that swallows its
\* failure (KNOWN_FAIL_OPEN), text that does not decode, or one of several files
\* that raised; through a deadline, a tool's time-out, crash or absence, a failed
\* download, or a review that failed or was cut it never does (the guards of
\* ApproveAction and AutoMergeAction).
OnlyToleratedGapsAct ==
  acts # {} =>
    saved.score = CalculateScore(actual, Files \ (Overlooked \cup Recorded),
                                 IF review.status \in NotAsked THEN NoReview ELSE Deserved)

\* A score that enters the averages rests on a review, which is the deserved one
\* unless it is of part of the diff (C22), and counts every issue but those of
\* gaps that left no mark; recorded gaps, default points and results of the hook
\* stay out (score_is_unreliable, should_null_persist_score).
OnlyUnnoticedGapsAverage ==
  Averaged =>
    /\ review.status = "success"
    /\ saved.score = CalculateScore(actual, Files \ Overlooked,
                                    IF review.truncated THEN review ELSE Deserved)

\* A pull request that touches sensitive paths is merged only with the guard
\* switched off, and one whose paths or verdict nobody could read is not merged
\* (sensitive_paths_block_merge, verifier_blocks_merge: both fail closed).
MergeHasConsent ==
  "merge" \in acts =>
    /\ touches => "switched_off" \in consent
    /\ consent \cap {"not_asked", "safe"} # {}

\* Whatever the tools do, the analysis comes to a verdict and the gate to its
\* end (PIPELINE_ANALYSIS_TIMEOUT, wait_for).
GateComesToAnEnd == [](stage = "static" => <>(stage = "over"))

=============================================================================
