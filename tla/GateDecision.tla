----------------------------- MODULE GateDecision -----------------------------
(***************************************************************************)
(* The semi-automatic gate.  Every press of an Approve or Reject button of *)
(* one analysis runs handle_gate_callback (webhook/providers/telegram.py)  *)
(* as a background task of its own, in any number and at any time: the     *)
(* button carries no nonce and never expires.  The presses meet in one row *)
(* of gate_decisions (repositories/gate_decision_repo.py): the first       *)
(* decision is recorded for good, and a lease on the row decides who posts *)
(* the review.  GitHub accepts any number of reviews.                      *)
(***************************************************************************)
EXTENDS Integers, FiniteSets

CONSTANTS
  Clicks,     \* presses of a button of the analysis
  MaxFaults,  \* how many faults may happen
  NoDecision

Verdicts == {"approve", "reject"}

ASSUME ClicksAssumption == IsFiniteSet(Clicks)
ASSUME MaxFaultsAssumption == MaxFaults \in Nat
ASSUME NoDecisionAssumption == NoDecision \notin Verdicts

VARIABLES
  decision, state, lease,   \* the row: "absent" until it is inserted
  pc, choice, said,         \* a press: its button, and the decision it posts
  landed,                   \* presses whose review is on the pull request
  merged,                   \* presses that went on to the automatic merge
  faults                    \* how many faults have happened

rowVars   == <<decision, state, lease>>
clickVars == <<pc, choice, said>>
vars == <<rowVars, clickVars, landed, merged, faults>>

\* Presses between a lease they took (or an error) and the end of their try:
\* in "failed" and "failedAfter" the except clause is about to run.
Trying    == {"head", "post", "mark", "failed", "failedAfter"}
InTrying  == {c \in Clicks : pc[c] \in Trying}

Init ==
  /\ decision = NoDecision /\ state = "absent" /\ lease = "none"
  /\ pc     = [c \in Clicks |-> "idle"]
  /\ choice = [c \in Clicks |-> NoDecision]
  /\ said   = [c \in Clicks |-> NoDecision]
  /\ landed = {} /\ merged = {}
  /\ faults = 0

Goto(c, label) == pc' = [pc EXCEPT ![c] = label]
Fault == faults < MaxFaults /\ faults' = faults + 1

\* A press by the owner of the repository, of a button that is authentic.
Press(c) ==
  /\ pc[c] = "idle"
  /\ \E d \in Verdicts : choice' = [choice EXCEPT ![c] = d]
  /\ Goto(c, "decide")
  /\ UNCHANGED <<rowVars, said, landed, merged, faults>>

SlipDecide(c) ==   \* an upsert: a later press overwrites the decision
  /\ pc[c] = "decide"
  /\ decision' = choice[c]
  /\ state' = IF state = "absent" THEN "pending_post" ELSE state
  /\ Goto(c, "lease")
  /\ UNCHANGED <<lease, choice, said, landed, merged, faults>>

\* claim_decision: an INSERT that the UNIQUE constraint refuses when the
\* analysis has a row.  Either way the press goes on to ask for the lease.
Decide(c) ==
  /\ pc[c] = "decide"
  /\ \/ /\ state = "absent"
        /\ decision' = choice[c] /\ state' = "pending_post" /\ lease' = "none"
     \/ state # "absent" /\ UNCHANGED rowVars
  /\ Goto(c, "lease")
  /\ UNCHANGED <<choice, said, landed, merged, faults>>

SlipTakeLease(c) ==   \* pending_post is taken for a lock
  /\ pc[c] = "lease" /\ state = "pending_post"
  /\ lease' = "fresh"
  /\ said' = [said EXCEPT ![c] = decision]
  /\ Goto(c, "head")
  /\ UNCHANGED <<decision, state, choice, landed, merged, faults>>

SlipTakeNoVerdict(c) ==   \* the claimed row is not read back
  /\ pc[c] = "lease"
  /\ state = "pending_post" /\ lease \in {"none", "stale"}
  /\ lease' = "fresh"
  /\ Goto(c, "head")
  /\ UNCHANGED <<decision, state, choice, said, landed, merged, faults>>

\* claim_post_attempt: one conditional UPDATE.  The winner posts the decision
\* of the row, not the one of its own button.
TakeLease(c) ==
  /\ pc[c] = "lease"
  /\ state = "pending_post" /\ lease \in {"none", "stale"}
  /\ lease' = "fresh"
  /\ said' = [said EXCEPT ![c] = decision]
  /\ Goto(c, "head")
  /\ UNCHANGED <<decision, state, choice, landed, merged, faults>>

\* ... and the one who does not get it is told so, and ends.
Replay(c) ==
  /\ pc[c] = "lease"
  /\ ~(state = "pending_post" /\ lease \in {"none", "stale"})
  /\ Goto(c, "done")
  /\ UNCHANGED <<rowVars, choice, said, landed, merged, faults>>

\* post_github_review looks the head up; it may have moved, or the call fail.
CheckHead(c) ==
  /\ pc[c] = "head"
  /\ Goto(c, "post") \/ Goto(c, "failed")
  /\ UNCHANGED <<rowVars, choice, said, landed, merged, faults>>

\* ... and posts the review.  The answer may get lost.
Post(c) ==
  /\ pc[c] = "post"
  /\ \/ landed' = landed \cup {c} /\ Goto(c, "mark") /\ UNCHANGED faults
     \/ landed' = landed \cup {c} /\ Goto(c, "failed") /\ Fault
     \/ Goto(c, "failed") /\ UNCHANGED <<landed, faults>>
  /\ UNCHANGED <<rowVars, choice, said, merged>>

SlipMark(c) ==   \* only the claim is cleared
  /\ pc[c] = "mark"
  /\ lease' = "none"
  /\ IF said[c] = "approve" THEN Goto(c, "merge") \/ Goto(c, "done") ELSE Goto(c, "done")
  /\ UNCHANGED <<decision, state, choice, said, landed, merged, faults>>

\* mark_posted, and the guards of the automatic merge.  (Its SELECT and its
\* UPDATE by primary key are one step: nothing that happens between them
\* makes a difference once the row is posted.)
Mark(c) ==
  /\ pc[c] = "mark"
  /\ state' = "posted" /\ lease' = "none"
  /\ IF said[c] = "approve" THEN Goto(c, "merge") \/ Goto(c, "done") ELSE Goto(c, "done")
  /\ UNCHANGED <<decision, choice, said, landed, merged, faults>>

\* The database fails before the lease is asked for, or in mark_posted.  The
\* except clause uses the same session, without a rollback: release_post_claim
\* works only if the failed statement has left its transaction usable, and
\* raises in its turn otherwise (then the press ends as in Crash).
DatabaseError(c) ==
  /\ \/ pc[c] \in {"decide", "lease"} /\ Goto(c, "failed")
     \/ pc[c] = "mark" /\ Goto(c, "failedAfter")
  /\ Fault
  /\ UNCHANGED <<rowVars, choice, said, landed, merged>>

\* _run_auto_merge of gate/engine.py, which may raise.
AutoMerge(c) ==
  /\ pc[c] = "merge"
  /\ merged' = merged \cup {c}
  /\ Goto(c, "done") \/ Goto(c, "failedAfter")
  /\ UNCHANGED <<rowVars, choice, said, landed, faults>>

\* release_post_claim in the except clauses: whoever holds the lease.
Release(c) ==
  /\ pc[c] \in {"failed", "failedAfter"}
  /\ lease' = IF state = "posted" THEN lease ELSE "none"
  /\ Goto(c, "done")
  /\ UNCHANGED <<decision, state, choice, said, landed, merged, faults>>

\* The process dies, or the database fails in the except clause as well.
Crash(c) ==
  /\ pc[c] \notin {"idle", "done"}
  /\ Fault
  /\ Goto(c, "done")
  /\ UNCHANGED <<rowVars, choice, said, landed, merged>>

\* POST_LEASE_SECONDS pass.  It takes a fault for a try that is still under
\* way to be as old as the lease: the two calls of a try time out before.
LeaseExpires ==
  /\ state = "pending_post" /\ lease = "fresh"
  /\ lease' = "stale"
  /\ IF InTrying = {} THEN UNCHANGED faults ELSE Fault
  /\ UNCHANGED <<decision, state, clickVars, landed, merged>>

ClickStep(c) ==
  \/ Press(c) \/ Decide(c) \/ TakeLease(c) \/ Replay(c) \/ CheckHead(c) \/ Post(c)
  \/ Mark(c) \/ DatabaseError(c) \/ AutoMerge(c) \/ Release(c) \/ Crash(c)

Next == (\E c \in Clicks : ClickStep(c)) \/ LeaseExpires

Spec == Init /\ [][Next]_vars
-----------------------------------------------------------------------------
\* The columns of models/gate_decision.py and the locals of
\* handle_gate_callback: a press that is posting, or has posted, has the
\* verdict it took over from the row.
TypeOK ==
  /\ decision \in Verdicts \cup {NoDecision}
  /\ state \in {"absent", "pending_post", "posted"}
  /\ lease \in {"none", "fresh", "stale"}
  /\ pc \in [Clicks -> {"idle", "decide", "lease", "merge", "done"} \cup Trying]
  /\ choice \in [Clicks -> Verdicts \cup {NoDecision}]
  /\ said \in [Clicks -> Verdicts \cup {NoDecision}]
  /\ landed \subseteq Clicks /\ merged \subseteq Clicks
  /\ faults \in Nat
  /\ \A c \in Clicks : pc[c] \in {"head", "post", "mark", "merge"} => said[c] \in Verdicts

\* Whatever buttons are pressed, and however often a failed try is repeated,
\* every review on the pull request says what the first press decided, and a
\* pull request decided against never goes on to the automatic merge
\* ("decisions cannot flip", claim_decision and claim_post_attempt).
OneVerdict ==
  /\ \A c \in landed : said[c] = decision
  /\ merged # {} => decision = "approve"

\* Presses alone never make a second review: each further one takes a fault
\* of its own -- a lost answer, a crash, a database error, or a try that
\* outlives its lease (what claim_post_attempt is for).
ReviewsCostFaults == Cardinality(landed) <= 1 + faults

\* The row says posted only when a review is on the pull request; and when
\* nothing went wrong, a review that is there is recorded once all is quiet.
RecordMatchesGithub ==
  /\ state = "posted" => landed # {}
  /\ landed # {} /\ faults = 0 /\ (\A c \in Clicks : pc[c] \in {"idle", "done"})
       => state = "posted"

-----------------------------------------------------------------------------
\* "a post-success already moved the row to 'posted', which release_post_claim
\* refuses to resurrect" (webhook/providers/telegram.py:302-303): whenever the
\* except clause runs after the review was posted, the row says posted.
FailureAfterPostFindsPosted ==
  \A c \in Clicks : pc[c] = "failedAfter" => state = "posted"
=============================================================================
