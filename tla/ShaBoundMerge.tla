---------------------------- MODULE ShaBoundMerge ----------------------------
(***************************************************************************)
(* What the automatic merge path promises, whatever the queue, the workers *)
(* and the webhooks do in between: a pull request is merged at most once,  *)
(* and a merge made by the bot merges the commit that is the head at that  *)
(* moment and that passed the gate -- the SHA-bound invariant stated at    *)
(* services/merge_retry_service.py:290 and gate/engine.py:194.             *)
(***************************************************************************)
CONSTANTS
  PRs,     \* pull requests
  Shas,    \* commit SHAs
  NoSha    \* no commit

VARIABLES
  head,      \* head[p]: the commit the pull request points at
  mergedAs,  \* mergedAs[p]: the commit p was merged at, NoSha while it is open
  mergedBy,  \* mergedBy[p]: "none", "bot" or "outside"
  verified   \* pairs <<p, s>>: commit s of p passed the gate

absVars == <<head, mergedAs, mergedBy, verified>>

Open(p) == mergedAs[p] = NoSha

Init ==
  /\ head \in [PRs -> Shas]
  /\ mergedAs = [p \in PRs |-> NoSha]
  /\ mergedBy = [p \in PRs |-> "none"]
  /\ verified = {}

Push(p) ==
  /\ Open(p)
  /\ \E s \in Shas : head' = [head EXCEPT ![p] = s]
  /\ UNCHANGED <<mergedAs, mergedBy, verified>>

Verify(p) ==
  /\ Open(p)
  /\ verified' = verified \cup {<<p, head[p]>>}
  /\ UNCHANGED <<head, mergedAs, mergedBy>>

BotMerge(p) ==
  /\ Open(p)
  /\ <<p, head[p]>> \in verified
  /\ mergedAs' = [mergedAs EXCEPT ![p] = head[p]]
  /\ mergedBy' = [mergedBy EXCEPT ![p] = "bot"]
  /\ UNCHANGED <<head, verified>>

OutsideMerge(p) ==
  /\ Open(p)
  /\ mergedAs' = [mergedAs EXCEPT ![p] = head[p]]
  /\ mergedBy' = [mergedBy EXCEPT ![p] = "outside"]
  /\ UNCHANGED <<head, verified>>

Next == \E p \in PRs : Push(p) \/ Verify(p) \/ BotMerge(p) \/ OutsideMerge(p)

Spec == Init /\ [][Next]_absVars
=============================================================================
