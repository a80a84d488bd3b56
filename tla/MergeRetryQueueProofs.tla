------------------------ MODULE MergeRetryQueueProofs ------------------------
(***************************************************************************)
(* Theorems about the merge-retry queue, for any number of pull requests,  *)
(* commits, rows, workers, gate runs and deliveries, and any fault budget. *)
(***************************************************************************)
EXTENDS MergeRetryQueue, FiniteSetTheorems, TLAPS

-----------------------------------------------------------------------------
(* What a failed merge call may write back.                                *)

\* A failed call stops the row or releases it, and never records a success
\* (_handle_merge_failure).
LEMMA FailureOutcomesType ==
  FailureOutcomes \subseteq {"failed_terminal", "expired", "release"}
BY DEF FailureOutcomes, FailureOutcome

\* The same of a call whose answer was lost.
LEMMA LostAnswerOutcomesType ==
  LostAnswerOutcomes \subseteq {"failed_terminal", "expired", "release"}
BY DEF LostAnswerOutcomes, FailureOutcome

-----------------------------------------------------------------------------
(* How a worker moves: each move keeps the shape of the workers' state.    *)

\* To the next stage of the same row.
LEMMA GotoOK ==
  ASSUME WorkersOK, NEW w \in Workers, pc[w] \in Busy,
         NEW label \in {"get", "put", "write"},
         label = "write" => pc[w] = "record",
         Goto(w, label)
  PROVE  WorkersOK'
BY DEF WorkersOK, Busy, Goto

\* To the recording of a decision.
LEMMA WriteLaterOK ==
  ASSUME WorkersOK, NEW w \in Workers, pc[w] \in Busy,
         NEW i \in {"release"} \cup Terminal,
         WriteLater(w, i)
  PROVE  WorkersOK'
BY DEF WorkersOK, Busy, WriteLater, Terminal

\* Away from a row that is done.
LEMMA ThroughOK ==
  ASSUME WorkersOK, NEW w \in Workers, Through(w)
  PROVE  WorkersOK'
BY DEF WorkersOK, Busy, Through

\* Out of the run.
LEMMA StopOK ==
  ASSUME WorkersOK, NEW w \in Workers, Stop(w)
  PROVE  WorkersOK'
BY DEF WorkersOK, Busy, Stop

\* What nobody touches keeps its type.
LEMMA FrameOK ==
  /\ GithubOK /\ UNCHANGED githubVars => GithubOK'
  /\ TableOK /\ UNCHANGED rowVars => TableOK'
  /\ WorkersOK /\ UNCHANGED workerVars => WorkersOK'
  /\ HooksOK /\ UNCHANGED hookVars => HooksOK'
  /\ GatesOK /\ UNCHANGED gateVars => GatesOK'
  /\ HistoryOK /\ UNCHANGED <<histVars, left>> => HistoryOK'
<1>1. GithubOK /\ UNCHANGED githubVars => GithubOK'
  BY DEF GithubOK, githubVars
<1>2. TableOK /\ UNCHANGED rowVars => TableOK'
  BY DEF TableOK, rowVars
<1>3. WorkersOK /\ UNCHANGED workerVars => WorkersOK'
  BY DEF WorkersOK, workerVars
<1>4. HooksOK /\ UNCHANGED hookVars => HooksOK'
  BY DEF HooksOK, hookVars
<1>5. GatesOK /\ UNCHANGED gateVars => GatesOK'
  BY DEF GatesOK, gateVars
<1>6. HistoryOK /\ UNCHANGED <<histVars, left>> => HistoryOK'
  BY DEF HistoryOK, histVars
<1>7. QED
  BY <1>1, <1>2, <1>3, <1>4, <1>5, <1>6

\* One unit less of a fault budget is still a budget.
LEMMA SpendOK ==
  ASSUME HistoryOK, NEW f \in Faults, Spend(f)
  PROVE  left' \in [Faults -> Nat]
BY DEF HistoryOK, Spend

-----------------------------------------------------------------------------
(* Type correctness.                                                       *)

\* The types hold at first.
LEMMA InitTypeOK == Init => TypeOK
BY MaxAttemptsAssumption, BudgetAssumption
DEF Init, TypeOK, GithubOK, TableOK, WorkersOK, HooksOK, GatesOK, HistoryOK, Busy, Free

\* Every step keeps them.
LEMMA NextTypeOK == TypeOK /\ [Next]_vars => TypeOK'
<1> SUFFICES ASSUME GithubOK, TableOK, WorkersOK, HooksOK, GatesOK, HistoryOK, [Next]_vars
             PROVE  TypeOK'
  BY DEF TypeOK
<1> USE FrameOK DEF TypeOK
<1>1. ASSUME NEW w \in Workers, NEW B \in SUBSET Rows, NEW first \in B, Claim(w, B, first)
      PROVE  TypeOK'
  <2>1. TableOK'
    BY <1>1 DEF Claim, TableOK
  <2>2. WorkersOK'
    BY <1>1 DEF Claim, WorkersOK, TableOK, Busy
  <2>3. QED
    BY <1>1, <2>1, <2>2 DEF Claim
<1>2. ASSUME NEW w \in Workers, Sweep(w) PROVE TypeOK'
  BY <1>1, <1>2 DEF Sweep
<1>3. ASSUME NEW w \in Workers, NEW s \in Shas, Trigger(w, s) PROVE TypeOK'
  BY <1>1, <1>3 DEF Trigger
<1>4. ASSUME NEW w \in Workers, NEW r \in Rows, LoadRow(w, r) PROVE TypeOK'
  <2>1. WorkersOK'
    BY <1>4 DEF LoadRow, WorkersOK, TableOK, Busy
  <2>2. QED
    BY <1>4, <2>1 DEF LoadRow
<1>5. ASSUME NEW w \in Workers, NEW r \in Rows, RowGone(w, r) PROVE TypeOK'
  BY <1>5, StopOK DEF RowGone
<1>6. ASSUME NEW w \in Workers, Preflight(w) PROVE TypeOK'
  BY <1>6, GotoOK, WriteLaterOK DEF Preflight, Busy, Terminal
<1>7. ASSUME NEW w \in Workers, GetPr(w) PROVE TypeOK'
  BY <1>7, GotoOK, WriteLaterOK DEF GetPr, Busy, Terminal
<1>8. ASSUME NEW w \in Workers, PutMerge(w) PROVE TypeOK'
  <2>1. cur[w] \in Rows
    BY <1>8 DEF PutMerge, WorkersOK, Busy
  <2>2. WorkersOK'
    BY <1>8, WriteLaterOK, FailureOutcomesType, LostAnswerOutcomesType
    DEF PutMerge, Busy, Terminal
  <2>3. HistoryOK'
    BY <1>8, <2>1 DEF PutMerge, HistoryOK
  <2>4. GithubOK'
    BY <1>8, <2>1 DEF PutMerge, MergeAt, GithubOK, githubVars, Open
  <2>5. QED
    BY <1>8, <2>2, <2>3, <2>4 DEF PutMerge
<1>9. ASSUME NEW w \in Workers, Record(w) PROVE TypeOK'
  <2>1. WorkersOK'
    BY <1>9, GotoOK, ThroughOK DEF Record, Busy
  <2>2. cur[w] \in Rows
    BY <1>9 DEF Record, WorkersOK, Busy
  <2>3. HistoryOK'
    BY <1>9, <2>2, SpendOK DEF Record, HistoryOK, LogOf, Faults
  <2>4. QED
    BY <1>9, <2>1, <2>3 DEF Record
<1>10. ASSUME NEW w \in Workers, WriteBack(w) PROVE TypeOK'
  <2>1. TableOK'
    BY <1>10 DEF WriteBack, TableOK, WorkersOK, Busy, Terminal
  <2>2. QED
    BY <1>10, <2>1, ThroughOK DEF WriteBack
<1>11. ASSUME NEW w \in Workers, RowError(w) PROVE TypeOK'
  <2>1. WorkersOK'
    BY <1>11, StopOK, WriteLaterOK, ThroughOK DEF RowError, Busy
  <2>2. HistoryOK'
    BY <1>11, SpendOK DEF RowError, HistoryOK, histVars, Faults
  <2>3. QED
    BY <1>11, <2>1, <2>2 DEF RowError
<1>12. ASSUME NEW w \in Workers, Crash(w) PROVE TypeOK'
  <2>1. HistoryOK'
    BY <1>12, SpendOK DEF Crash, HistoryOK, histVars, Faults
  <2>2. QED
    BY <1>12, <2>1, StopOK DEF Crash
<1>13. ASSUME NEW r \in Rows, ComesDue(r) PROVE TypeOK'
  <2>1. TableOK'
    BY <1>13 DEF ComesDue, TableOK
  <2>2. QED
    BY <1>13, <2>1 DEF ComesDue
<1>14. ASSUME NEW r \in Rows, GoesStale(r) PROVE TypeOK'
  <2>1. TableOK'
    BY <1>14 DEF GoesStale, TableOK
  <2>2. HistoryOK'
    BY <1>14, SpendOK DEF GoesStale, HistoryOK, histVars, Faults
  <2>3. QED
    BY <1>14, <2>1, <2>2 DEF GoesStale
<1>15. ASSUME NEW h \in Hooks, NEW p \in PRs, NEW s \in Shas, Push(h, p, s) PROVE TypeOK'
  <2>1. GithubOK' /\ HooksOK'
    BY <1>15 DEF Push, GithubOK, HooksOK, Commits
  <2>2. QED
    BY <1>15, <2>1 DEF Push
<1>16. ASSUME NEW p \in PRs, OutsideMerge(p) PROVE TypeOK'
  <2>1. GithubOK'
    BY <1>16 DEF OutsideMerge, GithubOK
  <2>2. QED
    BY <1>16, <2>1 DEF OutsideMerge
<1>17. ASSUME NEW h \in Hooks, SyncSelect(h) PROVE TypeOK'
  <2>1. HooksOK'
    BY <1>17 DEF SyncSelect, HooksOK
  <2>2. QED
    BY <1>17, <2>1 DEF SyncSelect
<1>18. ASSUME NEW h \in Hooks, SyncUpdate(h) PROVE TypeOK'
  <2>1. TableOK'
    BY <1>18 DEF SyncUpdate, TableOK, Terminal
  <2>2. HooksOK'
    BY <1>18 DEF SyncUpdate, SyncDone, HooksOK
  <2>3. QED
    BY <1>18, <2>1, <2>2 DEF SyncUpdate
<1>19. ASSUME NEW h \in Hooks, SyncFails(h) PROVE TypeOK'
  <2>1. HooksOK'
    BY <1>19 DEF SyncFails, SyncDone, HooksOK
  <2>2. QED
    BY <1>19, <2>1 DEF SyncFails
<1>20. ASSUME NEW r \in Rows, Purge(r) PROVE TypeOK'
  <2>1. TableOK'
    BY <1>20 DEF Purge, TableOK
  <2>2. HistoryOK'
    BY <1>20, SpendOK DEF Purge, HistoryOK, histVars, Faults
  <2>3. QED
    BY <1>20, <2>1, <2>2 DEF Purge
<1>21. ASSUME RepoRemoved PROVE TypeOK'
  <2>1. TableOK'
    BY <1>21 DEF RepoRemoved, TableOK
  <2>2. HistoryOK'
    BY <1>21, SpendOK DEF RepoRemoved, HistoryOK, histVars, Faults
  <2>3. QED
    BY <1>21, <2>1, <2>2 DEF RepoRemoved
<1>22. ASSUME NEW g \in Gates, NEW p \in PRs, GateStart(g, p) PROVE TypeOK'
  <2>1. GithubOK' /\ GatesOK'
    BY <1>22 DEF GateStart, GateGoto, GithubOK, GatesOK, Commits
  <2>2. QED
    BY <1>22, <2>1 DEF GateStart
<1>23. ASSUME NEW g \in Gates, GateMerge(g) PROVE TypeOK'
  <2>1. GithubOK'
    BY <1>23 DEF GateMerge, MergeAt, GithubOK, githubVars, Open
  <2>2. GatesOK'
    BY <1>23 DEF GateMerge, GateGoto, GatesOK
  <2>3. QED
    BY <1>23, <2>1, <2>2 DEF GateMerge
<1>24. ASSUME NEW g \in Gates, EnqueueLookup(g) \/ EnqueueConflict(g) \/ EnqueueRecover(g)
       PROVE  TypeOK'
  <2>1. GatesOK'
    BY <1>24 DEF EnqueueLookup, EnqueueConflict, EnqueueRecover, GateGoto, GatesOK, PendingFor
  <2>2. QED
    BY <1>24, <2>1 DEF EnqueueLookup, EnqueueConflict, EnqueueRecover
<1>25. ASSUME NEW g \in Gates, EnqueueInsert(g) PROVE TypeOK'
  <2>1. TableOK' /\ GatesOK'
    BY <1>25 DEF EnqueueInsert, GateGoto, TableOK, GatesOK
  <2>2. QED
    BY <1>25, <2>1 DEF EnqueueInsert
<1>26. ASSUME NEW g \in Gates, EnqueueBump(g) PROVE TypeOK'
  <2>1. TableOK' /\ GatesOK'
    BY <1>26 DEF EnqueueBump, GateGoto, TableOK, GatesOK
  <2>2. QED
    BY <1>26, <2>1 DEF EnqueueBump
<1>27. CASE UNCHANGED vars
  BY <1>27 DEF vars
<1>28. QED
  BY <1>2, <1>3, <1>4, <1>5, <1>6, <1>7, <1>8, <1>9, <1>10, <1>11, <1>12, <1>13,
     <1>14, <1>15, <1>16, <1>17, <1>18, <1>19, <1>20, <1>21, <1>22, <1>23, <1>24,
     <1>25, <1>26, <1>27 DEF Next, WorkerStep, GateStep

\* Every state of the queue is well typed: the tables, the workers' locals and
\* the histories keep their types in every interleaving.
THEOREM TypeCorrect == Spec => []TypeOK
BY InitTypeOK, NextTypeOK, PTL DEF Spec
-----------------------------------------------------------------------------
(* Which steps touch what.                                                 *)

\* The queue table.
LEMMA TableSteps ==
  ASSUME [Next]_vars
  PROVE  \/ UNCHANGED rowVars
         \/ \E w \in Workers : \E B \in SUBSET {r \in Rows : Claimable(r)} :
              \E first \in B : Claim(w, B, first)
         \/ \E w \in Workers : WriteBack(w)
         \/ \E r \in Rows : ComesDue(r) \/ GoesStale(r) \/ Purge(r)
         \/ RepoRemoved
         \/ \E h \in Hooks : SyncUpdate(h)
         \/ \E g \in Gates : EnqueueInsert(g) \/ EnqueueBump(g)
<1>1. ASSUME NEW w \in Workers, Sweep(w) \/ \E s \in Shas : Trigger(w, s)
      PROVE  \E B \in SUBSET {r \in Rows : Claimable(r)} : \E first \in B : Claim(w, B, first)
  BY <1>1 DEF Sweep, Trigger
<1>2. ASSUME NEW w \in Workers, NEW r \in Rows, LoadRow(w, r) \/ RowGone(w, r)
      PROVE  UNCHANGED rowVars
  BY <1>2 DEF LoadRow, RowGone
<1>3. ASSUME NEW w \in Workers,
             Preflight(w) \/ GetPr(w) \/ PutMerge(w) \/ Record(w) \/ RowError(w) \/ Crash(w)
      PROVE  UNCHANGED rowVars
  BY <1>3 DEF Preflight, GetPr, PutMerge, Record, RowError, Crash
<1>4. ASSUME NEW h \in Hooks, SyncSelect(h) \/ SyncFails(h)
      PROVE  UNCHANGED rowVars
  BY <1>4 DEF SyncSelect, SyncFails
<1>5. ASSUME NEW h \in Hooks, NEW p \in PRs, NEW s \in Shas, Push(h, p, s)
      PROVE  UNCHANGED rowVars
  BY <1>5 DEF Push
<1>6. ASSUME NEW p \in PRs, OutsideMerge(p) PROVE UNCHANGED rowVars
  BY <1>6 DEF OutsideMerge
<1>7. ASSUME NEW g \in Gates, NEW p \in PRs, GateStart(g, p) PROVE UNCHANGED rowVars
  BY <1>7 DEF GateStart
<1>8. ASSUME NEW g \in Gates,
             GateMerge(g) \/ EnqueueLookup(g) \/ EnqueueConflict(g) \/ EnqueueRecover(g)
      PROVE  UNCHANGED rowVars
  BY <1>8 DEF GateMerge, EnqueueLookup, EnqueueConflict, EnqueueRecover
<1>9. CASE UNCHANGED vars
  BY <1>9 DEF vars
<1>10. QED
  BY <1>1, <1>2, <1>3, <1>4, <1>5, <1>6, <1>7, <1>8, <1>9 DEF Next, WorkerStep, GateStep

\* GitHub, and the verdicts of the gate.
LEMMA GithubSteps ==
  ASSUME [Next]_vars
  PROVE  \/ UNCHANGED githubVars
         \/ \E w \in Workers : PutMerge(w)
         \/ \E h \in Hooks, p \in PRs, s \in Shas : Push(h, p, s)
         \/ \E p \in PRs : OutsideMerge(p)
         \/ \E g \in Gates, p \in PRs : GateStart(g, p)
         \/ \E g \in Gates : GateMerge(g)
<1>1. ASSUME NEW w \in Workers, Sweep(w) \/ \E s \in Shas : Trigger(w, s)
      PROVE  UNCHANGED githubVars
  BY <1>1 DEF Sweep, Trigger, Claim
<1>2. ASSUME NEW w \in Workers, NEW r \in Rows, LoadRow(w, r) \/ RowGone(w, r)
      PROVE  UNCHANGED githubVars
  BY <1>2 DEF LoadRow, RowGone
<1>3. ASSUME NEW w \in Workers,
             Preflight(w) \/ GetPr(w) \/ Record(w) \/ WriteBack(w) \/ RowError(w) \/ Crash(w)
      PROVE  UNCHANGED githubVars
  BY <1>3 DEF Preflight, GetPr, Record, WriteBack, RowError, Crash
<1>4. ASSUME NEW h \in Hooks, SyncSelect(h) \/ SyncUpdate(h) \/ SyncFails(h)
      PROVE  UNCHANGED githubVars
  BY <1>4 DEF SyncSelect, SyncUpdate, SyncFails
<1>5. ASSUME NEW r \in Rows, ComesDue(r) \/ GoesStale(r) \/ Purge(r) PROVE UNCHANGED githubVars
  BY <1>5 DEF ComesDue, GoesStale, Purge
<1>6. ASSUME RepoRemoved PROVE UNCHANGED githubVars
  BY <1>6 DEF RepoRemoved
<1>7. ASSUME NEW g \in Gates,
             \/ EnqueueLookup(g) \/ EnqueueInsert(g) \/ EnqueueConflict(g)
             \/ EnqueueRecover(g) \/ EnqueueBump(g)
      PROVE  UNCHANGED githubVars
  BY <1>7 DEF EnqueueLookup, EnqueueInsert, EnqueueConflict, EnqueueRecover, EnqueueBump
<1>8. CASE UNCHANGED vars
  BY <1>8 DEF vars
<1>9. QED
  BY <1>1, <1>2, <1>3, <1>4, <1>5, <1>6, <1>7, <1>8 DEF Next, WorkerStep, GateStep

\* The workers: what each of them may be doing after a step.  A row comes into
\* a batch only by a claim, a decision is taken only by the three stages that
\* decide, and what is decided is what is written.
LEMMA WorkerSteps ==
  ASSUME [Next]_vars
  PROVE  \/ UNCHANGED workerVars
         \/ \E w \in Workers : \E B \in SUBSET {r \in Rows : Claimable(r)} :
              \E first \in B : Claim(w, B, first)
         \/ \E w \in Workers, r \in Rows : LoadRow(w, r)
         \/ \E w \in Workers : Preflight(w) \/ GetPr(w) \/ PutMerge(w) \/ Record(w)
         \/ \E w \in Workers : WriteBack(w) \/ RowError(w)
         \/ \E w \in Workers : Stop(w)
<1>1. ASSUME NEW w \in Workers, Sweep(w) \/ \E s \in Shas : Trigger(w, s)
      PROVE  \E B \in SUBSET {r \in Rows : Claimable(r)} : \E first \in B : Claim(w, B, first)
  BY <1>1 DEF Sweep, Trigger
<1>2. ASSUME NEW w \in Workers, NEW r \in Rows, RowGone(w, r) PROVE Stop(w)
  BY <1>2 DEF RowGone
<1>3. ASSUME NEW w \in Workers, Crash(w) PROVE Stop(w)
  BY <1>3 DEF Crash
<1>4. ASSUME NEW h \in Hooks, SyncSelect(h) \/ SyncUpdate(h) \/ SyncFails(h)
      PROVE  UNCHANGED workerVars
  BY <1>4 DEF SyncSelect, SyncUpdate, SyncFails
<1>5. ASSUME NEW r \in Rows, ComesDue(r) \/ GoesStale(r) \/ Purge(r) PROVE UNCHANGED workerVars
  BY <1>5 DEF ComesDue, GoesStale, Purge
<1>6. ASSUME NEW g \in Gates, GateStep(g) PROVE UNCHANGED workerVars
  BY <1>6 DEF GateStep, GateMerge, EnqueueLookup, EnqueueInsert, EnqueueConflict,
              EnqueueRecover, EnqueueBump
<1>7. ASSUME NEW h \in Hooks, NEW p \in PRs, NEW s \in Shas, Push(h, p, s)
      PROVE  UNCHANGED workerVars
  BY <1>7 DEF Push
<1>8. ASSUME NEW p \in PRs, OutsideMerge(p) \/ \E g \in Gates : GateStart(g, p)
      PROVE  UNCHANGED workerVars
  BY <1>8 DEF OutsideMerge, GateStart
<1>9. ASSUME RepoRemoved PROVE UNCHANGED workerVars
  BY <1>9 DEF RepoRemoved
<1>10. CASE UNCHANGED vars
  BY <1>10 DEF vars
<1>11. QED
  BY <1>1, <1>2, <1>3, <1>4, <1>5, <1>6, <1>7, <1>8, <1>9, <1>10 DEF Next, WorkerStep

\* The deliveries.
LEMMA HookSteps ==
  ASSUME [Next]_vars
  PROVE  \/ UNCHANGED hookVars
         \/ \E h \in Hooks : SyncSelect(h) \/ SyncDone(h)
         \/ \E h \in Hooks, p \in PRs, s \in Shas : Push(h, p, s)
<1>1. ASSUME NEW w \in Workers, Sweep(w) \/ \E s \in Shas : Trigger(w, s)
      PROVE  UNCHANGED hookVars
  BY <1>1 DEF Sweep, Trigger, Claim
<1>2. ASSUME NEW w \in Workers, NEW r \in Rows, LoadRow(w, r) \/ RowGone(w, r)
      PROVE  UNCHANGED hookVars
  BY <1>2 DEF LoadRow, RowGone
<1>3. ASSUME NEW w \in Workers,
             \/ Preflight(w) \/ GetPr(w) \/ PutMerge(w) \/ Record(w) \/ WriteBack(w)
             \/ RowError(w) \/ Crash(w)
      PROVE  UNCHANGED hookVars
  BY <1>3 DEF Preflight, GetPr, PutMerge, Record, WriteBack, RowError, Crash
<1>4. ASSUME NEW h \in Hooks, SyncUpdate(h) \/ SyncFails(h)
      PROVE  SyncDone(h)
  BY <1>4 DEF SyncUpdate, SyncFails
<1>5. ASSUME NEW r \in Rows, ComesDue(r) \/ GoesStale(r) \/ Purge(r) PROVE UNCHANGED hookVars
  BY <1>5 DEF ComesDue, GoesStale, Purge
<1>6. ASSUME NEW g \in Gates, GateStep(g) PROVE UNCHANGED hookVars
  BY <1>6 DEF GateStep, GateMerge, EnqueueLookup, EnqueueInsert, EnqueueConflict,
              EnqueueRecover, EnqueueBump
<1>7. ASSUME NEW p \in PRs, OutsideMerge(p) \/ \E g \in Gates : GateStart(g, p)
      PROVE  UNCHANGED hookVars
  BY <1>7 DEF OutsideMerge, GateStart
<1>8. ASSUME RepoRemoved PROVE UNCHANGED hookVars
  BY <1>8 DEF RepoRemoved
<1>9. CASE UNCHANGED vars
  BY <1>9 DEF vars
<1>10. QED
  BY <1>1, <1>2, <1>3, <1>4, <1>5, <1>6, <1>7, <1>8, <1>9 DEF Next, WorkerStep

-----------------------------------------------------------------------------
(* Rows and merges are never undone.                                       *)

\* A row that exists goes on existing, for the same commit.
LEMMA RowsStay ==
  ASSUME TypeOK, [Next]_vars, NEW r \in Rows, status[r] # "absent"
  PROVE  status'[r] # "absent" /\ commit'[r] = commit[r]
<1>1. TableOK /\ WorkersOK
  BY DEF TypeOK
<1>2. CASE UNCHANGED rowVars
  BY <1>2 DEF rowVars
<1>3. ASSUME NEW w \in Workers, NEW B, NEW first, Claim(w, B, first)
      PROVE  status'[r] # "absent" /\ commit'[r] = commit[r]
  BY <1>3 DEF Claim
<1>4. ASSUME NEW w \in Workers, WriteBack(w)
      PROVE  status'[r] # "absent" /\ commit'[r] = commit[r]
  BY <1>1, <1>4 DEF WriteBack, TableOK, WorkersOK, Terminal
<1>5. ASSUME NEW q \in Rows, ComesDue(q) \/ GoesStale(q) \/ Purge(q)
      PROVE  status'[r] # "absent" /\ commit'[r] = commit[r]
  BY <1>1, <1>5 DEF ComesDue, GoesStale, Purge, TableOK
<1>6. CASE RepoRemoved
  BY <1>1, <1>6 DEF RepoRemoved, TableOK
<1>7. ASSUME NEW h \in Hooks, SyncUpdate(h)
      PROVE  status'[r] # "absent" /\ commit'[r] = commit[r]
  BY <1>7 DEF SyncUpdate
<1>8. ASSUME NEW g \in Gates, EnqueueInsert(g) \/ EnqueueBump(g)
      PROVE  status'[r] # "absent" /\ commit'[r] = commit[r]
  BY <1>1, <1>8 DEF EnqueueInsert, EnqueueBump, TableOK
<1>9. QED
  BY <1>2, <1>3, <1>4, <1>5, <1>6, <1>7, <1>8, TableSteps

\* A row that waits now was inserted, or waited before: nothing revives a row.
LEMMA PendingStays ==
  ASSUME TypeOK, [Next]_vars, NEW r \in Rows, status'[r] = "pending", status[r] # "absent"
  PROVE  status[r] = "pending"
<1>1. TableOK /\ WorkersOK
  BY DEF TypeOK
<1>2. ASSUME NEW w \in Workers, WriteBack(w) PROVE status[r] = "pending"
  BY <1>1, <1>2 DEF WriteBack, TableOK, WorkersOK, Busy, Terminal
<1>3. ASSUME NEW w \in Workers, NEW B, NEW first, Claim(w, B, first)
      PROVE  status[r] = "pending"
  BY <1>3 DEF Claim
<1>4. ASSUME NEW q \in Rows, ComesDue(q) \/ GoesStale(q) \/ Purge(q)
      PROVE  status[r] = "pending"
  BY <1>1, <1>4 DEF ComesDue, GoesStale, Purge, TableOK
<1>5. CASE RepoRemoved
  BY <1>5 DEF RepoRemoved
<1>6. ASSUME NEW h \in Hooks, SyncUpdate(h) PROVE status[r] = "pending"
  BY <1>6 DEF SyncUpdate
<1>7. ASSUME NEW g \in Gates, EnqueueInsert(g) \/ EnqueueBump(g) PROVE status[r] = "pending"
  BY <1>1, <1>7 DEF EnqueueInsert, EnqueueBump, TableOK
<1>8. CASE UNCHANGED rowVars
  BY <1>8 DEF rowVars
<1>9. QED
  BY <1>2, <1>3, <1>4, <1>5, <1>6, <1>7, <1>8, TableSteps

\* A batch grows only by a claim.
LEMMA BatchesShrink ==
  ASSUME TypeOK, [Next]_vars,
         ~\E v \in Workers : \E B \in SUBSET {r \in Rows : Claimable(r)} :
            \E first \in B : Claim(v, B, first)
  PROVE  \A w \in Workers : batch'[w] \subseteq batch[w]
<1>1. WorkersOK
  BY DEF TypeOK
<1>2. ASSUME NEW v \in Workers,
             \/ \E r \in Rows : LoadRow(v, r)
             \/ Preflight(v) \/ GetPr(v) \/ PutMerge(v) \/ Record(v) \/ WriteBack(v)
             \/ RowError(v) \/ Stop(v)
      PROVE  \A w \in Workers : batch'[w] \subseteq batch[w]
  BY <1>1, <1>2
  DEF LoadRow, Preflight, GetPr, PutMerge, Record, WriteBack, RowError,
      Through, Stop, Goto, WriteLater, WorkersOK
<1>3. QED
  BY <1>2, WorkerSteps DEF workerVars

\* A merged pull request stays merged as it was.
LEMMA MergesStay ==
  ASSUME TypeOK, [Next]_vars, NEW p \in PRs, ~Open(p)
  PROVE  mergedAs'[p] = mergedAs[p] /\ mergedBy'[p] = mergedBy[p]
<1>1. GithubOK
  BY DEF TypeOK
<1>2. CASE UNCHANGED githubVars
  BY <1>2 DEF githubVars
<1>3. ASSUME NEW c, MergeAt(c) PROVE mergedAs'[p] = mergedAs[p] /\ mergedBy'[p] = mergedBy[p]
  BY <1>1, <1>3 DEF MergeAt, GithubOK, Open
<1>4. ASSUME NEW q \in PRs, OutsideMerge(q)
      PROVE  mergedAs'[p] = mergedAs[p] /\ mergedBy'[p] = mergedBy[p]
  BY <1>1, <1>4 DEF OutsideMerge, GithubOK, Open
<1>5. ASSUME NEW q \in PRs, \/ \E h \in Hooks, s \in Shas : Push(h, q, s)
                            \/ \E g \in Gates : GateStart(g, q)
      PROVE  mergedAs'[p] = mergedAs[p] /\ mergedBy'[p] = mergedBy[p]
  BY <1>5 DEF Push, GateStart
<1>6. QED
  BY <1>2, <1>3, <1>4, <1>5, GithubSteps DEF PutMerge, GateMerge

\* The gate's verdicts accumulate.
LEMMA VerdictsStay ==
  ASSUME [Next]_vars
  PROVE  verified \subseteq verified'
BY GithubSteps DEF githubVars, PutMerge, Push, OutsideMerge, GateStart, GateMerge, MergeAt

-----------------------------------------------------------------------------
(* The safety invariant.                                                   *)

\* Workers and deliveries hold only rows that exist.
InHand ==
  /\ \A w \in Workers : \A r \in batch[w] : status[r] # "absent"
  /\ \A h \in Hooks : \A r \in hookRows[h] : status[r] # "absent"

\* Gate runs and rows are about commits that passed the gate.
Gated ==
  /\ \A g \in Gates : gateSt[g] # "idle" => gateCommit[g] \in verified
  /\ \A r \in Rows : status[r] # "absent" => commit[r] \in verified

\* A worker is about to record a success only for a merged pull request.
SuccessDecided ==
  \A w \in Workers :
    pc[w] \in {"record", "write"} /\ intent[w] = "succeeded" => ~Open(PrOf(cur[w]))

\* OnePendingPerCommit is inductive as it stands.  MergedShaVerified needs
\* Gated, for a worker merges the commit of its row and that row may have been
\* enqueued long ago; Gated needs InHand, or a delivery could abandon a row
\* that has no commit; SucceededMeansMerged needs SuccessDecided, for the
\* decision is taken several steps before it is written.
SafetyInv ==
  /\ TypeOK /\ InHand /\ Gated /\ SuccessDecided
  /\ OnePendingPerCommit /\ MergedShaVerified /\ SucceededMeansMerged

\* The safety invariant holds at first.
LEMMA InitSafety == Init => SafetyInv
<1>1. ASSUME Init PROVE InHand /\ Gated /\ SuccessDecided
  BY <1>1 DEF Init, InHand, Gated, SuccessDecided
<1>2. ASSUME Init PROVE OnePendingPerCommit /\ MergedShaVerified /\ SucceededMeansMerged
  BY <1>2 DEF Init, OnePendingPerCommit, MergedShaVerified, SucceededMeansMerged, Pending
<1>3. QED
  BY <1>1, <1>2, InitTypeOK DEF SafetyInv

\* What is held is never absent again.
LEMMA InHandNext == TypeOK /\ InHand /\ [Next]_vars => InHand'
<1> SUFFICES ASSUME TypeOK, InHand, [Next]_vars PROVE InHand'
  OBVIOUS
<1>1. WorkersOK /\ HooksOK
  BY DEF TypeOK
<1>2. ASSUME NEW w \in Workers, NEW r \in batch'[w] PROVE r \in Rows /\ status[r] # "absent"
  <2>1. CASE UNCHANGED workerVars
    BY <1>1, <1>2, <2>1 DEF workerVars, InHand, WorkersOK
  <2>2. ASSUME NEW v \in Workers, NEW B \in SUBSET {q \in Rows : Claimable(q)},
               NEW first \in B, Claim(v, B, first)
        PROVE  r \in Rows /\ status[r] # "absent"
    BY <1>1, <1>2, <2>2 DEF Claim, Claimable, Pending, InHand, WorkersOK
  <2>3. ASSUME NEW v \in Workers,
               \/ \E q \in Rows : LoadRow(v, q)
               \/ Preflight(v) \/ GetPr(v) \/ PutMerge(v)
        PROVE  batch' = batch
    BY <2>3 DEF LoadRow, Preflight, GetPr, PutMerge, WriteLater, Goto
  <2>4. ASSUME NEW v \in Workers, Record(v) \/ WriteBack(v) \/ RowError(v) \/ Stop(v)
        PROVE  r \in Rows /\ status[r] # "absent"
    BY <1>1, <1>2, <2>4
    DEF Record, WriteBack, RowError, Stop, Through, WriteLater, Goto, InHand, WorkersOK
  <2>5. QED
    BY <1>1, <1>2, <2>1, <2>2, <2>3, <2>4, WorkerSteps DEF InHand, WorkersOK
<1>3. ASSUME NEW h \in Hooks, NEW r \in hookRows'[h] PROVE r \in Rows /\ status[r] # "absent"
  BY <1>1, <1>3, HookSteps
  DEF hookVars, SyncSelect, SyncDone, Push, Pending, InHand, HooksOK
<1>4. QED
  BY <1>2, <1>3, RowsStay DEF InHand

\* Who enqueues: the gate run inserts its own commit.
LEMMA RowsAppear ==
  ASSUME TypeOK, InHand, [Next]_vars, NEW r \in Rows, status[r] = "absent", status'[r] # "absent"
  PROVE  \E g \in Gates : EnqueueInsert(g) /\ commit'[r] = gateCommit[g]
<1>1. TableOK /\ WorkersOK /\ HooksOK
  BY DEF TypeOK
<1>2. ASSUME NEW g \in Gates, EnqueueInsert(g) PROVE commit'[r] = gateCommit[g]
  BY <1>1, <1>2 DEF EnqueueInsert, TableOK
<1>3. ASSUME NEW w \in Workers PROVE ~WriteBack(w)
  BY <1>1 DEF WriteBack, WorkersOK, Busy, InHand, TableOK
<1>4. ASSUME NEW h \in Hooks PROVE ~SyncUpdate(h)
  BY <1>1 DEF SyncUpdate, InHand, HooksOK
<1>5. ASSUME NEW w \in Workers, NEW B, NEW first PROVE ~Claim(w, B, first)
  BY DEF Claim
<1>6. ASSUME NEW q \in Rows PROVE ~(ComesDue(q) \/ GoesStale(q) \/ Purge(q))
  BY <1>1 DEF ComesDue, GoesStale, Purge, TableOK, Terminal
<1>7. ~RepoRemoved
  BY DEF RepoRemoved
<1>8. ASSUME NEW g \in Gates PROVE ~EnqueueBump(g)
  BY DEF EnqueueBump
<1>9. QED
  BY <1>2, <1>3, <1>4, <1>5, <1>6, <1>7, <1>8, TableSteps DEF rowVars

\* A row keeps the commit that its gate run verified.
LEMMA GatedNext == TypeOK /\ InHand /\ Gated /\ [Next]_vars => Gated'
<1> SUFFICES ASSUME TypeOK, InHand, Gated, [Next]_vars PROVE Gated'
  OBVIOUS
<1>1. GatesOK
  BY DEF TypeOK
<1>2. ASSUME NEW g \in Gates, gateSt'[g] # "idle" PROVE gateCommit'[g] \in verified'
  <2>1. \/ gateSt[g] # "idle" /\ gateCommit'[g] = gateCommit[g]
        \/ gateCommit'[g] \in verified'
    <3>1. ASSUME NEW f \in Gates, NEW p \in PRs, GateStart(f, p)
          PROVE  \/ gateSt[g] # "idle" /\ gateCommit'[g] = gateCommit[g]
                 \/ gateCommit'[g] \in verified'
      BY <1>1, <1>2, <3>1 DEF GateStart, GateGoto, GatesOK
    <3>2. ASSUME NEW f \in Gates, GateStep(f)
          PROVE  gateSt[g] # "idle" /\ gateCommit'[g] = gateCommit[g]
      BY <1>1, <1>2, <3>2
      DEF GateStep, GateMerge, EnqueueLookup, EnqueueInsert, EnqueueConflict,
          EnqueueRecover, EnqueueBump, GateGoto, GatesOK
    <3>3. CASE UNCHANGED gateVars
      BY <1>2, <3>3 DEF gateVars
    <3>4. ASSUME NEW w \in Workers,
                 \/ \E r \in Rows : LoadRow(w, r) \/ RowGone(w, r)
                 \/ Preflight(w) \/ GetPr(w) \/ PutMerge(w) \/ Record(w) \/ WriteBack(w)
                 \/ RowError(w) \/ Crash(w)
          PROVE  UNCHANGED gateVars
      BY <3>4 DEF LoadRow, RowGone, Preflight, GetPr, PutMerge, Record, WriteBack, RowError, Crash
    <3>5. ASSUME NEW w \in Workers, Sweep(w) \/ \E s \in Shas : Trigger(w, s)
          PROVE  UNCHANGED gateVars
      BY <3>5 DEF Sweep, Trigger, Claim
    <3>6. ASSUME NEW h \in Hooks,
                 \/ SyncSelect(h) \/ SyncUpdate(h) \/ SyncFails(h)
                 \/ \E p \in PRs, s \in Shas : Push(h, p, s)
          PROVE  UNCHANGED gateVars
      BY <3>6 DEF SyncSelect, SyncUpdate, SyncFails, Push
    <3>7. ASSUME NEW r \in Rows, ComesDue(r) \/ GoesStale(r) \/ Purge(r)
          PROVE  UNCHANGED gateVars
      BY <3>7 DEF ComesDue, GoesStale, Purge
    <3>8. ASSUME RepoRemoved \/ \E p \in PRs : OutsideMerge(p) PROVE UNCHANGED gateVars
      BY <3>8 DEF RepoRemoved, OutsideMerge
    <3>9. CASE UNCHANGED vars
      BY <3>3, <3>9 DEF vars
    <3>10. QED
      BY <3>1, <3>2, <3>3, <3>4, <3>5, <3>6, <3>7, <3>8, <3>9 DEF Next, WorkerStep
  <2>2. QED
    BY <2>1, VerdictsStay DEF Gated
<1>3. ASSUME NEW r \in Rows, status'[r] # "absent" PROVE commit'[r] \in verified'
  <2>1. CASE status[r] # "absent"
    BY <2>1, RowsStay, VerdictsStay DEF Gated
  <2>2. CASE status[r] = "absent"
    BY <1>3, <2>2, RowsAppear, VerdictsStay DEF Gated, EnqueueInsert
  <2>3. QED
    BY <2>1, <2>2
<1>4. QED
  BY <1>2, <1>3 DEF Gated

\* A merge by the bot merges the head, and the head passed the gate.
LEMMA BotMergesAreGated ==
  ASSUME TypeOK, InHand, Gated, [Next]_vars, NEW c \in Commits, MergeAt(c),
         \/ \E w \in Workers : PutMerge(w) /\ c = commit[cur[w]]
         \/ \E g \in Gates : GateMerge(g) /\ c = gateCommit[g]
  PROVE  c[1] \in PRs /\ c = <<c[1], head[c[1]]>> /\ c \in verified
<1>1. WorkersOK /\ c[1] \in PRs /\ c = <<c[1], c[2]>> /\ head[c[1]] = c[2]
  BY DEF TypeOK, Commits, MergeAt
<1>2. ASSUME NEW w \in Workers, PutMerge(w) PROVE commit[cur[w]] \in verified
  BY <1>1, <1>2 DEF PutMerge, WorkersOK, Busy, InHand, Gated
<1>3. ASSUME NEW g \in Gates, GateMerge(g) PROVE gateCommit[g] \in verified
  BY <1>3 DEF GateMerge, Gated
<1>4. QED
  BY <1>1, <1>2, <1>3

\* A merge by the bot is of the commit of a row or of a gate run.
LEMMA MergedShaVerifiedNext ==
  TypeOK /\ InHand /\ Gated /\ MergedShaVerified /\ [Next]_vars => MergedShaVerified'
<1> SUFFICES ASSUME TypeOK, InHand, Gated, MergedShaVerified, [Next]_vars,
                    NEW p \in PRs, mergedBy'[p] = "bot"
             PROVE  <<p, mergedAs'[p]>> \in verified'
  BY DEF MergedShaVerified
<1>1. GithubOK /\ WorkersOK /\ TableOK /\ GatesOK
  BY DEF TypeOK
<1>2. CASE UNCHANGED <<mergedAs, mergedBy>>
  BY <1>2, VerdictsStay DEF MergedShaVerified
<1>3. ASSUME NEW c \in Commits, MergeAt(c), c[1] \in PRs /\ c = <<c[1], head[c[1]]>> /\ c \in verified
      PROVE  <<p, mergedAs'[p]>> \in verified'
  BY <1>1, <1>3, VerdictsStay DEF MergeAt, GithubOK, MergedShaVerified
<1>4. ASSUME NEW w \in Workers, PutMerge(w), MergeAt(commit[cur[w]])
      PROVE  <<p, mergedAs'[p]>> \in verified'
  <2>1. commit[cur[w]] \in Commits
    BY <1>1, <1>4 DEF PutMerge, WorkersOK, Busy, InHand, Gated, GithubOK
  <2>2. QED
    BY <1>3, <1>4, <2>1, BotMergesAreGated
<1>5. ASSUME NEW g \in Gates, GateMerge(g), MergeAt(gateCommit[g])
      PROVE  <<p, mergedAs'[p]>> \in verified'
  <2>1. gateCommit[g] \in Commits
    BY <1>1, <1>5 DEF GateMerge, Gated, GithubOK
  <2>2. QED
    BY <1>3, <1>5, <2>1, BotMergesAreGated
<1>6. ASSUME NEW q \in PRs, OutsideMerge(q) PROVE <<p, mergedAs'[p]>> \in verified'
  BY <1>1, <1>6, VerdictsStay DEF OutsideMerge, GithubOK, MergedShaVerified
<1>7. ASSUME NEW q \in PRs, \/ \E h \in Hooks, s \in Shas : Push(h, q, s)
                            \/ \E g \in Gates : GateStart(g, q)
      PROVE  UNCHANGED <<mergedAs, mergedBy>>
  BY <1>7 DEF Push, GateStart
<1>8. QED
  BY <1>2, <1>4, <1>5, <1>6, <1>7, GithubSteps DEF PutMerge, GateMerge, githubVars

\* The index keeps a second pending row out, and no row becomes pending again.
LEMMA OnePendingNext ==
  TypeOK /\ InHand /\ OnePendingPerCommit /\ [Next]_vars => OnePendingPerCommit'
<1> SUFFICES ASSUME TypeOK, InHand, OnePendingPerCommit, [Next]_vars,
                    NEW q \in Rows, NEW r \in Rows,
                    status'[q] = "pending", status'[r] = "pending", commit'[q] = commit'[r]
             PROVE  q = r
  BY DEF OnePendingPerCommit, Pending
<1>1. TableOK /\ WorkersOK
  BY DEF TypeOK
<1>2. ASSUME NEW t \in Rows, status'[t] = "pending", status[t] # "absent"
      PROVE  status[t] = "pending" /\ commit'[t] = commit[t]
  BY <1>2, RowsStay, PendingStays
<1>3. CASE status[q] # "absent" /\ status[r] # "absent"
  BY <1>2, <1>3 DEF OnePendingPerCommit, Pending
<1>4. ASSUME NEW t \in Rows, NEW u \in Rows, status[t] = "absent", status'[t] = "pending",
             status'[u] = "pending", commit'[t] = commit'[u]
      PROVE  t = u
  <2>1. PICK g \in Gates : EnqueueInsert(g) /\ commit'[t] = gateCommit[g]
    BY <1>4, RowsAppear
  <2>2. CASE status[u] # "absent"
    BY <1>2, <1>4, <2>1, <2>2 DEF EnqueueInsert, PendingFor, Pending
  <2>3. CASE status[u] = "absent"
    BY <1>1, <1>4, <2>1, <2>3 DEF EnqueueInsert, TableOK
  <2>4. QED
    BY <2>2, <2>3
<1>5. QED
  BY <1>3, <1>4

\* Who decides that a row succeeded: the look at the pull request, or the merge
\* call of the worker itself; both with the pull request merged.
LEMMA SuccessDecidedNext ==
  TypeOK /\ InHand /\ Gated /\ SuccessDecided /\ [Next]_vars => SuccessDecided'
<1> SUFFICES ASSUME TypeOK, InHand, Gated, SuccessDecided, [Next]_vars, NEW w \in Workers,
                    pc'[w] \in {"record", "write"}, intent'[w] = "succeeded"
             PROVE  mergedAs'[commit'[cur'[w]][1]] # NoSha
  BY DEF SuccessDecided, Open, PrOf
<1>1. WorkersOK /\ TableOK /\ GithubOK
  BY DEF TypeOK
<1>2. ASSUME NEW r \in Rows, status[r] # "absent", ~Open(PrOf(r))
      PROVE  mergedAs'[commit'[r][1]] # NoSha
  <2>1. PrOf(r) \in PRs
    BY <1>1, <1>2 DEF Gated, GithubOK, Commits, PrOf
  <2>2. QED
    BY <1>2, <2>1, RowsStay, MergesStay DEF Open, PrOf
\* The decision stands from before this step.
<1>3. ASSUME pc[w] \in {"record", "write"}, intent[w] = "succeeded", cur'[w] = cur[w]
      PROVE  mergedAs'[commit'[cur'[w]][1]] # NoSha
  BY <1>1, <1>2, <1>3 DEF SuccessDecided, InHand, WorkersOK, Busy
\* Or it is taken in this step.
<1>4. ASSUME GetPr(w) PROVE mergedAs'[commit'[cur'[w]][1]] # NoSha
  <2>1. cur[w] \in batch[w] /\ cur[w] \in Rows /\ cur'[w] = cur[w]
    BY <1>1, <1>4 DEF GetPr, WriteLater, Goto, WorkersOK, Busy
  <2>2. ~Open(PrOf(cur[w]))
    BY <1>1, <1>4 DEF GetPr, WriteLater, Goto, WorkersOK
  <2>3. QED
    BY <1>2, <2>1, <2>2 DEF InHand
<1>5. ASSUME PutMerge(w) PROVE mergedAs'[commit'[cur'[w]][1]] # NoSha
  <2>1. cur[w] \in Rows /\ cur'[w] = cur[w] /\ status[cur[w]] # "absent" /\ commit' = commit
    BY <1>1, <1>5 DEF PutMerge, WriteLater, WorkersOK, Busy, InHand, rowVars
  <2>2. commit[cur[w]] \in Commits
    BY <1>1, <2>1 DEF Gated, GithubOK
  <2>3. MergeAt(commit[cur[w]])
    BY <1>1, <1>5, FailureOutcomesType DEF PutMerge, WriteLater, WorkersOK
  <2>4. QED
    BY <1>1, <2>1, <2>2, <2>3, NullAssumption DEF MergeAt, Commits, GithubOK
\* No other step takes it.
<1>6. ASSUME NEW v \in Workers,
             \/ \E B \in SUBSET Rows : \E first \in B : Claim(v, B, first)
             \/ \E r \in Rows : LoadRow(v, r)
             \/ Preflight(v) \/ Record(v) \/ WriteBack(v) \/ RowError(v) \/ Stop(v)
             \/ v # w /\ (GetPr(v) \/ PutMerge(v))
      PROVE  pc[w] \in {"record", "write"} /\ intent[w] = "succeeded" /\ cur'[w] = cur[w]
  <2>1. CASE v # w
    BY <1>1, <1>6, <2>1
    DEF Claim, LoadRow, Preflight, GetPr, PutMerge, Record, WriteBack, RowError,
        Through, Stop, Goto, WriteLater, WorkersOK
  <2>2. CASE v = w
    BY <1>1, <1>6, <2>2
    DEF Claim, LoadRow, Preflight, Record, WriteBack, RowError,
        Through, Stop, Goto, WriteLater, WorkersOK, Busy
  <2>3. QED
    BY <2>1, <2>2
<1>7. CASE UNCHANGED workerVars
  BY <1>3, <1>7 DEF workerVars
<1>8. QED
  BY <1>3, <1>4, <1>5, <1>6, <1>7, WorkerSteps

\* A success is written only after the merge was seen, and merges are not undone.
LEMMA SucceededNext ==
  TypeOK /\ InHand /\ Gated /\ SuccessDecided /\ SucceededMeansMerged /\ [Next]_vars
    => SucceededMeansMerged'
<1> SUFFICES ASSUME TypeOK, InHand, Gated, SuccessDecided, SucceededMeansMerged, [Next]_vars,
                    NEW r \in Rows, status'[r] = "succeeded"
             PROVE  mergedAs'[commit'[r][1]] # NoSha
  BY DEF SucceededMeansMerged, Open, PrOf
<1>1. WorkersOK /\ TableOK /\ GithubOK /\ HooksOK
  BY DEF TypeOK
<1>2. ASSUME status[r] # "absent", ~Open(PrOf(r))
      PROVE  mergedAs'[commit'[r][1]] # NoSha
  <2>1. PrOf(r) \in PRs
    BY <1>1, <1>2 DEF Gated, GithubOK, Commits, PrOf
  <2>2. QED
    BY <1>2, <2>1, RowsStay, MergesStay DEF Open, PrOf
<1>3. CASE status[r] = "succeeded"
  BY <1>2, <1>3 DEF SucceededMeansMerged
<1>4. ASSUME NEW w \in Workers, WriteBack(w), status[r] # "succeeded"
      PROVE  mergedAs'[commit'[r][1]] # NoSha
  BY <1>1, <1>2, <1>4 DEF WriteBack, SuccessDecided, InHand, WorkersOK, TableOK, Busy
<1>5. ASSUME NEW w \in Workers, NEW B, NEW first, Claim(w, B, first) PROVE status' = status
  BY <1>5 DEF Claim
<1>6. ASSUME NEW q \in Rows, ComesDue(q) \/ GoesStale(q) \/ Purge(q)
      PROVE  status[r] = "succeeded"
  BY <1>1, <1>6 DEF ComesDue, GoesStale, Purge, TableOK
<1>7. ASSUME RepoRemoved PROVE FALSE
  BY <1>7 DEF RepoRemoved
<1>8. ASSUME NEW h \in Hooks, SyncUpdate(h) PROVE status[r] = "succeeded"
  BY <1>8 DEF SyncUpdate
<1>9. ASSUME NEW g \in Gates, EnqueueInsert(g) \/ EnqueueBump(g) PROVE status[r] = "succeeded"
  BY <1>1, <1>9 DEF EnqueueInsert, EnqueueBump, TableOK
<1>10. QED
  BY <1>3, <1>4, <1>5, <1>6, <1>7, <1>8, <1>9, TableSteps DEF rowVars

\* The parts together are inductive.
LEMMA SafetyInductive == Spec => []SafetyInv
<1>1. SafetyInv /\ [Next]_vars => SafetyInv'
  BY NextTypeOK, InHandNext, GatedNext, SuccessDecidedNext, OnePendingNext,
     MergedShaVerifiedNext, SucceededNext DEF SafetyInv
<1>2. QED
  BY <1>1, InitSafety, PTL DEF Spec

-----------------------------------------------------------------------------
(* The safety theorems.                                                    *)

\* At most one pending row per commit of a pull request, whatever gate runs
\* enqueue at the same time (enqueue_or_bump and its unique index).
THEOREM OnePendingHolds == Spec => []OnePendingPerCommit
BY SafetyInductive, PTL DEF SafetyInv

\* Whatever the bot merged had passed the gate (the SHA-bound invariant of
\* _process_single_retry), under any interleaving of pushes and retries.
THEOREM MergedShaVerifiedHolds == Spec => []MergedShaVerified
BY SafetyInductive, PTL DEF SafetyInv

\* A row marked succeeded belongs to a merged pull request (mark_succeeded).
THEOREM SucceededMeansMergedHolds == Spec => []SucceededMeansMerged
BY SafetyInductive, PTL DEF SafetyInv

\* A settled row never waits again (release_claim leaves the status alone).
THEOREM NoRevivalHolds == Spec => NoRevival
<1>1. ASSUME TypeOK, [Next]_vars, NEW r \in Rows, status[r] \in Terminal
      PROVE  status'[r] \in Terminal \cup {"deleted"}
  <2>1. status'[r] # "absent" /\ status'[r] # "pending"
    BY <1>1, RowsStay, PendingStays DEF Terminal
  <2>2. TableOK'
    BY <1>1, NextTypeOK DEF TypeOK
  <2>3. QED
    BY <2>1, <2>2 DEF TableOK, Terminal
<1>2. TypeOK /\ [Next]_vars
        => [\A r \in Rows : status[r] \in Terminal => status'[r] \in Terminal \cup {"deleted"}]_vars
  BY <1>1
<1>3. QED
  BY <1>2, TypeCorrect, PTL DEF Spec, NoRevival

-----------------------------------------------------------------------------
(* The refinement: GitHub and the verdicts of the gate behave as           *)
(* ShaBoundMerge allows, and everything else is a stutter.                 *)

\* A first state of the queue is one of ShaBoundMerge.
LEMMA RefinesInit == Init => Abs!Init
BY DEF Init, Abs!Init

\* A step of the queue is one of ShaBoundMerge, or changes nothing there.
LEMMA RefinesNext == SafetyInv /\ [Next]_vars => [Abs!Next]_(Abs!absVars)
<1> SUFFICES ASSUME TypeOK, InHand, Gated, [Next]_vars PROVE [Abs!Next]_(Abs!absVars)
  BY DEF SafetyInv
<1>1. GithubOK /\ WorkersOK
  BY DEF TypeOK
<1>2. ASSUME NEW c \in Commits, MergeAt(c), c[1] \in PRs /\ c = <<c[1], head[c[1]]>> /\ c \in verified
      PROVE  Abs!BotMerge(c[1])
  BY <1>1, <1>2 DEF MergeAt, Abs!BotMerge, Abs!Open, Open
<1>3. ASSUME NEW w \in Workers, PutMerge(w) PROVE Abs!Next \/ UNCHANGED githubVars
  <2>1. commit[cur[w]] \in Commits
    BY <1>1, <1>3 DEF PutMerge, WorkersOK, Busy, InHand, Gated, GithubOK
  <2>2. CASE MergeAt(commit[cur[w]])
    BY <1>2, <1>3, <2>1, <2>2, BotMergesAreGated DEF Abs!Next
  <2>3. QED
    BY <1>3, <2>2 DEF PutMerge
<1>4. ASSUME NEW g \in Gates, GateMerge(g) PROVE Abs!Next \/ UNCHANGED githubVars
  <2>1. gateCommit[g] \in Commits
    BY <1>1, <1>4 DEF GateMerge, Gated, GithubOK
  <2>2. CASE MergeAt(gateCommit[g])
    BY <1>2, <1>4, <2>1, <2>2, BotMergesAreGated DEF Abs!Next
  <2>3. QED
    BY <1>4, <2>2 DEF GateMerge
<1>5. ASSUME NEW h \in Hooks, NEW p \in PRs, NEW s \in Shas, Push(h, p, s) PROVE Abs!Next
  BY <1>5 DEF Push, Open, Abs!Next, Abs!Push, Abs!Open
<1>6. ASSUME NEW p \in PRs, OutsideMerge(p) PROVE Abs!Next
  BY <1>6 DEF OutsideMerge, Open, Abs!Next, Abs!OutsideMerge, Abs!Open
<1>7. ASSUME NEW g \in Gates, NEW p \in PRs, GateStart(g, p) PROVE Abs!Next
  BY <1>7 DEF GateStart, Open, Abs!Next, Abs!Verify, Abs!Open
<1>8. QED
  BY <1>3, <1>4, <1>5, <1>6, <1>7, GithubSteps DEF githubVars, Abs!absVars

\* The merge path implements its specification: every pull request is merged
\* at most once, by the bot only at a head that passed the gate.
THEOREM Refinement == Spec => ImplementsShaBoundMerge
BY RefinesInit, RefinesNext, SafetyInductive, PTL DEF Spec, ImplementsShaBoundMerge, Abs!Spec

-----------------------------------------------------------------------------
(* Exclusive processing, when no batch outlives the stale cutoff.          *)

\* What a worker holds and still waits is claimed, and not taken for stale;
\* so no other claim can take it.  Exclusiveness needs this, and this needs
\* exclusiveness: a second holder's release would clear the claim.
InFlightInv ==
  /\ left["slow"] = 0
  /\ \A w \in Workers : \A r \in batch[w] : Pending(r) => claimed[r] = "fresh"
  /\ InFlightExclusive

\* A budget that is used up stays used up.
LEMMA BudgetStays ==
  ASSUME TypeOK, [Next]_vars, NEW f \in Faults, left[f] = 0
  PROVE  left'[f] = 0
<1>1. left \in [Faults -> Nat]
  BY DEF TypeOK, HistoryOK
<1>2. ASSUME NEW e \in Faults, Spend(e) PROVE left'[f] = 0
  BY <1>1, <1>2 DEF Spend
<1>3. ASSUME NEW w \in Workers, Sweep(w) \/ \E s \in Shas : Trigger(w, s)
      PROVE  UNCHANGED left
  BY <1>3 DEF Sweep, Trigger, Claim
<1>4. ASSUME NEW w \in Workers, \/ \E r \in Rows : LoadRow(w, r) \/ RowGone(w, r)
                                \/ Preflight(w) \/ GetPr(w) \/ PutMerge(w) \/ WriteBack(w)
      PROVE  UNCHANGED left
  BY <1>4 DEF LoadRow, RowGone, Preflight, GetPr, PutMerge, WriteBack
<1>5. ASSUME NEW w \in Workers, Record(w) \/ RowError(w) \/ Crash(w)
      PROVE  UNCHANGED left \/ \E e \in Faults : Spend(e)
  BY <1>5 DEF Record, RowError, Crash, Faults
<1>6. ASSUME NEW r \in Rows, ComesDue(r) \/ GoesStale(r) \/ Purge(r)
      PROVE  UNCHANGED left \/ \E e \in Faults : Spend(e)
  BY <1>6 DEF ComesDue, GoesStale, Purge, Faults
<1>7. ASSUME NEW h \in Hooks, \/ SyncSelect(h) \/ SyncUpdate(h) \/ SyncFails(h)
                              \/ \E p \in PRs, s \in Shas : Push(h, p, s)
      PROVE  UNCHANGED left
  BY <1>7 DEF SyncSelect, SyncUpdate, SyncFails, Push
<1>8. ASSUME NEW p \in PRs, OutsideMerge(p) \/ \E g \in Gates : GateStart(g, p)
      PROVE  UNCHANGED left
  BY <1>8 DEF OutsideMerge, GateStart
<1>9. ASSUME NEW g \in Gates, GateStep(g) PROVE UNCHANGED left
  BY <1>9 DEF GateStep, GateMerge, EnqueueLookup, EnqueueInsert, EnqueueConflict,
              EnqueueRecover, EnqueueBump
<1>10. ASSUME RepoRemoved PROVE \E e \in Faults : Spend(e)
  BY <1>10 DEF RepoRemoved, Faults
<1>11. CASE UNCHANGED vars
  BY <1>11 DEF vars
<1>12. QED
  BY <1>2, <1>3, <1>4, <1>5, <1>6, <1>7, <1>8, <1>9, <1>10, <1>11 DEF Next, WorkerStep

\* Without a slow worker no claim is taken over while its batch lasts.
LEMMA InFlightNext == SafetyInv /\ InFlightInv /\ [Next]_vars => InFlightInv'
<1> SUFFICES ASSUME TypeOK, InHand, InFlightInv, [Next]_vars PROVE InFlightInv'
  BY DEF SafetyInv
<1>1. TableOK /\ WorkersOK /\ HooksOK
  BY DEF TypeOK
<1>2. left'["slow"] = 0
  BY BudgetStays DEF InFlightInv, Faults
<1>3. CASE \E v \in Workers : \E B \in SUBSET {r \in Rows : Claimable(r)} :
             \E first \in B : Claim(v, B, first)
  <2>1. PICK v \in Workers, B \in SUBSET {r \in Rows : Claimable(r)} :
          \E first \in B : Claim(v, B, first)
    BY <1>3
  <2>2. \A w \in Workers : batch[w] \cap B = {}
    BY DEF InFlightInv, Claimable
  <2>3. \A w \in Workers : batch'[w] = IF w = v THEN B ELSE batch[w]
    BY <1>1, <2>1 DEF Claim, WorkersOK
  <2>4. InFlightExclusive'
    BY <2>2, <2>3 DEF InFlightInv, InFlightExclusive
  <2>5. \A w \in Workers : \A r \in batch'[w] : status'[r] = "pending" => claimed'[r] = "fresh"
    BY <1>1, <2>1, <2>3 DEF Claim, InFlightInv, WorkersOK, Pending
  <2>6. QED
    BY <1>2, <2>4, <2>5 DEF InFlightInv, Pending
<1>4. CASE ~\E v \in Workers : \E B \in SUBSET {r \in Rows : Claimable(r)} :
             \E first \in B : Claim(v, B, first)
  <2>1. \A w \in Workers : batch'[w] \subseteq batch[w]
    BY <1>4, BatchesShrink
  <2>2. InFlightExclusive'
    BY <2>1 DEF InFlightInv, InFlightExclusive
  <2>3. ASSUME NEW w \in Workers, NEW r \in batch'[w], status'[r] = "pending"
        PROVE  claimed'[r] = "fresh"
    <3>1. r \in Rows /\ r \in batch[w] /\ status[r] = "pending" /\ claimed[r] = "fresh"
      BY <1>1, <2>1, <2>3, PendingStays DEF InFlightInv, InHand, Pending, WorkersOK
    <3>2. ASSUME NEW v \in Workers, WriteBack(v) PROVE claimed'[r] = "fresh"
      <4>1. cur[v] # r
        BY <1>1, <2>3, <3>1, <3>2 DEF WriteBack, Through, WorkersOK, Busy, InFlightInv, InFlightExclusive
      <4>2. QED
        BY <1>1, <3>1, <3>2, <4>1 DEF WriteBack, TableOK
    <3>3. ASSUME NEW q \in Rows, ComesDue(q) \/ Purge(q) PROVE claimed'[r] = "fresh"
      BY <3>1, <3>3 DEF ComesDue, Purge
    <3>4. ASSUME NEW q \in Rows, GoesStale(q) PROVE claimed'[r] = "fresh"
      BY <1>1, <3>1, <3>4 DEF GoesStale, HeldBy, Spend, InFlightInv, TableOK
    <3>5. ASSUME NEW h \in Hooks, SyncUpdate(h) PROVE claimed'[r] = "fresh"
      BY <1>1, <2>3, <3>1, <3>5 DEF SyncUpdate, HooksOK
    <3>6. ASSUME NEW g \in Gates, EnqueueInsert(g) \/ EnqueueBump(g) PROVE claimed'[r] = "fresh"
      BY <3>1, <3>6 DEF EnqueueInsert, EnqueueBump
    <3>7. ASSUME RepoRemoved PROVE claimed'[r] = "fresh"
      BY <3>1, <3>7 DEF RepoRemoved
    <3>8. QED
      BY <1>4, <3>1, <3>2, <3>3, <3>4, <3>5, <3>6, <3>7, TableSteps DEF rowVars
  <2>4. QED
    BY <1>2, <2>2, <2>3 DEF InFlightInv, Pending
<1>5. QED
  BY <1>3, <1>4

\* With batches shorter than the stale cutoff, no row is in the hands of two
\* workers, whatever crashes, errors, deliveries and triggers there are.
THEOREM InFlightExclusiveHolds ==
  ASSUME Budget["slow"] = 0
  PROVE  Spec => []InFlightExclusive
<1>1. Init => InFlightInv
  BY DEF Init, InFlightInv, InFlightExclusive
<1>2. QED
  BY <1>1, InFlightNext, SafetyInductive, PTL DEF Spec, InFlightInv
-----------------------------------------------------------------------------
(* The record of an outcome comes before the outcome.                      *)

\* A worker about to write has recorded what it is about to write.
MirrorInv ==
  /\ left["log"] = 0
  /\ \A w \in Workers : pc[w] = "write" => LogOf(intent[w]) \subseteq logged[cur[w]]
  /\ OutcomeMirrored

\* Only Record writes MergeAttempt rows, and it only adds.
LEMMA LogsStay ==
  ASSUME TypeOK, [Next]_vars, NEW r \in Rows
  PROVE  logged[r] \subseteq logged'[r]
<1>1. HistoryOK
  BY DEF TypeOK
<1>2. ASSUME NEW w \in Workers, \/ Sweep(w) \/ \E s \in Shas : Trigger(w, s)
                                \/ \E q \in Rows : LoadRow(w, q) \/ RowGone(w, q)
      PROVE  UNCHANGED logged
  BY <1>2 DEF Sweep, Trigger, Claim, LoadRow, RowGone, histVars
<1>3. ASSUME NEW w \in Workers, \/ Preflight(w) \/ GetPr(w) \/ PutMerge(w) \/ WriteBack(w)
                                \/ RowError(w) \/ Crash(w)
      PROVE  UNCHANGED logged
  BY <1>3 DEF Preflight, GetPr, PutMerge, WriteBack, RowError, Crash, histVars
<1>4. ASSUME NEW w \in Workers, Record(w) PROVE logged[r] \subseteq logged'[r]
  BY <1>1, <1>4 DEF Record, HistoryOK
<1>5. ASSUME NEW q \in Rows, ComesDue(q) \/ GoesStale(q) \/ Purge(q) PROVE UNCHANGED logged
  BY <1>5 DEF ComesDue, GoesStale, Purge, histVars
<1>6. ASSUME NEW h \in Hooks, \/ SyncSelect(h) \/ SyncUpdate(h) \/ SyncFails(h)
                              \/ \E p \in PRs, s \in Shas : Push(h, p, s)
      PROVE  UNCHANGED logged
  BY <1>6 DEF SyncSelect, SyncUpdate, SyncFails, Push, histVars
<1>7. ASSUME NEW p \in PRs, OutsideMerge(p) \/ \E g \in Gates : GateStart(g, p)
      PROVE  UNCHANGED logged
  BY <1>7 DEF OutsideMerge, GateStart, histVars
<1>8. ASSUME NEW g \in Gates, GateStep(g) PROVE UNCHANGED logged
  BY <1>8 DEF GateStep, GateMerge, EnqueueLookup, EnqueueInsert, EnqueueConflict,
              EnqueueRecover, EnqueueBump, histVars
<1>9. ASSUME RepoRemoved PROVE UNCHANGED logged
  BY <1>9 DEF RepoRemoved, histVars
<1>10. CASE UNCHANGED vars
  BY <1>10 DEF vars, histVars
<1>11. QED
  BY <1>2, <1>3, <1>4, <1>5, <1>6, <1>7, <1>8, <1>9, <1>10 DEF Next, WorkerStep

\* Without a failed insert the record of an outcome is there before the outcome.
LEMMA MirrorNext == TypeOK /\ MirrorInv /\ [Next]_vars => MirrorInv'
<1> SUFFICES ASSUME TypeOK, MirrorInv, [Next]_vars PROVE MirrorInv'
  OBVIOUS
<1>1. TableOK /\ WorkersOK /\ HistoryOK
  BY DEF TypeOK
<1>2. left'["log"] = 0
  BY BudgetStays DEF MirrorInv, Faults
<1>3. ASSUME NEW w \in Workers, pc'[w] = "write"
      PROVE  LogOf(intent'[w]) \subseteq logged'[cur'[w]]
  <2>1. CASE pc[w] = "write" /\ cur'[w] = cur[w] /\ intent'[w] = intent[w]
    <3>1. cur[w] \in Rows
      BY <1>1, <2>1 DEF WorkersOK, Busy
    <3>2. QED
      BY <2>1, <3>1, LogsStay DEF MirrorInv, LogOf
  <2>2. ASSUME Record(w) PROVE LogOf(intent'[w]) \subseteq logged'[cur'[w]]
    <3>1. cur'[w] = cur[w] /\ intent'[w] = intent[w] /\ cur[w] \in Rows
      BY <1>1, <1>3, <2>2 DEF Record, Goto, Through, WorkersOK, Busy
    <3>2. ~Spend("log")
      BY DEF Spend, MirrorInv
    <3>3. logged' = [logged EXCEPT ![cur[w]] = @ \cup LogOf(intent[w])]
      BY <2>2, <3>2 DEF Record
    <3>4. logged'[cur[w]] = logged[cur[w]] \cup LogOf(intent[w])
      BY <1>1, <3>1, <3>3 DEF HistoryOK
    <3>5. QED
      BY <3>1, <3>4 DEF LogOf
  <2>3. ASSUME NEW v \in Workers,
               \/ \E B \in SUBSET Rows : \E first \in B : Claim(v, B, first)
               \/ \E r \in Rows : LoadRow(v, r)
               \/ Preflight(v) \/ GetPr(v) \/ PutMerge(v) \/ WriteBack(v) \/ RowError(v) \/ Stop(v)
               \/ v # w /\ Record(v)
        PROVE  pc[w] = "write" /\ cur'[w] = cur[w] /\ intent'[w] = intent[w]
    BY <1>1, <1>3, <2>3
    DEF Claim, LoadRow, Preflight, GetPr, PutMerge, Record, WriteBack, RowError,
        Through, Stop, Goto, WriteLater, WorkersOK
  <2>4. CASE UNCHANGED workerVars
    BY <1>3, <2>1, <2>4 DEF workerVars
  <2>5. QED
    BY <2>1, <2>2, <2>3, <2>4, WorkerSteps
<1>4. ASSUME NEW r \in Rows
      PROVE  /\ status'[r] = "succeeded" => "success" \in logged'[r]
             /\ status'[r] \in {"failed_terminal", "expired"} => "failure" \in logged'[r]
  <2>1. CASE status'[r] = status[r]
    BY <2>1, LogsStay DEF MirrorInv, OutcomeMirrored
  <2>2. ASSUME NEW w \in Workers, WriteBack(w), status'[r] # status[r]
        PROVE  r = cur[w] /\ status'[r] = intent[w] /\ LogOf(intent[w]) \subseteq logged[r]
    BY <1>1, <2>2 DEF WriteBack, TableOK, WorkersOK, Busy, MirrorInv
  <2>3. CASE \E w \in Workers : WriteBack(w) /\ status'[r] # status[r]
    BY <2>2, <2>3, LogsStay DEF LogOf
  <2>4. ASSUME NEW q \in Rows, ComesDue(q) \/ GoesStale(q) \/ Purge(q)
        PROVE  status'[r] = status[r] \/ status'[r] = "deleted"
    BY <1>1, <2>4 DEF ComesDue, GoesStale, Purge, TableOK
  <2>5. ASSUME RepoRemoved PROVE status'[r] \in {"absent", "deleted"}
    BY <2>5 DEF RepoRemoved
  <2>6. ASSUME NEW h \in Hooks, SyncUpdate(h)
        PROVE  status'[r] = status[r] \/ status'[r] = "abandoned"
    BY <2>6 DEF SyncUpdate
  <2>7. ASSUME NEW g \in Gates, EnqueueInsert(g) \/ EnqueueBump(g)
        PROVE  status'[r] = status[r] \/ status'[r] = "pending"
    BY <1>1, <2>7 DEF EnqueueInsert, EnqueueBump, TableOK
  <2>8. ASSUME NEW w \in Workers, NEW B, NEW first, Claim(w, B, first) PROVE status' = status
    BY <2>8 DEF Claim
  <2>9. QED
    BY <2>1, <2>3, <2>4, <2>5, <2>6, <2>7, <2>8, TableSteps DEF rowVars
<1>5. QED
  BY <1>2, <1>3, <1>4 DEF MirrorInv, OutcomeMirrored

\* When no MergeAttempt insert fails, a row that ended succeeded, failed or
\* expired has its record, so the purge of the queue loses no outcome.
THEOREM OutcomeMirroredHolds ==
  ASSUME Budget["log"] = 0
  PROVE  Spec => []OutcomeMirrored
<1>1. Init => MirrorInv
  BY DEF Init, MirrorInv, OutcomeMirrored
<1>2. QED
  BY <1>1, MirrorNext, TypeCorrect, PTL DEF Spec, MirrorInv
-----------------------------------------------------------------------------
(* The merge calls of a row: those made, and the workers still able to     *)
(* make one, are never more than the attempts counted for the row.         *)

\* The workers that may still call merge_pr for the row: past the cap of
\* _preflight_retry, or still to pass it.
Can(r) ==
  {w \in Workers :
     /\ r \in batch[w]
     /\ \/ cur[w] = r /\ (pc[w] \in {"get", "put"} \/ (pc[w] = "start" /\ view[w] < MaxAttempts))
        \/ cur[w] # r /\ attempts[r] < MaxAttempts}

\* A worker between two rows has no current row.
BetweenRows == \A w \in Workers : pc[w] \in {"idle", "next"} => cur[w] = NoRow

WithinBudget(r) ==
  /\ IsFiniteSet(Can(r))
  /\ puts[r] + Cardinality(Can(r)) <= attempts[r]
  /\ puts[r] + Cardinality(Can(r)) <= MaxAttempts - 1

BudgetInv == BetweenRows /\ \A r \in Rows : WithinBudget(r)

\* Only the merge call of the worker counts a merge call.
LEMMA PutsSteps ==
  ASSUME [Next]_vars
  PROVE  UNCHANGED puts \/ \E w \in Workers : PutMerge(w)
<1>1. ASSUME NEW w \in Workers, Sweep(w) \/ (\E s \in Shas : Trigger(w, s))
      PROVE  UNCHANGED puts
  BY <1>1 DEF Sweep, Trigger, Claim, histVars
<1>2. ASSUME NEW w \in Workers, NEW r \in Rows, LoadRow(w, r) \/ RowGone(w, r)
      PROVE  UNCHANGED puts
  BY <1>2 DEF LoadRow, RowGone, histVars
<1>3. ASSUME NEW w \in Workers,
             Preflight(w) \/ GetPr(w) \/ Record(w) \/ WriteBack(w) \/ RowError(w) \/ Crash(w)
      PROVE  UNCHANGED puts
  BY <1>3 DEF Preflight, GetPr, Record, WriteBack, RowError, Crash, histVars
<1>4. ASSUME NEW r \in Rows, ComesDue(r) \/ GoesStale(r) \/ Purge(r) PROVE UNCHANGED puts
  BY <1>4 DEF ComesDue, GoesStale, Purge, histVars
<1>5. ASSUME NEW h \in Hooks, \/ SyncSelect(h) \/ SyncUpdate(h) \/ SyncFails(h)
                              \/ \E p \in PRs, s \in Shas : Push(h, p, s)
      PROVE  UNCHANGED puts
  BY <1>5 DEF SyncSelect, SyncUpdate, SyncFails, Push, histVars
<1>6. ASSUME NEW p \in PRs, OutsideMerge(p) \/ \E g \in Gates : GateStart(g, p)
      PROVE  UNCHANGED puts
  BY <1>6 DEF OutsideMerge, GateStart, histVars
<1>7. ASSUME NEW g \in Gates, GateStep(g) PROVE UNCHANGED puts
  BY <1>7 DEF GateStep, GateMerge, EnqueueLookup, EnqueueInsert, EnqueueConflict,
              EnqueueRecover, EnqueueBump, histVars
<1>8. ASSUME RepoRemoved PROVE UNCHANGED puts
  BY <1>8 DEF RepoRemoved, histVars
<1>9. CASE UNCHANGED vars
  BY <1>9 DEF vars, histVars
<1>10. QED
  BY <1>1, <1>2, <1>3, <1>4, <1>5, <1>6, <1>7, <1>8, <1>9 DEF Next, WorkerStep

\* Only a claim counts an attempt.
LEMMA AttemptsSteps ==
  ASSUME [Next]_vars
  PROVE  \/ UNCHANGED attempts
         \/ \E w \in Workers : \E B \in SUBSET Rows : \E first \in B : Claim(w, B, first)
<1>1. ASSUME NEW w \in Workers, WriteBack(w) PROVE UNCHANGED attempts
  BY <1>1 DEF WriteBack
<1>2. ASSUME NEW r \in Rows, ComesDue(r) \/ GoesStale(r) \/ Purge(r) PROVE UNCHANGED attempts
  BY <1>2 DEF ComesDue, GoesStale, Purge
<1>3. ASSUME RepoRemoved PROVE UNCHANGED attempts
  BY <1>3 DEF RepoRemoved
<1>4. ASSUME NEW h \in Hooks, SyncUpdate(h) PROVE UNCHANGED attempts
  BY <1>4 DEF SyncUpdate
<1>5. ASSUME NEW g \in Gates, EnqueueInsert(g) \/ EnqueueBump(g) PROVE UNCHANGED attempts
  BY <1>5 DEF EnqueueInsert, EnqueueBump
<1>6. QED
  BY <1>1, <1>2, <1>3, <1>4, <1>5, TableSteps DEF rowVars

\* Nobody is between two rows with one of them in hand.
LEMMA BetweenRowsNext == TypeOK /\ BetweenRows /\ [Next]_vars => BetweenRows'
<1> SUFFICES ASSUME TypeOK, BetweenRows, [Next]_vars PROVE BetweenRows'
  OBVIOUS
<1>1. WorkersOK
  BY DEF TypeOK
<1>2. ASSUME NEW v \in Workers,
             \/ \E B \in SUBSET {r \in Rows : Claimable(r)} : \E first \in B : Claim(v, B, first)
             \/ \E r \in Rows : LoadRow(v, r)
             \/ Preflight(v) \/ GetPr(v) \/ PutMerge(v) \/ Record(v)
             \/ WriteBack(v) \/ RowError(v) \/ Stop(v)
      PROVE  BetweenRows'
  BY <1>1, <1>2
  DEF Claim, LoadRow, Preflight, GetPr, PutMerge, Record, WriteBack, RowError,
      Through, Stop, Goto, WriteLater, WorkersOK, BetweenRows
<1>3. CASE UNCHANGED workerVars
  BY <1>3 DEF workerVars, BetweenRows
<1>4. QED
  BY <1>2, <1>3, WorkerSteps

\* A claim makes one worker more able to call, at the price of one attempt,
\* and none once the attempts are at the cap.
LEMMA ClaimCan ==
  ASSUME TypeOK, BetweenRows, NEW r \in Rows, NEW w \in Workers,
         NEW B \in SUBSET Rows, NEW first \in B, Claim(w, B, first)
  PROVE  \/ Can(r)' \subseteq Can(r) /\ attempts'[r] >= attempts[r]
         \/ /\ Can(r)' \subseteq Can(r) \cup {w}
            /\ attempts'[r] = attempts[r] + 1
            /\ attempts'[r] < MaxAttempts
<1>1. WorkersOK /\ TableOK
  BY DEF TypeOK
<1>2. attempts[r] \in Nat /\ attempts'[r] = IF r \in B THEN attempts[r] + 1 ELSE attempts[r]
  BY <1>1 DEF Claim, TableOK
<1>3. ASSUME NEW v \in Workers, v # w, v \in Can(r)' PROVE v \in Can(r)
  <2>1. batch'[v] = batch[v] /\ cur'[v] = cur[v] /\ pc'[v] = pc[v] /\ view'[v] = view[v]
    BY <1>1, <1>3 DEF Claim, WorkersOK
  <2>2. attempts'[r] < MaxAttempts => attempts[r] < MaxAttempts
    BY <1>2, MaxAttemptsAssumption
  <2>3. QED
    BY <1>3, <2>1, <2>2 DEF Can
<1>4. ASSUME w \in Can(r)' PROVE r \in B /\ attempts'[r] < MaxAttempts
  <2>1. batch'[w] = B /\ cur'[w] = first /\ pc'[w] = "start" /\ view'[w] = attempts[first] + 1
    BY <1>1 DEF Claim, WorkersOK
  <2>2. r \in B
    BY <1>4, <2>1 DEF Can
  <2>3. CASE first = r
    BY <1>2, <1>4, <2>1, <2>2, <2>3 DEF Can
  <2>4. CASE first # r
    BY <1>4, <2>1, <2>2, <2>4 DEF Can
  <2>5. QED
    BY <2>2, <2>3, <2>4
<1>5. CASE w \in Can(r)'
  BY <1>2, <1>3, <1>4, <1>5 DEF Can
<1>6. CASE w \notin Can(r)'
  BY <1>2, <1>3, <1>6 DEF Can
<1>7. QED
  BY <1>5, <1>6

\* No other step lets a worker call that could not before, and a merge call
\* takes the caller out.
LEMMA StepCan ==
  ASSUME TypeOK, BetweenRows, NEW r \in Rows, UNCHANGED attempts,
         \/ UNCHANGED workerVars
         \/ \E v \in Workers :
              \/ \E q \in Rows : LoadRow(v, q)
              \/ Preflight(v) \/ GetPr(v) \/ PutMerge(v) \/ Record(v)
              \/ WriteBack(v) \/ RowError(v) \/ Stop(v)
  PROVE  Can(r)' \subseteq Can(r)
<1>1. WorkersOK /\ TableOK
  BY DEF TypeOK
<1>2. CASE UNCHANGED workerVars
  BY <1>2 DEF workerVars, Can
<1>3. ASSUME NEW v \in Workers, NEW q \in Rows, LoadRow(v, q) PROVE Can(r)' \subseteq Can(r)
  <2>1. cur[v] = NoRow /\ NoRow # r
    BY <1>3, NullAssumption DEF LoadRow, BetweenRows
  <2>2. ASSUME NEW w \in Workers, w # v
        PROVE  batch'[w] = batch[w] /\ cur'[w] = cur[w] /\ pc'[w] = pc[w] /\ view'[w] = view[w]
    BY <1>1, <1>3, <2>2 DEF LoadRow, WorkersOK
  <2>3. batch'[v] = batch[v] /\ cur'[v] = q /\ pc'[v] = "start" /\ view'[v] = attempts[q]
    BY <1>1, <1>3 DEF LoadRow, WorkersOK
  <2>4. ASSUME v \in Can(r)' PROVE v \in Can(r)
    BY <2>1, <2>3, <2>4 DEF Can
  <2>5. ASSUME NEW w \in Workers, w # v, w \in Can(r)' PROVE w \in Can(r)
    BY <2>2, <2>5 DEF Can
  <2>6. QED
    BY <2>4, <2>5 DEF Can
<1>4. ASSUME NEW v \in Workers, Preflight(v) PROVE Can(r)' \subseteq Can(r)
  <2>1. view[v] \in Nat /\ MaxAttempts \in Nat
    BY <1>1, MaxAttemptsAssumption DEF WorkersOK
  <2>2. (pc[v] = "start" /\ view[v] < MaxAttempts /\ Goto(v, "get"))
          \/ (pc[v] = "start" /\ \E i \in {"release", "abandoned"} : WriteLater(v, i))
    BY <1>4, <2>1 DEF Preflight
  <2>3. CASE pc[v] = "start" /\ view[v] < MaxAttempts /\ Goto(v, "get")
    BY <1>1, <2>3 DEF Goto, WorkersOK, Can
  <2>4. CASE pc[v] = "start" /\ \E i \in {"release", "abandoned"} : WriteLater(v, i)
    BY <1>1, <2>4 DEF WriteLater, WorkersOK, Can
  <2>5. QED
    BY <2>2, <2>3, <2>4
<1>5. ASSUME NEW v \in Workers, GetPr(v) PROVE Can(r)' \subseteq Can(r)
  BY <1>1, <1>5 DEF GetPr, Goto, WriteLater, WorkersOK, Can
<1>6. ASSUME NEW v \in Workers, PutMerge(v) PROVE Can(r)' \subseteq Can(r)
  BY <1>1, <1>6 DEF PutMerge, WriteLater, WorkersOK, Can
<1>7. ASSUME NEW v \in Workers, Record(v) \/ WriteBack(v) \/ RowError(v) \/ Stop(v)
      PROVE  Can(r)' \subseteq Can(r)
  <2>1. \/ Through(v) \/ Stop(v)
        \/ \E i \in {"release"} : WriteLater(v, i)
        \/ pc[v] = "record" /\ Goto(v, "write")
    BY <1>7 DEF Record, WriteBack, RowError
  <2>2. pc[v] \in Busy \/ Stop(v)
    BY <1>7 DEF Record, WriteBack, RowError, Busy
  <2>3. CASE Stop(v)
    BY <1>1, <2>3 DEF Stop, WorkersOK, Can
  <2>4. CASE Through(v) /\ pc[v] \in Busy
    BY <1>1, <2>4 DEF Through, WorkersOK, Can, Busy
  <2>5. CASE \E i \in {"release"} : WriteLater(v, i)
    BY <1>1, <2>5 DEF WriteLater, WorkersOK, Can
  <2>6. CASE pc[v] = "record" /\ Goto(v, "write")
    BY <1>1, <2>6 DEF Goto, WorkersOK, Can
  <2>7. QED
    BY <2>1, <2>2, <2>3, <2>4, <2>5, <2>6
<1>8. QED
  BY <1>2, <1>3, <1>4, <1>5, <1>6, <1>7

\* The step of the invariant for one row, by counting.
LEMMA WithinBudgetNext ==
  ASSUME TypeOK, BetweenRows, [Next]_vars, NEW r \in Rows, WithinBudget(r)
  PROVE  WithinBudget(r)'
<1>1. WorkersOK /\ TableOK /\ HistoryOK
  BY DEF TypeOK
<1>2. /\ IsFiniteSet(Can(r)) /\ Cardinality(Can(r)) \in Nat
      /\ puts[r] \in Nat /\ attempts[r] \in Nat /\ MaxAttempts \in Nat
  BY <1>1, FS_CardinalityType, MaxAttemptsAssumption DEF WithinBudget, TableOK, HistoryOK
<1> DEFINE Fewer == Can(r)' \subseteq Can(r)
<1>3. ASSUME Fewer, puts'[r] = puts[r], attempts'[r] \in Nat, attempts'[r] >= attempts[r]
      PROVE  WithinBudget(r)'
  <2>1. /\ IsFiniteSet(Can(r)') /\ Cardinality(Can(r)') \in Nat
        /\ Cardinality(Can(r)') <= Cardinality(Can(r))
    BY <1>2, <1>3, FS_Subset, FS_CardinalityType
  <2>2. /\ puts[r] + Cardinality(Can(r)) <= attempts[r]
        /\ puts[r] + Cardinality(Can(r)) <= MaxAttempts - 1
    BY DEF WithinBudget
  <2>3. /\ puts'[r] + Cardinality(Can(r)') <= attempts'[r]
        /\ puts'[r] + Cardinality(Can(r)') <= MaxAttempts - 1
    BY <1>2, <1>3, <2>1, <2>2
  <2>4. QED
    BY <2>1, <2>3 DEF WithinBudget
<1>4. ASSUME NEW w \in Workers, NEW B \in SUBSET Rows, NEW first \in B, Claim(w, B, first)
      PROVE  WithinBudget(r)'
  <2>1. puts' = puts /\ attempts'[r] \in Nat
    BY <1>1, <1>4 DEF Claim, histVars, TableOK
  <2>2. CASE Fewer /\ attempts'[r] >= attempts[r]
    BY <1>3, <2>1, <2>2
  <2>3. CASE Can(r)' \subseteq Can(r) \cup {w} /\ attempts'[r] = attempts[r] + 1
             /\ attempts'[r] < MaxAttempts
    <3>1. /\ IsFiniteSet(Can(r) \cup {w})
          /\ Cardinality(Can(r) \cup {w}) <= Cardinality(Can(r)) + 1
          /\ Cardinality(Can(r) \cup {w}) \in Nat
      <4>1. /\ IsFiniteSet(Can(r) \cup {w})
            /\ \/ Cardinality(Can(r) \cup {w}) = Cardinality(Can(r))
               \/ Cardinality(Can(r) \cup {w}) = Cardinality(Can(r)) + 1
        BY <1>2, FS_AddElement
      <4>2. QED
        BY <1>2, <4>1
    <3>2. /\ IsFiniteSet(Can(r)') /\ Cardinality(Can(r)') \in Nat
          /\ Cardinality(Can(r)') <= Cardinality(Can(r) \cup {w})
      BY <2>3, <3>1, FS_Subset, FS_CardinalityType
    <3>3. puts[r] + Cardinality(Can(r)) <= attempts[r]
      BY DEF WithinBudget
    <3>4. /\ puts'[r] + Cardinality(Can(r)') <= attempts'[r]
          /\ puts'[r] + Cardinality(Can(r)') <= MaxAttempts - 1
      BY <1>2, <2>1, <2>3, <3>1, <3>2, <3>3
    <3>5. QED
      BY <3>2, <3>4 DEF WithinBudget
  <2>4. QED
    BY <1>4, <2>2, <2>3, ClaimCan
<1>5. ASSUME UNCHANGED attempts, Fewer, NEW w \in Workers, PutMerge(w) PROVE WithinBudget(r)'
  <2>1. attempts'[r] = attempts[r] /\ attempts'[r] >= attempts[r]
    BY <1>2, <1>5
  <2>2. CASE cur[w] # r
    BY <1>1, <1>2, <1>3, <1>5, <2>1, <2>2 DEF PutMerge, HistoryOK
  <2>3. CASE cur[w] = r
    <3>1. puts'[r] = puts[r] + 1
      BY <1>1, <1>5, <2>3 DEF PutMerge, HistoryOK
    <3>2. w \in Can(r)
      BY <1>1, <1>5, <2>3 DEF PutMerge, WorkersOK, Can, Busy
    <3>3. w \notin Can(r)'
      BY <1>1, <1>5, <2>3 DEF PutMerge, WriteLater, WorkersOK, Can
    <3>4. /\ IsFiniteSet(Can(r) \ {w})
          /\ Cardinality(Can(r) \ {w}) = Cardinality(Can(r)) - 1
      BY <1>2, <3>2, FS_RemoveElement
    <3>5. Can(r)' \in SUBSET (Can(r) \ {w})
      BY <1>5, <3>3
    <3>6. /\ IsFiniteSet(Can(r)') /\ Cardinality(Can(r)') \in Nat
          /\ Cardinality(Can(r)') <= Cardinality(Can(r)) - 1
      BY <3>4, <3>5, FS_Subset, FS_CardinalityType
    <3>7. /\ puts[r] + Cardinality(Can(r)) <= attempts[r]
          /\ puts[r] + Cardinality(Can(r)) <= MaxAttempts - 1
      BY DEF WithinBudget
    <3>8. /\ puts'[r] + Cardinality(Can(r)') <= attempts'[r]
          /\ puts'[r] + Cardinality(Can(r)') <= MaxAttempts - 1
      BY <1>2, <2>1, <3>1, <3>6, <3>7
    <3>9. QED
      BY <3>6, <3>8 DEF WithinBudget
  <2>4. QED
    BY <2>2, <2>3
<1>6. ASSUME UNCHANGED attempts PROVE Fewer \/ \E w \in Workers, B \in SUBSET Rows :
                                                  \E first \in B : Claim(w, B, first)
  BY <1>6, StepCan, WorkerSteps
<1>7. QED
  <2>1. CASE \E w \in Workers, B \in SUBSET Rows : \E first \in B : Claim(w, B, first)
    BY <1>4, <2>1
  <2>2. CASE UNCHANGED attempts /\ Fewer
    BY <1>2, <1>3, <1>5, <2>2, PutsSteps
  <2>3. QED
    BY <1>6, <2>1, <2>2, AttemptsSteps

\* A row causes at most max_attempts - 1 merge calls: every claim of
\* claim_batch counts an attempt and pays for one call at most, and the claim
\* that reaches the cap pays for none (_preflight_retry).
THEOREM AttemptBudgetHolds == Spec => []AttemptBudget
<1>1. Init => BudgetInv
  <2> SUFFICES ASSUME Init PROVE BudgetInv
    OBVIOUS
  <2>1. BetweenRows
    BY DEF Init, BetweenRows
  <2>2. ASSUME NEW r \in Rows PROVE WithinBudget(r)
    <3>1. Can(r) = {}
      BY DEF Init, Can
    <3>2. puts[r] = 0 /\ attempts[r] = 0
      BY DEF Init
    <3>3. QED
      BY <3>1, <3>2, FS_EmptySet, MaxAttemptsAssumption DEF WithinBudget
  <2>3. QED
    BY <2>1, <2>2 DEF BudgetInv
<1>2. TypeOK /\ BudgetInv /\ [Next]_vars => BudgetInv'
  BY BetweenRowsNext, WithinBudgetNext DEF BudgetInv
<1>3. TypeOK /\ BudgetInv => AttemptBudget
  <2> SUFFICES ASSUME TypeOK, BudgetInv, NEW r \in Rows PROVE puts[r] < MaxAttempts
    BY DEF AttemptBudget
  <2>1. puts[r] \in Nat /\ MaxAttempts \in Nat /\ Cardinality(Can(r)) \in Nat
    BY FS_CardinalityType, MaxAttemptsAssumption
    DEF TypeOK, HistoryOK, BudgetInv, WithinBudget
  <2>2. puts[r] + Cardinality(Can(r)) <= MaxAttempts - 1
    BY DEF BudgetInv, WithinBudget
  <2>3. QED
    BY <2>1, <2>2
<1>4. QED
  BY <1>1, <1>2, <1>3, TypeCorrect, PTL DEF Spec
=============================================================================
