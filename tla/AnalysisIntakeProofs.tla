------------------------- MODULE AnalysisIntakeProofs --------------------------
(***************************************************************************)
(* Theorems about the intake, for any number of commits, pull requests,    *)
(* deliveries, slots and faults.                                           *)
(***************************************************************************)
EXTENDS AnalysisIntake, FiniteSetTheorems, TLAPS

Pcs == Waits \cup Body \cup Hook \cup Over
RowTypes == row \in [Commits -> RowRecord]
CrumbTypes == crumb \in [Commits -> Deliveries \cup {NoOne}]
PcTypes == pc \in [Deliveries -> Pcs]
JobTypes ==
  /\ event \in [Deliveries -> {"push", "pull_request", "cli"}]
  /\ commit \in [Deliveries -> Commits]
  /\ pr \in [Deliveries -> PRs \cup {NoPr}]
  /\ empty \subseteq Commits \cup PRs
LocalTypes ==
  /\ seen \in [Deliveries -> RowRecord]
  /\ via \in [Deliveries -> {"none", "own", "recovered", "regated"}]
OutdatedTypes == outdated \subseteq Deliveries \X {"crumb", "row"}
OrphanTypes ==
  /\ orphans \subseteq Commits \X (Deliveries \cup {NoOne})
  /\ reported \subseteq Commits
GateTypes == gates \subseteq Deliveries \X {"none", "cli", "full"} /\ notified \subseteq Deliveries
FaultTypes == faults \in Seq(Faults)

Types ==
  /\ repo \in BOOLEAN
  /\ RowTypes /\ CrumbTypes /\ PcTypes /\ JobTypes /\ LocalTypes
  /\ OutdatedTypes /\ OrphanTypes /\ GateTypes /\ FaultTypes

-----------------------------------------------------------------------------
(* Types                                                                   *)

\* The absence of a row has the type of a row.
LEMMA NoRowType == NoRow \in RowRecord
BY DEF NoRow, RowRecord

\* The types hold at first.
LEMMA TypesInit == Init => Types
<1> SUFFICES ASSUME Init PROVE Types
  OBVIOUS
<1> USE DEF Init
<1>1. repo \in BOOLEAN /\ RowTypes /\ CrumbTypes
  BY NoRowType DEF RowTypes, CrumbTypes
<1>2. PcTypes
  BY DEF PcTypes, Pcs, Waits
<1>3. JobTypes
  BY DEF JobTypes
<1>4. LocalTypes
  BY NoRowType DEF LocalTypes
<1>5. OutdatedTypes /\ OrphanTypes /\ GateTypes /\ FaultTypes
  BY DEF OutdatedTypes, OrphanTypes, GateTypes, FaultTypes
<1> QED BY <1>1, <1>2, <1>3, <1>4, <1>5 DEF Types

\* A fault is written down after those that were.
LEMMA FaultTyped ==
  ASSUME FaultTypes, NEW f \in Faults, Fault(f)
  PROVE  FaultTypes'
BY DEF FaultTypes, Fault

\* The repository is there or not.
LEMMA RepoTyped ==
  ASSUME Types, Next PROVE repo' \in BOOLEAN
BY DEF Types, Next, ArrivePush, ArrivePullRequest, ArriveHook, Dequeue, HookStep, HookRead,
       HookInsert, BodyStep, EnsureRepo, Begin, NoChangedFiles, Save, InsertNew, InsertConflict,
       InsertOrphan, Supersede, Recover, Regate, Gate, Finish, Notify, Lose, RepoRemoved,
       FindOrphans, PurgeOrphans, dbVars

\* The row of a commit, as a step of a delivery changes it.
LEMMA RowTyped ==
  ASSUME Types, Next PROVE RowTypes'
<1> USE DEF Types, dbVars
<1>1. ASSUME NEW d \in Deliveries, HookInsert(d) PROVE RowTypes'
  <2>1. [id |-> d, by |-> d, kind |-> "cli", pr |-> NoPr] \in RowRecord
    BY DEF RowRecord
  <2> QED BY <1>1, <2>1 DEF HookInsert, RowTypes
<1>2. ASSUME NEW d \in Deliveries, InsertNew(d) PROVE RowTypes'
  <2>1. [id |-> d, by |-> d, kind |-> "full", pr |-> pr[d]] \in RowRecord
    BY DEF RowRecord, JobTypes
  <2> QED BY <1>2, <2>1 DEF InsertNew, RowTypes
<1>3. ASSUME NEW d \in Deliveries, Supersede(d) PROVE RowTypes'
  <2>1. CASE row' = row
    BY <2>1 DEF RowTypes
  <2>2. CASE row' # row
    <3>1. row' = [row EXCEPT ![commit[d]] = Superseded(d)]
      BY <1>3, <2>2 DEF Supersede
    <3>2. Superseded(d) \in RowRecord
      <4>1. Row(d) \in RowRecord /\ pr[d] \in PRs \cup {NoPr}
        BY DEF Row, RowTypes, JobTypes
      <4> HIDE DEF Row
      <4> QED BY <4>1 DEF Superseded, RowRecord
    <3> QED BY <3>1, <3>2 DEF RowTypes
  <2> QED BY <2>1, <2>2
<1>4. ASSUME NEW d \in Deliveries, Recover(d) \/ Regate(d) PROVE RowTypes'
  <2>1. row' = row \/ row' = [row EXCEPT ![commit[d]] = [row[commit[d]] EXCEPT !.pr = pr[d]]]
    BY <1>4 DEF Recover, Regate, WritePr, WritePrFails
  <2>2. [row[commit[d]] EXCEPT !.pr = pr[d]] \in RowRecord
    BY DEF RowRecord, RowTypes, JobTypes
  <2> QED BY <2>1, <2>2 DEF RowTypes
<1>5. CASE RepoRemoved
  BY <1>5, NoRowType DEF RepoRemoved, RowTypes
<1>6. CASE UNCHANGED row
  BY <1>6 DEF RowTypes
<1> QED
  BY <1>1, <1>2, <1>3, <1>4, <1>5, <1>6
  DEF Next, ArrivePush, ArrivePullRequest, ArriveHook, Dequeue, HookStep, HookRead, BodyStep,
      EnsureRepo, Begin, NoChangedFiles, Save, InsertConflict, InsertOrphan, Gate, Finish,
      Notify, Lose, FindOrphans, PurgeOrphans

\* A breadcrumb names the delivery that wrote it.
LEMMA CrumbTyped ==
  ASSUME Types, Next PROVE CrumbTypes'
<1> USE DEF Types, dbVars, CrumbTypes, JobTypes
<1>1. ASSUME NEW d \in Deliveries, Begin(d) PROVE CrumbTypes'
  BY <1>1 DEF Begin
<1>2. ASSUME NEW d \in Deliveries, Finish(d) PROVE CrumbTypes'
  BY <1>2 DEF Finish
<1>3. CASE RepoRemoved \/ PurgeOrphans
  BY <1>3 DEF RepoRemoved, PurgeOrphans
<1>4. CASE UNCHANGED crumb
  BY <1>4
<1> QED
  BY <1>1, <1>2, <1>3, <1>4
  DEF Next, ArrivePush, ArrivePullRequest, ArriveHook, Dequeue, HookStep, HookRead, HookInsert,
      BodyStep, EnsureRepo, NoChangedFiles, Save, InsertNew, InsertConflict, InsertOrphan,
      Supersede, Recover, Regate, Gate, Notify, Lose, FindOrphans

\* A delivery arrives once, with its event.
LEMMA JobTyped ==
  ASSUME Types, Next PROVE JobTypes'
<1> USE DEF Types, JobTypes, jobVars
<1>1. ASSUME NEW d \in Deliveries, ArrivePullRequest(d) PROVE JobTypes'
  BY <1>1 DEF ArrivePullRequest
<1>2. ASSUME NEW d \in Deliveries, ArriveHook(d) PROVE JobTypes'
  BY <1>2 DEF ArriveHook
<1>3. CASE UNCHANGED jobVars
  BY <1>3
<1> QED
  BY <1>1, <1>2, <1>3
  DEF Next, ArrivePush, Dequeue, HookStep, HookRead, HookInsert,
      BodyStep, EnsureRepo, Begin, NoChangedFiles, Save, InsertNew, InsertConflict, InsertOrphan,
      Supersede, Recover, Regate, Gate, Finish, Notify, Lose, RepoRemoved, FindOrphans,
      PurgeOrphans

\* How far a delivery is from its end.
Rank ==
  [none |-> 14, queued |-> 13, ensure |-> 12, begin |-> 11, analyze |-> 10, insert |-> 9,
   supersede |-> 8, recover |-> 7, regate |-> 6, gate |-> 5, finish |-> 4, notify |-> 3,
   hookRead |-> 2, hookInsert |-> 1, done |-> 0, lostEarly |-> 0, lost |-> 0]

\* A move of a delivery: what it does to its place and to the slots.
Move(d, l) ==
  /\ pc' = [pc EXCEPT ![d] = l]
  /\ Rank[l] < Rank[pc[d]]
  /\ \/ pc[d] \in Body /\ l \in Body /\ permits' = permits
     \/ pc[d] \in Body /\ l \notin Body /\ permits' = permits + 1
     \/ pc[d] \notin Body /\ l \in Body /\ permits > 0 /\ permits' = permits - 1
     \/ pc[d] \notin Body /\ l \notin Body /\ permits' = permits

\* Every step moves at most one delivery, and takes and gives back its slot.
LEMMA EveryMove ==
  ASSUME Next
  PROVE  (\E d \in Deliveries, l \in Pcs : Move(d, l)) \/ UNCHANGED <<pc, permits>>
<1> DEFINE Moves == \E d \in Deliveries, l \in Pcs : Move(d, l)
<1> USE DEF Goto, Pcs, Waits, Body, Hook, Over, Rank
<1>1. ASSUME NEW d \in Deliveries, ArrivePush(d) \/ ArrivePullRequest(d) PROVE Moves
  <2>1. Arrives(d) /\ SlotTaken(d)
    BY <1>1 DEF ArrivePush, ArrivePullRequest
  <2>2. CASE permits > 0 /\ Queue = {}
    <3>1. Move(d, "ensure")
      BY <2>1, <2>2 DEF Arrives, SlotTaken, Move
    <3> QED BY <3>1
  <2>3. CASE ~(permits > 0 /\ Queue = {})
    <3>1. Move(d, "queued")
      BY <2>1, <2>3 DEF Arrives, SlotTaken, Move
    <3> QED BY <3>1
  <2> QED BY <2>2, <2>3
<1>2. ASSUME NEW d \in Deliveries, ArriveHook(d) PROVE Moves
  <2>1. Move(d, "hookRead")
    BY <1>2 DEF ArriveHook, Arrives, Move
  <2> QED BY <2>1
<1>3. ASSUME NEW d \in Deliveries, Dequeue(d) PROVE Moves
  <2>1. Move(d, "ensure")
    BY <1>3 DEF Dequeue, Queue, Move
  <2> QED BY <2>1
<1>4. ASSUME NEW d \in Deliveries, HookStep(d) PROVE Moves
  <2>1. Move(d, "hookInsert") \/ Move(d, "done")
    BY <1>4 DEF HookStep, HookRead, HookInsert, Move
  <2> QED BY <2>1
<1>5. ASSUME NEW d \in Deliveries, BodyStep(d) PROVE Moves
  <2> DEFINE Goes(l) == pc' = [pc EXCEPT ![d] = l]
             Stays == permits' = permits
             Leaves == permits' = permits + 1
  <2> HIDE DEF Pcs, Waits, Body, Hook, Over, Rank
  <2> USE DEF End, Own
  <2>1. ASSUME EnsureRepo(d)
        PROVE  /\ pc[d] = "ensure"
               /\ ((Goes("begin") \/ Goes("regate")) /\ Stays) \/ (Goes("done") /\ Leaves)
    BY <2>1 DEF EnsureRepo
  <2>2. ASSUME Begin(d) PROVE pc[d] = "begin" /\ Goes("analyze") /\ Stays
    BY <2>2 DEF Begin
  <2>3. ASSUME NoChangedFiles(d) PROVE pc[d] = "analyze" /\ Goes("finish") /\ Stays
    BY <2>3 DEF NoChangedFiles
  <2>4. ASSUME Save(d)
        PROVE  pc[d] = "analyze" /\ (Goes("finish") \/ Goes("insert") \/ Goes("recover")) /\ Stays
    BY <2>4 DEF Save
  <2>5. ASSUME InsertNew(d) PROVE pc[d] = "insert" /\ (Goes("gate") \/ Goes("finish")) /\ Stays
    BY <2>5 DEF InsertNew
  <2>6. ASSUME InsertConflict(d) PROVE pc[d] = "insert" /\ (Goes("supersede") \/ Goes("recover")) /\ Stays
    BY <2>6 DEF InsertConflict
  <2>7. ASSUME InsertOrphan(d) PROVE pc[d] = "insert" /\ Goes("done") /\ Leaves
    BY <2>7 DEF InsertOrphan
  <2>8. ASSUME Supersede(d)
        PROVE  pc[d] = "supersede" /\ (Goes("gate") \/ Goes("finish") \/ Goes("recover")) /\ Stays
    BY <2>8 DEF Supersede
  <2>9. ASSUME Recover(d) PROVE pc[d] = "recover" /\ (Goes("gate") \/ Goes("finish")) /\ Stays
    BY <2>9 DEF Recover
  <2>10. ASSUME Regate(d)
         PROVE  pc[d] = "regate" /\ ((Goes("gate") /\ Stays) \/ (Goes("done") /\ Leaves))
    BY <2>10 DEF Regate
  <2>11. ASSUME Gate(d) PROVE pc[d] = "gate" /\ ((Goes("finish") /\ Stays) \/ (Goes("done") /\ Leaves))
    BY <2>11 DEF Gate
  <2>12. ASSUME Finish(d) PROVE pc[d] = "finish" /\ ((Goes("notify") /\ Stays) \/ (Goes("done") /\ Leaves))
    BY <2>12 DEF Finish
  <2>13. ASSUME Notify(d) PROVE pc[d] = "notify" /\ Goes("done") /\ Leaves
    BY <2>13 DEF Notify
  <2> HIDE DEF End, Own, Goto
  <2>14. ASSUME NEW l \in Body, Goes(l), Stays, pc[d] \in Body, Rank[l] < Rank[pc[d]] PROVE Move(d, l)
    BY <2>14 DEF Move
  <2>15. ASSUME Goes("done"), Leaves, pc[d] \in Body PROVE Move(d, "done")
    BY <2>15 DEF Move, Rank, Body
  <2>16. \E l \in Body \cup {"done"} : Move(d, l)
    <3> USE DEF Body, Rank
    <3>1. EnsureRepo(d) => Move(d, "begin") \/ Move(d, "regate") \/ Move(d, "done")
      BY <2>1, <2>14, <2>15
    <3>2. Begin(d) => Move(d, "analyze")
      BY <2>2, <2>14
    <3>3. NoChangedFiles(d) => Move(d, "finish")
      BY <2>3, <2>14
    <3>4. Save(d) => Move(d, "finish") \/ Move(d, "insert") \/ Move(d, "recover")
      BY <2>4, <2>14
    <3>5. InsertNew(d) => Move(d, "gate") \/ Move(d, "finish")
      BY <2>5, <2>14
    <3>6. InsertConflict(d) => Move(d, "supersede") \/ Move(d, "recover")
      BY <2>6, <2>14
    <3>7. InsertOrphan(d) => Move(d, "done")
      BY <2>7, <2>15
    <3>8. Supersede(d) => Move(d, "gate") \/ Move(d, "finish") \/ Move(d, "recover")
      BY <2>8, <2>14
    <3>9. Recover(d) => Move(d, "gate") \/ Move(d, "finish")
      BY <2>9, <2>14
    <3>10. Regate(d) => Move(d, "gate") \/ Move(d, "done")
      BY <2>10, <2>14, <2>15
    <3>11. Gate(d) => Move(d, "finish") \/ Move(d, "done")
      BY <2>11, <2>14, <2>15
    <3>12. Finish(d) => Move(d, "notify") \/ Move(d, "done")
      BY <2>12, <2>14, <2>15
    <3>13. Notify(d) => Move(d, "done")
      BY <2>13, <2>15
    <3> HIDE DEF Rank
    <3> QED
      BY <1>5, <3>1, <3>2, <3>3, <3>4, <3>5, <3>6, <3>7, <3>8, <3>9, <3>10, <3>11, <3>12, <3>13
      DEF BodyStep
  <2> QED BY <2>16 DEF Pcs, Over
<1>6. ASSUME NEW d \in Deliveries, Lose(d) PROVE Moves
  <2>1. Move(d, "lostEarly") \/ Move(d, "lost")
    <3>1. /\ pc[d] \in Body \cup {"queued"}
          /\ pc' = [pc EXCEPT ![d] = "lostEarly"] \/ pc' = [pc EXCEPT ![d] = "lost"]
          /\ permits' = IF pc[d] \in Body THEN permits + 1 ELSE permits
      BY <1>6 DEF Lose, Leave, LostAs, InProgress
    <3>2. 0 < Rank[pc[d]]
      BY <3>1
    <3> QED BY <3>1, <3>2 DEF Move
  <2> QED BY <2>1
<1>7. CASE RepoRemoved \/ FindOrphans \/ PurgeOrphans
  BY <1>7 DEF RepoRemoved, FindOrphans, PurgeOrphans
<1> QED BY <1>1, <1>2, <1>3, <1>4, <1>5, <1>6, <1>7 DEF Next

\* A step of a body, or the slot it waited for, moves the delivery itself.
LEMMA StepsMove ==
  ASSUME NEW d \in Deliveries, pc \in [Deliveries -> Pcs], BodyStep(d) \/ Dequeue(d)
  PROVE  pc'[d] # pc[d]
<1> USE DEF Goto, End, Own
<1>1. CASE Dequeue(d)
  BY <1>1 DEF Dequeue, Queue
<1>2. CASE EnsureRepo(d) \/ Begin(d) \/ NoChangedFiles(d)
  BY <1>2 DEF EnsureRepo, Begin, NoChangedFiles
<1>3. CASE Save(d) \/ InsertNew(d) \/ InsertConflict(d) \/ InsertOrphan(d)
  BY <1>3 DEF Save, InsertNew, InsertConflict, InsertOrphan
<1>4. CASE Supersede(d) \/ Recover(d) \/ Regate(d)
  BY <1>4 DEF Supersede, Recover, Regate
<1>5. CASE Gate(d) \/ Finish(d) \/ Notify(d)
  BY <1>5 DEF Gate, Finish, Notify
<1> QED BY <1>1, <1>2, <1>3, <1>4, <1>5 DEF BodyStep

\* A delivery is at one of its places.
LEMMA PcTyped ==
  ASSUME Types, Next PROVE PcTypes'
BY EveryMove DEF Types, PcTypes, Move

-----------------------------------------------------------------------------
(* Slots                                                                   *)

InBody == {d \in Deliveries : pc[d] \in Body}

SlotsInv ==
  /\ permits \in Nat
  /\ permits + Cardinality(InBody) = Limit

\* Only finitely many deliveries are in the body.
LEMMA InBodyFinite == IsFiniteSet(InBody) /\ Cardinality(InBody) \in Nat
BY DeliveriesAssumption, FS_Subset, FS_CardinalityType DEF InBody

\* At first all slots are free.
LEMMA SlotsInit == Init => SlotsInv
<1> SUFFICES ASSUME Init PROVE SlotsInv
  OBVIOUS
<1>1. InBody = {}
  BY DEF Init, InBody, Body
<1> QED BY <1>1, FS_EmptySet, LimitAssumption DEF Init, SlotsInv

\* A slot is taken with the entry into the body and given back with the exit.
LEMMA SlotsKept ==
  ASSUME Types, SlotsInv, Next PROVE SlotsInv'
<1>1. CASE UNCHANGED <<pc, permits>>
  BY <1>1 DEF SlotsInv, InBody
<1>2. ASSUME NEW d \in Deliveries, NEW l \in Pcs, Move(d, l) PROVE SlotsInv'
  <2>1. pc[d] \in Pcs /\ pc' = [pc EXCEPT ![d] = l]
    BY <1>2 DEF Types, PcTypes, Move
  <2>2. \A e \in Deliveries : e # d => pc'[e] = pc[e]
    BY <1>2 DEF Types, PcTypes, Move
  <2>3. pc'[d] = l
    BY <1>2 DEF Types, PcTypes, Move
  <2>4. CASE pc[d] \in Body /\ l \in Body
    <3>1. InBody' = InBody
      BY <2>2, <2>3, <2>4 DEF InBody
    <3> QED BY <1>2, <2>4, <3>1 DEF Move, SlotsInv
  <2>5. CASE pc[d] \in Body /\ l \notin Body
    <3>1. InBody' = InBody \ {d} /\ d \in InBody
      BY <2>2, <2>3, <2>5 DEF InBody
    <3>2. Cardinality(InBody') = Cardinality(InBody) - 1
      BY <3>1, InBodyFinite, FS_RemoveElement
    <3> QED BY <1>2, <2>5, <3>2, InBodyFinite DEF Move, SlotsInv
  <2>6. CASE pc[d] \notin Body /\ l \in Body
    <3>1. InBody' = InBody \cup {d} /\ d \notin InBody
      BY <2>2, <2>3, <2>6 DEF InBody
    <3>2. Cardinality(InBody') = Cardinality(InBody) + 1
      BY <3>1, InBodyFinite, FS_AddElement
    <3> QED BY <1>2, <2>6, <3>2, InBodyFinite DEF Move, SlotsInv
  <2>7. CASE pc[d] \notin Body /\ l \notin Body
    <3>1. InBody' = InBody
      BY <2>2, <2>3, <2>7 DEF InBody
    <3> QED BY <1>2, <2>7, <3>1 DEF Move, SlotsInv
  <2> QED BY <2>4, <2>5, <2>6, <2>7
<1> QED BY <1>1, <1>2, EveryMove

-----------------------------------------------------------------------------
(* The other types                                                         *)

\* What a delivery reads of a row is a row.
LEMMA LocalTyped ==
  ASSUME Types, Next PROVE LocalTypes'
<1> USE DEF Types, locals
<1>0. \A d \in Deliveries : Row(d) \in RowRecord
  BY DEF Row, RowTypes, JobTypes
<1>3. ASSUME NEW d \in Deliveries, BodyStep(d) PROVE LocalTypes'
  <2> USE <1>0, NoRowType DEF LocalTypes, End, Own, Forget
  <2>1. CASE UNCHANGED <<seen, via>>
    BY <2>1
  <2>2. CASE Forget(d)
    BY <2>2
  <2>3. CASE seen' = [seen EXCEPT ![d] = Row(d)] /\ via' = via
    BY <2>3
  <2>4. CASE seen' = [seen EXCEPT ![d] = NoRow] /\ via' = via
    BY <2>4
  <2>5. CASE seen' = seen /\ via' = [via EXCEPT ![d] = "own"]
    BY <2>5
  <2>6. CASE seen' = seen /\ via' = [via EXCEPT ![d] = "recovered"]
    BY <2>6
  <2>7. CASE seen' = seen /\ via' = [via EXCEPT ![d] = "regated"]
    BY <2>7
  <2> HIDE <1>0, NoRowType DEF LocalTypes, Forget
  <2> QED
    BY <1>3, <2>1, <2>2, <2>3, <2>4, <2>5, <2>6, <2>7
    DEF BodyStep, EnsureRepo, Begin, NoChangedFiles, Save, InsertNew, InsertConflict,
        InsertOrphan, Supersede, Recover, Regate, Gate, Finish, Notify
<1>4. ASSUME NEW d \in Deliveries, Lose(d) PROVE LocalTypes'
  BY <1>4, NoRowType DEF Lose, Leave, Forget, LocalTypes
<1>5. CASE UNCHANGED locals
  BY <1>5 DEF LocalTypes
<1> QED
  BY <1>3, <1>4, <1>5
  DEF Next, ArrivePush, ArrivePullRequest, ArriveHook, Dequeue, HookStep, HookRead, HookInsert,
      RepoRemoved, FindOrphans, PurgeOrphans

\* Outdated ids are those of a row or of a breadcrumb.
LEMMA OutdatedTyped ==
  ASSUME Types, Next PROVE OutdatedTypes'
<1>1. UNCHANGED outdated \/ outdated' \subseteq outdated
      \/ outdated' \subseteq Deliveries \X {"crumb", "row"}
  BY DEF Next, ArrivePush, ArrivePullRequest, ArriveHook, Dequeue, HookStep, HookRead, HookInsert,
         BodyStep, EnsureRepo, Begin, NoChangedFiles, Save, InsertNew, InsertConflict,
         InsertOrphan, Supersede, Recover, Regate, Gate, Finish, Notify, Lose, RepoRemoved,
         FindOrphans, PurgeOrphans
<1> QED BY <1>1 DEF Types, OutdatedTypes

\* The sweep reports breadcrumbs of commits.
LEMMA OrphanTyped ==
  ASSUME Types, Next PROVE OrphanTypes'
<1> USE DEF Types, histVars
<1>1. CASE FindOrphans
  <2>1. PICK old \in SUBSET {c \in Commits : crumb[c] # NoOne} :
          orphans' = {<<c, crumb[c]>> : c \in old} /\ reported' = reported \cup old
    BY <1>1 DEF FindOrphans
  <2> QED BY <2>1 DEF OrphanTypes, CrumbTypes
<1>2. CASE PurgeOrphans
  BY <1>2 DEF PurgeOrphans, OrphanTypes
<1>3. CASE UNCHANGED <<orphans, reported>>
  BY <1>3 DEF OrphanTypes
<1> QED
  BY <1>1, <1>2, <1>3
  DEF Next, ArrivePush, ArrivePullRequest, ArriveHook, Dequeue, HookStep, HookRead, HookInsert,
      BodyStep, EnsureRepo, Begin, NoChangedFiles, Save, InsertNew, InsertConflict,
      InsertOrphan, Supersede, Recover, Regate, Gate, Finish, Notify, Lose, RepoRemoved

\* Gate runs and notifications are those of deliveries.
LEMMA GateTyped ==
  ASSUME Types, Next PROVE GateTypes'
<1> USE DEF Types, histVars
<1>1. ASSUME NEW d \in Deliveries, Gate(d) PROVE GateTypes'
  <2>1. Row(d).kind \in {"none", "cli", "full"}
    BY DEF Row, RowTypes, JobTypes, RowRecord
  <2>2. \E k \in {"none", "cli", "full"} : gates' = gates \/ gates' = gates \cup {<<d, k>>}
    BY <1>1, <2>1 DEF Gate
  <2> QED BY <1>1, <2>2 DEF Gate, GateTypes
<1>2. ASSUME NEW d \in Deliveries, Notify(d) PROVE GateTypes'
  BY <1>2 DEF Notify, GateTypes
<1>3. CASE UNCHANGED <<gates, notified>>
  BY <1>3 DEF GateTypes
<1> QED
  BY <1>1, <1>2, <1>3
  DEF Next, ArrivePush, ArrivePullRequest, ArriveHook, Dequeue, HookStep, HookRead, HookInsert,
      BodyStep, EnsureRepo, Begin, NoChangedFiles, Save, InsertNew, InsertConflict,
      InsertOrphan, Supersede, Recover, Regate, Finish, Lose, RepoRemoved, FindOrphans,
      PurgeOrphans

\* A step notes one fault or none.
LEMMA FaultsGrow ==
  ASSUME Next
  PROVE  UNCHANGED faults \/ \E f \in Faults : Fault(f)
BY DEF Faults, Next, ArrivePush, ArrivePullRequest, ArriveHook, Dequeue, HookStep, HookRead,
       HookInsert, BodyStep, EnsureRepo, Begin, NoChangedFiles, Save, InsertNew, InsertConflict,
       InsertOrphan, Supersede, Recover, Regate, WritePr, WritePrFails, Gate, Finish, Notify,
       Lose, RepoRemoved, FindOrphans, PurgeOrphans

\* The faults of a behaviour keep their type.
LEMMA FaultsTyped ==
  ASSUME Types, Next PROVE FaultTypes'
BY FaultsGrow, FaultTyped DEF Types, FaultTypes

\* Every step keeps all types.
LEMMA TypesKept ==
  ASSUME Types, Next PROVE Types'
BY RepoTyped, RowTyped, CrumbTyped, PcTyped, JobTyped, LocalTyped, OutdatedTyped, OrphanTyped,
   GateTyped, FaultsTyped DEF Types

\* And so does none.
LEMMA TypesStutter ==
  ASSUME Types, UNCHANGED vars PROVE Types'
BY DEF vars, dbVars, jobVars, locals, histVars, Types, RowTypes, CrumbTypes, PcTypes, JobTypes,
       LocalTypes, OutdatedTypes, OrphanTypes, GateTypes, FaultTypes

-----------------------------------------------------------------------------
(* What a step does to a row, and to what a delivery has seen of it        *)

Early == {"none", "queued", "ensure", "begin", "analyze", "insert", "hookRead", "hookInsert"}

\* A delivery inserts the row of its commit, replaces a hook result, or writes
\* the number of its pull request.
Inserted(c, d) ==
  /\ row[c].kind = "none"
  /\ row'[c].id = d /\ row'[c].by = d /\ row'[c].kind \in {"cli", "full"}
  /\ pc[d] \in Early /\ pc'[d] \notin Early
  /\ UNCHANGED seen
  /\ \/ row'[c].kind = "cli" /\ row'[c].pr = NoPr
     \/ row'[c].kind = "full" /\ row'[c].pr = pr[d] /\ via'[d] = "own"
        /\ (event[d] = "pull_request" => pc'[d] = "gate")
Replaced(c, d) ==
  /\ row[c].kind = "cli"
  /\ row'[c].id = row[c].id /\ row'[c].by = d /\ row'[c].kind = "full"
  /\ row'[c].pr = (IF pr[d] = NoPr THEN row[c].pr ELSE pr[d])
  /\ UNCHANGED seen /\ via'[d] = "own"
  /\ (event[d] = "pull_request" => pc'[d] = "gate")
Numbered(c, d) ==
  /\ row'[c].id = row[c].id /\ row'[c].by = row[c].by /\ row'[c].kind = row[c].kind
  /\ pc'[d] = "gate" /\ event[d] = "pull_request"

\* A row changes only so, or goes with its repository.
LEMMA RowStep ==
  ASSUME Types, Next, NEW c \in Commits
  PROVE  \/ row'[c] = row[c]
         \/ RepoRemoved /\ row'[c] = NoRow
         \/ \E d \in Deliveries :
              commit[d] = c /\ (Inserted(c, d) \/ Replaced(c, d) \/ Numbered(c, d))
<1> DEFINE Goal == \/ row'[c] = row[c]
                   \/ RepoRemoved /\ row'[c] = NoRow
                   \/ \E d \in Deliveries :
                        commit[d] = c /\ (Inserted(c, d) \/ Replaced(c, d) \/ Numbered(c, d))
<1> USE DEF Types, dbVars, jobVars, locals
<1>0. /\ row \in [Commits -> RowRecord] /\ pc \in [Deliveries -> Pcs]
      /\ \A d \in Deliveries : commit[d] \in Commits /\ row[commit[d]] \in RowRecord
      /\ via \in [Deliveries -> {"none", "own", "recovered", "regated"}]
  BY DEF RowTypes, PcTypes, JobTypes, LocalTypes
<1>1. ASSUME NEW d \in Deliveries, HookInsert(d), commit[d] = c PROVE Goal
  <2>1. CASE row' = row
    BY <2>1
  <2>2. CASE row' # row
    <3>1. row[c].kind = "none" /\ row'[c] = [id |-> d, by |-> d, kind |-> "cli", pr |-> NoPr]
      BY <1>0, <1>1, <2>2 DEF HookInsert, Row
    <3>2. pc[d] = "hookInsert" /\ pc'[d] = "done" /\ seen' = seen
      BY <1>0, <1>1 DEF HookInsert, Goto
    <3>3. Inserted(c, d)
      BY <3>1, <3>2 DEF Inserted, Early
    <3> QED BY <1>1, <3>3
  <2> QED BY <2>1, <2>2
<1>2. ASSUME NEW d \in Deliveries, InsertNew(d), commit[d] = c PROVE Goal
  <2>1. row[c].kind = "none" /\ row'[c] = [id |-> d, by |-> d, kind |-> "full", pr |-> pr[d]]
    BY <1>0, <1>2 DEF InsertNew, Row
  <2>2. /\ pc[d] = "insert" /\ pc'[d] = IF event[d] = "pull_request" THEN "gate" ELSE "finish"
        /\ seen' = seen /\ via'[d] = "own"
    BY <1>0, <1>2 DEF InsertNew, Own, Goto
  <2>3. Inserted(c, d)
    BY <2>1, <2>2 DEF Inserted, Early
  <2> QED BY <1>2, <2>3
<1>3. ASSUME NEW d \in Deliveries, Supersede(d), commit[d] = c PROVE Goal
  <2>1. CASE row' = row
    BY <2>1
  <2>2. CASE row' # row
    <3>1. Supersedable(d) /\ row'[c] = Superseded(d) /\ Own(d) /\ seen' = seen
      BY <1>0, <1>3, <2>2 DEF Supersede
    <3>2. /\ pc'[d] = IF event[d] = "pull_request" THEN "gate" ELSE "finish"
          /\ via'[d] = "own"
      BY <1>0, <3>1 DEF Own, Goto
    <3>3. /\ Superseded(d).id = row[c].id /\ Superseded(d).by = d /\ Superseded(d).kind = "full"
          /\ Superseded(d).pr = IF pr[d] = NoPr THEN row[c].pr ELSE pr[d]
      <4>1. Row(d) \in RowRecord /\ Row(d) = row[c]
        BY <1>0, <1>3 DEF Row
      <4> HIDE DEF Row
      <4> QED BY <4>1 DEF Superseded, RowRecord
    <3>4. Replaced(c, d)
      BY <1>3, <3>1, <3>2, <3>3 DEF Replaced, Supersedable, Row
    <3> QED BY <1>3, <3>4
  <2> QED BY <2>1, <2>2
<1>4. ASSUME NEW d \in Deliveries, Recover(d) \/ Regate(d), commit[d] = c PROVE Goal
  <2>1. CASE row' = row
    BY <2>1
  <2>2. CASE row' # row
    <3>1. Adoptable(d) /\ WritePr(d) /\ Goto(d, "gate")
      BY <1>4, <2>2 DEF Recover, Regate, WritePrFails
    <3>2. row'[c] = [row[c] EXCEPT !.pr = pr[d]]
      BY <1>0, <1>4, <3>1 DEF WritePr
    <3>3. Numbered(c, d)
      BY <1>0, <3>1, <3>2 DEF Numbered, Adoptable, Goto, RowRecord
    <3> QED BY <1>4, <3>3
  <2> QED BY <2>1, <2>2
<1>5. CASE RepoRemoved
  BY <1>5 DEF RepoRemoved
<1>6. ASSUME NEW d \in Deliveries, commit[d] # c,
             HookInsert(d) \/ InsertNew(d) \/ Supersede(d) \/ Recover(d) \/ Regate(d)
      PROVE  row'[c] = row[c]
  BY <1>0, <1>6
  DEF HookInsert, InsertNew, Supersede, Recover, Regate, WritePr, WritePrFails
<1>7. CASE UNCHANGED row
  BY <1>7
<1> HIDE DEF Goal
<1>8. Goal
  BY <1>1, <1>2, <1>3, <1>4, <1>5, <1>6, <1>7
  DEF Goal, Next, ArrivePush, ArrivePullRequest, ArriveHook, Dequeue, HookStep, HookRead, BodyStep,
      EnsureRepo, Begin, NoChangedFiles, Save, InsertConflict, InsertOrphan, Gate, Finish,
      Notify, Lose, FindOrphans, PurgeOrphans
<1> QED BY <1>8 DEF Goal

\* What a delivery has seen is what it was, nothing, or the row as it is.
LEMMA SeenStep ==
  ASSUME Types, Next, NEW e \in Deliveries
  PROVE  seen'[e] = seen[e] \/ seen'[e] = NoRow \/ (seen'[e] = Row(e) /\ row' = row)
<1> USE DEF Types, LocalTypes, locals, dbVars
<1>1. ASSUME NEW d \in Deliveries, BodyStep(d)
      PROVE  \/ seen' = seen \/ seen' = [seen EXCEPT ![d] = NoRow]
             \/ seen' = [seen EXCEPT ![d] = Row(d)] /\ row' = row
  BY <1>1
  DEF BodyStep, EnsureRepo, Begin, NoChangedFiles, Save, InsertNew, InsertConflict,
      InsertOrphan, Supersede, Recover, Regate, Gate, Finish, Notify, End, Own, Forget
<1>2. ASSUME NEW d \in Deliveries, Lose(d) PROVE seen' = [seen EXCEPT ![d] = NoRow]
  BY <1>2 DEF Lose, Leave, Forget
<1>3. CASE seen' = seen
  BY <1>3
<1>4. ASSUME NEW d \in Deliveries, seen' = [seen EXCEPT ![d] = NoRow]
      PROVE  seen'[e] = seen[e] \/ seen'[e] = NoRow
  BY <1>4
<1>5. ASSUME NEW d \in Deliveries, seen' = [seen EXCEPT ![d] = Row(d)], row' = row
      PROVE  seen'[e] = seen[e] \/ (seen'[e] = Row(e) /\ row' = row)
  BY <1>5
<1> QED
  BY <1>1, <1>2, <1>3, <1>4, <1>5
  DEF Next, ArrivePush, ArrivePullRequest, ArriveHook, Dequeue, HookStep, HookRead, HookInsert,
      RepoRemoved, FindOrphans, PurgeOrphans

\* The commit, the event and the pull request of a delivery on its way are fixed.
LEMMA JobStep ==
  ASSUME Types, Next, NEW e \in Deliveries
  PROVE  /\ commit'[e] = commit[e] /\ empty' = empty
         /\ pc[e] # "none" => event'[e] = event[e] /\ pr'[e] = pr[e]
<1> USE DEF Types, JobTypes, jobVars
<1>1. ASSUME NEW d \in Deliveries, ArrivePullRequest(d) \/ ArriveHook(d)
      PROVE  /\ commit'[e] = commit[e] /\ empty' = empty
             /\ pc[e] # "none" => event'[e] = event[e] /\ pr'[e] = pr[e]
  BY <1>1 DEF ArrivePullRequest, ArriveHook, Arrives
<1>2. CASE UNCHANGED jobVars
  BY <1>2
<1> QED
  BY <1>1, <1>2
  DEF Next, ArrivePush, Dequeue, HookStep, HookRead, HookInsert,
      BodyStep, EnsureRepo, Begin, NoChangedFiles, Save, InsertNew, InsertConflict, InsertOrphan,
      Supersede, Recover, Regate, Gate, Finish, Notify, Lose, RepoRemoved, FindOrphans,
      PurgeOrphans

-----------------------------------------------------------------------------
(* Gates work on full analyses                                             *)

\* Whoever has not come to its insert has no row, and is in nobody's mind.
Fresh ==
  \A d \in Deliveries : pc[d] \in Early =>
    (\A c \in Commits : row[c].id # d) /\ (\A e \in Deliveries : seen[e].id # d)

\* A row that is there has an id.
RowsWhole ==
  /\ \A c \in Commits : row[c].kind = "none" <=> row[c].id = NoOne
  /\ \A e \in Deliveries : seen[e].kind = "none" <=> seen[e].id = NoOne

\* A row that was seen to be full is full as long as it is that row.
SeenLasts ==
  \A e \in Deliveries :
    seen[e].kind = "full" /\ row[commit[e]].id = seen[e].id => row[commit[e]].kind = "full"

\* What is adopted is not the result of a hook, and what is gated is full.
SeenFull ==
  \A d \in Deliveries :
    /\ pc[d] \in {"recover", "regate"} => seen[d].kind # "cli"
    /\ pc[d] = "gate" => via[d] = "own" \/ seen[d].kind = "full"

\* Whoever supersedes has seen a hook result, and still goes by that row unless
\* its repository was removed.
SupersedeSees ==
  \A d \in Deliveries :
    pc[d] = "supersede" =>
      seen[d].kind = "cli" /\ (Outdated(d, "row") \/ row[commit[d]].id = seen[d].id)

RowsInv == Fresh /\ RowsWhole /\ SeenLasts /\ SupersedeSees /\ SeenFull /\ GatesOnFullResults

\* The invariant of the rows holds at first.
LEMMA RowsInit == Init => RowsInv
<1> SUFFICES ASSUME Init PROVE RowsInv
  OBVIOUS
<1>1. /\ \A c \in Commits : row[c].id = NoOne /\ row[c].kind = "none"
      /\ \A e \in Deliveries : seen[e].id = NoOne /\ seen[e].kind = "none" /\ pc[e] = "none"
      /\ gates = {}
  BY DEF Init, NoRow
<1> QED BY <1>1, NullAssumption DEF RowsInv, Fresh, RowsWhole, SeenLasts, SupersedeSees,
  SeenFull, GatesOnFullResults

\* Nobody goes back to before the insert.
LEMMA EarlyStep ==
  ASSUME Types, Next, NEW e \in Deliveries, pc'[e] \in Early
  PROVE  pc[e] \in Early
<1> USE DEF Types, PcTypes, Early, Goto
<1>2. ASSUME NEW d \in Deliveries, BodyStep(d) PROVE pc[e] \in Early
  <2>1. pc[d] \in {"ensure", "begin", "analyze", "insert"}
        \/ pc' = pc
        \/ \E l \in {"gate", "finish", "notify", "recover", "done"} : pc' = [pc EXCEPT ![d] = l]
    BY <1>2
    DEF BodyStep, EnsureRepo, Begin, NoChangedFiles, Save, InsertNew, InsertConflict,
        InsertOrphan, Supersede, Recover, Regate, Gate, Finish, Notify, End, Own
  <2>2. d # e => pc'[e] = pc[e]
    BY <1>2
    DEF BodyStep, EnsureRepo, Begin, NoChangedFiles, Save, InsertNew, InsertConflict,
        InsertOrphan, Supersede, Recover, Regate, Gate, Finish, Notify, End, Own
  <2> QED BY <2>1, <2>2
<1>3. ASSUME NEW d \in Deliveries, Lose(d) PROVE pc[e] \in Early
  BY <1>3 DEF Lose, Leave, LostAs
<1>4. ASSUME NEW d \in Deliveries,
             ArrivePush(d) \/ ArrivePullRequest(d) \/ ArriveHook(d) \/ Dequeue(d) \/ HookStep(d)
      PROVE  pc[e] \in Early
  BY <1>4
  DEF ArrivePush, ArrivePullRequest, ArriveHook, Arrives, SlotTaken, Dequeue, Queue, HookStep,
      HookRead, HookInsert
<1>5. CASE UNCHANGED pc
  BY <1>5
<1> QED
  BY <1>2, <1>3, <1>4, <1>5 DEF Next, RepoRemoved, FindOrphans, PurgeOrphans

\* An id is used once, by the insert of its delivery.
LEMMA FreshKept ==
  ASSUME Types, RowsInv, Next PROVE Fresh'
<1> SUFFICES ASSUME NEW d \in Deliveries, pc'[d] \in Early
             PROVE  /\ \A c \in Commits : row'[c].id # d
                    /\ \A e \in Deliveries : seen'[e].id # d
  BY DEF Fresh
<1>0. d # NoOne
  BY NullAssumption
<1>1. pc[d] \in Early
  BY <1>0, EarlyStep
<1>2. /\ \A c \in Commits : row[c].id # d
      /\ \A e \in Deliveries : seen[e].id # d
  BY <1>1 DEF RowsInv, Fresh
<1>3. ASSUME NEW c \in Commits PROVE row'[c].id # d
  BY <1>0, <1>2, <1>3, RowStep DEF Inserted, Replaced, Numbered, NoRow
<1>4. ASSUME NEW e \in Deliveries PROVE seen'[e].id # d
  BY <1>0, <1>2, <1>4, SeenStep DEF NoRow, Row, Types, JobTypes
<1> QED BY <1>3, <1>4

\* Rows are inserted and removed whole.
LEMMA RowsWholeKept ==
  ASSUME Types, RowsInv, Next PROVE RowsWhole'
<1>1. ASSUME NEW c \in Commits PROVE row'[c].kind = "none" <=> row'[c].id = NoOne
  <2>1. row[c].kind = "none" <=> row[c].id = NoOne
    BY DEF RowsInv, RowsWhole
  <2> QED BY <2>1, RowStep, NullAssumption DEF Inserted, Replaced, Numbered, NoRow
<1>2. ASSUME NEW e \in Deliveries PROVE seen'[e].kind = "none" <=> seen'[e].id = NoOne
  <2>1. /\ seen[e].kind = "none" <=> seen[e].id = NoOne
        /\ Row(e).kind = "none" <=> Row(e).id = NoOne
    BY DEF RowsInv, RowsWhole, Row, Types, JobTypes
  <2> QED BY <2>1, SeenStep DEF NoRow
<1> QED BY <1>1, <1>2 DEF RowsWhole

\* A full row is not replaced, so what was seen of it lasts.
LEMMA SeenLastsKept ==
  ASSUME Types, RowsInv, Next PROVE SeenLasts'
<1> SUFFICES ASSUME NEW e \in Deliveries, seen'[e].kind = "full",
                    row'[commit[e]].id = seen'[e].id
             PROVE  row'[commit[e]].kind = "full"
  BY JobStep DEF SeenLasts
<1> DEFINE c == commit[e]
<1>0. c \in Commits
  BY DEF Types, JobTypes
<1>1. CASE seen'[e] = Row(e) /\ row' = row
  BY <1>1 DEF Row
<1>2. CASE seen'[e] = seen[e]
  <2>1. row[c].id = seen[e].id => row[c].kind = "full"
    BY <1>2 DEF RowsInv, SeenLasts
  <2>2. seen[e].id # NoOne
    BY <1>2 DEF RowsInv, RowsWhole
  <2>3. ASSUME NEW d \in Deliveries, Inserted(c, d) PROVE FALSE
    <3>1. seen[e].id # d
      BY <2>3 DEF RowsInv, Fresh, Inserted
    <3> QED BY <1>2, <2>3, <3>1 DEF Inserted
  <2>4. row'[c].id = row[c].id /\ (row'[c].kind = row[c].kind \/ row'[c].kind = "full")
    BY <1>0, <1>2, <2>2, <2>3, RowStep DEF Replaced, Numbered, NoRow
  <2> QED BY <1>2, <2>1, <2>4
<1> QED BY <1>1, <1>2, SeenStep DEF NoRow

\* A delivery stays as it is, or the step is its own.
OwnStep(e) ==
  \/ ArrivePush(e) \/ ArrivePullRequest(e) \/ ArriveHook(e)
  \/ Dequeue(e) \/ HookStep(e) \/ BodyStep(e) \/ Lose(e)

\* Every delivery but the one whose step it is stays as it is.
LEMMA OthersStay ==
  ASSUME Types, Next, NEW e \in Deliveries
  PROVE  OwnStep(e) \/ (pc'[e] = pc[e] /\ seen'[e] = seen[e] /\ via'[e] = via[e])
<1> USE DEF Types, PcTypes, LocalTypes, locals, Goto
<1>1. ASSUME NEW d \in Deliveries, d # e, BodyStep(d)
      PROVE  pc'[e] = pc[e] /\ seen'[e] = seen[e] /\ via'[e] = via[e]
  <2>1. /\ \E l \in Pcs : pc' = [pc EXCEPT ![d] = l]
        /\ seen' = seen \/ \E r \in RowRecord \cup {Row(d)} : seen' = [seen EXCEPT ![d] = r]
        /\ via' = via \/ \E v \in {"none", "own", "recovered", "regated"} :
                           via' = [via EXCEPT ![d] = v]
    BY <1>1, NoRowType
    DEF BodyStep, EnsureRepo, Begin, NoChangedFiles, Save, InsertNew, InsertConflict,
        InsertOrphan, Supersede, Recover, Regate, Gate, Finish, Notify, End, Own, Forget,
        Pcs, Waits, Body, Hook, Over
  <2> QED BY <1>1, <2>1
<1>2. ASSUME NEW d \in Deliveries, d # e, Lose(d)
      PROVE  pc'[e] = pc[e] /\ seen'[e] = seen[e] /\ via'[e] = via[e]
  BY <1>2 DEF Lose, Leave, Forget
<1>3. ASSUME NEW d \in Deliveries, d # e,
             ArrivePush(d) \/ ArrivePullRequest(d) \/ ArriveHook(d) \/ Dequeue(d) \/ HookStep(d)
      PROVE  pc'[e] = pc[e] /\ seen'[e] = seen[e] /\ via'[e] = via[e]
  BY <1>3
  DEF ArrivePush, ArrivePullRequest, ArriveHook, SlotTaken, Dequeue, HookStep, HookRead,
      HookInsert
<1>4. CASE UNCHANGED <<pc, seen, via>>
  BY <1>4
<1> QED
  BY <1>1, <1>2, <1>3, <1>4 DEF OwnStep, Next, RepoRemoved, FindOrphans, PurgeOrphans

\* Hook results are sent to be superseded, and never adopted.
LEMMA SeenFullKept ==
  ASSUME Types, RowsInv, Next PROVE SeenFull'
<1> SUFFICES ASSUME NEW d \in Deliveries
             PROVE  /\ pc'[d] \in {"recover", "regate"} => seen'[d].kind # "cli"
                    /\ pc'[d] = "gate" => via'[d] = "own" \/ seen'[d].kind = "full"
  BY DEF SeenFull
<1> USE DEF Types, PcTypes, LocalTypes, Goto, locals
<1>0. /\ pc[d] \in {"recover", "regate"} => seen[d].kind # "cli"
      /\ Row(d) \in RowRecord /\ seen[d] \in RowRecord
      /\ SeenLasts
  BY DEF RowsInv, SeenFull, Row, RowTypes, JobTypes
<1>1. CASE pc'[d] = pc[d] /\ seen'[d] = seen[d] /\ via'[d] = via[d]
  BY <1>1 DEF RowsInv, SeenFull
<1>2. CASE EnsureRepo(d)
  BY <1>0, <1>2 DEF EnsureRepo, Unanalyzed, End
<1>3. CASE Begin(d) \/ NoChangedFiles(d) \/ InsertOrphan(d) \/ Finish(d) \/ Notify(d) \/ Gate(d)
  BY <1>3 DEF Begin, NoChangedFiles, InsertOrphan, Finish, Notify, Gate, End
<1>4. CASE Save(d)
  BY <1>0, <1>4 DEF Save, Unanalyzed
<1>5. CASE InsertNew(d)
  BY <1>5 DEF InsertNew, Own
<1>6. CASE InsertConflict(d)
  BY <1>0, <1>6 DEF InsertConflict
<1>7. CASE Supersede(d)
  <2>1. CASE Own(d)
    BY <2>1 DEF Own
  <2>2. CASE ~Supersedable(d) /\ Goto(d, "recover")
             /\ seen' = [seen EXCEPT ![d] = IF Outdated(d, "row") THEN NoRow ELSE Row(d)]
    <3>1. PICK x \in {NoRow, Row(d)} : seen'[d] = x
      BY <2>2
    <3>2. x.kind # "cli"
      BY <1>7, <2>2, <3>1 DEF Supersede, Supersedable, NoRow, RowsInv, SupersedeSees, Row
    <3>3. pc'[d] = "recover"
      BY <2>2
    <3> QED BY <3>1, <3>2, <3>3
  <2> QED BY <1>7, <2>1, <2>2 DEF Supersede
<1>8. CASE Recover(d) \/ Regate(d)
  <2>1. seen[d].kind # "cli"
    BY <1>0, <1>8 DEF Recover, Regate
  <2>2. pc'[d] = "gate" => Adoptable(d) /\ seen' = seen
    BY <1>8 DEF Recover, Regate, End
  <2>3. pc'[d] \notin {"recover", "regate"}
    BY <1>8 DEF Recover, Regate, End
  <2> QED BY <1>0, <2>1, <2>2, <2>3 DEF Adoptable, RowRecord
<1>9. CASE Lose(d)
  BY <1>9 DEF Lose, Leave, LostAs
<1>10. CASE ArrivePush(d) \/ ArrivePullRequest(d) \/ ArriveHook(d) \/ Dequeue(d) \/ HookStep(d)
  BY <1>10
  DEF ArrivePush, ArrivePullRequest, ArriveHook, SlotTaken, Dequeue, HookStep, HookRead,
      HookInsert
<1> HIDE DEF Types, PcTypes, LocalTypes, Goto, locals
<1> QED
  BY <1>1, <1>2, <1>3, <1>4, <1>5, <1>6, <1>7, <1>8, <1>9, <1>10, OthersStay
  DEF OwnStep, BodyStep

\* The row of a hook result that is to be superseded keeps its id.
LEMMA SupersedeSeesKept ==
  ASSUME Types, RowsInv, Next PROVE SupersedeSees'
<1> SUFFICES ASSUME NEW d \in Deliveries, pc'[d] = "supersede"
             PROVE  /\ seen'[d].kind = "cli"
                    /\ <<d, "row">> \in outdated' \/ row'[commit[d]].id = seen'[d].id
  BY JobStep DEF SupersedeSees, Outdated
<1> USE DEF Types, PcTypes, LocalTypes, Goto, locals, dbVars
<1>0. Row(d) \in RowRecord /\ commit[d] \in Commits
  BY DEF Row, RowTypes, JobTypes
<1>1. CASE InsertConflict(d)
  BY <1>0, <1>1 DEF InsertConflict, Row
<1>2. CASE pc[d] = "supersede" /\ seen'[d] = seen[d]
  <2>1. seen[d].kind = "cli" /\ (<<d, "row">> \in outdated \/ row[commit[d]].id = seen[d].id)
    BY <1>2 DEF RowsInv, SupersedeSees, Outdated
  <2>2. CASE RepoRemoved
    BY <1>2, <2>1, <2>2 DEF RepoRemoved, Body
  <2>3. CASE ~RepoRemoved
    <3>1. \A e \in Deliveries : e # d /\ <<d, "row">> \in outdated => <<d, "row">> \in outdated \ {<<e, "row">>}
      OBVIOUS
    <3>2. ~Save(d)
      BY <1>2 DEF Save
    <3>3. <<d, "row">> \in outdated => <<d, "row">> \in outdated'
      BY <2>3, <3>1, <3>2
      DEF Next, ArrivePush, ArrivePullRequest, ArriveHook, Dequeue, HookStep, HookRead,
          HookInsert, BodyStep, EnsureRepo, Begin, NoChangedFiles, Save, InsertNew,
          InsertConflict, InsertOrphan, Supersede, Recover, Regate, Gate, Finish, Notify, Lose,
          FindOrphans, PurgeOrphans
    <3>4. row[commit[d]].id = seen[d].id => row[commit[d]].kind # "none"
      BY <2>1 DEF RowsInv, RowsWhole, Types, JobTypes
    <3>5. row[commit[d]].id = seen[d].id => row'[commit[d]].id = row[commit[d]].id
      BY <1>0, <2>3, <3>4, RowStep DEF Inserted, Replaced, Numbered
    <3> QED BY <1>2, <2>1, <3>3, <3>5
  <2> QED BY <2>2, <2>3
<1>3. InsertConflict(d) \/ (pc[d] = "supersede" /\ seen'[d] = seen[d])
  <2> DEFINE Goal == InsertConflict(d) \/ (pc[d] = "supersede" /\ seen'[d] = seen[d])
  <2>1. CASE BodyStep(d)
    BY <2>1
    DEF BodyStep, EnsureRepo, Begin, NoChangedFiles, Save, InsertNew, InsertOrphan, Supersede,
        Recover, Regate, Gate, Finish, Notify, End, Own
  <2>2. CASE Lose(d)
    BY <2>2 DEF Lose, Leave, LostAs
  <2>3. CASE ArrivePush(d) \/ ArrivePullRequest(d) \/ ArriveHook(d) \/ Dequeue(d) \/ HookStep(d)
    BY <2>3
    DEF ArrivePush, ArrivePullRequest, ArriveHook, SlotTaken, Dequeue, HookStep, HookRead,
        HookInsert
  <2> HIDE DEF Goal
  <2>4. Goal
    BY <2>1, <2>2, <2>3, OthersStay DEF OwnStep, Goal
  <2> QED BY <2>4 DEF Goal
<1> QED BY <1>1, <1>2, <1>3

\* A gate run works on the full result in hand, or on a full row.
LEMMA GatesKept ==
  ASSUME Types, RowsInv, Next PROVE GatesOnFullResults'
<1> USE DEF RowsInv, GatesOnFullResults, histVars
<1>1. ASSUME NEW d \in Deliveries, Gate(d) PROVE GatesOnFullResults'
  <2>1. via[d] = "own" \/ seen[d].kind = "full"
    BY <1>1 DEF Gate, SeenFull
  <2>2. seen[d].kind = "full" /\ Row(d).id = seen[d].id => Row(d).kind = "full"
    BY DEF SeenLasts, Row
  <2>3. gates' = gates \/ gates' = gates \cup {<<d, "full">>}
    BY <1>1, <2>1, <2>2 DEF Gate
  <2> QED BY <2>3
<1>2. CASE UNCHANGED gates
  BY <1>2
<1> QED
  BY <1>1, <1>2
  DEF Next, ArrivePush, ArrivePullRequest, ArriveHook, Dequeue, HookStep, HookRead, HookInsert,
      BodyStep, EnsureRepo, Begin, NoChangedFiles, Save, InsertNew, InsertConflict,
      InsertOrphan, Supersede, Recover, Regate, Finish, Notify, Lose, RepoRemoved, FindOrphans,
      PurgeOrphans

\* Every step keeps the invariant of the rows.
LEMMA RowsKept ==
  ASSUME Types, RowsInv, Next PROVE RowsInv'
<1>1. Fresh' /\ RowsWhole' /\ SeenLasts'
  BY FreshKept, RowsWholeKept, SeenLastsKept
<1>2. SupersedeSees' /\ SeenFull' /\ GatesOnFullResults'
  BY SupersedeSeesKept, SeenFullKept, GatesKept
<1> QED BY <1>1, <1>2 DEF RowsInv

-----------------------------------------------------------------------------
(* A commit is notified once                                               *)

\* While its repository stays, whoever goes on with its own analysis, or has
\* notified, is the one whose result the row holds.
Owners ==
  Stayed =>
    \A d \in Deliveries :
      via[d] = "own" \/ d \in notified =>
        row[commit[d]].kind = "full" /\ row[commit[d]].by = d

NotifiesOwn == \A d \in Deliveries : pc[d] = "notify" => via[d] = "own"

OwnersInv == Owners /\ NotifiesOwn

\* Nobody owns a result at first.
LEMMA OwnersInit == Init => OwnersInv
BY DEF Init, OwnersInv, Owners, NotifiesOwn

\* A repository that has stayed had stayed before, and was not removed now.
LEMMA StayedBefore ==
  ASSUME Types, Next, Stayed'
  PROVE  Stayed /\ ~RepoRemoved
<1>1. CASE UNCHANGED faults
  BY <1>1 DEF Stayed, Happened, RepoRemoved, Fault, Contains, Types, FaultTypes
<1>2. ASSUME NEW f \in Faults, Fault(f) PROVE Stayed /\ f # "remove"
  BY <1>2 DEF Stayed, Happened, Fault, Contains, Types, FaultTypes
<1>3. RepoRemoved => Fault("remove")
  BY DEF RepoRemoved
<1>4. Fault("remove") => ~Stayed'
  BY DEF Stayed, Happened, Fault, Contains, Types, FaultTypes
<1> QED BY <1>1, <1>2, <1>3, <1>4, FaultsGrow

\* Whoever comes to own an analysis stores its own full result.
LEMMA OwnStores ==
  ASSUME Types, Next, NEW d \in Deliveries, via'[d] = "own", via[d] # "own"
  PROVE  row'[commit[d]].kind = "full" /\ row'[commit[d]].by = d
<1>0. /\ row \in [Commits -> RowRecord] /\ commit[d] \in Commits
      /\ Row(d) \in RowRecord /\ Row(d) = row[commit[d]]
      /\ via \in [Deliveries -> {"none", "own", "recovered", "regated"}]
  BY DEF Types, RowTypes, JobTypes, LocalTypes, Row
<1>1. CASE InsertNew(d)
  BY <1>0, <1>1 DEF InsertNew
<1>2. CASE Supersede(d)
  <2>1. row' = [row EXCEPT ![commit[d]] = Superseded(d)]
    BY <1>2 DEF Supersede
  <2>2. Superseded(d).kind = "full" /\ Superseded(d).by = d
    <3> HIDE DEF Row
    <3> QED BY <1>0 DEF Superseded, RowRecord
  <2> QED BY <1>0, <2>1, <2>2
<1>3. CASE BodyStep(d) /\ ~InsertNew(d) /\ ~Supersede(d)
  BY <1>0, <1>3
  DEF BodyStep, EnsureRepo, Begin, NoChangedFiles, Save, InsertConflict, InsertOrphan, Recover,
      Regate, Gate, Finish, Notify, End, Forget, locals
<1>4. CASE Lose(d)
  BY <1>0, <1>4 DEF Lose, Leave, Forget
<1>5. CASE ArrivePush(d) \/ ArrivePullRequest(d) \/ ArriveHook(d) \/ Dequeue(d) \/ HookStep(d)
  BY <1>5 DEF ArrivePush, ArrivePullRequest, ArriveHook, Dequeue, HookStep, HookRead, HookInsert,
              locals
<1> QED BY <1>1, <1>2, <1>3, <1>4, <1>5, OthersStay DEF OwnStep

\* Only a delivery about to notify notifies.
LEMMA NotifiedStep ==
  ASSUME Types, Next, NEW d \in Deliveries, d \in notified', d \notin notified
  PROVE  pc[d] = "notify"
BY DEF Next, ArrivePush, ArrivePullRequest, ArriveHook, Dequeue, HookStep, HookRead,
       HookInsert, BodyStep, EnsureRepo, Begin, NoChangedFiles, Save, InsertNew, InsertConflict,
       InsertOrphan, Supersede, Recover, Regate, Gate, Finish, Notify, Lose, RepoRemoved,
       FindOrphans, PurgeOrphans, histVars

\* A full result stays that of the delivery that stored it, as long as it is
\* that row.
LEMMA FullStep ==
  ASSUME Types, RowsInv, Next, NEW c \in Commits, row[c].kind = "full"
  PROVE  \/ RepoRemoved /\ row'[c].id = NoOne /\ row[c].id # NoOne
         \/ row'[c].id = row[c].id /\ row'[c].kind = "full" /\ row'[c].by = row[c].by
<1>1. row[c].id # NoOne
  BY DEF RowsInv, RowsWhole
<1> QED BY <1>1, RowStep DEF Inserted, Replaced, Numbered, NoRow

\* A full result stays with its owner as long as the repository stays.
LEMMA OwnersKept ==
  ASSUME Types, RowsInv, OwnersInv, Next PROVE Owners'
<1> SUFFICES ASSUME Stayed', NEW d \in Deliveries, via'[d] = "own" \/ d \in notified'
             PROVE  row'[commit[d]].kind = "full" /\ row'[commit[d]].by = d
  BY JobStep DEF Owners
<1>0. Stayed /\ ~RepoRemoved /\ commit[d] \in Commits
  BY StayedBefore DEF Types, JobTypes
<1>1. CASE via[d] = "own" \/ d \in notified
  <2>1. row[commit[d]].kind = "full" /\ row[commit[d]].by = d
    BY <1>0, <1>1 DEF OwnersInv, Owners
  <2> QED BY <1>0, <2>1, FullStep
<1>2. CASE via[d] # "own" /\ d \notin notified
  <2>1. pc[d] # "notify"
    BY <1>2 DEF OwnersInv, NotifiesOwn
  <2> QED BY <1>2, <2>1, OwnStores, NotifiedStep
<1> QED BY <1>1, <1>2

\* Only owners come to notify.
LEMMA NotifiesOwnKept ==
  ASSUME Types, OwnersInv, Next PROVE NotifiesOwn'
<1> SUFFICES ASSUME NEW d \in Deliveries, pc'[d] = "notify"
             PROVE  via'[d] = "own"
  BY DEF NotifiesOwn
<1>0. pc \in [Deliveries -> Pcs] /\ (pc[d] = "notify" => via[d] = "own")
  BY DEF Types, PcTypes, OwnersInv, NotifiesOwn
<1> USE DEF Goto
<1>1. CASE BodyStep(d)
  BY <1>0, <1>1
  DEF BodyStep, EnsureRepo, Begin, NoChangedFiles, Save, InsertNew, InsertConflict, InsertOrphan,
      Supersede, Recover, Regate, Gate, Finish, Notify, End, Own, locals
<1>2. CASE Lose(d)
  BY <1>0, <1>2 DEF Lose, Leave, LostAs
<1>3. CASE ArrivePush(d) \/ ArrivePullRequest(d) \/ ArriveHook(d) \/ Dequeue(d) \/ HookStep(d)
  BY <1>0, <1>3
  DEF ArrivePush, ArrivePullRequest, ArriveHook, SlotTaken, Dequeue, HookStep, HookRead,
      HookInsert
<1> QED BY <1>0, <1>1, <1>2, <1>3, OthersStay DEF OwnStep

-----------------------------------------------------------------------------
(* A pull request is not forgotten                                         *)

\* Only pull_request deliveries have a pull request, and only the hook walks
\* through the steps of the hook.
EventInv ==
  \A d \in Deliveries :
    /\ event[d] = "pull_request" <=> pr[d] # NoPr
    /\ pc[d] = "none" => event[d] = "push" /\ pr[d] = NoPr
    /\ pc[d] \in Hook => event[d] = "cli"

\* While the repository stays, nobody goes by an id of a removed one, and
\* whoever goes on with somebody's analysis has seen the row that is there.
StayInv ==
  Stayed =>
    /\ repo /\ outdated = {}
    /\ \A d \in Deliveries :
         pc[d] \in {"supersede", "recover", "regate"} \/ (pc[d] = "gate" /\ via[d] # "own") =>
           seen[d].kind # "none" /\ seen[d].id = row[commit[d]].id

\* Some pull_request delivery of the commit has its gate run, or was killed.
Gated(c) == \E e \in Deliveries : event[e] = "pull_request" /\ commit[e] = c /\ Gating(e)

PrInv ==
  Stayed /\ ~Happened("database") =>
    /\ \A c \in Commits : row[c].pr # NoPr => Gated(c)
    /\ \A d \in Deliveries : seen[d].pr # NoPr => Gated(commit[d])
    /\ \A d \in Deliveries :
         pc[d] \in {"finish", "notify", "done"} /\ event[d] = "pull_request" /\ Changed(d)
           => Gated(commit[d])

\* Nothing is forgotten at first.
LEMMA PrInit == Init => EventInv /\ StayInv /\ PrInv
<1> SUFFICES ASSUME Init PROVE EventInv /\ StayInv /\ PrInv
  OBVIOUS
<1>1. /\ \A c \in Commits : row[c].pr = NoPr
      /\ \A e \in Deliveries : seen[e].pr = NoPr /\ pc[e] = "none"
      /\ \A e \in Deliveries : event[e] = "push" /\ pr[e] = NoPr
      /\ repo /\ outdated = {}
  BY DEF Init, NoRow
<1> QED BY <1>1 DEF EventInv, StayInv, PrInv, Hook

\* The event of a delivery is fixed when it arrives.
LEMMA EventKept ==
  ASSUME Types, EventInv, Next PROVE EventInv'
<1> SUFFICES ASSUME NEW e \in Deliveries
             PROVE  /\ event'[e] = "pull_request" <=> pr'[e] # NoPr
                    /\ pc'[e] = "none" => event'[e] = "push" /\ pr'[e] = NoPr
                    /\ pc'[e] \in Hook => event'[e] = "cli"
  BY DEF EventInv
<1>0. /\ pc \in [Deliveries -> Pcs]
      /\ event \in [Deliveries -> {"push", "pull_request", "cli"}]
      /\ pr \in [Deliveries -> PRs \cup {NoPr}]
      /\ event[e] = "pull_request" <=> pr[e] # NoPr
      /\ pc[e] = "none" => event[e] = "push" /\ pr[e] = NoPr
      /\ pc[e] \in Hook => event[e] = "cli"
  BY DEF Types, PcTypes, JobTypes, EventInv
<1> USE <1>0, NullAssumption DEF Goto, Hook, jobVars
<1>1. ASSUME NEW d \in Deliveries, ArrivePush(d) \/ ArrivePullRequest(d) \/ ArriveHook(d)
      PROVE  /\ event'[e] = "pull_request" <=> pr'[e] # NoPr
             /\ pc'[e] = "none" => event'[e] = "push" /\ pr'[e] = NoPr
             /\ pc'[e] \in Hook => event'[e] = "cli"
  BY <1>1 DEF ArrivePush, ArrivePullRequest, ArriveHook, Arrives, SlotTaken
<1>2. ASSUME NEW d \in Deliveries, HookStep(d)
      PROVE  /\ UNCHANGED <<event, pr>>
             /\ pc'[e] = pc[e] \/ (pc'[e] # "none" /\ pc[e] \in Hook)
  BY <1>2 DEF HookStep, HookRead, HookInsert
<1>3. ASSUME NEW d \in Deliveries, Dequeue(d) \/ BodyStep(d) \/ Lose(d)
      PROVE  UNCHANGED <<event, pr>> /\ (pc'[e] = pc[e] \/ pc'[e] \notin Hook \cup {"none"})
  BY <1>3
  DEF Dequeue, BodyStep, EnsureRepo, Begin, NoChangedFiles, Save, InsertNew, InsertConflict,
      InsertOrphan, Supersede, Recover, Regate, Gate, Finish, Notify, End, Own, Lose, Leave, LostAs
<1>4. CASE RepoRemoved \/ FindOrphans \/ PurgeOrphans
  BY <1>4 DEF RepoRemoved, FindOrphans, PurgeOrphans
<1> HIDE NullAssumption DEF Goto, Hook, jobVars
<1>5. CASE \E d \in Deliveries : HookStep(d)
  BY <1>0, <1>2, <1>5
<1>6. CASE \E d \in Deliveries : Dequeue(d) \/ BodyStep(d) \/ Lose(d)
  BY <1>0, <1>3, <1>6
<1> QED BY <1>1, <1>4, <1>5, <1>6 DEF Next

\* As long as the repository stays, what was read of a row is still its row.
LEMMA StayKept ==
  ASSUME Types, RowsInv, StayInv, Next PROVE StayInv'
<1> SUFFICES ASSUME Stayed' PROVE
      /\ repo' /\ outdated' = {}
      /\ \A d \in Deliveries :
           pc'[d] \in {"supersede", "recover", "regate"} \/ (pc'[d] = "gate" /\ via'[d] # "own") =>
             seen'[d].kind # "none" /\ seen'[d].id = row'[commit[d]].id
  BY JobStep DEF StayInv
<1>0. Stayed /\ ~RepoRemoved /\ repo /\ outdated = {}
  BY StayedBefore DEF StayInv
<1>1. repo'
  BY <1>0
  DEF Next, ArrivePush, ArrivePullRequest, ArriveHook, Dequeue, HookStep, HookRead,
      HookInsert, BodyStep, EnsureRepo, Begin, NoChangedFiles, Save, InsertNew, InsertConflict,
      InsertOrphan, Supersede, Recover, Regate, Gate, Finish, Notify, Lose, FindOrphans,
      PurgeOrphans, dbVars
<1>2. outdated' = {}
  BY <1>0
  DEF Next, ArrivePush, ArrivePullRequest, ArriveHook, Dequeue, HookStep, HookRead,
      HookInsert, BodyStep, EnsureRepo, Begin, NoChangedFiles, Save, InsertNew, InsertConflict,
      InsertOrphan, Supersede, Recover, Regate, Gate, Finish, Notify, Lose, FindOrphans,
      PurgeOrphans
<1>3. ASSUME NEW d \in Deliveries,
             pc'[d] \in {"supersede", "recover", "regate"} \/ (pc'[d] = "gate" /\ via'[d] # "own")
      PROVE  seen'[d].kind # "none" /\ seen'[d].id = row'[commit[d]].id
  <2>0. /\ pc \in [Deliveries -> Pcs] /\ seen \in [Deliveries -> RowRecord]
        /\ via \in [Deliveries -> {"none", "own", "recovered", "regated"}]
        /\ row \in [Commits -> RowRecord] /\ commit[d] \in Commits
        /\ Row(d) = row[commit[d]]
        /\ row[commit[d]].kind = "none" <=> row[commit[d]].id = NoOne
        /\ seen[d].kind = "none" <=> seen[d].id = NoOne
    BY DEF Types, RowTypes, JobTypes, LocalTypes, PcTypes, Row, RowsInv, RowsWhole
  <2>1. ASSUME seen'[d] = seen[d],
               pc[d] \in {"supersede", "recover", "regate"} \/ (pc[d] = "gate" /\ via[d] # "own")
        PROVE  seen'[d].kind # "none" /\ seen'[d].id = row'[commit[d]].id
    <3>1. seen[d].kind # "none" /\ seen[d].id = row[commit[d]].id
      BY <1>0, <2>1 DEF StayInv
    <3>2. row[commit[d]].kind # "none"
      BY <2>0, <3>1
    <3>3. row'[commit[d]].id = row[commit[d]].id
      BY <1>0, <2>0, <3>2, RowStep DEF Inserted, Replaced, Numbered
    <3> QED BY <2>1, <3>1, <3>3
  <2>2. ASSUME seen'[d] = Row(d), row' = row, Row(d).kind # "none"
        PROVE  seen'[d].kind # "none" /\ seen'[d].id = row'[commit[d]].id
    BY <2>0, <2>2
  <2>3. CASE EnsureRepo(d)
    <3>1. seen'[d] = Row(d) /\ row' = row /\ Row(d).kind # "none"
      BY <1>3, <2>0, <2>3 DEF EnsureRepo, Unanalyzed, End, Goto
    <3> QED BY <3>1, <2>2
  <2>4. CASE Save(d)
    <3>1. seen'[d] = Row(d) /\ row' = row /\ Row(d).kind # "none"
      BY <1>3, <2>0, <2>4 DEF Save, Unanalyzed, Goto, dbVars
    <3> QED BY <3>1, <2>2
  <2>5. CASE InsertConflict(d)
    <3>1. seen'[d] = Row(d) /\ row' = row /\ Row(d).kind # "none"
      BY <2>0, <2>5 DEF InsertConflict, dbVars
    <3> QED BY <3>1, <2>2
  <2>6. CASE Supersede(d)
    <3>1. ~Own(d)
      BY <1>3, <2>0 DEF Own, Goto
    <3>2. seen'[d] = Row(d) /\ row' = row
      BY <1>0, <2>0, <2>6, <3>1 DEF Supersede, Outdated
    <3>3. pc[d] = "supersede" /\ via'[d] = via[d]
      BY <2>6, <3>1 DEF Supersede
    <3>4. Row(d).kind # "none"
      BY <1>0, <2>0, <3>3 DEF StayInv
    <3> QED BY <3>2, <3>4, <2>2
  <2>7. CASE Recover(d) \/ Regate(d)
    <3>1. pc'[d] = "gate" /\ seen'[d] = seen[d]
      BY <1>3, <2>0, <2>7 DEF Recover, Regate, End, Goto
    <3>2. pc[d] \in {"recover", "regate"}
      BY <2>7 DEF Recover, Regate
    <3> QED BY <2>1, <3>1, <3>2
  <2>8. CASE \/ Begin(d) \/ NoChangedFiles(d) \/ InsertNew(d) \/ InsertOrphan(d) \/ Gate(d)
            \/ Finish(d) \/ Notify(d) \/ Lose(d)
    BY <1>3, <2>0, <2>8
    DEF Begin, NoChangedFiles, InsertNew, InsertOrphan, Gate, Finish, Notify, End, Own, Goto,
        Lose, Leave, LostAs
  <2>9. CASE ArrivePush(d) \/ ArrivePullRequest(d) \/ ArriveHook(d) \/ Dequeue(d) \/ HookStep(d)
    BY <1>3, <2>0, <2>9
    DEF ArrivePush, ArrivePullRequest, ArriveHook, SlotTaken, Dequeue, HookStep, HookRead,
        HookInsert, Goto
  <2>10. CASE pc'[d] = pc[d] /\ seen'[d] = seen[d] /\ via'[d] = via[d]
    BY <1>3, <2>1, <2>10
  <2> QED
    BY <2>3, <2>4, <2>5, <2>6, <2>7, <2>8, <2>9, <2>10, OthersStay DEF OwnStep, BodyStep
<1> QED BY <1>1, <1>2, <1>3


Late == {"analyze", "insert", "supersede", "recover", "regate", "gate", "finish", "notify", "lost"}

\* A delivery that is past its arrival had arrived, and is what it was.
LEMMA Arrived ==
  ASSUME Types, Next, NEW d \in Deliveries, pc'[d] \in Late \cup {"done"}
  PROVE  /\ pc[d] # "none" /\ commit[d] \in Commits
         /\ event'[d] = event[d] /\ commit'[d] = commit[d] /\ (Changed(d)' <=> Changed(d))
<1>1. pc[d] # "none"
  <2>1. CASE ~OwnStep(d)
    BY <2>1, OthersStay DEF Late
  <2>2. ASSUME OwnStep(d), pc[d] = "none"
        PROVE  ArrivePush(d) \/ ArrivePullRequest(d) \/ ArriveHook(d)
    BY <2>2
    DEF OwnStep, Dequeue, Queue, HookStep, HookRead, HookInsert, BodyStep, EnsureRepo, Begin,
        NoChangedFiles, Save, InsertNew, InsertConflict, InsertOrphan, Supersede, Recover,
        Regate, Gate, Finish, Notify, Lose, InProgress, Body
  <2>3. ASSUME ArrivePush(d) \/ ArrivePullRequest(d) \/ ArriveHook(d)
        PROVE  pc'[d] \notin Late \cup {"done"}
    BY <2>3
    DEF ArrivePush, ArrivePullRequest, ArriveHook, SlotTaken, Goto, Types, PcTypes, Late
  <2> QED BY <2>1, <2>2, <2>3
<1> QED BY <1>1, JobStep DEF Changed, Types, JobTypes

\* A pull request that has its gate run keeps it.
LEMMA GatedKept ==
  ASSUME Types, EventInv, StayInv, Next, Stayed', NEW c \in Commits, Gated(c)
  PROVE  Gated(c)'
<1>1. PICK e \in Deliveries : event[e] = "pull_request" /\ commit[e] = c /\ Gating(e)
  BY DEF Gated
<1>2. pc[e] # "none"
  BY <1>1 DEF EventInv
<1>3. event'[e] = "pull_request" /\ commit'[e] = c
  BY <1>1, <1>2, JobStep
<1>4. gates \subseteq gates'
  BY DEF Next, ArrivePush, ArrivePullRequest, ArriveHook, Dequeue, HookStep, HookRead,
         HookInsert, BodyStep, EnsureRepo, Begin, NoChangedFiles, Save, InsertNew,
         InsertConflict, InsertOrphan, Supersede, Recover, Regate, Gate, Finish, Notify, Lose,
         RepoRemoved, FindOrphans, PurgeOrphans, histVars
<1>5. CASE e \in {g[1] : g \in gates}
  BY <1>3, <1>4, <1>5 DEF Gated, Gating
<1>6. CASE pc[e] = "gate"
  <2>0. pc \in [Deliveries -> Pcs]
    BY DEF Types, PcTypes
  <2>1. CASE Gate(e)
    <3>1. via[e] = "own" \/ Row(e).id = seen[e].id
      BY <1>6, StayedBefore DEF StayInv, Row
    <3>2. \E k : <<e, k>> \in gates'
      BY <2>1, <3>1 DEF Gate
    <3>3. e \in {g[1] : g \in gates'}
      BY <3>2
    <3> QED BY <1>3, <3>3 DEF Gated, Gating
  <2>2. CASE Lose(e)
    <3>1. pc'[e] \in {"lost", "lostEarly"}
      BY <2>0, <2>2 DEF Lose, Leave, LostAs, Goto
    <3> QED BY <1>3, <3>1 DEF Gated, Gating
  <2>3. CASE pc'[e] = pc[e]
    BY <1>3, <1>6, <2>3 DEF Gated, Gating
  <2>4. ASSUME OwnStep(e) PROVE Gate(e) \/ Lose(e)
    BY <1>6, <2>4
    DEF OwnStep, ArrivePush, ArrivePullRequest, ArriveHook, Arrives, Dequeue, Queue, HookStep,
        HookRead, HookInsert, BodyStep, EnsureRepo, Begin, NoChangedFiles, Save, InsertNew,
        InsertConflict, InsertOrphan, Supersede, Recover, Regate, Finish, Notify
  <2> QED BY <2>1, <2>2, <2>3, <2>4, OthersStay
<1>7. CASE pc[e] \in {"lostEarly", "lost"}
  <2>1. ~OwnStep(e)
    BY <1>7
    DEF OwnStep, ArrivePush, ArrivePullRequest, ArriveHook, Arrives, Dequeue, Queue, HookStep,
        HookRead, HookInsert, BodyStep, EnsureRepo, Begin, NoChangedFiles, Save, InsertNew,
        InsertConflict, InsertOrphan, Supersede, Recover, Regate, Gate, Finish, Notify, Lose,
        InProgress, Body
  <2>2. pc'[e] = pc[e]
    BY <2>1, OthersStay
  <2> QED BY <1>3, <1>7, <2>2 DEF Gated, Gating
<1> QED BY <1>1, <1>5, <1>6, <1>7 DEF Gating

\* What has not happened yet did not happen in the step.
LEMMA NoDatabaseFault ==
  ASSUME Types, Next, ~Happened("database")'
  PROVE  ~Happened("database") /\ ~Fault("database")
<1>1. CASE UNCHANGED faults
  BY <1>1 DEF Happened, Fault, Contains, Types, FaultTypes
<1>2. ASSUME NEW f \in Faults, Fault(f) PROVE ~Happened("database")
  BY <1>2 DEF Happened, Fault, Contains, Types, FaultTypes
<1>3. ~Fault("database")
  BY DEF Happened, Fault, Contains, Types, FaultTypes
<1> QED BY <1>1, <1>2, <1>3, FaultsGrow

\* A pull_request delivery comes to its end only with a gate run for its commit.
LEMMA PrStep ==
  ASSUME Types, EventInv, StayInv, PrInv, Next, Stayed', ~Happened("database")',
         NEW d \in Deliveries, pc'[d] \in {"finish", "notify", "done"},
         event[d] = "pull_request", Changed(d)
  PROVE  Gated(commit[d])
<1>0. /\ pc \in [Deliveries -> Pcs]
      /\ Stayed /\ ~Happened("database") /\ ~Fault("database") /\ repo /\ outdated = {}
      /\ Row(d) = row[commit[d]]
  BY StayedBefore, NoDatabaseFault DEF Types, PcTypes, StayInv, Row
<1>1. CASE pc[d] \in {"finish", "notify", "done"}
  BY <1>0, <1>1 DEF PrInv
<1>2. CASE EnsureRepo(d) \/ NoChangedFiles(d) \/ Save(d) \/ Begin(d)
  BY <1>0, <1>2 DEF EnsureRepo, NoChangedFiles, Save, Begin, Goto
<1>3. CASE InsertNew(d) \/ InsertConflict(d) \/ InsertOrphan(d) \/ Supersede(d)
  BY <1>0, <1>3
  DEF InsertNew, InsertConflict, InsertOrphan, Supersede, Own, Goto, Outdated
<1>4. CASE Recover(d) \/ Regate(d)
  <2>1. seen[d].kind # "none" /\ seen[d].id = Row(d).id
    BY <1>0, <1>4 DEF Recover, Regate, StayInv
  <2>2. ~WritePrFails(d)
    BY <1>0, <2>1 DEF WritePrFails
  <2>3. ~Adoptable(d)
    BY <1>0, <1>4, <2>2 DEF Recover, Regate, Goto
  <2>4. seen[d].pr # NoPr
    BY <2>1, <2>3 DEF Adoptable
  <2> QED BY <1>0, <2>4 DEF PrInv
<1>5. CASE Gate(d)
  BY <1>5 DEF Gate, Gated, Gating
<1>6. CASE Lose(d)
  BY <1>0, <1>6 DEF Lose, Leave, LostAs, Goto
<1>7. CASE HookStep(d)
  BY <1>7 DEF HookStep, HookRead, HookInsert, EventInv, Hook
<1>8. CASE ArrivePush(d) \/ ArrivePullRequest(d) \/ ArriveHook(d) \/ Dequeue(d)
  BY <1>0, <1>8
  DEF ArrivePush, ArrivePullRequest, ArriveHook, SlotTaken, Dequeue, Goto
<1>9. CASE Finish(d) \/ Notify(d)
  BY <1>1, <1>9 DEF Finish, Notify
<1> QED
  BY <1>1, <1>2, <1>3, <1>4, <1>5, <1>6, <1>7, <1>8, <1>9, OthersStay DEF OwnStep, BodyStep

\* Whoever writes the number of a pull request gates it, or has been killed.
LEMMA PrKept ==
  ASSUME Types, RowsInv, EventInv, StayInv, PrInv, Next PROVE PrInv'
<1> SUFFICES ASSUME Stayed', ~Happened("database")'
             PROVE  /\ \A c \in Commits : row'[c].pr # NoPr => Gated(c)'
                    /\ \A d \in Deliveries : seen'[d].pr # NoPr => Gated(commit[d])'
                    /\ \A d \in Deliveries :
                         /\ pc'[d] \in {"finish", "notify", "done"}
                         /\ event'[d] = "pull_request" /\ Changed(d)'
                         => Gated(commit[d])'
  BY DEF PrInv
<1>0. Stayed /\ ~Happened("database") /\ ~RepoRemoved
  BY StayedBefore, NoDatabaseFault
<1>1. ASSUME NEW d \in Deliveries, pc'[d] = "gate", event[d] = "pull_request"
      PROVE  Gated(commit[d])'
  BY <1>1, JobStep DEF EventInv, Gated, Gating
<1>2. ASSUME NEW c \in Commits, row'[c].pr # NoPr PROVE Gated(c)'
  <2>1. row[c].pr # NoPr => Gated(c)'
    BY <1>0, GatedKept DEF PrInv
  <2>2. ASSUME NEW d \in Deliveries, commit[d] = c, event[d] = "pull_request", pc'[d] = "gate"
        PROVE  Gated(c)'
    BY <2>2, JobStep DEF EventInv, Gated, Gating
  <2> QED BY <1>0, <1>2, <2>1, <2>2, RowStep DEF Inserted, Replaced, Numbered, EventInv
<1>3. ASSUME NEW d \in Deliveries, seen'[d].pr # NoPr PROVE Gated(commit[d])'
  <2>1. commit[d] \in Commits /\ commit'[d] = commit[d]
    BY JobStep DEF Types, JobTypes
  <2>2. seen[d].pr # NoPr \/ row[commit[d]].pr # NoPr
    BY <1>3, SeenStep DEF NoRow, Row
  <2>3. Gated(commit[d])
    BY <1>0, <2>1, <2>2 DEF PrInv
  <2>4. \A c \in Commits : Gated(c) => Gated(c)'
    BY GatedKept
  <2> QED BY <2>1, <2>3, <2>4
<1>4. ASSUME NEW d \in Deliveries, pc'[d] \in {"finish", "notify", "done"},
             event'[d] = "pull_request", Changed(d)'
      PROVE  Gated(commit[d])'
  <2>1. commit[d] \in Commits /\ commit'[d] = commit[d]
    BY <1>4, Arrived DEF Late
  <2>3. event[d] = "pull_request" /\ Changed(d)
    BY <1>4, Arrived DEF Late
  <2>4. Gated(commit[d])
    BY <1>4, <2>3, PrStep
  <2>5. \A c \in Commits : Gated(c) => Gated(c)'
    BY GatedKept
  <2> QED BY <2>1, <2>4, <2>5
<1> QED BY <1>2, <1>3, <1>4

-----------------------------------------------------------------------------
(* A lost analysis leaves a trace                                          *)

Traced(c) == Evident(c) \/ FoundNothing(c) \/ row[c].kind = "full"

LossInv ==
  /\ \A o \in orphans : o[1] \in reported
  /\ Stayed =>
       \A d \in Deliveries : pc[d] = "finish" /\ Changed(d) => row[commit[d]].kind = "full"
  /\ Stayed /\ ~Happened("crumb") =>
       \A d \in Deliveries : pc[d] \in Late /\ Changed(d) => Traced(commit[d])

\* Nothing is lost at first.
LEMMA LossInit == Init => LossInv
BY DEF Init, LossInv, Late

\* Whoever gates, or goes on with somebody's analysis, has a full row.
LEMMA StayFull ==
  ASSUME Types, RowsInv, OwnersInv, StayInv, Stayed, NEW d \in Deliveries,
         pc[d] \in {"recover", "regate", "gate", "notify"}
  PROVE  row[commit[d]].kind = "full"
<1>1. CASE via[d] = "own"
  BY <1>1 DEF OwnersInv, Owners
<1>2. CASE via[d] # "own"
  <2>1. seen[d].kind # "none" /\ seen[d].id = row[commit[d]].id
    BY <1>2 DEF StayInv, OwnersInv, NotifiesOwn
  <2>2. seen[d].kind \in {"none", "cli", "full"}
    BY DEF Types, LocalTypes, RowRecord
  <2>3. seen[d].kind # "cli"
    BY <1>2, <2>2 DEF RowsInv, SeenFull, OwnersInv, NotifiesOwn
  <2> QED BY <2>1, <2>2, <2>3 DEF RowsInv, SeenLasts
<1> QED BY <1>1, <1>2

\* A full row stays full while its repository stays.
LEMMA FullStays ==
  ASSUME Types, RowsInv, Next, Stayed', NEW c \in Commits, row[c].kind = "full"
  PROVE  row'[c].kind = "full"
BY FullStep, StayedBefore

\* A delivery with files to analyse finishes only when its commit has a full row.
LEMMA FinishKept ==
  ASSUME Types, RowsInv, OwnersInv, StayInv, LossInv, Next, Stayed',
         NEW d \in Deliveries, pc'[d] = "finish", Changed(d)'
  PROVE  row'[commit[d]].kind = "full"
<1>0. /\ pc \in [Deliveries -> Pcs] /\ Stayed /\ repo /\ commit[d] \in Commits /\ Changed(d)
      /\ via \in [Deliveries -> {"none", "own", "recovered", "regated"}]
  BY StayedBefore, Arrived DEF Types, PcTypes, LocalTypes, StayInv, Late
<1>1. CASE pc[d] = "finish"
  BY <1>0, <1>1, FullStays DEF LossInv
<1>2. CASE Recover(d) \/ Gate(d) \/ Regate(d)
  <2>1. pc[d] \in {"recover", "gate", "regate"}
    BY <1>2 DEF Recover, Gate, Regate
  <2> QED BY <1>0, <2>1, StayFull, FullStays
<1>3. CASE Own(d)
  <2>1. via'[d] = "own"
    BY <1>0, <1>3 DEF Own
  <2>2. CASE via[d] = "own"
    BY <1>0, <2>2, FullStays DEF OwnersInv, Owners
  <2> QED BY <2>1, <2>2, OwnStores
<1>4. CASE /\ ~Own(d)
           /\ \/ EnsureRepo(d) \/ Begin(d) \/ NoChangedFiles(d) \/ Save(d) \/ InsertNew(d)
              \/ InsertConflict(d) \/ InsertOrphan(d) \/ Supersede(d) \/ Finish(d) \/ Notify(d)
  BY <1>0, <1>4
  DEF EnsureRepo, Begin, NoChangedFiles, Save, InsertNew, InsertConflict, InsertOrphan,
      Supersede, Finish, Notify, End, Goto
<1>5. CASE Lose(d)
  BY <1>0, <1>5 DEF Lose, Leave, LostAs, Goto
<1>6. CASE ArrivePush(d) \/ ArrivePullRequest(d) \/ ArriveHook(d) \/ Dequeue(d) \/ HookStep(d)
  BY <1>0, <1>6
  DEF ArrivePush, ArrivePullRequest, ArriveHook, SlotTaken, Dequeue, HookStep, HookRead,
      HookInsert, Goto
<1> QED BY <1>1, <1>2, <1>3, <1>4, <1>5, <1>6, OthersStay DEF OwnStep, BodyStep

\* A breadcrumb goes away with the end of a delivery of its commit, or after
\* it was reported.
LEMMA CrumbStep ==
  ASSUME Types, LossInv, Next, ~RepoRemoved, NEW c \in Commits, crumb[c] # NoOne
  PROVE  \/ crumb'[c] # NoOne \/ c \in reported
         \/ \E e \in Deliveries : commit[e] = c /\ Finish(e)
<1> USE DEF Types, CrumbTypes, dbVars
<1>1. ASSUME NEW e \in Deliveries, Finish(e), commit[e] # c PROVE crumb'[c] = crumb[c]
  BY <1>1 DEF Finish
<1>2. ASSUME NEW e \in Deliveries, Begin(e) PROVE crumb'[c] = crumb[c]
  BY <1>2 DEF Begin
<1>3. CASE PurgeOrphans
  <2>1. crumb'[c] = crumb[c] \/ <<c, crumb[c]>> \in orphans
    BY <1>3 DEF PurgeOrphans
  <2>2. ASSUME <<c, crumb[c]>> \in orphans PROVE c \in reported
    BY <2>2 DEF LossInv
  <2> QED BY <2>1, <2>2
<1>4. CASE crumb' = crumb
  BY <1>4
<1> QED
  BY <1>1, <1>2, <1>3, <1>4
  DEF Next, ArrivePush, ArrivePullRequest, ArriveHook, Dequeue, HookStep, HookRead, HookInsert,
      BodyStep, EnsureRepo, NoChangedFiles, Save, InsertNew, InsertConflict, InsertOrphan,
      Supersede, Recover, Regate, Gate, Notify, Lose, FindOrphans

\* A trace of a commit is replaced by another, or stays.
LEMMA TracedKept ==
  ASSUME Types, RowsInv, OwnersInv, StayInv, LossInv, Next, Stayed',
         NEW c \in Commits, Traced(c)
  PROVE  Traced(c)'
<1>0. Stayed /\ ~RepoRemoved
  BY StayedBefore
<1>1. CASE row[c].kind = "full"
  BY <1>1, FullStays DEF Traced
<1>2. ASSUME c \in reported PROVE Traced(c)'
  <2>1. reported \subseteq reported'
    BY DEF Next, ArrivePush, ArrivePullRequest, ArriveHook, Dequeue, HookStep, HookRead,
           HookInsert, BodyStep, EnsureRepo, Begin, NoChangedFiles, Save, InsertNew,
           InsertConflict, InsertOrphan, Supersede, Recover, Regate, Gate, Finish, Notify, Lose,
           RepoRemoved, FindOrphans, PurgeOrphans, histVars
  <2> QED BY <1>2, <2>1 DEF Traced, Evident
<1>3. ASSUME NEW e \in Deliveries, commit[e] = c, pc'[e] \in {"done", "lost"}, ~Changed(e)
      PROVE  Traced(c)'
  BY <1>3, Arrived DEF Traced, FoundNothing, Late
<1>4. CASE FoundNothing(c)
  <2>1. PICK e \in Deliveries : commit[e] = c /\ pc[e] \in {"done", "lost"} /\ ~Changed(e)
    BY <1>4 DEF FoundNothing
  <2>2. ~OwnStep(e)
    BY <2>1
    DEF OwnStep, ArrivePush, ArrivePullRequest, ArriveHook, Arrives, Dequeue, Queue, HookStep,
        HookRead, HookInsert, BodyStep, EnsureRepo, Begin, NoChangedFiles, Save, InsertNew,
        InsertConflict, InsertOrphan, Supersede, Recover, Regate, Gate, Finish, Notify, Lose,
        InProgress, Body
  <2> QED BY <1>3, <2>1, <2>2, OthersStay
<1>5. ASSUME NEW e \in Deliveries, commit[e] = c, Finish(e) PROVE Traced(c)'
  <2>1. pc[e] = "finish" /\ pc \in [Deliveries -> Pcs]
    BY <1>5 DEF Finish, Types, PcTypes
  <2>2. CASE Changed(e)
    BY <1>0, <1>5, <2>1, <2>2, FullStays DEF LossInv, Traced
  <2>3. CASE via[e] = "own"
    BY <1>0, <1>5, <2>3, FullStays DEF OwnersInv, Owners, Traced
  <2>4. CASE ~Changed(e) /\ via[e] # "own"
    <3>1. pc'[e] = "done"
      BY <1>5, <2>1, <2>4 DEF Finish, End, Goto
    <3> QED BY <1>3, <1>5, <2>4, <3>1
  <2> QED BY <2>2, <2>3, <2>4
<1>6. CASE crumb[c] # NoOne
  <2>1. CASE crumb'[c] # NoOne
    BY <2>1 DEF Traced, Evident
  <2> QED BY <1>0, <1>2, <1>5, <1>6, <2>1, CrumbStep
<1> QED BY <1>1, <1>2, <1>4, <1>6 DEF Traced, Evident

\* What has not happened yet did not happen in the step.
LEMMA NoCrumbFault ==
  ASSUME Types, Next, ~Happened("crumb")'
  PROVE  ~Happened("crumb") /\ ~Fault("crumb")
<1>1. CASE UNCHANGED faults
  BY <1>1 DEF Happened, Fault, Contains, Types, FaultTypes
<1>2. ASSUME NEW f \in Faults, Fault(f) PROVE ~Happened("crumb")
  BY <1>2 DEF Happened, Fault, Contains, Types, FaultTypes
<1>3. ~Fault("crumb")
  BY DEF Happened, Fault, Contains, Types, FaultTypes
<1> QED BY <1>1, <1>2, <1>3, FaultsGrow

\* Every step keeps the invariant of the losses.
LEMMA LossKept ==
  ASSUME Types, RowsInv, OwnersInv, StayInv, LossInv, Next PROVE LossInv'
<1>1. \A o \in orphans' : o[1] \in reported'
  <2>1. CASE FindOrphans
    BY <2>1 DEF FindOrphans, LossInv
  <2>2. CASE PurgeOrphans
    BY <2>2 DEF PurgeOrphans
  <2>3. CASE UNCHANGED <<orphans, reported>>
    BY <2>3 DEF LossInv
  <2> QED
    BY <2>1, <2>2, <2>3
    DEF Next, ArrivePush, ArrivePullRequest, ArriveHook, Dequeue, HookStep, HookRead, HookInsert,
        BodyStep, EnsureRepo, Begin, NoChangedFiles, Save, InsertNew, InsertConflict,
        InsertOrphan, Supersede, Recover, Regate, Gate, Finish, Notify, Lose, RepoRemoved,
        histVars
<1>2. ASSUME Stayed', NEW d \in Deliveries, pc'[d] = "finish", Changed(d)'
      PROVE  row'[commit'[d]].kind = "full"
  BY <1>2, FinishKept, JobStep
<1>3. ASSUME Stayed', ~Happened("crumb")', NEW d \in Deliveries, pc'[d] \in Late, Changed(d)'
      PROVE  Traced(commit[d])'
  <2>0. /\ pc \in [Deliveries -> Pcs] /\ Stayed /\ ~Happened("crumb") /\ ~Fault("crumb")
        /\ outdated = {} /\ commit[d] \in Commits /\ Changed(d) /\ commit'[d] = commit[d]
        /\ crumb \in [Commits -> Deliveries \cup {NoOne}] /\ d # NoOne
    BY <1>3, StayedBefore, NoCrumbFault, Arrived, NullAssumption
    DEF Types, PcTypes, CrumbTypes, StayInv
  <2>1. \A c \in Commits : Traced(c) => Traced(c)'
    BY <1>3, TracedKept
  <2>3. CASE pc[d] \in Late
    BY <2>0, <2>1, <2>3 DEF LossInv
  <2>4. CASE Begin(d)
    <3>1. crumb'[commit[d]] # NoOne
      BY <2>0, <2>4 DEF Begin, Outdated
    <3> QED BY <2>0, <3>1 DEF Traced, Evident
  <2>5. CASE EnsureRepo(d) /\ ~Begin(d)
    <3>1. row[commit[d]].kind = "full"
      BY <1>3, <2>0, <2>5 DEF EnsureRepo, Unanalyzed, Row, End, Goto, Late
    <3> QED BY <2>0, <2>1, <3>1 DEF Traced
  <2>6. CASE Lose(d)
    BY <1>3, <2>0, <2>3, <2>6
    DEF Lose, Leave, LostAs, Goto, InProgress, Body, Late
  <2>7. CASE ArrivePush(d) \/ ArrivePullRequest(d) \/ ArriveHook(d) \/ Dequeue(d) \/ HookStep(d)
    BY <1>3, <2>0, <2>7
    DEF ArrivePush, ArrivePullRequest, ArriveHook, SlotTaken, Dequeue, HookStep, HookRead,
        HookInsert, Goto, Late
  <2>8. ASSUME BodyStep(d), ~Begin(d), ~EnsureRepo(d) PROVE pc[d] \in Late
    BY <2>8
    DEF BodyStep, NoChangedFiles, Save, InsertNew, InsertConflict, InsertOrphan, Supersede,
        Recover, Regate, Gate, Finish, Notify, Late
  <2> QED BY <1>3, <2>3, <2>4, <2>5, <2>6, <2>7, <2>8, OthersStay DEF OwnStep
<1> QED BY <1>1, <1>2, <1>3 DEF LossInv

-----------------------------------------------------------------------------
(* The theorems                                                            *)

IInv == Types /\ SlotsInv /\ RowsInv /\ OwnersInv /\ EventInv /\ StayInv /\ PrInv
        /\ LossInv

\* The slots never exceed their limit because they and the bodies add up to it.
LEMMA IInvTypes == IInv => TypeOK
<1> SUFFICES ASSUME IInv PROVE TypeOK
  OBVIOUS
<1>1. DbOK
  BY DEF IInv, Types, DbOK, RowTypes, CrumbTypes
<1>2. JobsOK
  BY DEF IInv, Types, JobsOK, PcTypes, Pcs, JobTypes, LocalTypes
<1>3. SlotsOK
  BY InBodyFinite, LimitAssumption DEF IInv, Types, SlotsOK, SlotsInv, OutdatedTypes
<1>4. HistoryOK
  BY DEF IInv, Types, HistoryOK, OrphanTypes, GateTypes, FaultTypes
<1> QED BY <1>1, <1>2, <1>3, <1>4 DEF TypeOK

\* The invariants, together, are inductive.
LEMMA IInvHolds == Spec => []IInv
<1>1. Init => IInv
  BY TypesInit, SlotsInit, RowsInit, OwnersInit, PrInit, LossInit DEF IInv
<1>2. IInv /\ [Next]_vars => IInv'
  <2> SUFFICES ASSUME IInv, [Next]_vars PROVE IInv'
    OBVIOUS
  <2>1. CASE Next
    BY <2>1, TypesKept, SlotsKept, RowsKept, OwnersKept, NotifiesOwnKept,
       EventKept, StayKept, PrKept, LossKept DEF IInv, OwnersInv
  <2>2. CASE UNCHANGED vars
    <3>1. Types'
      BY <2>2, TypesStutter DEF IInv
    <3>2. SlotsInv'
      BY <2>2 DEF IInv, SlotsInv, InBody, vars
    <3>3. RowsInv'
      BY <2>2 DEF IInv, RowsInv, Fresh, RowsWhole, SeenLasts, SupersedeSees, SeenFull, Outdated,
                  GatesOnFullResults, vars, dbVars, jobVars, locals, histVars
    <3>4. OwnersInv'
      BY <2>2 DEF IInv, OwnersInv, Owners, NotifiesOwn, Stayed, Happened, vars, dbVars, jobVars,
                  locals, histVars
    <3>5. EventInv' /\ StayInv'
      BY <2>2 DEF IInv, EventInv, StayInv, Stayed, Happened, vars, dbVars, jobVars, locals
    <3>6. PrInv'
      BY <2>2 DEF IInv, PrInv, Stayed, Happened, Gated, Gating, Changed, vars, dbVars, jobVars,
                  locals, histVars
    <3>7. LossInv'
      BY <2>2 DEF IInv, LossInv, Stayed, Happened, Traced, Evident, FoundNothing, Changed, vars,
                  dbVars, jobVars, histVars
    <3> QED BY <3>1, <3>2, <3>3, <3>4, <3>5, <3>6, <3>7 DEF IInv
  <2> QED BY <2>1, <2>2
<1> QED BY <1>1, <1>2, PTL DEF Spec

\* Rows, locals, slots and histories keep their types.
THEOREM IntakeTypeCorrect == Spec => []TypeOK
BY IInvHolds, IInvTypes, PTL

\* _pipeline_slot: whatever ends a body, its slot is free again, once.
THEOREM SlotsAccountedHolds == Spec => []SlotsAccounted
<1>1. IInv => SlotsAccounted
  BY DEF IInv, SlotsInv, SlotsAccounted, InBody
<1> QED BY IInvHolds, <1>1, PTL

\* No gate run works on a pre-push result: what is adopted was seen to be full,
\* and a row that was full when it was seen is full as long as it is there.
THEOREM GatesOnFullResultsHolds == Spec => []GatesOnFullResults
<1>1. IInv => GatesOnFullResults
  BY DEF IInv, RowsInv
<1> QED BY IInvHolds, <1>1, PTL

\* Of all the deliveries of a commit, only the one whose result the row holds
\* notifies, as long as the repository is not removed.
THEOREM NotifiedOnceHolds == Spec => []NotifiedOnce
<1>1. IInv => NotifiedOnce
  <2> SUFFICES ASSUME IInv, Stayed, NEW d \in notified, NEW e \in notified, commit[d] = commit[e]
               PROVE  d = e
    BY DEF NotifiedOnce
  <2>1. d \in Deliveries /\ e \in Deliveries
    BY DEF IInv, Types, GateTypes
  <2>2. row[commit[d]].by = d /\ row[commit[e]].by = e
    BY <2>1 DEF IInv, OwnersInv, Owners
  <2> QED BY <2>2
<1> QED BY IInvHolds, <1>1, PTL

\* The dedup never drops the gate of a pull request: a delivery that finds the
\* commit analysed ends without a gate run only when the row names a pull
\* request, and whoever wrote that name gates or has gated.
THEOREM PrNotForgottenHolds == Spec => []PrNotForgotten
<1>1. IInv => PrNotForgotten
  BY DEF IInv, PrInv, PrNotForgotten, Gated
<1> QED BY IInvHolds, <1>1, PTL

\* models/analysis_attempt.py: under a breadcrumb that could be written, an
\* analysis that died left it behind, or the sweep reported it, unless another
\* delivery of the commit deleted it and had no files to analyse.
THEOREM LossIsVisibleHolds == Spec => []LossIsVisible
<1>1. IInv => LossIsVisible
  BY DEF IInv, LossInv, LossIsVisible, Vanished, Unanalyzed, Row, Traced, Late
<1> QED BY IInvHolds, <1>1, PTL

\* Whoever waits for a slot waits for a body that runs, or a slot is free for
\* the first of the queue (_pipeline_slot): the waiting is never for nothing.
QueueIsServed == Queue # {} /\ permits = 0 => \E d \in Deliveries : pc[d] \in Body

\* For any limit and any number of deliveries.
THEOREM QueueIsServedHolds == Spec => []QueueIsServed
<1>1. IInv => QueueIsServed
  <2> SUFFICES ASSUME IInv, permits = 0, \A d \in Deliveries : pc[d] \notin Body PROVE FALSE
    BY DEF QueueIsServed
  <2>1. Cardinality(InBody) = Limit
    BY InBodyFinite DEF IInv, SlotsInv
  <2>2. InBody = {}
    BY DEF InBody
  <2> QED BY <2>1, <2>2, FS_EmptySet, LimitAssumption
<1> QED BY IInvHolds, <1>1, PTL

\* A delivery only comes nearer to its end, and every step of its body and
\* every slot it is given brings it nearer: nobody is sent back to be analysed,
\* recovered or gated again.  With QueueIsServed, of DeliveriesEnd only that a
\* body can always go on is left to TLC.
DeliveriesMoveOn ==
  [][\A d \in Deliveries :
       /\ pc'[d] # pc[d] => Rank[pc'[d]] < Rank[pc[d]]
       /\ BodyStep(d) \/ Dequeue(d) => pc'[d] # pc[d]]_vars

\* For any interleaving of the deliveries, the sweep and the faults.
THEOREM DeliveriesMoveOnHolds == Spec => DeliveriesMoveOn
<1> DEFINE On(d) == /\ pc'[d] # pc[d] => Rank[pc'[d]] < Rank[pc[d]]
                    /\ BodyStep(d) \/ Dequeue(d) => pc'[d] # pc[d]
<1>1. ASSUME IInv, Next, NEW d \in Deliveries PROVE On(d)
  <2>0. pc \in [Deliveries -> Pcs]
    BY <1>1 DEF IInv, Types, PcTypes
  <2>1. pc'[d] # pc[d] => Rank[pc'[d]] < Rank[pc[d]]
    BY <1>1, <2>0, EveryMove DEF Move
  <2>2. BodyStep(d) \/ Dequeue(d) => pc'[d] # pc[d]
    BY <2>0, StepsMove
  <2> QED BY <2>1, <2>2
<1>2. IInv /\ [Next]_vars => [\A d \in Deliveries : On(d)]_vars
  <2> HIDE DEF On
  <2> QED BY <1>1
<1> QED BY IInvHolds, <1>2, PTL DEF Spec, DeliveriesMoveOn

\* save_new and _claim_and_supersede_cli never overwrite a full result.
THEOREM FullResultStaysHolds == Spec => FullResultStays
<1> DEFINE Stays == \A c \in Commits : row[c].kind = "full" /\ row'[c].id = row[c].id
                       => row'[c].kind = "full" /\ row'[c].by = row[c].by
<1>1. IInv /\ [Next]_vars => [Stays]_vars
  <2> SUFFICES ASSUME IInv, Next PROVE Stays
    BY DEF Stays
  <2> QED BY FullStep DEF IInv
<1> QED BY IInvHolds, <1>1, PTL DEF Spec, FullResultStays

=============================================================================
