-------------------------- MODULE GateDecisionProofs --------------------------
(***************************************************************************)
(* Theorems about the semi-automatic gate, for any number of presses and   *)
(* any number of faults.                                                   *)
(***************************************************************************)
EXTENDS GateDecision, FiniteSetTheorems, TLAPS

-----------------------------------------------------------------------------
(* The inductive invariant behind the verdict and the record.              *)

\* The row has a decision from its insertion on; a press about to insert one
\* has its own.
RowOK ==
  /\ state = "absent" => lease = "none"
  /\ state # "absent" => decision \in Verdicts
  /\ \A c \in Clicks : pc[c] = "decide" => choice[c] \in Verdicts

\* Whoever posts, has posted or merges took the decision over from the row.
VerdictOK ==
  \A c \in Clicks :
    /\ c \in landed \cup merged \/ pc[c] \in {"head", "post", "mark", "merge"}
         => said[c] = decision /\ state # "absent"
    /\ c \in merged \/ pc[c] = "merge" => said[c] = "approve"

\* Where a press stands tells whether its review is on the pull request, and
\* one that is there is recorded at once, or a fault is to blame.
LandedOK ==
  /\ state = "posted" => landed # {}
  /\ \A c \in Clicks :
       /\ pc[c] \in {"mark", "merge", "failedAfter"} => c \in landed
       /\ pc[c] \in {"idle", "decide", "lease", "head", "post"} => c \notin landed
       /\ pc[c] = "merge" => state = "posted"
       /\ c \in landed /\ faults = 0 => pc[c] = "mark" \/ state = "posted"

ShapeInv == TypeOK /\ RowOK /\ VerdictOK /\ LandedOK

\* It holds at first.
LEMMA ShapeInit == Init => ShapeInv
BY MaxFaultsAssumption
   DEF Init, ShapeInv, TypeOK, RowOK, VerdictOK, LandedOK, Trying

\* Every step keeps it.
LEMMA ShapeNext == ShapeInv /\ [Next]_vars => ShapeInv'
<1> SUFFICES ASSUME ShapeInv, [Next]_vars PROVE ShapeInv'
  OBVIOUS
<1> USE NoDecisionAssumption
    DEF ShapeInv, TypeOK, RowOK, VerdictOK, LandedOK, Goto, Trying, Fault, rowVars,
        clickVars, Verdicts
<1>1. ASSUME NEW c \in Clicks, Press(c) PROVE ShapeInv'
  BY <1>1 DEF Press
<1>2. ASSUME NEW c \in Clicks, Decide(c) PROVE ShapeInv'
  BY <1>2 DEF Decide
<1>3. ASSUME NEW c \in Clicks, TakeLease(c) PROVE ShapeInv'
  BY <1>3 DEF TakeLease
<1>4. ASSUME NEW c \in Clicks, Replay(c) PROVE ShapeInv'
  BY <1>4 DEF Replay
<1>5. ASSUME NEW c \in Clicks, CheckHead(c) PROVE ShapeInv'
  BY <1>5 DEF CheckHead
<1>6. ASSUME NEW c \in Clicks, Post(c) PROVE ShapeInv'
  BY <1>6, MaxFaultsAssumption DEF Post
<1>7. ASSUME NEW c \in Clicks, Mark(c) PROVE ShapeInv'
  BY <1>7 DEF Mark
<1>8. ASSUME NEW c \in Clicks, DatabaseError(c) PROVE ShapeInv'
  BY <1>8 DEF DatabaseError
<1>9. ASSUME NEW c \in Clicks, AutoMerge(c) PROVE ShapeInv'
  BY <1>9 DEF AutoMerge
<1>10. ASSUME NEW c \in Clicks, Release(c) PROVE ShapeInv'
  BY <1>10 DEF Release
<1>11. ASSUME NEW c \in Clicks, Crash(c) PROVE ShapeInv'
  BY <1>11 DEF Crash
<1>12. ASSUME LeaseExpires PROVE ShapeInv'
  BY <1>12 DEF LeaseExpires
<1>13. ASSUME UNCHANGED vars PROVE ShapeInv'
  BY <1>13 DEF vars
<1> QED
  BY <1>1, <1>2, <1>3, <1>4, <1>5, <1>6, <1>7, <1>8, <1>9, <1>10, <1>11, <1>12, <1>13
  DEF Next, ClickStep

\* It holds always.
LEMMA ShapeHolds == Spec => []ShapeInv
BY ShapeInit, ShapeNext, PTL DEF Spec

\* The row and the locals of handle_gate_callback keep their types and shape.
THEOREM TypeCorrect == Spec => []TypeOK
<1>1. ShapeInv => TypeOK
  BY DEF ShapeInv
<1> QED BY <1>1, ShapeHolds, PTL

\* Every review says what the first press decided (claim_decision).
THEOREM OneVerdictHolds == Spec => []OneVerdict
<1>1. ShapeInv => OneVerdict
  BY DEF ShapeInv, TypeOK, VerdictOK, OneVerdict
<1> QED BY <1>1, ShapeHolds, PTL

\* The row and the pull request agree (mark_posted).
THEOREM RecordMatchesGithubHolds == Spec => []RecordMatchesGithub
<1>1. ShapeInv => RecordMatchesGithub
  BY DEF ShapeInv, TypeOK, LandedOK, RecordMatchesGithub
<1> QED BY <1>1, ShapeHolds, PTL

-----------------------------------------------------------------------------
(* Counting the reviews.                                                   *)

\* The presses whose review is there, or may still come, or that are about to
\* open the row again ...
Counted == landed \cup InTrying

\* ... and among them those that open the row although the review is there.
Doubtful == {c \in landed : pc[c] \in {"failed", "failedAfter"}}

Ncounted  == Cardinality(Counted)
Ndoubtful == Cardinality(Doubtful)

\* A lease that has not run out accounts for one press, and the faults for
\* the others; a posted row leases no more.
CostOK ==
  /\ state # "posted" =>
       /\ Ncounted + Ndoubtful <= faults + (IF lease = "fresh" THEN 1 ELSE 0)
       /\ InTrying = {} => Ncounted + Ndoubtful <= faults
  /\ Ncounted <= faults + 1

CostInv == ShapeInv /\ CostOK

\* The sets counted are finite.
LEMMA Finite ==
  ASSUME TypeOK
  PROVE  IsFiniteSet(Counted) /\ IsFiniteSet(Doubtful) /\ Ncounted \in Nat /\ Ndoubtful \in Nat
<1>1. Counted \in SUBSET Clicks /\ Doubtful \in SUBSET Clicks
  BY DEF TypeOK, Counted, Doubtful, InTrying
<1> QED BY <1>1, ClicksAssumption, FS_Subset, FS_CardinalityType DEF Ncounted, Ndoubtful

\* One element more or less.
LEMMA OneElement ==
  ASSUME NEW S, IsFiniteSet(S), NEW x
  PROVE  /\ Cardinality(S) \in Nat
         /\ Cardinality(S \cup {x}) \in Nat /\ Cardinality(S \cup {x}) <= Cardinality(S) + 1
         /\ Cardinality(S \ {x}) \in Nat /\ Cardinality(S \ {x}) <= Cardinality(S)
         /\ x \in S => Cardinality(S \ {x}) = Cardinality(S) - 1
<1>1. IsFiniteSet(S \cup {x}) /\ IsFiniteSet(S \ {x})
  BY FS_AddElement, FS_RemoveElement
<1>2. /\ Cardinality(S) \in Nat
      /\ Cardinality(S \cup {x}) \in Nat
      /\ Cardinality(S \ {x}) \in Nat
  BY <1>1, FS_CardinalityType
<1>3. Cardinality(S \cup {x}) = IF x \in S THEN Cardinality(S) ELSE Cardinality(S) + 1
  BY FS_AddElement
<1>4. Cardinality(S \ {x}) = IF x \in S THEN Cardinality(S) - 1 ELSE Cardinality(S)
  BY FS_RemoveElement
<1> QED BY <1>2, <1>3, <1>4

\* It holds at first.
LEMMA CostInit == Init => CostOK
<1> SUFFICES ASSUME Init PROVE CostOK
  OBVIOUS
<1>1. Counted = {} /\ Doubtful = {}
  BY DEF Init, Counted, Doubtful, InTrying, Trying
<1> QED BY <1>1, FS_EmptySet DEF Init, CostOK, Ncounted, Ndoubtful

\* A step of a press changes what is counted by that press at most.
LEMMA CountedSteps ==
  ASSUME ShapeInv, NEW c \in Clicks
  PROVE  /\ Press(c) \/ Decide(c) \/ Replay(c) =>
              Counted' = Counted /\ Doubtful' = Doubtful /\ InTrying' = InTrying
         /\ CheckHead(c) => Counted' = Counted /\ Doubtful' = Doubtful /\ c \in InTrying'
         /\ TakeLease(c) =>
              Counted' = Counted \cup {c} /\ Doubtful' = Doubtful /\ c \in InTrying'
         /\ Post(c) =>
              /\ Counted' = Counted /\ c \in InTrying'
              /\ Doubtful' = Doubtful \/ (Doubtful' = Doubtful \cup {c} /\ faults' = faults + 1)
         /\ Mark(c) => Counted' = Counted
         /\ AutoMerge(c) => Counted' = Counted
         /\ DatabaseError(c) =>
              /\ c \in InTrying'
              /\ \/ Counted' = Counted \cup {c} /\ Doubtful' = Doubtful
                 \/ Counted' = Counted /\ Doubtful' = Doubtful \cup {c}
         /\ Release(c) =>
              /\ c \in Counted
              /\ \/ Counted' = Counted \ {c} /\ Doubtful' = Doubtful
                 \/ c \in Doubtful /\ Counted' = Counted /\ Doubtful' = Doubtful \ {c}
         /\ Crash(c) =>
              /\ Counted' = Counted \ {c} \/ Counted' = Counted
              /\ Doubtful' = Doubtful \ {c} \/ Doubtful' = Doubtful
<1> USE DEF ShapeInv, TypeOK, LandedOK, Counted, Doubtful, InTrying, Trying, Goto
<1>1. Press(c) \/ Decide(c) \/ Replay(c) =>
        Counted' = Counted /\ Doubtful' = Doubtful /\ InTrying' = InTrying
  BY DEF Press, Decide, Replay
<1>2. CheckHead(c) => Counted' = Counted /\ Doubtful' = Doubtful /\ c \in InTrying'
  BY DEF CheckHead
<1>3. TakeLease(c) =>
        Counted' = Counted \cup {c} /\ Doubtful' = Doubtful /\ c \in InTrying'
  BY DEF TakeLease
<1>4. Post(c) =>
        /\ Counted' = Counted /\ c \in InTrying'
        /\ Doubtful' = Doubtful \/ (Doubtful' = Doubtful \cup {c} /\ faults' = faults + 1)
  BY DEF Post, Fault
<1>5. Mark(c) => Counted' = Counted
  BY DEF Mark
<1>6. AutoMerge(c) => Counted' = Counted
  <2> SUFFICES ASSUME AutoMerge(c) PROVE Counted' = Counted
    OBVIOUS
  <2>1. c \in landed
    BY DEF AutoMerge
  <2> QED BY <2>1 DEF AutoMerge
<1>7. DatabaseError(c) =>
        /\ c \in InTrying'
        /\ \/ Counted' = Counted \cup {c} /\ Doubtful' = Doubtful
           \/ Counted' = Counted /\ Doubtful' = Doubtful \cup {c}
  BY DEF DatabaseError
<1>8. Release(c) =>
        /\ c \in Counted
        /\ \/ Counted' = Counted \ {c} /\ Doubtful' = Doubtful
           \/ c \in Doubtful /\ Counted' = Counted /\ Doubtful' = Doubtful \ {c}
  BY DEF Release
<1>9. Crash(c) =>
        /\ Counted' = Counted \ {c} \/ Counted' = Counted
        /\ Doubtful' = Doubtful \ {c} \/ Doubtful' = Doubtful
  BY DEF Crash
<1> QED BY <1>1, <1>2, <1>3, <1>4, <1>5, <1>6, <1>7, <1>8, <1>9

\* The same in numbers.
LEMMA NumberSteps ==
  ASSUME ShapeInv, NEW c \in Clicks
  PROVE  /\ ClickStep(c) => Ncounted' \in Int /\ Ndoubtful' \in Int
         /\ Press(c) \/ Decide(c) \/ Replay(c) \/ CheckHead(c) =>
              Ncounted' = Ncounted /\ Ndoubtful' = Ndoubtful
         /\ TakeLease(c) => Ncounted' <= Ncounted + 1 /\ Ndoubtful' = Ndoubtful
         /\ Post(c) =>
              /\ Ncounted' = Ncounted
              /\ Ndoubtful' = Ndoubtful \/ (Ndoubtful' <= Ndoubtful + 1 /\ faults' = faults + 1)
         /\ Mark(c) \/ AutoMerge(c) => Ncounted' = Ncounted
         /\ DatabaseError(c) =>
              \/ Ncounted' <= Ncounted + 1 /\ Ndoubtful' = Ndoubtful
              \/ Ncounted' = Ncounted /\ Ndoubtful' <= Ndoubtful + 1
         /\ Release(c) =>
              \/ Ncounted' = Ncounted - 1 /\ Ndoubtful' = Ndoubtful
              \/ Ncounted' = Ncounted /\ Ndoubtful' = Ndoubtful - 1
         /\ Crash(c) => Ncounted' <= Ncounted /\ Ndoubtful' <= Ndoubtful
<1>1. TypeOK /\ IsFiniteSet(Counted) /\ IsFiniteSet(Doubtful)
  BY Finite DEF ShapeInv
<1>2. /\ Ncounted \in Nat
      /\ Cardinality(Counted \cup {c}) \in Nat
      /\ Cardinality(Counted \cup {c}) <= Ncounted + 1
      /\ Cardinality(Counted \ {c}) \in Nat
      /\ Cardinality(Counted \ {c}) <= Ncounted
      /\ c \in Counted => Cardinality(Counted \ {c}) = Ncounted - 1
  BY <1>1, OneElement DEF Ncounted
<1>3. /\ Ndoubtful \in Nat
      /\ Cardinality(Doubtful \cup {c}) \in Nat
      /\ Cardinality(Doubtful \cup {c}) <= Ndoubtful + 1
      /\ Cardinality(Doubtful \ {c}) \in Nat
      /\ Cardinality(Doubtful \ {c}) <= Ndoubtful
      /\ c \in Doubtful => Cardinality(Doubtful \ {c}) = Ndoubtful - 1
  BY <1>1, OneElement DEF Ndoubtful
<1>4. Ncounted' = Cardinality(Counted') /\ Ndoubtful' = Cardinality(Doubtful')
  BY DEF Ncounted, Ndoubtful
<1>5. Ncounted = Cardinality(Counted) /\ Ndoubtful = Cardinality(Doubtful)
  BY DEF Ncounted, Ndoubtful
<1>6. ShapeInv /\ [Next]_vars => TypeOK'
  BY ShapeNext DEF ShapeInv
<1>7. ClickStep(c) => Ncounted' \in Int /\ Ndoubtful' \in Int
  <2> SUFFICES ASSUME ClickStep(c) PROVE Ncounted' \in Int /\ Ndoubtful' \in Int
    OBVIOUS
  <2>1. TypeOK'
    BY <1>6 DEF Next
  <2>2. Counted' \in SUBSET Clicks /\ Doubtful' \in SUBSET Clicks
    BY <2>1 DEF TypeOK, Counted, Doubtful, InTrying
  <2>3. Cardinality(Counted') \in Nat /\ Cardinality(Doubtful') \in Nat
    BY <2>2, ClicksAssumption, FS_Subset, FS_CardinalityType
  <2> QED BY <1>4, <2>3
<1> USE <1>2, <1>3, <1>4, <1>5
<1>8. Press(c) \/ Decide(c) \/ Replay(c) \/ CheckHead(c) =>
        Ncounted' = Ncounted /\ Ndoubtful' = Ndoubtful
  BY CountedSteps
<1>9. TakeLease(c) => Ncounted' <= Ncounted + 1 /\ Ndoubtful' = Ndoubtful
  BY CountedSteps
<1>10. Post(c) =>
         /\ Ncounted' = Ncounted
         /\ Ndoubtful' = Ndoubtful \/ (Ndoubtful' <= Ndoubtful + 1 /\ faults' = faults + 1)
  BY CountedSteps
<1>11. Mark(c) \/ AutoMerge(c) => Ncounted' = Ncounted
  BY CountedSteps
<1>12. DatabaseError(c) =>
         \/ Ncounted' <= Ncounted + 1 /\ Ndoubtful' = Ndoubtful
         \/ Ncounted' = Ncounted /\ Ndoubtful' <= Ndoubtful + 1
  BY CountedSteps
<1>13. Release(c) =>
         \/ Ncounted' = Ncounted - 1 /\ Ndoubtful' = Ndoubtful
         \/ Ncounted' = Ncounted /\ Ndoubtful' = Ndoubtful - 1
  BY CountedSteps
<1>14. Crash(c) => Ncounted' <= Ncounted /\ Ndoubtful' <= Ndoubtful
  <2> SUFFICES ASSUME Crash(c) PROVE Ncounted' <= Ncounted /\ Ndoubtful' <= Ndoubtful
    OBVIOUS
  <2>1. Counted' = Counted \ {c} \/ Counted' = Counted
    BY CountedSteps
  <2>2. Doubtful' = Doubtful \ {c} \/ Doubtful' = Doubtful
    BY CountedSteps
  <2>3. Ncounted' <= Ncounted
    <3>1. CASE Counted' = Counted \ {c}
      BY <3>1
    <3>2. CASE Counted' = Counted
      <4>1. Ncounted' = Ncounted
        BY <3>2
      <4> QED BY <4>1
    <3> QED BY <2>1, <3>1, <3>2
  <2>4. Ndoubtful' <= Ndoubtful
    <3>1. CASE Doubtful' = Doubtful \ {c}
      BY <3>1
    <3>2. CASE Doubtful' = Doubtful
      <4>1. Ndoubtful' = Ndoubtful
        BY <3>2
      <4> QED BY <4>1
    <3> QED BY <2>2, <3>1, <3>2
  <2> QED BY <2>3, <2>4
<1> QED BY <1>7, <1>8, <1>9, <1>10, <1>11, <1>12, <1>13, <1>14

\* The arithmetic of a lease that is taken.
LEMMA OneMore ==
  ASSUME NEW n \in Nat, NEW d \in Nat, NEW f \in Nat, NEW m \in Int, m <= n + 1, n + d <= f
  PROVE  m + d <= f + 1
OBVIOUS

\* Every step keeps the balance.
LEMMA CostNext == CostInv /\ [Next]_vars => CostOK'
<1> SUFFICES ASSUME CostInv, [Next]_vars PROVE CostOK'
  OBVIOUS
<1>0. /\ ShapeInv /\ CostOK /\ faults \in Nat /\ (state = "absent" => lease = "none")
      /\ Ncounted \in Nat /\ Ndoubtful \in Nat
  BY Finite DEF CostInv, ShapeInv, TypeOK, RowOK
<1> USE <1>0 DEF CostOK, ClickStep
<1>1. ASSUME NEW c \in Clicks, Press(c) \/ Decide(c) \/ Replay(c) PROVE CostOK'
  <2>1. InTrying' = InTrying
    BY <1>1, CountedSteps
  <2> QED BY <1>1, <2>1, NumberSteps DEF Press, Decide, Replay, rowVars
<1>2. ASSUME NEW c \in Clicks, CheckHead(c) PROVE CostOK'
  <2>1. InTrying' # {}
    BY <1>2, CountedSteps
  <2> QED BY <1>2, <2>1, NumberSteps DEF CheckHead, rowVars
<1>3. ASSUME NEW c \in Clicks, TakeLease(c) PROVE CostOK'
  <2>1. InTrying' # {}
    BY <1>3, CountedSteps
  <2>2. Ncounted + Ndoubtful <= faults
    BY <1>3 DEF TakeLease
  <2>3. Ncounted' \in Int /\ Ncounted' <= Ncounted + 1 /\ Ndoubtful' = Ndoubtful
    BY <1>3, NumberSteps
  <2>4. lease' = "fresh" /\ faults' = faults
    BY <1>3 DEF TakeLease
  <2>5. Ncounted' + Ndoubtful' <= faults + 1 /\ Ncounted' <= faults + 1
    <3> HIDE DEF CostOK, ClickStep
    <3>1. Ncounted' + Ndoubtful <= faults + 1
      BY <2>2, <2>3, OneMore
    <3>2. Ncounted' <= faults + 1
      BY <2>2, <2>3
    <3> QED BY <2>3, <3>1, <3>2
  <2> QED BY <2>1, <2>4, <2>5
<1>4. ASSUME NEW c \in Clicks, Post(c) PROVE CostOK'
  <2>1. InTrying' # {}
    BY <1>4, CountedSteps
  <2>2. faults' \in {faults, faults + 1} /\ UNCHANGED rowVars
    BY <1>4 DEF Post, Fault
  <2> QED BY <1>4, <2>1, <2>2, NumberSteps DEF rowVars
<1>5. ASSUME NEW c \in Clicks, Mark(c) PROVE CostOK'
  BY <1>5, NumberSteps DEF Mark
<1>6. ASSUME NEW c \in Clicks, AutoMerge(c) PROVE CostOK'
  <2>1. state = "posted"
    BY <1>6 DEF AutoMerge, ShapeInv, LandedOK
  <2> QED BY <1>6, <2>1, NumberSteps DEF AutoMerge, rowVars
<1>7. ASSUME NEW c \in Clicks, DatabaseError(c) PROVE CostOK'
  <2>1. InTrying' # {}
    BY <1>7, CountedSteps
  <2>2. faults' = faults + 1 /\ UNCHANGED rowVars
    BY <1>7 DEF DatabaseError, Fault
  <2> QED BY <1>7, <2>1, <2>2, NumberSteps DEF rowVars
<1>8. ASSUME NEW c \in Clicks, Release(c) PROVE CostOK'
  BY <1>8, NumberSteps DEF Release
<1>9. ASSUME NEW c \in Clicks, Crash(c) PROVE CostOK'
  <2>1. faults' = faults + 1 /\ UNCHANGED rowVars
    BY <1>9 DEF Crash, Fault
  <2> QED BY <1>9, <2>1, NumberSteps DEF rowVars
<1>10. ASSUME LeaseExpires PROVE CostOK'
  <2>1. Ncounted' = Ncounted /\ Ndoubtful' = Ndoubtful /\ InTrying' = InTrying
    BY <1>10 DEF LeaseExpires, clickVars, Ncounted, Ndoubtful, Counted, Doubtful, InTrying
  <2> QED BY <1>10, <2>1 DEF LeaseExpires, Fault
<1>11. ASSUME UNCHANGED vars PROVE CostOK'
  <2>1. Ncounted' = Ncounted /\ Ndoubtful' = Ndoubtful /\ InTrying' = InTrying
    BY <1>11 DEF vars, clickVars, Ncounted, Ndoubtful, Counted, Doubtful, InTrying
  <2> QED BY <1>11, <2>1 DEF vars, rowVars
<1> QED
  BY <1>1, <1>2, <1>3, <1>4, <1>5, <1>6, <1>7, <1>8, <1>9, <1>10, <1>11
  DEF Next

\* Presses alone never make a second review (claim_post_attempt).
THEOREM ReviewsCostFaultsHolds == Spec => []ReviewsCostFaults
<1>1. Init => CostInv
  BY ShapeInit, CostInit DEF CostInv
<1>2. CostInv /\ [Next]_vars => CostInv'
  BY ShapeNext, CostNext DEF CostInv
<1>3. CostInv => ReviewsCostFaults
  <2> SUFFICES ASSUME CostInv PROVE ReviewsCostFaults
    OBVIOUS
  <2>1. IsFiniteSet(Counted) /\ Ncounted \in Nat
    BY Finite DEF CostInv, ShapeInv
  <2>2. landed \in SUBSET Counted
    BY DEF Counted
  <2>3. Cardinality(landed) <= Ncounted /\ Cardinality(landed) \in Nat
    BY <2>1, <2>2, FS_Subset, FS_CardinalityType DEF Ncounted
  <2> QED BY <2>1, <2>3 DEF CostInv, CostOK, ReviewsCostFaults, ShapeInv, TypeOK
<1> QED BY <1>1, <1>2, <1>3, PTL DEF Spec
=============================================================================
