---------------------------- MODULE GateRunProofs ----------------------------
(***************************************************************************)
(* Theorems about one gate run, for any set of changed files: the score is *)
(* a score, gaps in the analysis only raise it, what acts or enters the    *)
(* averages misses only what the code lets pass, and a merge has consent.  *)
(***************************************************************************)
EXTENDS GateRun, TLAPS, FiniteSetTheorems, FiniteLemmas

-----------------------------------------------------------------------------
(* The score, for any findings in any number of files.                     *)

IssueKinds == {"cqErrors", "cqWarnings", "secErrors", "secWarnings"}
Findings == [Files -> [IssueKinds -> Nat]]
Counts(found, kind) == [f \in Files |-> found[f][kind]]

\* A finding per kind, as a record; the profiles of the model are such.
LEMMA ProfilesCount == [Files -> Profiles] \subseteq Findings
<1>1. ASSUME NEW p \in Profiles PROVE p \in [IssueKinds -> Nat]
  <2>1. p = [k \in IssueKinds |-> p[k]]
    BY DEF Profiles, NoIssues, IssueKinds
  <2>2. \A k \in IssueKinds : p[k] \in Nat
    BY DEF Profiles, NoIssues, IssueKinds
  <2> QED BY <2>1, <2>2
<1> QED BY <1>1 DEF Findings

\* The counts of calculate_score are sums over the files that were analysed.
LEMMA CountIsTotal ==
  ASSUME NEW found \in Findings, NEW kind \in IssueKinds, NEW in \in SUBSET Files
  PROVE  /\ Counts(found, kind) \in [Files -> Nat]
         /\ Count(found, in, kind) = Total(Counts(found, kind), in)
<1> DEFINE counts == Counts(found, kind)
           step(g) == [s \in SUBSET in |-> IF s = {} THEN 0
                                           ELSE found[Picked(s)][kind] + g[s \ {Picked(s)}]]
           counted == CHOOSE g : g = step(g)
<1>1. Count(found, in, kind) = counted[in]
  BY DEF Count, MapThenSumSet, MapThenFoldSet, Picked
<1>2. counts \in [Files -> Nat] /\ \A f \in Files : counts[f] = found[f][kind]
  BY DEF Counts, Findings
<1>3. \A s \in SUBSET in : s # {} => Picked(s) \in Files
  BY DEF Picked
<1> HIDE DEF counts
<1>4. ASSUME NEW g PROVE step(g) = SumStep(counts, in, g)
  <2>1. ASSUME NEW s \in SUBSET in, s # {} PROVE found[Picked(s)][kind] = counts[Picked(s)]
    BY <1>2, <1>3, <2>1
  <2> QED BY <2>1 DEF SumStep
<1>5. IsFiniteSet(in) /\ in \in SUBSET in
  BY FilesAssumption, FS_Subset
<1> DEFINE part == [f \in in |-> counts[f]]
<1>6. part \in [in -> Nat] /\ \A s \in SUBSET in : s # {} => part[Picked(s)] = counts[Picked(s)]
  BY <1>2 DEF Picked
<1> HIDE DEF part
<1>7. ASSUME NEW g PROVE SumStep(part, in, g) = SumStep(counts, in, g)
  BY <1>6 DEF SumStep
<1>8. PICK g \in [SUBSET in -> Nat] : g = SumStep(part, in, g)
  BY <1>5, <1>6, TableExists
<1>9. g = step(g) /\ g = SumStep(counts, in, g)
  BY <1>4, <1>7, <1>8
<1>10. counted = step(counted)
  BY <1>9
<1>11. SumTable(counts, in) = SumStep(counts, in, SumTable(counts, in))
  BY <1>9 DEF SumTable
<1> HIDE DEF counted, step
<1>12. counted = SumStep(counts, in, counted)
  BY <1>4, <1>10
<1>13. \A s \in SUBSET in : counted[s] = SumTable(counts, in)[s]
  <2> DEFINE table == SumTable(counts, in)
  <2>1. table = SumStep(counts, in, table)
    BY <1>11
  <2> HIDE DEF table
  <2>2. \A s \in SUBSET in : counted[s] = table[s]
    BY <1>5, <1>12, <2>1, TablesAgree
  <2> QED BY <2>2 DEF table
<1> QED BY <1>1, <1>2, <1>5, <1>13 DEF Total, counts

\* A count is a natural, and no more than what is in all the files.
LEMMA CountGrows ==
  ASSUME NEW found \in Findings, NEW kind \in IssueKinds, NEW in \in SUBSET Files
  PROVE  /\ Count(found, in, kind) \in Nat
         /\ Count(found, in, kind) <= Count(found, Files, kind)
<1> DEFINE counts == Counts(found, kind)
<1>1. counts \in [Files -> Nat] /\ Count(found, in, kind) = Total(counts, in)
      /\ Count(found, Files, kind) = Total(counts, Files)
  <2>1. Files \in SUBSET Files
    OBVIOUS
  <2> QED BY <2>1, CountIsTotal
<1> HIDE DEF counts
<1>2. Total(counts, in) <= Total(counts, Files)
  BY <1>1, FilesAssumption, TotalGrows
<1>3. Total(counts, in) \in Nat
  <2> DEFINE part == [f \in in |-> counts[f]]
  <2>1. /\ SumTable(counts, Files) \in [SUBSET Files -> Nat]
        /\ Total(counts, in) = SumTable(counts, Files)[in]
    BY <1>1, FilesAssumption, TableIsSound
  <2> QED BY <2>1
<1> QED BY <1>1, <1>2, <1>3

\* What issues leave of 25 and 20 points; more issues leave no more.
LEMMA PointsForIssues ==
  ASSUME NEW e \in Nat, NEW w \in Nat, NEW e2 \in Nat, NEW w2 \in Nat, e <= e2, w <= w2
  PROVE  /\ CodeQuality(e, w) \in 0..25 /\ CodeQuality(e2, w2) <= CodeQuality(e, w)
         /\ Security(e, w) \in 0..20 /\ Security(e2, w2) <= Security(e, w)
<1>1. AtMost(25, w) \in 0..25 /\ AtMost(25, w2) \in 0..25 /\ AtMost(25, w) <= AtMost(25, w2)
  BY DEF AtMost
<1>2. CodeQuality(e, w) \in 0..25 /\ CodeQuality(e2, w2) <= CodeQuality(e, w)
  <2> DEFINE m == 3 * e + AtMost(25, w)
             m2 == 3 * e2 + AtMost(25, w2)
  <2>1. m \in Nat /\ m2 \in Nat /\ m <= m2
    BY <1>1
  <2>2. 25 - 3 * e - AtMost(25, w) = 25 - m /\ 25 - 3 * e2 - AtMost(25, w2) = 25 - m2
    BY <1>1
  <2> HIDE DEF m, m2
  <2> QED BY <2>1, <2>2 DEF CodeQuality, AtLeastZero
<1>3. Security(e, w) \in 0..20 /\ Security(e2, w2) <= Security(e, w)
  <2> DEFINE m == 7 * e + 2 * w
             m2 == 7 * e2 + 2 * w2
  <2>1. m \in Nat /\ m2 \in Nat /\ m <= m2
    OBVIOUS
  <2>2. 20 - 7 * e - 2 * w = 20 - m /\ 20 - 7 * e2 - 2 * w2 = 20 - m2
    OBVIOUS
  <2> HIDE DEF m, m2
  <2> QED BY <2>1, <2>2 DEF Security, AtLeastZero
<1> QED BY <1>2, <1>3

\* Files that were not analysed cost no points.
LEMMA IssuesCost ==
  ASSUME NEW found \in Findings, NEW in \in SUBSET Files
  PROVE  /\ IssueScore(found, in) \in 0..45
         /\ IssueScore(found, Files) \in 0..45
         /\ IssueScore(found, Files) <= IssueScore(found, in)
<1> DEFINE c(T, kind) == Count(found, T, kind)
<1>0. IssueKinds = {"cqErrors", "cqWarnings", "secErrors", "secWarnings"} /\ Files \in SUBSET Files
  BY DEF IssueKinds
<1>1. \A kind \in IssueKinds : c(in, kind) \in Nat /\ c(Files, kind) \in Nat
                         /\ c(in, kind) <= c(Files, kind)
  BY <1>0, CountGrows
<1> HIDE DEF c
<1> DEFINE q(T) == CodeQuality(c(T, "cqErrors"), c(T, "cqWarnings"))
           s(T) == Security(c(T, "secErrors"), c(T, "secWarnings"))
<1>2. q(in) \in 0..25 /\ q(Files) <= q(in)
  BY <1>0, <1>1, PointsForIssues
<1>3. s(in) \in 0..20 /\ s(Files) <= s(in)
  BY <1>0, <1>1, PointsForIssues
<1>4. q(Files) \in 0..25 /\ s(Files) \in 0..20
  <2>1. \A kind \in IssueKinds : c(Files, kind) <= c(Files, kind)
    BY <1>1
  <2> QED BY <2>1, <1>0, <1>1, PointsForIssues
<1>5. IssueScore(found, in) = q(in) + s(in) /\ IssueScore(found, Files) = q(Files) + s(Files)
  BY DEF IssueScore, c
<1> HIDE DEF q, s
<1> QED BY <1>2, <1>3, <1>4, <1>5

ReviewOK(r) == r.status = "success" => r.raw \in RawScores

\* The review counts for 55 points at most.
LEMMA ReviewPoints ==
  ASSUME NEW r, ReviewOK(r)
  PROVE  AiScore(r) \in 0..55
<1>1. CASE r.status # "success"
  BY <1>1 DEF AiScore, AiDefaults
<1>2. CASE r.status = "success"
  <2>1. ASSUME NEW raw, NEW m \in Nat, NEW d PROVE Scaled(raw, m, d) \in 0..m \/ Rounded(raw * m, d) \notin Int
    BY DEF Scaled, AtLeastZero, AtMost
  <2>2. r.raw = <<20, 20, 10>> \/ r.raw = <<6, 6, 3>>
    BY <1>2 DEF ReviewOK, RawScores
  <2>3. ASSUME NEW n \in Nat, NEW d \in {10, 20} PROVE Rounded(n, d) \in Int
    BY DEF Rounded
  <2>4. /\ r.raw[1] \in Nat /\ r.raw[1] * 15 \in Nat
        /\ r.raw[2] \in Nat /\ r.raw[2] * 25 \in Nat
        /\ r.raw[3] \in Nat /\ r.raw[3] * 15 \in Nat
    BY <2>2
  <2>5. Scaled(r.raw[1], 15, 20) \in 0..15 /\ Scaled(r.raw[2], 25, 20) \in 0..25
        /\ Scaled(r.raw[3], 15, 10) \in 0..15
    <3>1. /\ Rounded(r.raw[1] * 15, 20) \in Int /\ Rounded(r.raw[2] * 25, 20) \in Int
          /\ Rounded(r.raw[3] * 15, 10) \in Int
      BY <2>3, <2>4
    <3> QED BY <2>1, <3>1
  <2> QED BY <1>2, <2>5 DEF AiScore
<1> QED BY <1>1, <1>2

\* The score is a score, and a file that was not analysed never lowers it.
LEMMA ScoreOfFewerFiles ==
  ASSUME NEW found \in Findings, NEW in \in SUBSET Files, NEW r, ReviewOK(r)
  PROVE  /\ CalculateScore(found, in, r) \in 0..100
         /\ CalculateScore(found, Files, r) <= CalculateScore(found, in, r)
<1> DEFINE x == IssueScore(found, in)
           y == IssueScore(found, Files)
           a == AiScore(r)
<1>1. x \in 0..45 /\ y \in 0..45 /\ y <= x
  BY IssuesCost
<1>2. a \in 0..55
  BY ReviewPoints
<1>3. CalculateScore(found, in, r) = AtMost(100, x + a) /\ CalculateScore(found, Files, r) = AtMost(100, y + a)
  BY DEF CalculateScore
<1> HIDE DEF x, y, a
<1> QED BY <1>1, <1>2, <1>3 DEF AtMost

-----------------------------------------------------------------------------
(* The invariant.                                                          *)

WorkTypes ==
  /\ left \subseteq Files /\ busy \in Files \cup {NoFile}
  /\ outcome \in [Files -> Outcomes] /\ seen \subseteq Files
  /\ incomplete \in BOOLEAN

Judged == stage \in {"verdict", "over"}

\* Nothing is done before the verdict, and no file is in the tools outside the
\* static analysis.
NothingEarly ==
  /\ ~Judged => approving = "idle" /\ merging = "idle" /\ acts = {} /\ saved = Unsaved
  /\ stage # "static" => busy = NoFile
  /\ stage = "none" => review = NoReview

\* A file without an outcome is left, or the analysis is marked incomplete; one
\* that was analysed in order has no issue that was missed.
FilesAccounted ==
  \A f \in Files :
    /\ outcome[f] = "none" => f \in left \/ incomplete
    /\ outcome[f] = "analyzed" => f \in seen

\* A review that is neither failed nor cut is the one the diff deserves, or the
\* hook's, whose result is incomplete.
ReviewIsTrue ==
  /\ review.status \in Statuses
  /\ review.status = "success" /\ ~review.truncated
       => review = Deserved \/ (Judged /\ incomplete)

\* The verdict was reached when all was over, and says what became of it.
VerdictIsTrue ==
  Judged =>
    /\ ~incomplete => left = {} /\ ~LeavesGaps
    /\ review.status # "none"
    /\ saved.score = Score
    /\ ~saved.unreliable => \E source \in {"pr", "cli"} : ~Unreliable(source)

\* A merge goes on, and anything is done, only with all three marks clear.
VouchedFor == acts # {} \/ merging \in {"paths", "verify", "merge"} => Vouched

\* What the merge has been told so far.
ConsentSoFar ==
  /\ "merge" \in acts => merging = "over"
  /\ merging \in {"verify", "merge"} \/ "merge" \in acts => (touches => "switched_off" \in consent)
  /\ merging = "merge" \/ "merge" \in acts => consent \cap {"not_asked", "safe"} # {}

GateRunInv ==
  /\ WorkTypes /\ NothingEarly /\ FilesAccounted /\ ReviewIsTrue /\ VerdictIsTrue
  /\ VouchedFor /\ ConsentSoFar

\* It holds at first.
LEMMA GateRunInvInit == GateRunInit => GateRunInv
<1> SUFFICES ASSUME GateRunInit PROVE GateRunInv
  OBVIOUS
<1> USE DEF GateRunInit, Judged
<1>1. WorkTypes BY DEF WorkTypes, Outcomes
<1>2. NothingEarly BY DEF NothingEarly
<1>3. FilesAccounted BY DEF FilesAccounted
<1>4. ReviewIsTrue BY DEF ReviewIsTrue, NoReview, Statuses
<1>5. VerdictIsTrue /\ VouchedFor /\ ConsentSoFar
  BY DEF VerdictIsTrue, VouchedFor, ConsentSoFar
<1> QED BY <1>1, <1>2, <1>3, <1>4, <1>5 DEF GateRunInv

\* As long as there is no verdict, the gate has nothing to keep.
LEMMA AnalysisGoesOn ==
  ASSUME GateRunInv, UNCHANGED <<saved, gates>>, ~Judged, ~Judged',
         WorkTypes', FilesAccounted', ReviewIsTrue',
         stage' # "static" => busy' = NoFile, stage' = "none" => review' = NoReview
  PROVE  GateRunInv'
BY DEF GateRunInv, NothingEarly, VerdictIsTrue, VouchedFor, ConsentSoFar, gates

\* The analysis keeps the invariant.
LEMMA AnalysisKeeps ==
  ASSUME GateRunInv, StartAnalysis \/ StartFile \/ FinishFile \/ Deadline \/ ReviewCode
  PROVE  GateRunInv'
<1>0. WorkTypes /\ NothingEarly /\ FilesAccounted /\ ReviewIsTrue
  BY DEF GateRunInv
<1>1. CASE StartAnalysis
  <2>1. WorkTypes' /\ FilesAccounted' /\ ReviewIsTrue'
    BY <1>0, <1>1
    DEF StartAnalysis, WorkTypes, NothingEarly, FilesAccounted, ReviewIsTrue, work, NoReview, Judged
  <2> QED BY <1>0, <1>1, <2>1, AnalysisGoesOn DEF StartAnalysis, Judged
<1>2. CASE StartFile
  <2>1. WorkTypes' /\ FilesAccounted' /\ ReviewIsTrue'
    BY <1>0, <1>2 DEF StartFile, WorkTypes, FilesAccounted, ReviewIsTrue, Deserved, Judged, truth
  <2> QED BY <1>0, <1>2, <2>1, AnalysisGoesOn DEF StartFile, Judged
<1>3. CASE FinishFile
  <2>1. busy \in Files /\ stage = "static"
    BY <1>0, <1>3 DEF FinishFile, WorkTypes, NothingEarly
  <2>2. PICK o \in Outcomes \ {"none"} :
          /\ outcome' = [outcome EXCEPT ![busy] = o]
          /\ seen' = seen \cup {busy} \/ (seen' = seen /\ o # "analyzed")
    BY <1>3 DEF FinishFile
  <2>3. WorkTypes' /\ FilesAccounted'
    BY <1>0, <1>3, <2>1, <2>2 DEF FinishFile, WorkTypes, FilesAccounted
  <2>4. ReviewIsTrue'
    BY <1>0, <1>3 DEF FinishFile, ReviewIsTrue, Deserved, Judged, truth
  <2> QED BY <1>3, <2>1, <2>3, <2>4, AnalysisGoesOn DEF FinishFile, Judged
<1>4. CASE Deadline
  <2>1. WorkTypes' /\ FilesAccounted' /\ ReviewIsTrue'
    BY <1>0, <1>4 DEF Deadline, WorkTypes, FilesAccounted, ReviewIsTrue, Deserved, Judged, truth
  <2> QED BY <1>4, <2>1, AnalysisGoesOn DEF Deadline, Judged
<1>5. CASE ReviewCode
  <2>1. WorkTypes' /\ FilesAccounted'
    BY <1>0, <1>5 DEF ReviewCode, WorkTypes, FilesAccounted, work
  <2>2. ReviewIsTrue'
    <3>1. PICK s \in Statuses \ {"none"} :
            review' \in IF s # "success" THEN {[NoReview EXCEPT !.status = s]}
                        ELSE {[status |-> s, raw |-> deserved, truncated |-> FALSE]}
                             \cup [status : {s}, raw : RawScores, truncated : {TRUE}]
      BY <1>5 DEF ReviewCode
    <3>2. CASE s # "success"
      BY <3>1, <3>2 DEF ReviewIsTrue, NoReview
    <3>3. CASE s = "success"
      <4>1. CASE review' = [status |-> s, raw |-> deserved, truncated |-> FALSE]
        BY <1>5, <3>3, <4>1 DEF ReviewIsTrue, ReviewCode, Deserved, Statuses, truth
      <4>2. CASE review' \in [status : {s}, raw : RawScores, truncated : {TRUE}]
        BY <3>3, <4>2 DEF ReviewIsTrue
      <4> QED BY <3>1, <3>3, <4>1, <4>2
    <3> QED BY <3>2, <3>3
  <2> QED BY <1>5, <2>1, <2>2, AnalysisGoesOn DEF ReviewCode, Judged
<1> QED BY <1>1, <1>2, <1>3, <1>4, <1>5

\* The verdict keeps it.
LEMMA VerdictKeeps ==
  ASSUME GateRunInv, SaveVerdict
  PROVE  GateRunInv'
<1>0. WorkTypes /\ NothingEarly /\ FilesAccounted /\ ReviewIsTrue
  BY DEF GateRunInv
<1>1. WorkTypes' /\ FilesAccounted'
  <2>1. incomplete' = (incomplete \/ LeavesGaps)
    BY DEF SaveVerdict
  <2>2. incomplete' \in BOOLEAN
    BY <2>1 DEF LeavesGaps
  <2>3. UNCHANGED <<left, busy, outcome, seen>>
    BY DEF SaveVerdict, work
  <2> QED BY <1>0, <2>1, <2>2, <2>3 DEF WorkTypes, FilesAccounted
<1>2. ReviewIsTrue'
  BY <1>0 DEF SaveVerdict, ReviewIsTrue, Deserved, Judged, truth
<1>3. NothingEarly' /\ VouchedFor' /\ ConsentSoFar'
  BY <1>0 DEF SaveVerdict, NothingEarly, VouchedFor, ConsentSoFar, Judged, work
<1>4. VerdictIsTrue'
  <2>1. ~incomplete' => left' = {} /\ ~LeavesGaps'
    BY DEF SaveVerdict, LeavesGaps, Was, work
  <2>2. review'.status # "none"
    BY DEF SaveVerdict
  <2>3. saved' = Verdict("pr")'
    BY DEF SaveVerdict
  <2>4. saved'.score = Score' /\ saved'.unreliable = Unreliable("pr")'
    BY <2>3 DEF Verdict
  <2> QED BY <2>1, <2>2, <2>4 DEF VerdictIsTrue
<1> QED BY <1>1, <1>2, <1>3, <1>4 DEF GateRunInv

\* The result of the hook keeps it.
LEMMA HookKeeps ==
  ASSUME GateRunInv, SaveHookResult
  PROVE  GateRunInv'
<1>0. WorkTypes /\ NothingEarly /\ FilesAccounted
  BY DEF GateRunInv
<1>1. /\ stage = "none" /\ stage' = "over" /\ incomplete' = TRUE
      /\ UNCHANGED <<left, busy, outcome, seen>> /\ UNCHANGED gates
      /\ review'.status \in {"success", "parse_error"}
  BY DEF SaveHookResult, work, NoReview
<1>2. WorkTypes' /\ FilesAccounted'
  BY <1>0, <1>1 DEF WorkTypes, FilesAccounted
<1>3. NothingEarly' /\ VouchedFor' /\ ConsentSoFar'
  BY <1>0, <1>1 DEF NothingEarly, VouchedFor, ConsentSoFar, Judged, gates
<1>4. ReviewIsTrue'
  BY <1>1 DEF ReviewIsTrue, Statuses, Failed, Judged
<1>5. VerdictIsTrue'
  <2>1. saved' = Verdict("cli")'
    BY DEF SaveHookResult
  <2>2. saved'.score = Score' /\ saved'.unreliable = Unreliable("cli")'
    BY <2>1 DEF Verdict
  <2> QED BY <1>1, <2>2 DEF VerdictIsTrue
<1> QED BY <1>2, <1>3, <1>4, <1>5 DEF GateRunInv

\* The gate changes nothing of what the verdict is about.
LEMMA GateGoesOn ==
  ASSUME GateRunInv, Judged, Judged', UNCHANGED <<truth, work, incomplete, review, saved>>,
         VouchedFor', ConsentSoFar'
  PROVE  GateRunInv'
BY DEF GateRunInv, WorkTypes, NothingEarly, FilesAccounted, ReviewIsTrue, VerdictIsTrue, Judged,
       Deserved, LeavesGaps, Was, Score, Unreliable, ReviewFailed, DefaultsApplied, truth, work

\* The two gate actions keep it.
LEMMA GateKeeps ==
  ASSUME GateRunInv, GateActions
  PROVE  GateRunInv'
<1>0. NothingEarly /\ VouchedFor /\ ConsentSoFar
  BY DEF GateRunInv
<1> USE DEF VouchedFor, ConsentSoFar, Vouched, ReviewFailed, Judged, NothingEarly, truth, Act
<1>1. CASE AutoApprove \/ AskForApproval \/ ApproveDisabled
  <2>1. UNCHANGED <<stage, truth, work, incomplete, review, saved, merging, touches, consent>>
        /\ Judged
    BY <1>0, <1>1 DEF AutoApprove, AskForApproval, ApproveDisabled
  <2>2. /\ acts' = acts \/ Vouched
        /\ "merge" \in acts' => "merge" \in acts
    BY <1>1 DEF AutoApprove, AskForApproval, ApproveDisabled
  <2> QED BY <1>0, <2>1, <2>2, GateGoesOn
<1>2. CASE StartMerge
  BY <1>0, <1>2, GateGoesOn DEF StartMerge
<1>3. CASE CheckPaths
  <2>1. PICK answer \in {"switched_off", "unlistable", IF touches' THEN "sensitive" ELSE "harmless"} :
          \/ merging' = "over"
          \/ ~Held(answer) /\ merging' = "verify" /\ consent' = consent \cup {answer}
    BY <1>3 DEF CheckPaths
  <2>2. merging = "paths" /\ UNCHANGED <<stage, truth, work, incomplete, review, saved, acts>>
    BY <1>3 DEF CheckPaths
  <2>3. ConsentSoFar'
    BY <1>0, <2>1, <2>2 DEF Held
  <2> QED BY <1>0, <2>1, <2>2, <2>3, GateGoesOn
<1>4. CASE Verify
  <2>1. PICK answer \in {"not_asked", "safe", "unsafe", "manipulated", "too_large", "error"} :
          \/ merging' = "over"
          \/ ~Blocks(answer) /\ merging' = "merge" /\ consent' = consent \cup {answer}
    BY <1>4 DEF Verify
  <2>2. merging = "verify" /\ UNCHANGED <<stage, truth, work, incomplete, review, saved, acts, touches>>
    BY <1>4 DEF Verify
  <2>3. ConsentSoFar'
    BY <1>0, <2>1, <2>2 DEF Blocks
  <2> QED BY <1>0, <2>1, <2>2, <2>3, GateGoesOn
<1>5. CASE HandOver
  BY <1>0, <1>5, GateGoesOn DEF HandOver
<1>6. CASE GateEnds
  BY <1>0, <1>6, GateGoesOn DEF GateEnds, gates
<1> QED BY <1>1, <1>2, <1>3, <1>4, <1>5, <1>6 DEF GateActions

\* Every step keeps it.
LEMMA GateRunInvNext == GateRunInv /\ [GateRunNext]_gateRunVars => GateRunInv'
<1> SUFFICES ASSUME GateRunInv, [GateRunNext]_gateRunVars PROVE GateRunInv'
  OBVIOUS
<1>1. CASE UNCHANGED gateRunVars
  BY <1>1
  DEF gateRunVars, gates, truth, work, GateRunInv, WorkTypes, NothingEarly, FilesAccounted, ReviewIsTrue,
      VerdictIsTrue, VouchedFor, ConsentSoFar, Judged, Deserved, LeavesGaps, Was, Score,
      Unreliable, ReviewFailed, DefaultsApplied, Vouched
<1> QED
  BY <1>1, AnalysisKeeps, VerdictKeeps, HookKeeps, GateKeeps DEF GateRunNext, GateLoop

\* It holds always.
LEMMA GateRunInvHolds == GateRunSpec => []GateRunInv
BY GateRunInvInit, GateRunInvNext, PTL DEF GateRunSpec

\* Without a mark that blocks, what was missed is among the gaps that are let pass.
LEMMA MissedIsLetPass ==
  ASSUME GateRunInv, Judged, ~incomplete
  PROVE  seen = Files \ (Overlooked \cup Recorded)
<1>1. WorkTypes /\ FilesAccounted /\ left = {} /\ ~LeavesGaps
  BY DEF GateRunInv, VerdictIsTrue
<1>2. Was("raised") # Files
  BY <1>1 DEF LeavesGaps
<1>3. ASSUME NEW f \in Files \ seen PROVE f \in Overlooked \cup Recorded
  <2>1. outcome[f] \in Outcomes /\ outcome[f] \notin {"none", "analyzed"}
    BY <1>1, <1>3 DEF WorkTypes, FilesAccounted
  <2>2. outcome[f] \notin {"cut_short", "not_fetched"}
    BY <1>1, <1>3 DEF LeavesGaps, Was
  <2>3. outcome[f] \in {"raised", "uncovered", "generic_only", "unnoticed"}
    BY <2>1, <2>2 DEF Outcomes
  <2> QED BY <1>2, <1>3, <2>3 DEF Overlooked, Recorded
<1>4. seen \subseteq Files /\ Overlooked \cup Recorded \subseteq Files \ seen
  BY <1>1 DEF WorkTypes, Overlooked, Recorded
<1> QED BY <1>3, <1>4

\* A review that was had in whole is the deserved one, unless a mark blocks.
LEMMA WholeReviewIsDeserved ==
  ASSUME GateRunInv, ~incomplete, ~review.truncated, review.status = "success"
  PROVE  review = Deserved
BY DEF GateRunInv, ReviewIsTrue

\* What the gate acts on.
LEMMA ActsMissOnlyTolerated == GateRunInv => OnlyToleratedGapsAct
<1> SUFFICES ASSUME GateRunInv, acts # {}
             PROVE  saved.score = CalculateScore(actual, Files \ (Overlooked \cup Recorded),
                                    IF review.status \in NotAsked THEN NoReview ELSE Deserved)
  BY DEF OnlyToleratedGapsAct
<1>1. Judged /\ ~incomplete /\ ~review.truncated /\ ~ReviewFailed
  BY DEF GateRunInv, VouchedFor, Vouched, NothingEarly
<1>2. saved.score = CalculateScore(actual, Files \ (Overlooked \cup Recorded), review)
  BY <1>1, MissedIsLetPass DEF GateRunInv, VerdictIsTrue, Score
<1>3. CASE review.status \in NotAsked
  <2>1. AiScore(review) = AiScore(NoReview)
    BY <1>3 DEF AiScore, NoReview, NotAsked
  <2> QED BY <1>2, <1>3, <2>1 DEF CalculateScore
<1>4. CASE review.status \notin NotAsked
  <2>1. review.status = "success"
    BY <1>1, <1>4 DEF GateRunInv, VerdictIsTrue, ReviewIsTrue, Statuses, ReviewFailed
  <2> QED BY <1>1, <1>2, <1>4, <2>1, WholeReviewIsDeserved
<1> QED BY <1>3, <1>4

\* What the averages take.
LEMMA AveragesMissOnlyUnnoticed == GateRunInv /\ Averaged => OnlyUnnoticedGapsAverage
<1> SUFFICES ASSUME GateRunInv, Averaged
             PROVE  /\ review.status = "success"
                    /\ saved.score = CalculateScore(actual, Files \ Overlooked,
                                                    IF review.truncated THEN review ELSE Deserved)
  BY DEF OnlyUnnoticedGapsAverage
<1>1. Judged
  BY DEF GateRunInv, NothingEarly, Averaged
<1>2. PICK source \in {"pr", "cli"} : ~Unreliable(source)
  BY <1>1 DEF GateRunInv, VerdictIsTrue, Averaged
<1>3. /\ ~incomplete /\ review.status = "success"
      /\ Was("uncovered") = {} /\ Was("generic_only") = {}
  BY <1>2 DEF Unreliable, DefaultsApplied
<1>4. Recorded = {}
  BY <1>3 DEF Recorded, Was
<1>5. saved.score = CalculateScore(actual, Files \ Overlooked, review)
  BY <1>1, <1>3, <1>4, MissedIsLetPass DEF GateRunInv, VerdictIsTrue, Score
<1> QED BY <1>3, <1>5, WholeReviewIsDeserved

\* What the invariant says of the scores and of the consent.
LEMMA GateRunInvMeans ==
  GateRunInv => OnlyToleratedGapsAct /\ OnlyUnnoticedGapsAverage /\ MergeHasConsent
<1>1. GateRunInv => MergeHasConsent
  BY DEF GateRunInv, ConsentSoFar, MergeHasConsent
<1>2. ~Averaged => OnlyUnnoticedGapsAverage
  BY DEF OnlyUnnoticedGapsAverage
<1> QED BY <1>1, <1>2, ActsMissOnlyTolerated, AveragesMissOnlyUnnoticed

\* Whatever approves, rejects, shows buttons or merges misses no issue but those
\* of the gaps that the code records without blocking or does not notice, and
\* rests on no review but the deserved one or none asked for: for any number of
\* files and whatever the tools and the reviewer did.
THEOREM OnlyToleratedGapsActHolds == GateRunSpec => []OnlyToleratedGapsAct
BY GateRunInvMeans, GateRunInvHolds, PTL

\* A score that enters the averages comes from a review that was had and misses
\* no issue but those of gaps without a mark; nothing recorded as uncovered or
\* seen by the generic analyser only, and nothing of the hook, is among them.
THEOREM OnlyUnnoticedGapsAverageHolds == GateRunSpec => []OnlyUnnoticedGapsAverage
BY GateRunInvMeans, GateRunInvHolds, PTL

\* No merge of sensitive paths with the guard on, and none that nobody vouched
\* for (sensitive_paths_block_merge, verifier_blocks_merge).
THEOREM MergeHasConsentHolds == GateRunSpec => []MergeHasConsent
BY GateRunInvMeans, GateRunInvHolds, PTL

-----------------------------------------------------------------------------
(* Types, and what the gaps do to the score.                               *)

GateTypes == GateRunTypeOK /\ ReviewOK(review)

\* The deserved review and any review of a part are reviews.
LEMMA ReviewTypes ==
  ASSUME GateTypes, ReviewCode
  PROVE  /\ review'.status \in Statuses \ {"none"} /\ review'.truncated \in BOOLEAN
         /\ ReviewOK(review')
<1>1. PICK s \in Statuses \ {"none"} :
        review' \in IF s # "success" THEN {[NoReview EXCEPT !.status = s]}
                    ELSE {[status |-> s, raw |-> deserved, truncated |-> FALSE]}
                         \cup [status : {s}, raw : RawScores, truncated : {TRUE}]
  BY DEF ReviewCode
<1>2. CASE s # "success"
  BY <1>1, <1>2 DEF NoReview, ReviewOK
<1>3. CASE s = "success"
  <2>1. deserved \in RawScores
    BY DEF GateTypes, GateRunTypeOK
  <2>2. /\ review'.status = "success" /\ review'.raw \in RawScores
        /\ review'.truncated \in BOOLEAN
    <3>1. CASE review' = [status |-> s, raw |-> deserved, truncated |-> FALSE]
      BY <1>3, <2>1, <3>1
    <3>2. CASE review' \in [status : {s}, raw : RawScores, truncated : {TRUE}]
      BY <1>3, <3>2
    <3> QED BY <1>1, <1>3, <3>1, <3>2
  <2> QED BY <2>2 DEF Statuses, ReviewOK
<1> QED BY <1>2, <1>3

\* The score that is saved is one, whatever was analysed.
LEMMA ScoreIsAScore ==
  ASSUME GateTypes
  PROVE  Score \in 0..100 /\ CalculateScore(actual, Files, review) <= Score
<1>1. actual \in Findings /\ seen \in SUBSET Files /\ ReviewOK(review)
  BY ProfilesCount DEF GateTypes, GateRunTypeOK
<1> QED BY <1>1, ScoreOfFewerFiles DEF Score

\* Every step keeps the types.
LEMMA GateTypesNext == GateTypes /\ [GateRunNext]_gateRunVars => GateTypes'
<1> SUFFICES ASSUME GateTypes, [GateRunNext]_gateRunVars PROVE GateTypes'
  OBVIOUS
<1>0. GateRunTypeOK /\ ReviewOK(review)
  BY DEF GateTypes
<1> USE DEF GateTypes, GateRunTypeOK
<1>1. CASE StartAnalysis
  BY <1>0, <1>1 DEF StartAnalysis, work, gates, ReviewOK
<1>2. CASE StartFile
  BY <1>0, <1>2 DEF StartFile, truth, gates, ReviewOK
<1>3. CASE FinishFile
  <2>1. PICK o \in Outcomes :
          outcome' = [outcome EXCEPT ![busy] = o] /\ seen' \in {seen, seen \cup {busy}}
    BY <1>3 DEF FinishFile
  <2> QED BY <1>0, <1>3, <2>1 DEF FinishFile, truth, gates, ReviewOK
<1>4. CASE Deadline
  BY <1>0, <1>4 DEF Deadline, truth, gates, ReviewOK
<1>5. CASE ReviewCode
  <2>1. review'.status \in Statuses /\ review'.truncated \in BOOLEAN /\ ReviewOK(review')
    BY <1>5, ReviewTypes
  <2> QED BY <1>0, <1>5, <2>1 DEF ReviewCode, truth, work, gates
<1>6. CASE SaveVerdict
  <2>1. saved'.score = Score' /\ Score' = Score /\ incomplete' = (incomplete \/ LeavesGaps)
    BY <1>6 DEF SaveVerdict, Verdict, Score, truth, work
  <2>2. Score \in 0..100
    BY ScoreIsAScore
  <2>3. incomplete' \in BOOLEAN /\ saved'.score \in -1..100
    BY <2>1, <2>2 DEF LeavesGaps
  <2> QED BY <1>0, <1>6, <2>3 DEF SaveVerdict, truth, work, ReviewOK
<1>7. CASE GateActions
  <2>1. UNCHANGED <<truth, work, incomplete, review, saved>> /\ stage' \in {stage, "over"}
    BY <1>7
    DEF GateActions, AutoApprove, AskForApproval, ApproveDisabled, StartMerge, CheckPaths, Verify,
        HandOver, GateEnds
  <2>2. /\ approving' \in {approving, "over"}
        /\ merging' \in {merging, "paths", "verify", "merge", "over"}
    BY <1>7
    DEF GateActions, AutoApprove, AskForApproval, ApproveDisabled, StartMerge, CheckPaths, Verify,
        HandOver, GateEnds, gates
  <2>3. acts' \subseteq acts \cup {"approve", "reject", "skip", "buttons", "merge"}
    BY <1>7
    DEF GateActions, AutoApprove, AskForApproval, ApproveDisabled, StartMerge, CheckPaths, Verify,
        HandOver, GateEnds, gates, Act
  <2>4. touches' = touches \/ touches' \in BOOLEAN
    BY <1>7
    DEF GateActions, AutoApprove, AskForApproval, ApproveDisabled, StartMerge, CheckPaths, Verify,
        HandOver, GateEnds, gates
  <2> QED BY <1>0, <2>1, <2>2, <2>3, <2>4 DEF truth, work, ReviewOK
<1>8. CASE UNCHANGED gateRunVars
  BY <1>0, <1>8 DEF gateRunVars, truth, work, gates, ReviewOK
<1>9. CASE SaveHookResult
  <2>1. /\ actual' \in [Files -> Profiles] /\ deserved' \in RawScores
        /\ stage' = "over" /\ incomplete' = TRUE /\ UNCHANGED <<work, gates>>
        /\ review' \in {[status |-> "success", raw |-> raw, truncated |-> FALSE] : raw \in RawScores}
                       \cup {[NoReview EXCEPT !.status = "parse_error"]}
        /\ saved'.score = Score'
    BY <1>9 DEF SaveHookResult, Verdict
  <2>2. ReviewOK(review') /\ review'.status \in Statuses /\ review'.truncated \in BOOLEAN
    <3>1. ASSUME NEW raw \in RawScores,
                 review' = [status |-> "success", raw |-> raw, truncated |-> FALSE]
          PROVE  ReviewOK(review') /\ review'.status \in Statuses /\ review'.truncated \in BOOLEAN
      BY <3>1 DEF ReviewOK, Statuses
    <3>2. ASSUME review' = [NoReview EXCEPT !.status = "parse_error"]
          PROVE  ReviewOK(review') /\ review'.status \in Statuses /\ review'.truncated \in BOOLEAN
      BY <3>2 DEF NoReview, ReviewOK, Statuses, Failed
    <3> QED BY <2>1, <3>1, <3>2
  <2>3. Score' \in 0..100
    <3>1. actual' \in Findings /\ seen' \in SUBSET Files
      BY <1>0, <2>1, ProfilesCount DEF work
    <3>2. Score' = CalculateScore(actual', seen', review')
      BY DEF Score
    <3> QED BY <2>2, <3>1, <3>2, ScoreOfFewerFiles
  <2> QED BY <1>0, <2>1, <2>2, <2>3 DEF work, gates
<1> QED
  BY <1>1, <1>2, <1>3, <1>4, <1>5, <1>6, <1>7, <1>8, <1>9 DEF GateRunNext, GateLoop

\* They hold at first.
LEMMA GateTypesInit == GateRunInit => GateTypes
<1> SUFFICES ASSUME GateRunInit PROVE GateTypes
  OBVIOUS
<1>1. actual \in [Files -> Profiles]
  <2>1. \E p : p \in Profiles
    BY DEF Profiles
  <2>2. (CHOOSE p \in Profiles : TRUE) \in Profiles
    BY <2>1
  <2> QED BY <2>2 DEF GateRunInit
<1>2. deserved \in RawScores
  <2>1. \E r : r \in RawScores
    BY DEF RawScores
  <2> QED BY <2>1 DEF GateRunInit
<1>3. review.status \in Statuses /\ review.truncated \in BOOLEAN /\ ReviewOK(review)
  BY DEF GateRunInit, NoReview, Statuses, ReviewOK
<1>4. saved.score \in -1..100
  BY DEF GateRunInit, Unsaved
<1>5. outcome \in [Files -> Outcomes] /\ left \subseteq Files /\ busy \in Files \cup {NoFile}
  BY DEF GateRunInit, Outcomes
<1> QED
  BY <1>1, <1>2, <1>3, <1>4, <1>5 DEF GateRunInit, GateTypes, GateRunTypeOK

\* They hold always.
LEMMA GateTypesHold == GateRunSpec => []GateTypes
BY GateTypesInit, GateTypesNext, PTL DEF GateRunSpec

\* The analysis, its verdict and the gate keep their types; what is saved is a
\* score of 0..100, the sum calculate_score makes for any number of files.
THEOREM GateRunTypeCorrect == GateRunSpec => []GateRunTypeOK
<1>1. GateTypes => GateRunTypeOK
  BY DEF GateTypes
<1> QED BY <1>1, GateTypesHold, PTL

\* The score that is saved is never below the one all files would have given
\* with the same review: the direction in which an incomplete analysis errs,
\* and why run_gate_check must not act on one (StaticAnalysisIncomplete).
GapsOnlyRaise == Judged => CalculateScore(actual, Files, review) <= saved.score

\* For any number of files, and whichever of them the tools left out.
THEOREM GapsOnlyRaiseHolds == GateRunSpec => []GapsOnlyRaise
<1>1. GateRunInv /\ GateTypes => GapsOnlyRaise
  BY ScoreIsAScore DEF GateRunInv, VerdictIsTrue, GapsOnlyRaise
<1> QED BY <1>1, GateRunInvHolds, GateTypesHold, PTL

-----------------------------------------------------------------------------
(* Termination: what is left of a run.                                     *)

StageRank == [none |-> 3, static |-> 2, verdict |-> 1, over |-> 0]
ApproveRank == [idle |-> 2, start |-> 1, over |-> 0]
MergeRank == [idle |-> 5, start |-> 4, paths |-> 3, verify |-> 2, merge |-> 1, over |-> 0]
ToReview == IF review.status = "none" THEN 1 ELSE 0
ToAnalyze == 2 * Cardinality(left) + (IF busy = NoFile THEN 1 ELSE 0)
Remaining == StageRank[stage] + ApproveRank[approving] + MergeRank[merging] + ToReview + ToAnalyze

\* A file in the tools is one of those that are left.
BusyIsLeft == busy # NoFile => busy \in left

\* Every step keeps it.
LEMMA BusyIsLeftNext ==
  ASSUME BusyIsLeft, [GateRunNext]_gateRunVars
  PROVE  BusyIsLeft'
<1>1. CASE StartFile \/ FinishFile \/ Deadline
  BY <1>1 DEF BusyIsLeft, StartFile, FinishFile, Deadline
<1>2. CASE UNCHANGED work
  BY <1>2 DEF BusyIsLeft, work
<1>3. GateActions => UNCHANGED work
  BY DEF GateActions, AutoApprove, AskForApproval, ApproveDisabled, StartMerge, CheckPaths, Verify,
         HandOver, GateEnds
<1>4. StartAnalysis \/ ReviewCode \/ SaveVerdict \/ SaveHookResult \/ UNCHANGED gateRunVars
        => UNCHANGED work
  BY DEF StartAnalysis, ReviewCode, SaveVerdict, SaveHookResult, gateRunVars
<1> QED BY <1>1, <1>2, <1>3, <1>4 DEF GateRunNext, GateLoop

\* What is left is a number of steps, part by part.
RemainingOK ==
  /\ StageRank[stage] \in Nat /\ ApproveRank[approving] \in Nat /\ MergeRank[merging] \in Nat
  /\ ToReview \in Nat /\ ToAnalyze \in Nat
  /\ Cardinality(left) \in Nat /\ IsFiniteSet(left)

\* Whatever the run has come to.
LEMMA RemainingType ==
  ASSUME GateTypes
  PROVE  RemainingOK
<1>1. IsFiniteSet(left) /\ Cardinality(left) \in Nat
  BY FilesAssumption, FS_Subset, FS_CardinalityType DEF GateTypes, GateRunTypeOK
<1>2. StageRank[stage] \in Nat
  BY DEF GateTypes, GateRunTypeOK, StageRank
<1>3. ApproveRank[approving] \in Nat
  BY DEF GateTypes, GateRunTypeOK, ApproveRank
<1>4. MergeRank[merging] \in Nat
  BY DEF GateTypes, GateRunTypeOK, MergeRank
<1> QED BY <1>1, <1>2, <1>3, <1>4 DEF RemainingOK, ToReview, ToAnalyze

\* Work on the files that is done is not done again.
LEMMA AnalysisShrinks ==
  ASSUME GateTypes, BusyIsLeft, StartFile \/ FinishFile \/ Deadline
  PROVE  ToAnalyze' < ToAnalyze
<1>0. Cardinality(left) \in Nat /\ IsFiniteSet(left)
  BY RemainingType DEF RemainingOK
<1>1. CASE StartFile
  <2>1. busy = NoFile /\ busy' # NoFile /\ left' = left
    BY <1>1, FilesAssumption DEF StartFile, NoFile, GateTypes, GateRunTypeOK
  <2> QED BY <1>0, <2>1 DEF ToAnalyze
<1>2. CASE FinishFile
  <2>1. busy # NoFile /\ busy' = NoFile /\ left' = left \ {busy} /\ busy \in left
    BY <1>2 DEF FinishFile, BusyIsLeft
  <2>2. Cardinality(left') = Cardinality(left) - 1
    BY <1>0, <2>1, FS_RemoveElement
  <2> QED BY <1>0, <2>1, <2>2 DEF ToAnalyze
<1>3. CASE Deadline
  <2>1. left # {} /\ left' = {} /\ busy' = NoFile
    BY <1>3 DEF Deadline
  <2>2. Cardinality(left') = 0 /\ Cardinality(left) # 0
    BY <1>0, <2>1, FS_EmptySet
  <2> QED BY <1>0, <2>1, <2>2 DEF ToAnalyze
<1> QED BY <1>1, <1>2, <1>3

\* Every step leaves less to do: no file is analysed twice, no review asked for
\* again, no gate action goes back.  With it a gate run cannot go on for ever,
\* and of GateComesToAnEnd only that something can always go on is left to TLC.
NeverRepeats == [][Remaining' < Remaining]_gateRunVars

\* A step that is none of the analysis of files.
LEMMA RestShrinks ==
  ASSUME GateRunInv, GateTypes, RemainingOK, RemainingOK',
         StartAnalysis \/ ReviewCode \/ SaveVerdict \/ SaveHookResult \/ GateActions
  PROVE  Remaining' < Remaining
<1> DEFINE a == StageRank[stage]
           b == ApproveRank[approving]
           c == MergeRank[merging]
<1>0. /\ a \in Nat /\ b \in Nat /\ c \in Nat /\ ToReview \in Nat /\ ToAnalyze \in Nat
      /\ a' \in Nat /\ b' \in Nat /\ c' \in Nat /\ ToReview' \in Nat /\ ToAnalyze' \in Nat
  BY DEF RemainingOK
<1>1. ToAnalyze' = ToAnalyze
  <2>1. UNCHANGED work
    BY DEF StartAnalysis, ReviewCode, SaveVerdict, SaveHookResult, GateActions, AutoApprove, AskForApproval,
           ApproveDisabled, StartMerge, CheckPaths, Verify, HandOver, GateEnds
  <2> QED BY <2>1 DEF ToAnalyze, work
<1>2. a' <= a /\ b' <= b /\ c' <= c /\ ToReview' <= ToReview
      /\ (a' < a \/ b' < b \/ c' < c \/ ToReview' < ToReview)
  <2>1. CASE StartAnalysis
    BY <1>0, <2>1 DEF StartAnalysis, StageRank, gates, ToReview
  <2>2. CASE ReviewCode
    <3>1. review.status = "none" /\ review'.status # "none"
      BY <2>2, ReviewTypes DEF ReviewCode
    <3>2. UNCHANGED <<stage, approving, merging>>
      BY <2>2 DEF ReviewCode, gates
    <3> QED BY <1>0, <3>1, <3>2 DEF ToReview
  <2>3. CASE SaveVerdict
    <3>1. stage = "static" /\ stage' = "verdict" /\ approving' = "start" /\ merging' = "start"
          /\ review' = review
      BY <2>3 DEF SaveVerdict
    <3>2. approving = "idle" /\ merging = "idle"
      BY <3>1 DEF GateRunInv, NothingEarly, Judged
    <3> QED BY <3>1, <3>2 DEF StageRank, ApproveRank, MergeRank, ToReview
  <2>4. CASE AutoApprove \/ AskForApproval \/ ApproveDisabled
    <3>1. UNCHANGED <<stage, merging, review>> /\ approving = "start" /\ approving' = "over"
      BY <2>4 DEF AutoApprove, AskForApproval, ApproveDisabled
    <3> QED BY <1>0, <3>1 DEF ApproveRank, ToReview
  <2>5. CASE StartMerge \/ CheckPaths \/ Verify \/ HandOver
    <3>1. UNCHANGED <<stage, approving, review>>
      BY <2>5 DEF StartMerge, CheckPaths, Verify, HandOver
    <3>2. \/ merging = "start" /\ merging' \in {"paths", "over"}
          \/ merging = "paths" /\ merging' \in {"verify", "over"}
          \/ merging = "verify" /\ merging' \in {"merge", "over"}
          \/ merging = "merge" /\ merging' = "over"
      BY <2>5 DEF StartMerge, CheckPaths, Verify, HandOver
    <3> QED BY <1>0, <3>1, <3>2 DEF MergeRank, ToReview
  <2>6. CASE GateEnds
    BY <1>0, <2>6 DEF GateEnds, gates, StageRank, ToReview
  <2>7. CASE SaveHookResult
    <3>1. stage = "none" /\ stage' = "over" /\ UNCHANGED <<approving, merging>>
      BY <2>7 DEF SaveHookResult, gates
    <3>2. review.status = "none" /\ review'.status # "none"
      BY <2>7, <3>1 DEF SaveHookResult, GateRunInv, NothingEarly, NoReview
    <3> QED BY <1>0, <3>1, <3>2 DEF StageRank, ToReview
  <2> QED BY <2>1, <2>2, <2>3, <2>4, <2>5, <2>6, <2>7 DEF GateActions
<1> HIDE DEF a, b, c
<1> QED BY <1>0, <1>1, <1>2 DEF Remaining, a, b, c

\* For any number of files.
THEOREM NeverRepeatsHolds == GateRunSpec => NeverRepeats
<1>1. ASSUME GateTypes, GateRunInv, BusyIsLeft, RemainingOK, RemainingOK', [GateRunNext]_gateRunVars
      PROVE  Remaining' < Remaining \/ UNCHANGED gateRunVars
  <2>1. CASE StartFile \/ FinishFile \/ Deadline
    <3>1. ToAnalyze' < ToAnalyze
      BY <1>1, <2>1, AnalysisShrinks
    <3>2. UNCHANGED <<stage, approving, merging, review>>
      BY <2>1 DEF StartFile, FinishFile, Deadline, gates
    <3>3. ToReview' = ToReview
      BY <3>2 DEF ToReview
    <3> HIDE DEF StageRank, ApproveRank, MergeRank, ToAnalyze, ToReview
    <3> QED BY <1>1, <3>1, <3>2, <3>3 DEF Remaining, RemainingOK
  <2>2. CASE StartAnalysis \/ ReviewCode \/ SaveVerdict \/ SaveHookResult \/ GateActions
    BY <1>1, <2>2, RestShrinks
  <2> QED BY <1>1, <2>1, <2>2 DEF GateRunNext, GateLoop
<1>2. GateRunInit => BusyIsLeft
  BY DEF GateRunInit, BusyIsLeft
<1>3. GateTypes => RemainingOK
  BY RemainingType
<1> QED
  BY <1>1, <1>2, <1>3, BusyIsLeftNext, GateTypesHold, GateRunInvHolds, PTL
  DEF GateRunSpec, NeverRepeats

=============================================================================
