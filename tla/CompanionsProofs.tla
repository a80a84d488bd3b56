--------------------------- MODULE CompanionsProofs ---------------------------
(***************************************************************************)
(* Theorems about the remaining parts of the system, for any number of     *)
(* requests, page loads and callers and any length of their windows, and   *)
(* about all the parts side by side.                                       *)
(***************************************************************************)
EXTENDS MCCompanions, GateRunProofs, MergeAttemptsProofs, LimiterProofs

-----------------------------------------------------------------------------
(* The failover factory.                                                   *)

\* A fallback that is down is known to every call that is under way.
OutageIsKnown ==
  ~fallbackUp => \A c \in Callers : opening[c] # "idle" => c \in fellDuring

FailoverInv ==
  /\ DatabaseFailoverTypeOK
  /\ OutageIsKnown
  /\ FallbackServesTheCaller

\* It holds at first.
LEMMA FailoverInvInit == DatabaseFailoverInit => FailoverInv
BY DEF DatabaseFailoverInit, FailoverInv, DatabaseFailoverTypeOK, OutageIsKnown, FallbackServesTheCaller

\* A step that neither opens a session nor turns the fallback keeps it.
LEMMA QuietStep ==
  ASSUME FailoverInv, DatabaseFailoverTypeOK', UNCHANGED <<fallbackUp, opening, fellDuring>>
  PROVE  FailoverInv'
BY DEF FailoverInv, OutageIsKnown, FallbackServesTheCaller

\* A call that goes on keeps it, if it is refused only by a fallback that is down.
LEMMA CallGoesOn ==
  ASSUME FailoverInv, NEW c \in Callers, opening[c] # "idle", NEW at, Open(c, at),
         at \in {"idle", "primary", "lost", "fallback", "open", "refused", "exhausted"},
         at = "refused" => ~fallbackUp,
         active' \in {"primary", "fallback"}, UNCHANGED <<servers, fellDuring, probe>>
  PROVE  FailoverInv'
<1> USE DEF Open, servers
<1>1. DatabaseFailoverTypeOK'
  BY DEF FailoverInv, DatabaseFailoverTypeOK
<1>2. OutageIsKnown'
  BY DEF FailoverInv, DatabaseFailoverTypeOK, OutageIsKnown
<1>3. FallbackServesTheCaller'
  BY DEF FailoverInv, DatabaseFailoverTypeOK, OutageIsKnown, FallbackServesTheCaller
<1> QED BY <1>1, <1>2, <1>3 DEF FailoverInv

\* Every step keeps it.
LEMMA FailoverInvNext == FailoverInv /\ [DatabaseFailoverNext]_failoverVars => FailoverInv'
<1> SUFFICES ASSUME FailoverInv, [DatabaseFailoverNext]_failoverVars PROVE FailoverInv'
  OBVIOUS
<1>0. DatabaseFailoverTypeOK
  BY DEF FailoverInv
<1>1. CASE PrimaryTurns
  <2>1. DatabaseFailoverTypeOK'
    BY <1>0, <1>1 DEF PrimaryTurns, DatabaseFailoverTypeOK
  <2> QED BY <1>1, <2>1, QuietStep DEF PrimaryTurns
<1>2. CASE FallbackTurns
  <2>1. DatabaseFailoverTypeOK'
    BY <1>0, <1>2 DEF FallbackTurns, DatabaseFailoverTypeOK
  <2>2. OutageIsKnown' /\ FallbackServesTheCaller'
    BY <1>2 DEF FallbackTurns, FailoverInv, OutageIsKnown, FallbackServesTheCaller
  <2> QED BY <2>1, <2>2 DEF FailoverInv
<1>3. CASE ProbeStep
  <2>1. DatabaseFailoverTypeOK'
    BY <1>0, <1>3
    DEF ProbeStep, ProbeWakes, ProbeLooks, ProbeSwitches, servers, DatabaseFailoverTypeOK
  <2> QED BY <1>3, <2>1, QuietStep DEF ProbeStep, ProbeWakes, ProbeLooks, ProbeSwitches, servers
<1>4. ASSUME NEW c \in Callers, AskForSession(c) PROVE FailoverInv'
  <2> USE <1>4 DEF AskForSession, Open, servers
  <2>1. DatabaseFailoverTypeOK'
    BY <1>0 DEF DatabaseFailoverTypeOK
  <2>2. OutageIsKnown'
    BY <1>0 DEF FailoverInv, DatabaseFailoverTypeOK, OutageIsKnown
  <2>3. FallbackServesTheCaller'
    BY <1>0 DEF FailoverInv, DatabaseFailoverTypeOK, FallbackServesTheCaller
  <2> QED BY <2>1, <2>2, <2>3 DEF FailoverInv
<1>5. ASSUME NEW c \in Callers, TryPrimary(c) PROVE FailoverInv'
  <2>1. PICK at \in {"open", "lost", "exhausted"} : Open(c, at)
    BY <1>5 DEF TryPrimary
  <2> QED BY <1>0, <1>5, <2>1, CallGoesOn DEF TryPrimary, DatabaseFailoverTypeOK
<1>6. ASSUME NEW c \in Callers, TakeOver(c) PROVE FailoverInv'
  BY <1>6, CallGoesOn DEF TakeOver, AfterLost
<1>7. ASSUME NEW c \in Callers, TryFallback(c) PROVE FailoverInv'
  <2>1. PICK at \in {"open", "refused", "exhausted"} :
          Open(c, at) /\ (at = "refused" => ~fallbackUp)
    BY <1>7 DEF TryFallback
  <2> QED BY <1>0, <1>7, <2>1, CallGoesOn DEF TryFallback, DatabaseFailoverTypeOK
<1>8. ASSUME NEW c \in Callers, CloseSession(c) PROVE FailoverInv'
  BY <1>0, <1>8, CallGoesOn DEF CloseSession, DatabaseFailoverTypeOK
<1>9. CASE UNCHANGED failoverVars
  <2>1. DatabaseFailoverTypeOK'
    BY <1>0, <1>9 DEF failoverVars, DatabaseFailoverTypeOK
  <2> QED BY <1>9, <2>1, QuietStep DEF failoverVars
<1> QED
  BY <1>1, <1>2, <1>3, <1>4, <1>5, <1>6, <1>7, <1>8, <1>9 DEF DatabaseFailoverNext, CallerStep

\* It holds always.
LEMMA FailoverInvHolds == DatabaseFailoverSpec => []FailoverInv
BY FailoverInvInit, FailoverInvNext, PTL DEF DatabaseFailoverSpec

\* The factory, its callers and the probe keep their types.
THEOREM FailoverTypeCorrect == DatabaseFailoverSpec => []DatabaseFailoverTypeOK
<1>1. FailoverInv => DatabaseFailoverTypeOK
  BY DEF FailoverInv
<1> QED BY <1>1, FailoverInvHolds, PTL

\* A caller of SessionLocal() is refused only when the fallback was down in its
\* call, whoever switched the factory meanwhile.
THEOREM FallbackServesTheCallerHolds == DatabaseFailoverSpec => []FallbackServesTheCaller
<1>1. FailoverInv => FallbackServesTheCaller
  BY DEF FailoverInv
<1> QED BY <1>1, FailoverInvHolds, PTL

-----------------------------------------------------------------------------
(* Issue registration.                                                     *)

\* The type invariant in three parts, one for each group of variables.
RequestTypes ==
  /\ registering \in [Requests -> {"idle", "create", "insert", "over"}]
  /\ replies \in [Requests -> {"none", "registered", "error"} \cup Requests]
IssueTypes ==
  /\ issues \subseteq Requests /\ unheard \subseteq issues /\ logged \subseteq issues
  /\ tracked \in issues \cup {NoIssue} /\ removed \in BOOLEAN
DisplayTypes ==
  /\ issueState \in {"open", "closed"}
  /\ shown \in [state : {"open", "closed"}, stale : BOOLEAN, failed : BOOLEAN]
  /\ syncing \in [Pages -> {"idle", "open", "closed", "failure"}]

\* Where a request is tells whether its issue exists, and a request on its way
\* has neither been answered nor recorded.
RequestsInStep ==
  \A r \in Requests :
    /\ registering[r] \in {"idle", "create"} => r \notin issues
    /\ registering[r] = "insert" => r \in issues
    /\ registering[r] # "over" => replies[r] = "none" /\ tracked # r

RegistrationInv ==
  /\ RequestTypes /\ IssueTypes /\ DisplayTypes
  /\ RequestsInStep
  /\ OrphansAreReported
  /\ DuplicateNamesTheTracked

\* It holds at first.
LEMMA RegistrationInvInit == IssueRegistrationInit => RegistrationInv
<1> SUFFICES ASSUME IssueRegistrationInit PROVE RegistrationInv
  OBVIOUS
<1> USE RequestsAssumption DEF IssueRegistrationInit, NoIssue
<1>1. RequestTypes BY DEF RequestTypes
<1>2. IssueTypes BY DEF IssueTypes
<1>3. DisplayTypes BY DEF DisplayTypes, NewRecord
<1>4. RequestsInStep BY DEF RequestsInStep
<1>5. OrphansAreReported BY DEF OrphansAreReported
<1>6. DuplicateNamesTheTracked BY DEF DuplicateNamesTheTracked
<1> QED BY <1>1, <1>2, <1>3, <1>4, <1>5, <1>6 DEF RegistrationInv

\* The page loads, the clock and GitHub's side touch neither requests nor record.
LEMMA DisplayStep ==
  ASSUME RegistrationInv, UNCHANGED <<register, tracked, removed>>, DisplayTypes'
  PROVE  RegistrationInv'
BY DEF RegistrationInv, RequestTypes, IssueTypes, RequestsInStep, OrphansAreReported,
       DuplicateNamesTheTracked, register

\* Every step keeps it.
LEMMA RegistrationInvNext == RegistrationInv /\ [IssueRegistrationNext]_registrationVars => RegistrationInv'
<1> SUFFICES ASSUME RegistrationInv, [IssueRegistrationNext]_registrationVars PROVE RegistrationInv'
  OBVIOUS
<1> USE RequestsAssumption
    DEF RegistrationInv, RequestTypes, IssueTypes, NoIssue, Reply, register, display
<1>1. ASSUME NEW r \in Requests, FindByKey(r) PROVE RegistrationInv'
  <2>1. RequestTypes'
    <3>1. ASSUME registering' = [registering EXCEPT ![r] = "create"], UNCHANGED replies
          PROVE  RequestTypes'
      BY <3>1
    <3>2. ASSUME tracked # NoIssue, Reply(r, tracked) PROVE RequestTypes'
      BY <3>2
    <3>3. ASSUME Reply(r, "error") PROVE RequestTypes'
      BY <3>3
    <3> QED BY <1>1, <3>1, <3>2, <3>3 DEF FindByKey
  <2>2. IssueTypes'
    BY <1>1 DEF FindByKey
  <2>3. DisplayTypes'
    BY <1>1 DEF FindByKey, DisplayTypes, NewRecord
  <2>4. RequestsInStep'
    BY <1>1 DEF FindByKey, RequestsInStep
  <2>5. OrphansAreReported'
    BY <1>1 DEF FindByKey, OrphansAreReported, RequestsInStep
  <2>6. DuplicateNamesTheTracked'
    <3> SUFFICES ASSUME ~removed, NEW q \in Requests, replies'[q] \in Requests
                 PROVE  replies'[q] = tracked
      BY <1>1 DEF FindByKey, DuplicateNamesTheTracked
    <3>1. CASE q # r
      BY <1>1, <3>1 DEF FindByKey, DuplicateNamesTheTracked
    <3>2. CASE q = r
      BY <1>1, <3>2 DEF FindByKey, RequestsInStep
    <3> QED BY <3>1, <3>2
  <2> QED BY <2>1, <2>2, <2>3, <2>4, <2>5, <2>6
<1>2. ASSUME NEW r \in Requests, CreateIssue(r) PROVE RegistrationInv'
  <2>1. RequestTypes'
    BY <1>2 DEF CreateIssue
  <2>2. IssueTypes'
    BY <1>2 DEF CreateIssue
  <2>3. DisplayTypes'
    BY <1>2 DEF CreateIssue, DisplayTypes, NewRecord
  <2>4. RequestsInStep'
    <3> SUFFICES ASSUME NEW q \in Requests
                 PROVE  /\ registering'[q] \in {"idle", "create"} => q \notin issues'
                        /\ registering'[q] = "insert" => q \in issues'
                        /\ registering'[q] # "over" => replies'[q] = "none" /\ tracked' # q
      BY DEF RequestsInStep
    <3>1. CASE q # r
      BY <1>2, <3>1 DEF CreateIssue, RequestsInStep
    <3>2. CASE q = r
      BY <1>2, <3>2 DEF CreateIssue, RequestsInStep
    <3> QED BY <3>1, <3>2
  <2>5. OrphansAreReported'
    <3> SUFFICES ASSUME ~removed, NEW i \in issues'
                 PROVE  \/ i = tracked \/ i \in logged \cup unheard'
                        \/ registering'[i] = "insert"
      BY <1>2 DEF CreateIssue, OrphansAreReported
    <3>1. CASE i # r
      <4>1. i \in issues
        BY <1>2, <3>1 DEF CreateIssue
      <4>2. registering'[i] = registering[i] /\ unheard \subseteq unheard'
        BY <1>2, <3>1, <4>1 DEF CreateIssue
      <4> QED BY <4>1, <4>2 DEF OrphansAreReported
    <3>2. CASE i = r
      <4>1. r \notin issues
        BY <1>2 DEF CreateIssue, RequestsInStep
      <4>2. registering'[r] = "insert" \/ issues' = issues \/ r \in unheard'
        BY <1>2 DEF CreateIssue
      <4> QED BY <3>2, <4>1, <4>2
    <3> QED BY <3>1, <3>2
  <2>6. DuplicateNamesTheTracked'
    BY <1>2 DEF CreateIssue, DuplicateNamesTheTracked, RequestsInStep
  <2> QED BY <2>1, <2>2, <2>3, <2>4, <2>5, <2>6
<1>3. ASSUME NEW r \in Requests, InsertRecord(r) PROVE RegistrationInv'
  <2>1. RequestTypes'
    BY <1>3 DEF InsertRecord, CanInsert
  <2>2. IssueTypes'
    BY <1>3 DEF InsertRecord, CanInsert, RequestsInStep
  <2>3. DisplayTypes'
    BY <1>3 DEF InsertRecord, CanInsert, DisplayTypes, NewRecord
  <2>4. RequestsInStep'
    BY <1>3 DEF InsertRecord, CanInsert, RequestsInStep
  <2>5. OrphansAreReported'
    <3>1. /\ registering \in [Requests -> {"idle", "create", "insert", "over"}]
          /\ issues \subseteq Requests /\ OrphansAreReported
      OBVIOUS
    <3> HIDE DEF RegistrationInv, RequestTypes, IssueTypes, NoIssue, register, display
    <3>2. /\ UNCHANGED <<issues, unheard, logged, removed>> /\ tracked = NoIssue /\ tracked' = r
          /\ registering' = [registering EXCEPT ![r] = "over"]
      BY <1>3 DEF InsertRecord, CanInsert
    <3>3. \A i \in Requests : i = r \/ registering'[i] = registering[i]
      BY <3>1, <3>2
    <3>4. NoIssue \notin issues
      BY <3>1 DEF NoIssue
    <3>5. ASSUME ~removed, NEW i \in issues
          PROVE  i = r \/ i \in logged \cup unheard \/ registering'[i] = "insert"
      <4>1. i \in Requests /\ i # tracked
        BY <3>1, <3>2, <3>4
      <4>2. i \in logged \cup unheard \/ registering[i] = "insert"
        BY <3>1, <3>5, <4>1 DEF OrphansAreReported
      <4> QED BY <3>3, <4>1, <4>2
    <3> QED BY <3>2, <3>5 DEF OrphansAreReported
  <2>6. DuplicateNamesTheTracked'
    <3>1. /\ replies \in [Requests -> {"none", "registered", "error"} \cup Requests]
          /\ DuplicateNamesTheTracked /\ NoIssue \notin Requests /\ "registered" \notin Requests
      OBVIOUS
    <3> HIDE DEF RegistrationInv, RequestTypes, IssueTypes, NoIssue, register, display
    <3>2. /\ ~removed /\ tracked = NoIssue
          /\ replies' = [replies EXCEPT ![r] = "registered"]
      BY <1>3 DEF InsertRecord, CanInsert
    <3>3. \A q \in Requests : replies[q] \notin Requests
      BY <3>1, <3>2 DEF DuplicateNamesTheTracked
    <3>4. \A q \in Requests : replies'[q] \notin Requests
      BY <3>1, <3>2, <3>3
    <3> QED BY <3>4 DEF DuplicateNamesTheTracked
  <2> QED BY <2>1, <2>2, <2>3, <2>4, <2>5, <2>6
<1>4. ASSUME NEW r \in Requests, InsertConflicts(r) PROVE RegistrationInv'
  <2>1. RequestTypes'
    BY <1>4 DEF InsertConflicts, CanInsert, Winner, Duplicates
  <2>2. IssueTypes'
    BY <1>4 DEF InsertConflicts, CanInsert, Winner, Duplicates, RequestsInStep
  <2>3. DisplayTypes'
    BY <1>4 DEF InsertConflicts, CanInsert, Winner, Duplicates, DisplayTypes, NewRecord
  <2>4. RequestsInStep'
    BY <1>4 DEF InsertConflicts, CanInsert, Winner, Duplicates, RequestsInStep
  <2>5. OrphansAreReported'
    BY <1>4 DEF InsertConflicts, CanInsert, Winner, Duplicates, OrphansAreReported, RequestsInStep
  <2>6. DuplicateNamesTheTracked'
    BY <1>4 DEF InsertConflicts, CanInsert, Winner, Duplicates, DuplicateNamesTheTracked, RequestsInStep
  <2> QED BY <2>1, <2>2, <2>3, <2>4, <2>5, <2>6
<1>5. ASSUME NEW r \in Requests, InsertFails(r) PROVE RegistrationInv'
  <2>1. RequestTypes'
    BY <1>5 DEF InsertFails, CanInsert
  <2>2. IssueTypes'
    BY <1>5 DEF InsertFails, CanInsert, RequestsInStep
  <2>3. DisplayTypes'
    <3>1. NewRecord \in [state : {"open", "closed"}, stale : BOOLEAN, failed : BOOLEAN]
      BY DEF NewRecord
    <3> QED BY <1>5, <3>1 DEF InsertFails, DisplayTypes
  <2>4. RequestsInStep'
    BY <1>5 DEF InsertFails, CanInsert, RequestsInStep
  <2>5. OrphansAreReported'
    BY <1>5 DEF InsertFails, CanInsert, OrphansAreReported, RequestsInStep
  <2>6. DuplicateNamesTheTracked'
    BY <1>5 DEF InsertFails, CanInsert, DuplicateNamesTheTracked, RequestsInStep
  <2> QED BY <2>1, <2>2, <2>3, <2>4, <2>5, <2>6
<1>6. CASE RemoveRepository
  BY <1>6 DEF RemoveRepository, RequestsInStep, OrphansAreReported, DuplicateNamesTheTracked,
              DisplayTypes
<1>7. ASSUME NEW p \in Pages, LoadPage(p) PROVE RegistrationInv'
  <2>1. DisplayTypes'
    <3>1. PICK answer \in {issueState, "failure"} : syncing' = [syncing EXCEPT ![p] = answer]
      BY <1>7 DEF LoadPage
    <3>2. answer \in {"open", "closed", "failure"}
      BY DEF DisplayTypes
    <3> QED BY <1>7, <3>1, <3>2 DEF LoadPage, DisplayTypes
  <2> QED BY <1>7, <2>1, DisplayStep DEF LoadPage
<1>8. ASSUME NEW p \in Pages, SyncRecord(p) PROVE RegistrationInv'
  <2>1. DisplayTypes'
    BY <1>8 DEF SyncRecord, DisplayTypes
  <2> QED BY <1>8, <2>1, DisplayStep DEF SyncRecord
<1>9. CASE TtlPasses
  <2>1. DisplayTypes'
    BY <1>9 DEF TtlPasses, DisplayTypes
  <2> QED BY <1>9, <2>1, DisplayStep DEF TtlPasses
<1>10. CASE IssueChanges
  <2>1. DisplayTypes'
    BY <1>10 DEF IssueChanges, DisplayTypes
  <2> QED BY <1>10, <2>1, DisplayStep DEF IssueChanges
<1>11. CASE UNCHANGED registrationVars
  <2>1. DisplayTypes'
    BY <1>11 DEF registrationVars, DisplayTypes
  <2> QED BY <1>11, <2>1, DisplayStep DEF registrationVars
<1> QED
  BY <1>1, <1>2, <1>3, <1>4, <1>5, <1>6, <1>7, <1>8, <1>9, <1>10, <1>11
  DEF IssueRegistrationNext, RequestStep

\* It holds always.
LEMMA RegistrationInvHolds == IssueRegistrationSpec => []RegistrationInv
BY RegistrationInvInit, RegistrationInvNext, PTL DEF IssueRegistrationSpec

\* The requests, the issues and the record keep their types.
THEOREM RegistrationTypeCorrect == IssueRegistrationSpec => []IssueRegistrationTypeOK
<1>1. RegistrationInv => IssueRegistrationTypeOK
  BY DEF RegistrationInv, RequestTypes, IssueTypes, DisplayTypes, IssueRegistrationTypeOK
<1> QED BY <1>1, RegistrationInvHolds, PTL

\* No issue is lost from sight while its repository is registered, however many
\* requests race (register_issue).
THEOREM OrphansAreReportedHolds == IssueRegistrationSpec => []OrphansAreReported
<1>1. RegistrationInv => OrphansAreReported
  BY DEF RegistrationInv
<1> QED BY <1>1, RegistrationInvHolds, PTL

\* Every "duplicate of" names the issue that is on record.
THEOREM DuplicateNamesTheTrackedHolds == IssueRegistrationSpec => []DuplicateNamesTheTracked
<1>1. RegistrationInv => DuplicateNamesTheTracked
  BY DEF RegistrationInv
<1> QED BY <1>1, RegistrationInvHolds, PTL

-----------------------------------------------------------------------------
(* The insight narrative cache.                                            *)

\* The steps of a page load that leave the row and its histories alone.
Looks(r) == AskForPage(r) \/ ServeCached(r) \/ ServeFailure(r) \/ MissCache(r) \/ CallClaude(r)

\* The answer of a page load that notes something in the row.
Notes(r) == NoData(r) \/ NarrationFails(r)

\* The steps by what they do to the row.
LEMMA NarrativeSteps ==
  ASSUME [NarrativeCacheNext]_narrativeVars
  PROVE  \/ UNCHANGED narrativeVars
         \/ NarrativeTicks
         \/ PurgeExpired
         \/ \E r \in Readers : RefreshPage(r) \/ Narrated(r) \/ Notes(r) \/ Looks(r)
BY DEF NarrativeCacheNext, ReaderStep, Looks, Notes

-----------------------------------------------------------------------------
(* Type correctness.                                                       *)

Times == 0..LastTick

RowOK ==
  row \in [exists : BOOLEAN, text : EmptyText..LastTick, expires : 0..(LastTick + SuccessTtl),
           errorAt : Times \cup {Never}, error : {"none", "failed", "no_data"}]

PagesOK ==
  /\ reading \in [Readers -> {"idle", "look", "gather", "calling"}]
  /\ asked \in [Readers -> Times]
  /\ served \in [Readers -> EmptyText..LastTick \cup {Never}]

NotesOK == lastPaid \in Times \cup {Never} /\ lastNoted \in Times \cup {Never}

\* The type invariant in parts.
LEMMA TypeParts == NarrativeCacheTypeOK <=> tick \in Times /\ RowOK /\ PagesOK /\ NotesOK
BY DEF NarrativeCacheTypeOK, Times, RowOK, PagesOK, NotesOK

\* The absence of a row has the type of a row.
LEMMA NoRowOK ==
  NoRow \in [exists : BOOLEAN, text : EmptyText..LastTick, expires : 0..(LastTick + SuccessTtl),
             errorAt : Times \cup {Never}, error : {"none", "failed", "no_data"}]
<1>1. EmptyText \in EmptyText..LastTick /\ 0 \in 0..(LastTick + SuccessTtl)
  BY TicksAssumption DEF EmptyText
<1>2. QED
  BY <1>1 DEF NoRow

\* What record_error leaves is a row.
LEMMA NotedOK ==
  ASSUME RowOK, NEW at \in Times, NEW what \in {"failed", "no_data"}
  PROVE  Noted(at, what) \in
           [exists : BOOLEAN, text : EmptyText..LastTick, expires : 0..(LastTick + SuccessTtl),
            errorAt : Times \cup {Never}, error : {"none", "failed", "no_data"}]
<1>1. EmptyText \in EmptyText..LastTick /\ at \in 0..(LastTick + SuccessTtl)
  BY TicksAssumption DEF EmptyText, Times
<1>2. CASE row.exists
  BY <1>2 DEF RowOK, Noted
<1>3. CASE ~row.exists
  BY <1>1, <1>3 DEF Noted
<1>4. QED
  BY <1>2, <1>3

\* The text is a time of the past and lives for SuccessTtl.
LEMMA NarratedOK ==
  ASSUME PagesOK, NEW r \in Readers, Narrated(r)
  PROVE  RowOK'
<1>1. asked[r] \in Times
  BY DEF PagesOK
<1>2. asked[r] \in EmptyText..LastTick /\ asked[r] + SuccessTtl \in 0..(LastTick + SuccessTtl)
  BY <1>1, TicksAssumption DEF EmptyText, Times
<1>3. QED
  BY <1>2 DEF Narrated, RowOK

\* The row, the page loads and the histories keep their types.
THEOREM NarrativeTypeCorrect == NarrativeCacheSpec => []NarrativeCacheTypeOK
<1>1. NarrativeCacheInit => NarrativeCacheTypeOK
  BY NoRowOK, TypeParts, TicksAssumption
  DEF NarrativeCacheInit, RowOK, PagesOK, NotesOK, Times
<1>2. NarrativeCacheTypeOK /\ [NarrativeCacheNext]_narrativeVars => NarrativeCacheTypeOK'
  <2> SUFFICES ASSUME tick \in Times, RowOK, PagesOK, NotesOK,
                      [NarrativeCacheNext]_narrativeVars
               PROVE  tick' \in Times /\ RowOK' /\ PagesOK' /\ NotesOK'
    BY TypeParts, Zenon DEF NarrativeCacheTypeOK, Times, RowOK, PagesOK, NotesOK
  <2>1. CASE UNCHANGED narrativeVars
    BY <2>1 DEF narrativeVars, RowOK, PagesOK, NotesOK, Times
  <2>2. CASE NarrativeTicks
    <3>1. tick' \in Times
      BY <2>2, TicksAssumption DEF NarrativeTicks, Times
    <3>2. QED
      BY <2>2, <3>1 DEF NarrativeTicks, RowOK, PagesOK, NotesOK, Times
  <2>3. CASE PurgeExpired
    BY <2>3, NoRowOK DEF PurgeExpired, RowOK, PagesOK, NotesOK, Times
  <2>4. ASSUME NEW r \in Readers, RefreshPage(r)
        PROVE  tick' \in Times /\ RowOK' /\ PagesOK' /\ NotesOK'
    BY <2>4, NoRowOK DEF RefreshPage, Reads, RowOK, PagesOK, NotesOK, Times
  <2>5. ASSUME NEW r \in Readers, Narrated(r)
        PROVE  tick' \in Times /\ RowOK' /\ PagesOK' /\ NotesOK'
    <3>1. RowOK'
      BY <2>5, NarratedOK
    <3>2. asked[r] \in EmptyText..LastTick
      BY TicksAssumption DEF PagesOK, Times, EmptyText
    <3>3. PagesOK'
      BY <2>5, <3>2 DEF Narrated, Reads, PagesOK
    <3>4. QED
      BY <2>5, <3>1, <3>3 DEF Narrated, NotesOK, Times
  <2>6. ASSUME NEW r \in Readers, Notes(r)
        PROVE  tick' \in Times /\ RowOK' /\ PagesOK' /\ NotesOK'
    <3>1. asked[r] \in Times
      BY DEF PagesOK
    <3>2. RowOK'
      BY <2>6, <3>1, NotedOK DEF Notes, NoData, NarrationFails, RowOK, Times
    <3>3. PagesOK' /\ NotesOK' /\ tick' = tick
      BY <2>6 DEF Notes, NoData, NarrationFails, Reads, PagesOK, NotesOK, Times
    <3>4. QED
      BY <3>2, <3>3
  <2>7. ASSUME NEW r \in Readers, Looks(r)
        PROVE  tick' \in Times /\ RowOK' /\ PagesOK' /\ NotesOK'
    <3>1. UNCHANGED <<tick, row, lastPaid, lastNoted>>
      BY <2>7 DEF Looks, AskForPage, ServeCached, ServeFailure, MissCache, CallClaude
    <3>2. row.text \in EmptyText..LastTick
      BY DEF RowOK
    <3>3. PagesOK'
      BY <2>7, <3>2
      DEF Looks, AskForPage, ServeCached, ServeFailure, MissCache, CallClaude, Reads, PagesOK, Times
    <3>4. QED
      BY <3>1, <3>3 DEF RowOK, NotesOK, Times
  <2>8. QED
    BY <2>1, <2>2, <2>3, <2>4, <2>5, <2>6, <2>7, NarrativeSteps
<1>3. QED
  BY <1>1, <1>2, PTL DEF NarrativeCacheSpec

-----------------------------------------------------------------------------
(* Genuine texts.                                                          *)

\* A row without a text is expired for everybody who comes in after the last
\* note; a text expires SuccessTtl after it was asked for.
Dated ==
  row.exists => IF row.text = EmptyText THEN row.expires <= lastNoted
                ELSE row.expires = row.text + SuccessTtl

\* Nothing is dated later than now.
Past ==
  /\ \A r \in Readers : asked[r] <= tick
  /\ lastNoted <= tick /\ lastPaid <= tick

\* Every step keeps what happened in the past.
LEMMA PastNext ==
  NarrativeCacheTypeOK /\ Past /\ [NarrativeCacheNext]_narrativeVars => Past'
<1> SUFFICES ASSUME NarrativeCacheTypeOK, Past, [NarrativeCacheNext]_narrativeVars PROVE Past'
  OBVIOUS
<1>1. /\ tick \in Int /\ lastPaid \in Int /\ lastNoted \in Int /\ Never <= tick
      /\ asked \in [Readers -> Int]
  BY TicksAssumption DEF NarrativeCacheTypeOK, Never
<1>2. CASE UNCHANGED narrativeVars
  BY <1>2 DEF narrativeVars, Past
<1>3. CASE NarrativeTicks
  BY <1>1, <1>3 DEF NarrativeTicks, Past
<1>4. CASE PurgeExpired
  BY <1>4 DEF PurgeExpired, Past
<1>5. ASSUME NEW r \in Readers, RefreshPage(r) \/ Narrated(r) \/ Notes(r) \/ Looks(r)
      PROVE  /\ lastNoted' \in {lastNoted, tick} /\ lastPaid' \in {lastPaid, tick, Never}
             /\ tick' = tick
             /\ asked' \in {asked, [asked EXCEPT ![r] = tick]}
  BY <1>5
  DEF RefreshPage, Narrated, Notes, Looks, NoData, NarrationFails,
      AskForPage, ServeCached, ServeFailure, MissCache, CallClaude
<1>6. ASSUME NEW r \in Readers, RefreshPage(r) \/ Narrated(r) \/ Notes(r) \/ Looks(r)
      PROVE  Past'
  <2>1. lastNoted' <= tick /\ lastPaid' <= tick /\ tick' = tick
    BY <1>1, <1>5, <1>6 DEF Past
  <2>2. \A s \in Readers : asked'[s] <= tick
    BY <1>1, <1>5, <1>6 DEF Past
  <2>3. QED
    BY <2>1, <2>2 DEF Past
<1>7. QED
  BY <1>2, <1>3, <1>4, <1>6, NarrativeSteps

\* Every step keeps the dates of the row.
LEMMA DatedNext ==
  NarrativeCacheTypeOK /\ Past /\ Dated /\ [NarrativeCacheNext]_narrativeVars => Dated'
<1> SUFFICES ASSUME NarrativeCacheTypeOK, Past, Dated, [NarrativeCacheNext]_narrativeVars
             PROVE  Dated'
  OBVIOUS
<1>1. /\ tick \in Int /\ lastNoted \in Int /\ asked \in [Readers -> Int] /\ RowOK
      /\ row.expires \in Int /\ SuccessTtl \in Nat
  BY TypeParts, TicksAssumption DEF NarrativeCacheTypeOK, Never
<1>2. CASE UNCHANGED <<row, lastNoted>>
  BY <1>2 DEF Dated
<1>3. ASSUME row' = NoRow PROVE Dated'
  BY <1>3 DEF Dated, NoRow
<1>4. ASSUME NEW r \in Readers, Narrated(r) PROVE Dated'
  <2>1. asked[r] # EmptyText
    BY DEF NarrativeCacheTypeOK, EmptyText
  <2>2. QED
    BY <1>4, <2>1 DEF Narrated, Dated
<1>5. ASSUME NEW r \in Readers, NEW at \in Int, NEW what, at <= tick,
             row' = Noted(at, what), lastNoted' = tick
      PROVE  Dated'
  <2>1. CASE row.exists
    <3>1. row'.text = row.text /\ row'.expires = row.expires
      BY <1>1, <1>5, <2>1 DEF Noted, RowOK
    <3>2. row.expires <= lastNoted => row.expires <= tick
      BY <1>1 DEF Past
    <3>3. QED
      BY <1>5, <2>1, <3>1, <3>2 DEF Dated
  <2>2. CASE ~row.exists
    BY <1>5, <2>2 DEF Noted, Dated
  <2>3. QED
    BY <2>1, <2>2
<1>6. ASSUME NEW r \in Readers, Notes(r) PROVE Dated'
  <2>1. asked[r] \in Int /\ asked[r] <= tick /\ tick <= tick
    BY <1>1 DEF Past
  <2>2. CASE NoData(r)
    BY <1>5, <2>1, <2>2 DEF NoData
  <2>3. CASE NarrationFails(r)
    BY <1>1, <1>5, <2>1, <2>3 DEF NarrationFails
  <2>4. QED
    BY <1>6, <2>2, <2>3 DEF Notes
<1>7. ASSUME NEW r \in Readers, Looks(r) PROVE UNCHANGED <<row, lastNoted>>
  BY <1>7 DEF Looks, AskForPage, ServeCached, ServeFailure, MissCache, CallClaude
<1>8. QED
  BY <1>2, <1>3, <1>4, <1>6, <1>7, NarrativeSteps
  DEF narrativeVars, NarrativeTicks, PurgeExpired, RefreshPage

\* A page is given a text of Claude that is less than SuccessTtl old, or the
\* empty text of a row born in a failure that was noted after the page load
\* came in (get_fresh, record_error).
THEOREM ServedTextIsGenuineHolds == NarrativeCacheSpec => ServedTextIsGenuine
<1> DEFINE Genuine ==
      \A r \in Readers : served'[r] \notin {served[r], Never} =>
         IF served'[r] = EmptyText THEN lastNoted > asked[r]
         ELSE asked[r] - served'[r] < SuccessTtl
<1>1. NarrativeCacheInit => Past /\ Dated
  BY TicksAssumption DEF NarrativeCacheInit, Past, Dated, NoRow, Never
<1>2. ASSUME NarrativeCacheTypeOK, Dated, [NarrativeCacheNext]_narrativeVars PROVE Genuine
  <2> SUFFICES ASSUME NEW r \in Readers, served'[r] \notin {served[r], Never}
               PROVE  IF served'[r] = EmptyText THEN lastNoted > asked[r]
                      ELSE asked[r] - served'[r] < SuccessTtl
    OBVIOUS
  <2>1. served \in [Readers -> Int] /\ asked \in [Readers -> Int]
        /\ row.text \in Int /\ row.expires \in Int /\ lastNoted \in Int /\ SuccessTtl \in Nat
    BY <1>2, TicksAssumption DEF NarrativeCacheTypeOK, EmptyText, Never
  <2>2. ASSUME NEW s \in Readers, ServeCached(s) PROVE s = r /\ served'[r] = row.text /\ Fresh(asked[r])
    BY <2>1, <2>2 DEF ServeCached
  <2>3. ASSUME NEW s \in Readers, Narrated(s) PROVE s = r /\ served'[r] = asked[r]
    BY <2>1, <2>3 DEF Narrated
  <2>4. \E s \in Readers : ServeCached(s) \/ Narrated(s)
    <3>1. ASSUME NEW s \in Readers, AskForPage(s) PROVE FALSE
      BY <2>1, <3>1 DEF AskForPage
    <3>2. ASSUME NEW s \in Readers, \/ RefreshPage(s) \/ Notes(s)
                                    \/ ServeFailure(s) \/ MissCache(s) \/ CallClaude(s)
          PROVE  FALSE
      BY <3>2 DEF RefreshPage, Notes, NoData, NarrationFails, ServeFailure, MissCache, CallClaude
    <3>3. QED
      BY <1>2, <3>1, <3>2, NarrativeSteps DEF Looks, narrativeVars, NarrativeTicks, PurgeExpired
  <2>5. CASE \E s \in Readers : ServeCached(s)
    <3>1. served'[r] = row.text /\ row.exists /\ row.expires > asked[r]
      BY <2>2, <2>5 DEF Fresh
    <3>2. CASE row.text = EmptyText
      BY <1>2, <2>1, <3>1, <3>2 DEF Dated
    <3>3. CASE row.text # EmptyText
      BY <1>2, <2>1, <3>1, <3>3 DEF Dated
    <3>4. QED
      BY <3>2, <3>3
  <2>6. CASE \E s \in Readers : Narrated(s)
    <3>1. served'[r] = asked[r] /\ asked[r] # EmptyText
      BY <1>2, <2>3, <2>6 DEF NarrativeCacheTypeOK, EmptyText
    <3>2. asked[r] - asked[r] < SuccessTtl
      BY <2>1, TicksAssumption
    <3>3. QED
      BY <3>1, <3>2
  <2>7. QED
    BY <2>4, <2>5, <2>6
<1>3. QED
  BY <1>1, <1>2, DatedNext, PastNext, NarrativeTypeCorrect, PTL
  DEF NarrativeCacheSpec, ServedTextIsGenuine

-----------------------------------------------------------------------------
(* Reloads.                                                                *)

\* The failure that a reload must heed is in the row, or was purged when its
\* window was over for everybody who came in later than a tick ago.
Heeded ==
  lastPaid # Never =>
    \/ row.exists /\ row.error = "failed" /\ row.errorAt = lastPaid
    \/ lastPaid < tick - NegativeTtl

\* A page load that is under way came in no longer than CallTicks ago.
Prompt == \A r \in Readers : reading[r] # "idle" => tick <= asked[r] + CallTicks

\* Every step keeps page loads prompt.
LEMMA PromptNext ==
  NarrativeCacheTypeOK /\ Prompt /\ [NarrativeCacheNext]_narrativeVars => Prompt'
<1> SUFFICES ASSUME NarrativeCacheTypeOK, Prompt, [NarrativeCacheNext]_narrativeVars
             PROVE  Prompt'
  OBVIOUS
<1>1. /\ tick \in Int /\ asked \in [Readers -> Int] /\ CallTicks \in Nat
      /\ reading \in [Readers -> {"idle", "look", "gather", "calling"}]
  BY TicksAssumption DEF NarrativeCacheTypeOK
<1>2. CASE UNCHANGED <<tick, reading, asked>>
  BY <1>2 DEF Prompt
<1>3. CASE NarrativeTicks
  BY <1>1, <1>3 DEF NarrativeTicks, Prompt
<1>4. ASSUME NEW r \in Readers, AskForPage(r) PROVE Prompt'
  BY <1>1, <1>4 DEF AskForPage, Reads, Prompt
<1>5. ASSUME NEW r \in Readers,
             \/ RefreshPage(r) \/ ServeCached(r) \/ ServeFailure(r) \/ MissCache(r)
             \/ NoData(r) \/ CallClaude(r) \/ Narrated(r) \/ NarrationFails(r)
      PROVE  Prompt'
  <2>1. UNCHANGED <<tick, asked>> /\ reading[r] # "idle"
    BY <1>5 DEF RefreshPage, ServeCached, ServeFailure, MissCache, NoData, CallClaude,
                Narrated, NarrationFails
  <2>2. \A s \in Readers : s # r => reading'[s] = reading[s]
    BY <1>1, <1>5 DEF RefreshPage, ServeCached, ServeFailure, MissCache, NoData, CallClaude,
                      Narrated, NarrationFails, Reads
  <2>3. QED
    BY <2>1, <2>2 DEF Prompt
<1>6. QED
  BY <1>2, <1>3, <1>4, <1>5, NarrativeSteps
  DEF narrativeVars, PurgeExpired, Notes, Looks

\* Every step keeps the failure that must be heeded.
LEMMA HeededNext ==
  NarrativeCacheTypeOK /\ Heeded /\ [NarrativeCacheNext]_narrativeVars => Heeded'
<1> SUFFICES ASSUME NarrativeCacheTypeOK, Heeded, [NarrativeCacheNext]_narrativeVars
             PROVE  Heeded'
  OBVIOUS
<1>1. /\ tick \in Int /\ lastPaid \in Int /\ RowOK /\ NegativeTtl \in Nat /\ row.errorAt \in Int
  BY TypeParts, TicksAssumption DEF NarrativeCacheTypeOK, Never
<1>2. CASE UNCHANGED <<tick, row, lastPaid>>
  BY <1>2 DEF Heeded
<1>3. CASE NarrativeTicks
  BY <1>1, <1>3 DEF NarrativeTicks, Heeded
<1>4. CASE PurgeExpired
  BY <1>1, <1>4 DEF PurgeExpired, Purgeable, Heeded
<1>5. ASSUME NEW r \in Readers, RefreshPage(r) \/ Narrated(r) \/ NoData(r) PROVE Heeded'
  BY <1>5 DEF RefreshPage, Narrated, NoData, Heeded
<1>6. ASSUME NEW r \in Readers, NarrationFails(r) PROVE Heeded'
  <2>1. row'.exists /\ row'.error = "failed" /\ row'.errorAt = tick
    <3>1. CASE row.exists
      BY <1>1, <1>6, <3>1 DEF NarrationFails, Noted, RowOK
    <3>2. CASE ~row.exists
      BY <1>6, <3>2 DEF NarrationFails, Noted
    <3>3. QED
      BY <3>1, <3>2
  <2>2. QED
    BY <1>6, <2>1 DEF NarrationFails, Heeded
<1>7. ASSUME NEW r \in Readers, Looks(r) PROVE UNCHANGED <<tick, row, lastPaid>>
  BY <1>7 DEF Looks, AskForPage, ServeCached, ServeFailure, MissCache, CallClaude
<1>8. QED
  BY <1>2, <1>3, <1>4, <1>5, <1>6, <1>7, NarrativeSteps DEF narrativeVars, Notes

\* A page load that is no refresh pays for no call in the NEGATIVE_TTL_SECONDS
\* after a failed one was noted, if a page load takes a tick at most and the
\* window is longer (45 s and 120 s in the code).
THEOREM ReloadsDoNotPayHolds ==
  ASSUME CallTicks <= 1, CallTicks < NegativeTtl
  PROVE  NarrativeCacheSpec => ReloadsDoNotPay
<1> DEFINE Spares ==
      \A r \in Readers :
        reading[r] = "look" /\ reading'[r] = "gather" /\ lastPaid' # Never
          => asked[r] - lastPaid >= NegativeTtl
<1>1. NarrativeCacheInit => Past /\ Heeded /\ Prompt
  BY TicksAssumption DEF NarrativeCacheInit, Past, Heeded, Prompt, Never
<1>2. ASSUME NarrativeCacheTypeOK, Past, Heeded, Prompt, [NarrativeCacheNext]_narrativeVars
      PROVE  Spares
  <2> SUFFICES ASSUME NEW r \in Readers, reading[r] = "look", reading'[r] = "gather",
                      lastPaid' # Never
               PROVE  asked[r] - lastPaid >= NegativeTtl
    OBVIOUS
  <2>1. /\ tick \in Int /\ lastPaid \in Int /\ NegativeTtl \in Nat /\ CallTicks \in Nat
        /\ asked[r] \in Int /\ row.errorAt \in Int
        /\ reading \in [Readers -> {"idle", "look", "gather", "calling"}]
    BY <1>2, TicksAssumption DEF NarrativeCacheTypeOK, Never
  <2>2. MissCache(r)
    <3>1. ASSUME NEW s \in Readers, RefreshPage(s) PROVE FALSE
      BY <3>1 DEF RefreshPage
    <3>2. ASSUME NEW s \in Readers,
                 \/ AskForPage(s) \/ ServeCached(s) \/ ServeFailure(s)
                 \/ NoData(s) \/ CallClaude(s) \/ Narrated(s) \/ NarrationFails(s)
          PROVE  FALSE
      BY <2>1, <3>2 DEF AskForPage, ServeCached, ServeFailure, NoData, CallClaude,
                        Narrated, NarrationFails, Reads
    <3>3. ASSUME NEW s \in Readers, MissCache(s) PROVE s = r
      BY <2>1, <3>3 DEF MissCache, Reads
    <3>4. QED
      BY <1>2, <3>1, <3>2, <3>3, NarrativeSteps
      DEF Looks, Notes, narrativeVars, NarrativeTicks, PurgeExpired
  <2>3. lastPaid # Never /\ ~RecentError(asked[r])
    BY <2>2 DEF MissCache
  <2>4. tick <= asked[r] + CallTicks /\ lastPaid <= tick
    BY <1>2 DEF Prompt, Past
  <2>5. CASE row.exists /\ row.error = "failed" /\ row.errorAt = lastPaid
    BY <2>1, <2>3, <2>4, <2>5 DEF RecentError
  <2>6. CASE lastPaid < tick - NegativeTtl
    BY <2>1, <2>4, <2>6
  <2>7. QED
    BY <1>2, <2>3, <2>5, <2>6 DEF Heeded
<1>3. QED
  BY <1>1, <1>2, PastNext, PromptNext, HeededNext, NarrativeTypeCorrect, PTL
  DEF NarrativeCacheSpec, ReloadsDoNotPay

-----------------------------------------------------------------------------
(* All the parts side by side, as the run checks them.                     *)

\* A part takes steps of its own or none.
LEMMA PartSteps ==
  ASSUME [Next]_vars
  PROVE  /\ [GateRunNext]_gateRunVars
         /\ [MergeAttemptsNext]_mergeAttemptsVars
         /\ [IssueRegistrationNext]_registrationVars
         /\ [BotLimiterNext]_botVars
         /\ [OtpLimiterNext]_otpVars
         /\ [NarrativeCacheNext]_narrativeVars
         /\ [DatabaseFailoverNext]_failoverVars
<1>1. CASE UNCHANGED vars
  BY <1>1 DEF vars
<1>2. CASE Next
  BY <1>2 DEF Next, Rest
<1> QED BY <1>1, <1>2

\* The run's parts behave as they do alone: putting them side by side adds
\* nothing and takes nothing from their safety.
THEOREM PartsAreThemselves ==
  Spec =>
    /\ GateRunInit /\ [][GateRunNext]_gateRunVars
    /\ MergeAttemptsInit /\ [][MergeAttemptsNext]_mergeAttemptsVars
    /\ DatabaseFailoverInit /\ [][DatabaseFailoverNext]_failoverVars
    /\ IssueRegistrationSpec /\ BotLimiterSpec /\ OtpLimiterSpec /\ NarrativeCacheSpec
<1>1. Init => /\ GateRunInit /\ MergeAttemptsInit /\ IssueRegistrationInit /\ BotLimiterInit
              /\ OtpLimiterInit /\ NarrativeCacheInit /\ DatabaseFailoverInit
  BY DEF Init
<1> QED
  BY <1>1, PartSteps, PTL
  DEF Spec, IssueRegistrationSpec, BotLimiterSpec, OtpLimiterSpec, NarrativeCacheSpec

\* Every part keeps its types, in the composition that TLC runs and for every
\* value of its constants.
THEOREM CompanionsTypeCorrect == Spec => []CompanionsTypeOK
<1>1. Init => GateTypes /\ AttemptsInv /\ RegistrationInv /\ BotInv /\ OtpInv /\ FailoverInv
  BY GateTypesInit, AttemptsInvInit, RegistrationInvInit, BotInvInit, OtpInvInit, FailoverInvInit
  DEF Init
<1>2. Spec => [](GateTypes /\ AttemptsInv /\ RegistrationInv /\ BotInv /\ OtpInv /\ FailoverInv)
  BY <1>1, PartSteps, GateTypesNext, AttemptsInvNext, RegistrationInvNext, BotInvNext, OtpInvNext,
     FailoverInvNext, PTL
  DEF Spec
<1>3. Spec => []NarrativeCacheTypeOK
  BY PartsAreThemselves, NarrativeTypeCorrect, PTL
<1>4. AttemptsInv => MergeAttemptsTypeOK
  BY DEF AttemptsInv, GithubTypes, RunTypes, RowTypes, Row, MergeAttemptsTypeOK
<1>5. RegistrationInv => IssueRegistrationTypeOK
  BY DEF RegistrationInv, RequestTypes, IssueTypes, DisplayTypes, IssueRegistrationTypeOK
<1>6. (GateTypes /\ AttemptsInv /\ RegistrationInv /\ BotInv /\ OtpInv /\ FailoverInv)
        /\ NarrativeCacheTypeOK => CompanionsTypeOK
  BY <1>4, <1>5 DEF GateTypes, BotInv, OtpInv, FailoverInv, CompanionsTypeOK
<1> QED BY <1>2, <1>3, <1>6, PTL

\* The safety invariants of the parts, together, in the same composition.
CompanionsSafe ==
  /\ OnlyToleratedGapsAct /\ OnlyUnnoticedGapsAverage /\ MergeHasConsent
  /\ CountedMergesHappened /\ RunsMergeWhatTheyScored
  /\ OrphansAreReported /\ DuplicateNamesTheTracked
  /\ BotEventsBounded /\ GuessesBounded /\ OtpKeysBounded
  /\ FallbackServesTheCaller

\* What each part is proved to keep alone holds in every behaviour of the run.
THEOREM CompanionsSafeHolds == Spec => []CompanionsSafe
<1>1. Init => GateRunInv /\ AttemptsInv /\ FailoverInv
  BY GateRunInvInit, AttemptsInvInit, FailoverInvInit DEF Init
<1>2. Spec => [](GateRunInv /\ AttemptsInv /\ FailoverInv)
  BY <1>1, PartSteps, GateRunInvNext, AttemptsInvNext, FailoverInvNext, PTL DEF Spec
<1>3. GateRunInv => OnlyToleratedGapsAct /\ OnlyUnnoticedGapsAverage /\ MergeHasConsent
  BY GateRunInvMeans
<1>4. AttemptsInv => CountedMergesHappened /\ RunsMergeWhatTheyScored
  BY DEF AttemptsInv, ScoredRuns, RunsMergeWhatTheyScored
<1>5. FailoverInv => FallbackServesTheCaller
  BY DEF FailoverInv
<1>6. Spec => [](OrphansAreReported /\ DuplicateNamesTheTracked)
  BY PartsAreThemselves, OrphansAreReportedHolds, DuplicateNamesTheTrackedHolds, PTL
<1>7. Spec => [](BotEventsBounded /\ GuessesBounded /\ OtpKeysBounded)
  BY PartsAreThemselves, BotEventsBoundedHolds, GuessesBoundedHolds, OtpKeysBoundedHolds, PTL
<1>8. (GateRunInv /\ AttemptsInv /\ FailoverInv)
        /\ (OrphansAreReported /\ DuplicateNamesTheTracked)
        /\ (BotEventsBounded /\ GuessesBounded /\ OtpKeysBounded) => CompanionsSafe
  BY <1>3, <1>4, <1>5 DEF CompanionsSafe
<1> QED BY <1>2, <1>6, <1>7, <1>8, PTL

===============================================================================
