-------------------------- MODULE IssueRegistration --------------------------
(***************************************************************************)
(* Registering one finding of a repository as a GitHub issue, and showing  *)
(* the state of that issue (services/issue_registration_service.py).  The  *)
(* issue is created before its record is inserted and nothing is held in   *)
(* between, so two requests create two issues and only the unique key      *)
(* (repo_id, issue_key) tells them apart.  An issue has the name of the    *)
(* request that created it.                                                *)
(***************************************************************************)
EXTENDS FiniteSets

CONSTANTS
  Requests,   \* POST /register for the same key
  Pages       \* page loads that show the registered issue

\* A request is none of the answers it may be given.
ASSUME RequestsAssumption == \A r \in Requests : r \notin {"none", "registered", "error", "no issue"}

VARIABLES
  registering,   \* where each request is
  replies,       \* what its user was told: an issue means "duplicate of it"
  issues,        \* created on GitHub
  unheard,       \* those whose creation was never answered
  tracked,       \* the record: the issue it names, if there is one
  removed,       \* the repository is gone, and its records with it
  logged,        \* issues a WARNING or an ERROR names, for manual closing
  issueState,    \* of the tracked issue on GitHub
  shown,         \* the record's state, whether its TTL is over, sync_error
  syncing        \* page loads waiting for GitHub, with the answer they will get

registrationVars ==
  <<registering, replies, issues, unheard, tracked, removed, logged, issueState, shown, syncing>>
register == <<registering, replies, issues, unheard, logged>>
display == <<issueState, shown, syncing>>

NoIssue == "no issue"
NewRecord == [state |-> "open", stale |-> TRUE, failed |-> FALSE]

IssueRegistrationInit ==
  /\ registering = [r \in Requests |-> "idle"]
  /\ replies = [r \in Requests |-> "none"]
  /\ issues = {} /\ unheard = {} /\ logged = {}
  /\ tracked = NoIssue /\ removed = FALSE
  /\ issueState = "open" /\ shown = NewRecord
  /\ syncing = [p \in Pages |-> "idle"]

Reply(r, what) ==
  /\ registering' = [registering EXCEPT ![r] = "over"]
  /\ replies' = [replies EXCEPT ![r] = what]

\* The ownership check found the repository; then find_by_key.
FindByKey(r) ==
  /\ registering[r] = "idle"
  /\ \/ ~removed /\ tracked = NoIssue
        /\ registering' = [registering EXCEPT ![r] = "create"]
        /\ UNCHANGED replies
     \/ ~removed /\ tracked # NoIssue /\ Reply(r, tracked)
     \/ removed /\ Reply(r, "error")
  /\ UNCHANGED <<issues, unheard, logged, tracked, removed, display>>

\* The one await: GitHub creates, refuses, or creates and is not heard.
CreateIssue(r) ==
  /\ registering[r] = "create"
  /\ \/ /\ issues' = issues \cup {r}
        /\ registering' = [registering EXCEPT ![r] = "insert"]
        /\ UNCHANGED <<replies, unheard>>
     \/ Reply(r, "error") /\ UNCHANGED <<issues, unheard>>
     \/ Reply(r, "error") /\ issues' = issues \cup {r} /\ unheard' = unheard \cup {r}
  /\ UNCHANGED <<logged, tracked, removed, display>>

CanInsert == tracked = NoIssue /\ ~removed
InsertRecord(r) ==
  /\ registering[r] = "insert" /\ CanInsert
  /\ Reply(r, "registered")
  /\ tracked' = r /\ shown' = NewRecord /\ issueState' = "open"
  /\ UNCHANGED <<issues, unheard, logged, removed, syncing>>

\* IntegrityError: the key is taken, or the repository is gone.  The user is
\* told of the record that is there, and of the new issue when there is none.
SlipWinner(r) == r
Winner(r) == IF tracked # NoIssue THEN tracked ELSE r
SlipDuplicates(r) == {}
Duplicates(r) == IF tracked # NoIssue THEN {r} \ {tracked} ELSE {}
InsertConflicts(r) ==
  /\ registering[r] = "insert" /\ ~CanInsert
  /\ Reply(r, Winner(r))
  /\ logged' = logged \cup Duplicates(r)
  /\ UNCHANGED <<issues, unheard, tracked, removed, display>>

\* Any other database error, before or after the insert took effect.
InsertFails(r) ==
  /\ registering[r] = "insert"
  /\ Reply(r, "error")
  /\ logged' = logged \cup {r}
  /\ \/ UNCHANGED <<tracked, display>>
     \/ CanInsert /\ tracked' = r /\ shown' = NewRecord /\ issueState' = "open" /\ UNCHANGED syncing
  /\ UNCHANGED <<issues, unheard, removed>>

\* Deleting the repository deletes its records (ON DELETE CASCADE).
RemoveRepository ==
  /\ ~removed
  /\ removed' = TRUE /\ tracked' = NoIssue
  /\ UNCHANGED <<register, display>>

-----------------------------------------------------------------------------
(* _sync_state_if_stale                                                    *)

LoadPage(p) ==
  /\ syncing[p] = "idle" /\ tracked # NoIssue /\ shown.stale
  /\ \E answer \in {issueState, "failure"} : syncing' = [syncing EXCEPT ![p] = answer]
  /\ UNCHANGED <<register, tracked, removed, issueState, shown>>

\* The answer is written when it arrives, in whatever order; a record that is
\* gone makes the page fail.
SyncRecord(p) ==
  /\ syncing[p] # "idle"
  /\ syncing' = [syncing EXCEPT ![p] = "idle"]
  /\ shown' = CASE tracked = NoIssue -> shown
                [] tracked # NoIssue /\ syncing[p] = "failure" -> [shown EXCEPT !.failed = TRUE]
                [] OTHER -> [state |-> syncing[p], stale |-> FALSE, failed |-> FALSE]
  /\ UNCHANGED <<register, tracked, removed, issueState>>

TtlPasses ==
  /\ tracked # NoIssue /\ ~shown.stale
  /\ shown' = [shown EXCEPT !.stale = TRUE]
  /\ UNCHANGED <<register, tracked, removed, issueState, syncing>>

IssueChanges ==
  /\ tracked # NoIssue
  /\ \E s \in {"open", "closed"} \ {issueState} : issueState' = s
  /\ UNCHANGED <<register, tracked, removed, shown, syncing>>

RequestStep(r) ==
  FindByKey(r) \/ CreateIssue(r) \/ InsertRecord(r) \/ InsertConflicts(r) \/ InsertFails(r)
IssueRegistrationNext ==
  \/ \E r \in Requests : RequestStep(r)
  \/ RemoveRepository
  \/ \E p \in Pages : LoadPage(p) \/ SyncRecord(p)
  \/ TtlPasses \/ IssueChanges

IssueRegistrationSpec == IssueRegistrationInit /\ [][IssueRegistrationNext]_registrationVars

-----------------------------------------------------------------------------
\* The requests, the issues and the record keep their types.
IssueRegistrationTypeOK ==
  /\ registering \in [Requests -> {"idle", "create", "insert", "over"}]
  /\ replies \in [Requests -> {"none", "registered", "error"} \cup Requests]
  /\ issues \subseteq Requests /\ unheard \subseteq issues /\ logged \subseteq issues
  /\ tracked \in issues \cup {NoIssue} /\ removed \in BOOLEAN
  /\ issueState \in {"open", "closed"}
  /\ shown \in [state : {"open", "closed"}, stale : BOOLEAN, failed : BOOLEAN]
  /\ syncing \in [Pages -> {"idle", "open", "closed", "failure"}]

\* While the repository is registered, every issue that was created on GitHub
\* is on record, is about to be, or is named in a log for somebody to close;
\* only one whose creation was never answered escapes (register_issue, the
\* WARNING of the lost race and the ERROR of the failed insert).
OrphansAreReported ==
  ~removed =>
    \A i \in issues : i = tracked \/ i \in logged \cup unheard \/ registering[i] = "insert"

\* A user who is told "duplicate of n" is sent to the issue the record names,
\* also when the duplicate was only found by the insert.
DuplicateNamesTheTracked ==
  ~removed => \A r \in Requests : replies[r] \in Requests => replies[r] = tracked

=============================================================================
