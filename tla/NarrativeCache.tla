---------------------------- MODULE NarrativeCache ----------------------------
(***************************************************************************)
(* One row of the insight narrative cache (insight_narrative_cache_repo)   *)
(* and the page loads that share it (services/dashboard_service.py,        *)
(* services/repo_insight_service.py): a text that Claude wrote is served   *)
(* while it is fresh, and a failure is remembered for a short time so that *)
(* reloading the page does not pay for another attempt.                    *)
(***************************************************************************)
EXTENDS Integers, FiniteSets

CONSTANTS
  Readers,       \* page loads under way at a time
  SuccessTtl,    \* DEFAULT_TTL_SECONDS, as ticks
  NegativeTtl,   \* NEGATIVE_TTL_SECONDS, as ticks
  CallTicks,     \* the longest page load: the deadline of its call
  LastTick       \* bound on the clock

ASSUME TicksAssumption ==
  SuccessTtl \in Nat \ {0} /\ NegativeTtl \in Nat /\ CallTicks \in Nat /\ LastTick \in Nat

VARIABLES
  tick,
  row,           \* the cache row; "exists" tells whether there is one
  reading,       \* where each page load is
  asked,         \* when it came in
  served,        \* the text it was given, as the time it was asked for
  lastPaid,      \* history: when the failure was noted that a reload must heed
  lastNoted      \* history: when a failure or a no_data was noted last

narrativeVars == <<tick, row, reading, asked, served, lastPaid, lastNoted>>

Never == -100
\* The text of a row that only ever noted failures: response_json = {}.
EmptyText == -1
NoRow == [exists |-> FALSE, text |-> EmptyText, expires |-> 0, errorAt |-> Never, error |-> "none"]

NarrativeCacheInit ==
  /\ tick = 0
  /\ row = NoRow
  /\ reading = [r \in Readers |-> "idle"]
  /\ asked = [r \in Readers |-> 0]
  /\ served = [r \in Readers |-> Never]
  /\ lastPaid = Never
  /\ lastNoted = Never

Reads(r, at) == reading' = [reading EXCEPT ![r] = at]

AskForPage(r) ==
  /\ reading[r] = "idle"
  /\ Reads(r, "look")
  /\ asked' = [asked EXCEPT ![r] = tick]
  /\ served' = [served EXCEPT ![r] = Never]
  /\ UNCHANGED <<tick, row, lastPaid, lastNoted>>

\* invalidate(): successes and failures alike, in every language.
RefreshPage(r) ==
  /\ reading[r] = "look"
  /\ Reads(r, "gather")
  /\ row' = NoRow /\ lastPaid' = Never
  /\ UNCHANGED <<tick, asked, served, lastNoted>>

\* get_fresh, by the time the page load came in.
Fresh(at) == row.exists /\ row.expires > at
ServeCached(r) ==
  /\ reading[r] = "look" /\ Fresh(asked[r])
  /\ Reads(r, "idle")
  /\ served' = [served EXCEPT ![r] = row.text]
  /\ UNCHANGED <<tick, row, asked, lastPaid, lastNoted>>

\* recent_error: inside the window on either side; no_data blocks nothing.
RecentError(at) ==
  /\ row.exists /\ row.error = "failed"
  /\ at - row.errorAt < NegativeTtl /\ row.errorAt - at < NegativeTtl
ServeFailure(r) ==
  /\ reading[r] = "look" /\ ~Fresh(asked[r]) /\ RecentError(asked[r])
  /\ Reads(r, "idle")
  /\ UNCHANGED <<tick, row, asked, served, lastPaid, lastNoted>>

MissCache(r) ==
  /\ reading[r] = "look" /\ ~Fresh(asked[r]) /\ ~RecentError(asked[r])
  /\ Reads(r, "gather")
  /\ UNCHANGED <<tick, row, asked, served, lastPaid, lastNoted>>

\* record_error: a row of its own is born expired, a row that is there keeps
\* its text and its expiry.
SlipNoted(at, what) ==
  IF row.exists THEN [row EXCEPT !.errorAt = at, !.error = what]
  ELSE [exists |-> TRUE, text |-> EmptyText, expires |-> at + SuccessTtl, errorAt |-> at, error |-> what]
Noted(at, what) ==
  IF row.exists THEN [row EXCEPT !.errorAt = at, !.error = what]
  ELSE [exists |-> TRUE, text |-> EmptyText, expires |-> at, errorAt |-> at, error |-> what]

\* The figures: without any, no call is made and no_data is noted.
NoData(r) ==
  /\ reading[r] = "gather"
  /\ Reads(r, "idle")
  /\ row' = Noted(asked[r], "no_data") /\ lastPaid' = Never /\ lastNoted' = tick
  /\ UNCHANGED <<tick, asked, served>>

CallClaude(r) ==
  /\ reading[r] = "gather"
  /\ Reads(r, "calling")
  /\ UNCHANGED <<tick, row, asked, served, lastPaid, lastNoted>>

\* upsert, which dates the text by the start of the page load and clears the error.
Narrated(r) ==
  /\ reading[r] = "calling"
  /\ Reads(r, "idle")
  /\ row' = [exists |-> TRUE, text |-> asked[r], expires |-> asked[r] + SuccessTtl,
             errorAt |-> Never, error |-> "none"]
  /\ served' = [served EXCEPT ![r] = asked[r]]
  /\ lastPaid' = Never
  /\ UNCHANGED <<tick, asked, lastNoted>>

\* A failure is dated by the time it is noted, not by the start of the page load.
NarrationFails(r) ==
  /\ reading[r] = "calling"
  /\ Reads(r, "idle")
  /\ row' = Noted(tick, "failed") /\ lastPaid' = tick /\ lastNoted' = tick
  /\ UNCHANGED <<tick, asked, served>>

\* purge_expired: an expired row goes, unless it holds a failure that still blocks.
SlipPurgeable == row.exists /\ row.expires < tick
Purgeable == row.exists /\ row.expires < tick /\ row.errorAt < tick - NegativeTtl
PurgeExpired ==
  /\ Purgeable
  /\ row' = NoRow
  /\ UNCHANGED <<tick, reading, asked, served, lastPaid, lastNoted>>

\* A call ends by its deadline.
NarrativeTicks ==
  /\ tick < LastTick
  /\ \A r \in Readers : reading[r] # "idle" => tick < asked[r] + CallTicks
  /\ tick' = tick + 1
  /\ UNCHANGED <<row, reading, asked, served, lastPaid, lastNoted>>

ReaderStep(r) ==
  \/ AskForPage(r) \/ RefreshPage(r) \/ ServeCached(r) \/ ServeFailure(r) \/ MissCache(r)
  \/ NoData(r) \/ CallClaude(r) \/ Narrated(r) \/ NarrationFails(r)
NarrativeCacheNext == NarrativeTicks \/ PurgeExpired \/ \E r \in Readers : ReaderStep(r)
NarrativeCacheSpec == NarrativeCacheInit /\ [][NarrativeCacheNext]_narrativeVars

-----------------------------------------------------------------------------
\* The row and the page loads keep their types.
NarrativeCacheTypeOK ==
  /\ tick \in 0..LastTick
  /\ row \in [exists : BOOLEAN, text : EmptyText..LastTick, expires : 0..(LastTick + SuccessTtl),
              errorAt : 0..LastTick \cup {Never}, error : {"none", "failed", "no_data"}]
  /\ reading \in [Readers -> {"idle", "look", "gather", "calling"}]
  /\ asked \in [Readers -> 0..LastTick]
  /\ served \in [Readers -> EmptyText..LastTick \cup {Never}]
  /\ lastPaid \in 0..LastTick \cup {Never} /\ lastNoted \in 0..LastTick \cup {Never}

\* The text a page is given is less than its TTL old, and a noted failure gives
\* none: the row it leaves is expired for every page load that comes in after
\* it.  (One that was under way already still takes the row for fresh and gets
\* its empty text, since get_fresh compares with the time it came in.)
ServedTextIsGenuine ==
  [][\A r \in Readers : served'[r] \notin {served[r], Never} =>
       IF served'[r] = EmptyText THEN lastNoted > asked[r]
       ELSE asked[r] - served'[r] < SuccessTtl]_narrativeVars

\* A page load that is no refresh and comes in less than NEGATIVE_TTL_SECONDS
\* after a failed call was noted does not go on to another paid call, whatever
\* the retention sweep and the other page loads do in between; only a refresh, a
\* success or a no_data noted by a load that was already past its own look ends
\* the window sooner.  This needs loads that take at most a tick, less than the
\* window (CallTicks): one that came in just before the window's end and looked
\* only after the sweep had taken the row would pay.
ReloadsDoNotPay ==
  [][\A r \in Readers :
       reading[r] = "look" /\ reading'[r] = "gather" /\ lastPaid' # Never
         => asked[r] - lastPaid >= NegativeTtl]_narrativeVars

=============================================================================
