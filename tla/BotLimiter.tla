------------------------------ MODULE BotLimiter ------------------------------
(***************************************************************************)
(* BotInteractionLimiter (webhook/loop_guard.py): the events of whitelisted *)
(* bots per repository and hour.  The counters live in one dict, and a new *)
(* repository may push the counter of another one out.                     *)
(***************************************************************************)
EXTENDS SlidingWindows

CONSTANT Repos

VARIABLES
  botClock,
  botEvents,    \* repository -> stamps, for the repositories that have a key
  insertedBefore,   \* pairs of those: the order of the keys of the dict
  passed        \* history: stamps let through since the key was last dropped

botVars == <<botClock, botEvents, insertedBefore, passed>>

BotLimiterInit ==
  /\ botClock = 0
  /\ botEvents = <<>>
  /\ insertedBefore = {}
  /\ passed = [r \in Repos |-> <<>>]

\* _evict_stale_keys: what is stale goes, and then the oldest keys while there
\* are too many.
StaleRepos == {r \in DOMAIN botEvents : IsStale(botEvents[r], botClock)}
EvictedRepos ==
  LET live == DOMAIN botEvents \ StaleRepos
  IN  StaleRepos \cup First(Surplus(live), live, insertedBefore)

\* allow(): under the lock, so one step.
SlipFits(n) == n <= Cap
Fits(n) == n < Cap
Allow(r) ==
  LET known == r \in DOMAIN botEvents
      dropped == IF ~known /\ Surplus(DOMAIN botEvents) > 0 THEN EvictedRepos ELSE {}
      kept == DOMAIN botEvents \ dropped
      window == IF known THEN Current(botEvents[r], botClock) ELSE <<>>
      allowed == Fits(Len(window))
      before == [k \in Repos |-> IF k \in dropped THEN <<>> ELSE passed[k]]
  IN  /\ botEvents' = With(Without(botEvents, dropped), r,
                           IF allowed THEN Append(window, botClock) ELSE window)
      /\ insertedBefore' = IF known THEN insertedBefore
                            ELSE (insertedBefore \cap (kept \X kept)) \cup (kept \X {r})
      /\ passed' = IF allowed THEN [before EXCEPT ![r] = Append(@, botClock)] ELSE before
      /\ UNCHANGED botClock

BotClockTicks ==
  /\ botClock < MaxTime
  /\ botClock' = botClock + 1
  /\ UNCHANGED <<botEvents, insertedBefore, passed>>

BotLimiterNext == BotClockTicks \/ \E r \in Repos : Allow(r)
BotLimiterSpec == BotLimiterInit /\ [][BotLimiterNext]_botVars

-----------------------------------------------------------------------------
\* The keys and their order belong together.
BotLimiterTypeOK ==
  /\ botClock \in 0..MaxTime
  /\ DOMAIN botEvents \subseteq Repos
  /\ insertedBefore \subseteq (DOMAIN botEvents) \X (DOMAIN botEvents)
  /\ \A r \in DOMAIN botEvents : botEvents[r] \in Seq(0..MaxTime)
  /\ passed \in [Repos -> Seq(0..MaxTime)]

\* In any window no more than MAX_BOT_EVENTS_PER_HOUR events of a repository
\* pass, unless its counter was dropped for another repository in between, and
\* never are more than _MAX_TRACKED_REPOS counters kept.
BotEventsBounded ==
  /\ \A r \in Repos : CountInside(passed[r], botClock) <= Cap
  /\ Cardinality(DOMAIN botEvents) <= MaxKeys

=============================================================================
