------------------------------ MODULE OtpLimiter ------------------------------
(***************************************************************************)
(* /connect <otp> (notifier/telegram_commands.py): wrong codes per Telegram *)
(* user.  is_blocked, the lookup and record_failure each take the lock for *)
(* themselves, so handlers that run side by side pass the check together.  *)
(***************************************************************************)
EXTENDS SlidingWindows

CONSTANTS
  TelegramIds,
  Handlers       \* /connect commands that may be handled at a time

ASSUME HandlersAssumption == IsFiniteSet(Handlers)

VARIABLES
  otpClock,
  failures,     \* Telegram user -> stamps of wrong codes
  connecting,   \* per handler: its user and where it is
  guesses       \* history: wrong codes of a user since it was linked or dropped

otpVars == <<otpClock, failures, connecting, guesses>>
NoCommand == [user |-> "nobody", at |-> "idle"]

OtpLimiterInit ==
  /\ otpClock = 0
  /\ failures = <<>>
  /\ connecting = [h \in Handlers |-> NoCommand]
  /\ guesses = [u \in TelegramIds |-> <<>>]

Stamps(u) == IF u \in DOMAIN failures THEN failures[u] ELSE <<>>
Goes(h, u, at) == connecting' = [connecting EXCEPT ![h] = [user |-> u, at |-> at]]
Ends(h) == connecting' = [connecting EXCEPT ![h] = NoCommand]

\* is_blocked, before any lookup; a blocked command gets its answer and is done.
SlipIsBlocked(u) == CountInside(Stamps(u), otpClock) > Cap
IsBlocked(u) == CountInside(Stamps(u), otpClock) >= Cap
CheckBlocked(h, u) ==
  /\ connecting[h] = NoCommand
  /\ failures' = [k \in DOMAIN failures |-> IF k = u THEN Current(failures[k], otpClock)
                                           ELSE failures[k]]
  /\ IF IsBlocked(u) THEN UNCHANGED connecting ELSE Goes(h, u, "lookup")
  /\ UNCHANGED <<otpClock, guesses>>

\* find_by_otp.  A code of somebody else's account that is linked already
\* counts neither as a wrong code nor as a success.
LookUpOtp(h) ==
  /\ connecting[h].at = "lookup"
  /\ \/ \E next \in {"wrong", "linked"} : Goes(h, connecting[h].user, next)
     \/ Ends(h)
  /\ UNCHANGED <<otpClock, failures, guesses>>

\* _evict_stale: what is stale goes, and then those least recently active.
LastFailure(u) == failures[u][Len(failures[u])]
SlipOldest(users) == {}
Oldest(users) ==
  First(Surplus(users), users, {p \in users \X users : LastFailure(p[1]) <= LastFailure(p[2])})
StaleUsers == {u \in DOMAIN failures : IsStale(failures[u], otpClock)}
Evicted == StaleUsers \cup Oldest(DOMAIN failures \ StaleUsers)

RecordFailure(h) ==
  LET u == connecting[h].user
      dropped == IF u \notin DOMAIN failures /\ Surplus(DOMAIN failures) > 0
                 THEN Evicted ELSE {}
  IN  /\ connecting[h].at = "wrong"
      /\ failures' = With(Without(failures, dropped), u,
                          Append(Current(Stamps(u), otpClock), otpClock))
      /\ guesses' = [k \in TelegramIds |->
                       CASE k = u -> Append(Current(guesses[k], otpClock), otpClock)
                         [] k # u /\ k \in dropped -> <<>>
                         [] OTHER -> guesses[k]]
      /\ Ends(h)
      /\ UNCHANGED otpClock

\* set_telegram_user_id worked: clear().
ClearFailures(h) ==
  /\ connecting[h].at = "linked"
  /\ failures' = Without(failures, {connecting[h].user})
  /\ guesses' = [guesses EXCEPT ![connecting[h].user] = <<>>]
  /\ Ends(h)
  /\ UNCHANGED otpClock

OtpClockTicks ==
  /\ otpClock < MaxTime
  /\ otpClock' = otpClock + 1
  /\ UNCHANGED <<failures, connecting, guesses>>

OtpLimiterNext ==
  \/ OtpClockTicks
  \/ \E h \in Handlers : \/ \E u \in TelegramIds : CheckBlocked(h, u)
                         \/ LookUpOtp(h) \/ RecordFailure(h) \/ ClearFailures(h)
OtpLimiterSpec == OtpLimiterInit /\ [][OtpLimiterNext]_otpVars

-----------------------------------------------------------------------------
\* The counters and the commands keep their types.
OtpLimiterTypeOK ==
  /\ otpClock \in 0..MaxTime
  /\ DOMAIN failures \subseteq TelegramIds
  /\ \A u \in DOMAIN failures : failures[u] \in Seq(0..MaxTime)
  /\ connecting \in [Handlers -> [user : TelegramIds \cup {"nobody"},
                                  at : {"idle", "lookup", "wrong", "linked"}]]
  /\ guesses \in [TelegramIds -> Seq(0..MaxTime)]

\* A burst may overshoot OTP_MAX_FAILED_ATTEMPTS by the commands handled side by
\* side, and by no more (the accepted limit of _OtpAttemptLimiter).
GuessesBounded ==
  \A u \in TelegramIds : CountInside(guesses[u], otpClock) <= Cap + Cardinality(Handlers) - 1

\* Users who try codes do not make the table grow beyond OTP_LIMITER_MAX_KEYS.
OtpKeysBounded == Cardinality(DOMAIN failures) <= MaxKeys

=============================================================================
