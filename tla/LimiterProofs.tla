----------------------------- MODULE LimiterProofs -----------------------------
(***************************************************************************)
(* What the two in-memory limiters promise, for every window, limit and    *)
(* number of keys: BotInteractionLimiter (webhook/loop_guard.py) and       *)
(* _OtpAttemptLimiter (notifier/telegram_commands.py).  First what both    *)
(* rest on: popleft and the choice of the keys to drop are well defined.   *)
(***************************************************************************)
EXTENDS BotLimiter, OtpLimiter, TLAPS, SequenceTheorems, FiniteSetTheorems, FiniteLemmas

\* The loop of popleft stops at the first stamp that is inside.
LEMMA ExpiredStops ==
  ASSUME NEW stamps \in Seq(Nat), NEW now \in Nat
  PROVE  /\ Expired(stamps, now) \in 0..Len(stamps)
         /\ \A i \in 1..Expired(stamps, now) : ~Inside(stamps[i], now)
         /\ Expired(stamps, now) < Len(stamps) => Inside(stamps[Expired(stamps, now) + 1], now)
<1> DEFINE inside == {i \in 1..Len(stamps) : Inside(stamps[i], now)}
           Stops(n) == /\ \A i \in 1..n : ~Inside(stamps[i], now)
                       /\ n < Len(stamps) => Inside(stamps[n + 1], now)
<1>0. Len(stamps) \in Nat
  OBVIOUS
<1>1. \E n \in 0..Len(stamps) : Stops(n)
  <2>1. CASE inside = {}
    <3>1. Stops(Len(stamps))
      BY <2>1, <1>0
    <3> QED BY <3>1, <1>0
  <2>2. ASSUME inside # {} PROVE \E n \in 0..Len(stamps) : Stops(n)
    <3>1. inside \in SUBSET Nat
      BY <1>0
    <3>2. PICK m \in inside : \A n \in inside : m <= n
      BY <3>1, <2>2, LeastNatural
    <3>3. m \in 1..Len(stamps) /\ Inside(stamps[m], now)
      BY <3>2
    <3>4. \A i \in 1..(m - 1) : i \in 1..Len(stamps) /\ i < m
      BY <3>3, <1>0
    <3>5. \A i \in 1..(m - 1) : ~Inside(stamps[i], now)
      BY <3>2, <3>3, <3>4, <1>0
    <3>6. Stops(m - 1) /\ m - 1 \in 0..Len(stamps)
      BY <3>3, <3>5, <1>0
    <3> QED BY <3>6
  <2> QED BY <2>1, <2>2
<1> HIDE DEF inside
<1>2. Expired(stamps, now) = CHOOSE n \in 0..Len(stamps) : Stops(n)
  BY DEF Expired
<1>3. Expired(stamps, now) \in 0..Len(stamps) /\ Stops(Expired(stamps, now))
  BY <1>1, <1>2
<1> QED BY <1>3

\* There is only one place where it stops.
LEMMA ExpiredIsUnique ==
  ASSUME NEW stamps \in Seq(Nat), NEW now \in Nat, NEW n \in 0..Len(stamps),
         \A i \in 1..n : ~Inside(stamps[i], now),
         n < Len(stamps) => Inside(stamps[n + 1], now)
  PROVE  n = Expired(stamps, now)
<1> DEFINE e == Expired(stamps, now)
<1>1. /\ e \in 0..Len(stamps)
      /\ \A i \in 1..e : ~Inside(stamps[i], now)
      /\ e < Len(stamps) => Inside(stamps[e + 1], now)
  BY ExpiredStops
<1>2. Len(stamps) \in Nat
  OBVIOUS
<1> HIDE DEF e
<1>3. ~(n < e)
  <2>1. n < e => n + 1 \in 1..e /\ n < Len(stamps)
    BY <1>1, <1>2
  <2> QED BY <2>1, <1>1
<1>4. ~(e < n)
  <2>1. e < n => e + 1 \in 1..n /\ e < Len(stamps)
    BY <1>1, <1>2
  <2> QED BY <2>1, <1>1
<1>5. n = e
  BY <1>1, <1>2, <1>3, <1>4
<1> QED BY <1>5 DEF e

\* What is left of a deque.
LEMMA CurrentIsTail ==
  ASSUME NEW stamps \in Seq(Nat), NEW now \in Nat
  PROVE  /\ Current(stamps, now) \in Seq(Nat)
         /\ Len(Current(stamps, now)) = Len(stamps) - Expired(stamps, now)
         /\ \A i \in 1..Len(Current(stamps, now)) :
              Current(stamps, now)[i] = stamps[Expired(stamps, now) + i]
<1> DEFINE e == Expired(stamps, now)
<1>1. e \in 0..Len(stamps) /\ Len(stamps) \in Nat
  BY ExpiredStops
<1> HIDE DEF e
<1>2. \A i \in (e + 1)..Len(stamps) : stamps[i] \in Nat
  BY <1>1, ElementOfSeq
<1>3. e + 1 \in Int /\ Len(stamps) \in Int
  BY <1>1
<1>4. /\ SubSeq(stamps, e + 1, Len(stamps)) \in Seq(Nat)
      /\ Len(SubSeq(stamps, e + 1, Len(stamps)))
           = IF e + 1 <= Len(stamps) THEN Len(stamps) - (e + 1) + 1 ELSE 0
      /\ \A i \in 1..(Len(stamps) - (e + 1) + 1) :
           SubSeq(stamps, e + 1, Len(stamps))[i] = stamps[e + 1 + i - 1]
  BY <1>2, <1>3, SubSeqProperties
<1>5. Current(stamps, now) = SubSeq(stamps, e + 1, Len(stamps))
  BY DEF Current, e
<1>6. Len(Current(stamps, now)) = Len(stamps) - e
  BY <1>1, <1>4, <1>5
<1>7. \A i \in 1..Len(Current(stamps, now)) : Current(stamps, now)[i] = stamps[e + i]
  BY <1>1, <1>4, <1>5, <1>6
<1> QED BY <1>4, <1>5, <1>6, <1>7 DEF e

\* Time only takes stamps out of the window: a count never grows on its own.
LEMMA CountFalls ==
  ASSUME NEW stamps \in Seq(Nat), NEW now \in Nat
  PROVE  CountInside(stamps, now + 1) <= CountInside(stamps, now)
<1> DEFINE e == Expired(stamps, now)
           l == Expired(stamps, now + 1)
<1>a. Len(stamps) \in Nat /\ now + 1 \in Nat
  OBVIOUS
<1>b. e \in 0..Len(stamps) /\ \A i \in 1..e : ~Inside(stamps[i], now)
  BY ExpiredStops
<1>c. l \in 0..Len(stamps) /\ (l < Len(stamps) => Inside(stamps[l + 1], now + 1))
  BY <1>a, ExpiredStops
<1>d. CountInside(stamps, now) = Len(stamps) - e
  BY CurrentIsTail DEF CountInside
<1>e. CountInside(stamps, now + 1) = Len(stamps) - l
  BY <1>a, CurrentIsTail DEF CountInside
<1>1. /\ e \in 0..Len(stamps) /\ l \in 0..Len(stamps) /\ Len(stamps) \in Nat
      /\ \A i \in 1..e : ~Inside(stamps[i], now)
      /\ l < Len(stamps) => Inside(stamps[l + 1], now + 1)
  BY <1>a, <1>b, <1>c
<1>2. CountInside(stamps, now) = Len(stamps) - e /\ CountInside(stamps, now + 1) = Len(stamps) - l
  BY <1>d, <1>e
<1> HIDE DEF e, l
<1>3. ~(l < e)
  <2>1. SUFFICES ASSUME l < e PROVE FALSE
    OBVIOUS
  <2>2. l + 1 \in 1..e /\ l + 1 \in 1..Len(stamps) /\ l < Len(stamps)
    BY <2>1, <1>1
  <2>3. stamps[l + 1] \in Nat
    BY <2>2, ElementOfSeq
  <2>4. ~Inside(stamps[l + 1], now) /\ Inside(stamps[l + 1], now + 1)
    BY <2>2, <1>1
  <2> QED BY <2>3, <2>4, LimitsAssumption DEF Inside
<1> QED BY <1>1, <1>2, <1>3

\* A deque holds everything of a history that is still inside.
Covers(stamps, history, now) ==
  \E k \in 0..Len(history) : /\ Len(stamps) = Len(history) - k
                             /\ \A i \in 1..Len(stamps) : stamps[i] = history[k + i]
                             /\ \A i \in 1..k : ~Inside(history[i], now)

\* Then both have the same stamps inside.
LEMMA CoversCounts ==
  ASSUME NEW stamps \in Seq(Nat), NEW history \in Seq(Nat), NEW now \in Nat,
         Covers(stamps, history, now)
  PROVE  /\ Len(Current(stamps, now)) = Len(Current(history, now))
         /\ \A i \in 1..Len(Current(stamps, now)) :
              Current(stamps, now)[i] = Current(history, now)[i]
         /\ CountInside(history, now) = CountInside(stamps, now)
         /\ CountInside(history, now) <= Len(stamps)
<1>1. PICK k \in 0..Len(history) : /\ Len(stamps) = Len(history) - k
                                   /\ \A i \in 1..Len(stamps) : stamps[i] = history[k + i]
                                   /\ \A i \in 1..k : ~Inside(history[i], now)
  BY DEF Covers
<1> DEFINE e == Expired(stamps, now)
<1>a. Len(stamps) \in Nat /\ Len(history) \in Nat
  OBVIOUS
<1>b. /\ e \in 0..Len(stamps)
      /\ \A i \in 1..e : ~Inside(stamps[i], now)
      /\ e < Len(stamps) => Inside(stamps[e + 1], now)
  BY ExpiredStops
<1>2. /\ e \in 0..Len(stamps) /\ Len(stamps) \in Nat /\ Len(history) \in Nat
      /\ \A i \in 1..e : ~Inside(stamps[i], now)
      /\ e < Len(stamps) => Inside(stamps[e + 1], now)
  BY <1>a, <1>b
<1>3. /\ Len(Current(stamps, now)) = Len(stamps) - e
      /\ \A i \in 1..Len(Current(stamps, now)) : Current(stamps, now)[i] = stamps[e + i]
  BY CurrentIsTail
<1> HIDE DEF e
<1>4. k + e \in 0..Len(history)
  BY <1>1, <1>2
<1>5. \A i \in 1..(k + e) : ~Inside(history[i], now)
  <2>1. ASSUME NEW i \in 1..(k + e), i > k PROVE ~Inside(history[i], now)
    <3>1. i - k \in 1..e /\ i - k \in 1..Len(stamps) /\ k + (i - k) = i
      BY <2>1, <1>1, <1>2
    <3>2. stamps[i - k] = history[i]
      BY <3>1, <1>1
    <3> QED BY <3>1, <3>2, <1>2
  <2>2. ASSUME NEW i \in 1..(k + e), ~(i > k) PROVE i \in 1..k
    BY <2>2, <1>1, <1>2
  <2> QED BY <2>1, <2>2, <1>1
<1>6. k + e < Len(history) => Inside(history[(k + e) + 1], now)
  <2>1. SUFFICES ASSUME k + e < Len(history) PROVE Inside(history[(k + e) + 1], now)
    OBVIOUS
  <2>2. e < Len(stamps) /\ e + 1 \in 1..Len(stamps) /\ k + (e + 1) = (k + e) + 1
    BY <2>1, <1>1, <1>2
  <2> QED BY <2>2, <1>1, <1>2
<1>7. k + e = Expired(history, now)
  BY <1>4, <1>5, <1>6, ExpiredIsUnique
<1>8. /\ Len(Current(history, now)) = Len(history) - (k + e)
      /\ \A i \in 1..Len(Current(history, now)) : Current(history, now)[i] = history[(k + e) + i]
  BY <1>7, CurrentIsTail
<1>9. Len(Current(stamps, now)) = Len(Current(history, now))
  BY <1>1, <1>2, <1>3, <1>8
<1>10. ASSUME NEW i \in 1..Len(Current(stamps, now))
       PROVE  Current(stamps, now)[i] = Current(history, now)[i]
  <2>1. e + i \in 1..Len(stamps) /\ k + (e + i) = (k + e) + i
    BY <1>1, <1>2, <1>3
  <2>2. stamps[e + i] = history[(k + e) + i]
    BY <2>1, <1>1
  <2> QED BY <2>2, <1>3, <1>8, <1>9
<1> QED BY <1>1, <1>2, <1>3, <1>9, <1>10 DEF CountInside

\* popleft drops nothing that is inside.
LEMMA CoversPruned ==
  ASSUME NEW stamps \in Seq(Nat), NEW history \in Seq(Nat), NEW now \in Nat,
         Covers(stamps, history, now)
  PROVE  Covers(Current(stamps, now), history, now)
<1> DEFINE e == Expired(history, now)
<1>1. e \in 0..Len(history) /\ \A i \in 1..e : ~Inside(history[i], now)
  BY ExpiredStops
<1>2. /\ Len(Current(history, now)) = Len(history) - e
      /\ \A i \in 1..Len(Current(history, now)) : Current(history, now)[i] = history[e + i]
  BY CurrentIsTail
<1>3. /\ Len(Current(stamps, now)) = Len(Current(history, now))
      /\ \A i \in 1..Len(Current(stamps, now)) :
           Current(stamps, now)[i] = Current(history, now)[i]
  BY CoversCounts
<1> HIDE DEF e
<1>4. Len(Current(stamps, now)) = Len(history) - e
  BY <1>2, <1>3
<1>5. \A i \in 1..Len(Current(stamps, now)) : Current(stamps, now)[i] = history[e + i]
  BY <1>2, <1>3
<1> QED BY <1>1, <1>4, <1>5 DEF Covers

\* Both may take the same new stamp, and so may their tails.
LEMMA CoversAppended ==
  ASSUME NEW stamps \in Seq(Nat), NEW history \in Seq(Nat), NEW now \in Nat,
         Covers(stamps, history, now)
  PROVE  Covers(Append(stamps, now), Append(history, now), now)
<1>1. PICK k \in 0..Len(history) : /\ Len(stamps) = Len(history) - k
                                   /\ \A i \in 1..Len(stamps) : stamps[i] = history[k + i]
                                   /\ \A i \in 1..k : ~Inside(history[i], now)
  BY DEF Covers
<1>2. Len(stamps) \in Nat /\ Len(history) \in Nat
  OBVIOUS
<1>3. /\ Len(Append(stamps, now)) = Len(stamps) + 1
      /\ \A i \in 1..Len(stamps) : Append(stamps, now)[i] = stamps[i]
      /\ Append(stamps, now)[Len(stamps) + 1] = now
  BY AppendProperties
<1>4. /\ Len(Append(history, now)) = Len(history) + 1
      /\ \A i \in 1..Len(history) : Append(history, now)[i] = history[i]
      /\ Append(history, now)[Len(history) + 1] = now
  BY AppendProperties
<1>5. k \in 0..Len(Append(history, now))
  BY <1>1, <1>2, <1>4
<1>6. Len(Append(stamps, now)) = Len(Append(history, now)) - k
  BY <1>1, <1>2, <1>3, <1>4
<1>7. ASSUME NEW i \in 1..Len(Append(stamps, now))
      PROVE  Append(stamps, now)[i] = Append(history, now)[k + i]
  <2>1. CASE i = Len(stamps) + 1
    BY <2>1, <1>1, <1>2, <1>3, <1>4
  <2>2. ASSUME i # Len(stamps) + 1 PROVE Append(stamps, now)[i] = Append(history, now)[k + i]
    <3>0. i \in 1..(Len(stamps) + 1)
      BY <1>3
    <3>1. i \in 1..Len(stamps) /\ k + i \in 1..Len(history)
      BY <3>0, <2>2, <1>1, <1>2
    <3> QED BY <3>1, <1>1, <1>3, <1>4
  <2> QED BY <2>1, <2>2
<1>8. ASSUME NEW i \in 1..k PROVE ~Inside(Append(history, now)[i], now)
  <2>1. i \in 1..Len(history)
    BY <1>1, <1>2
  <2> QED BY <2>1, <1>1, <1>4
<1> QED BY <1>5, <1>6, <1>7, <1>8 DEF Covers

\* What has left the window stays outside.
LEMMA CoversLater ==
  ASSUME NEW stamps, NEW history \in Seq(Nat), NEW now \in Nat,
         Covers(stamps, history, now)
  PROVE  Covers(stamps, history, now + 1)
<1>1. PICK k \in 0..Len(history) : /\ Len(stamps) = Len(history) - k
                                   /\ \A i \in 1..Len(stamps) : stamps[i] = history[k + i]
                                   /\ \A i \in 1..k : ~Inside(history[i], now)
  BY DEF Covers
<1>2. ASSUME NEW i \in 1..k PROVE ~Inside(history[i], now + 1)
  <2>1. i \in 1..Len(history)
    BY <1>1
  <2>2. history[i] \in Nat /\ ~Inside(history[i], now)
    BY <2>1, <1>1, ElementOfSeq
  <2> QED BY <2>2, LimitsAssumption DEF Inside
<1> QED BY <1>1, <1>2 DEF Covers

\* One more stamp counts for one more, and an empty history for nothing.
LEMMA CountAppended ==
  ASSUME NEW stamps \in Seq(Nat), NEW now \in Nat
  PROVE  /\ CountInside(Append(Current(stamps, now), now), now) <= CountInside(stamps, now) + 1
         /\ Append(Current(stamps, now), now) \in Seq(Nat)
         /\ CountInside(stamps, now) \in Nat
<1> DEFINE left == Current(stamps, now)
           more == Append(left, now)
<1>1. left \in Seq(Nat) /\ CountInside(stamps, now) = Len(left)
  BY CurrentIsTail DEF CountInside
<1> HIDE DEF left
<1>2. more \in Seq(Nat) /\ Len(more) = Len(left) + 1 /\ Len(left) \in Nat
  BY <1>1, AppendProperties
<1> HIDE DEF more
<1>3. CountInside(more, now) = Len(more) - Expired(more, now) /\ Expired(more, now) \in 0..Len(more)
  BY <1>2, CurrentIsTail, ExpiredStops DEF CountInside
<1>4. CountInside(more, now) <= CountInside(stamps, now) + 1 /\ more \in Seq(Nat) 
      /\ CountInside(stamps, now) \in Nat
  BY <1>1, <1>2, <1>3
<1> QED BY <1>4 DEF more, left

\* Nothing is inside a window that holds nothing.
LEMMA NothingCounts ==
  ASSUME NEW now \in Nat
  PROVE  CountInside(<<>>, now) = 0 /\ Current(<<>>, now) = <<>> /\ Covers(<<>>, <<>>, now)
<1> DEFINE nothing == <<>>
<1>1. nothing \in Seq(Nat) /\ Len(nothing) = 0
  OBVIOUS
<1>0. \A s \in Seq(Nat) : Len(s) = 0 => s = nothing
  OBVIOUS
<1> HIDE DEF nothing
<1>2. Expired(nothing, now) \in 0..Len(nothing)
  BY <1>1, ExpiredStops
<1>a. Expired(nothing, now) = 0
  BY <1>1, <1>2
<1>b. /\ Current(nothing, now) \in Seq(Nat)
      /\ Len(Current(nothing, now)) = Len(nothing) - Expired(nothing, now)
  BY <1>1, CurrentIsTail
<1>3. Len(Current(nothing, now)) = 0 /\ Current(nothing, now) \in Seq(Nat)
  BY <1>1, <1>a, <1>b
<1>4. Current(nothing, now) = nothing
  BY <1>0, <1>3
<1>c. /\ 0 \in 0..Len(nothing) /\ Len(nothing) = Len(nothing) - 0
      /\ \A i \in 1..Len(nothing) : nothing[i] = nothing[0 + i]
      /\ \A i \in 1..0 : ~Inside(nothing[i], now)
  BY <1>1
<1>5. Covers(nothing, nothing, now)
  BY <1>c DEF Covers
<1>6. CountInside(nothing, now) = 0
  BY <1>3 DEF CountInside
<1> QED BY <1>4, <1>5, <1>6 DEF nothing

-----------------------------------------------------------------------------
(* The keys to drop                                                        *)

\* Dropping the surplus makes room for one key.
LEMMA SurplusMakesRoom ==
  ASSUME NEW keys, IsFiniteSet(keys)
  PROVE  /\ Surplus(keys) \in 0..Cardinality(keys)
         /\ \A some \in SUBSET keys :
              Cardinality(some) = Surplus(keys) => Cardinality(keys \ some) < MaxKeys
<1>1. Cardinality(keys) \in Nat
  BY FS_CardinalityType
<1>2. Surplus(keys) \in 0..Cardinality(keys) /\ Cardinality(keys) - Surplus(keys) < MaxKeys
  BY <1>1, LimitsAssumption DEF Surplus
<1>3. ASSUME NEW some \in SUBSET keys, Cardinality(some) = Surplus(keys)
      PROVE  Cardinality(keys \ some) = Cardinality(keys) - Surplus(keys)
  <2>1. keys \cap some = some
    OBVIOUS
  <2>2. Cardinality(keys \ some) = Cardinality(keys) - Cardinality(keys \cap some)
    BY FS_Difference
  <2> QED BY <2>1, <2>2, <1>3
<1> QED BY <1>2, <1>3

\* A pruned deque has the stamps of the one before.
LEMMA CurrentTyped ==
  ASSUME NEW stamps \in Seq(0..MaxTime), NEW now \in Nat
  PROVE  Current(stamps, now) \in Seq(0..MaxTime) /\ stamps \in Seq(Nat)
<1> DEFINE e == Expired(stamps, now)
           times == 0..MaxTime
<1>1. stamps \in Seq(Nat)
  BY SeqMonotonic, LimitsAssumption
<1>2. e \in 0..Len(stamps) /\ Len(stamps) \in Nat
  BY <1>1, ExpiredStops
<1>a. stamps \in Seq(times)
  OBVIOUS
<1> HIDE DEF e, times
<1>b. \A i \in (e + 1)..Len(stamps) : i \in 1..Len(stamps)
  BY <1>2
<1>3. \A i \in (e + 1)..Len(stamps) : stamps[i] \in times
  BY <1>a, <1>b, ElementOfSeq
<1>4. SubSeq(stamps, e + 1, Len(stamps)) \in Seq(times)
  BY <1>2, <1>3, SubSeqProperties
<1> QED BY <1>1, <1>4 DEF Current, e, times

\* Times of the model are naturals, and so are lists of them.
LEMMA TimesAreNaturals == \A s \in Seq(0..MaxTime) : s \in Seq(Nat)
BY SeqMonotonic, LimitsAssumption

-----------------------------------------------------------------------------
(* BotInteractionLimiter                                                   *)

BotRepos == DOMAIN botEvents

\* The dict keeps its keys in one order.
BotsOrdered ==
  /\ \A a \in BotRepos : <<a, a>> \notin insertedBefore
  /\ \A a, b, c \in BotRepos :
       <<a, b>> \in insertedBefore /\ <<b, c>> \in insertedBefore => <<a, c>> \in insertedBefore
  /\ \A a, b \in BotRepos :
       a # b => <<a, b>> \in insertedBefore \/ <<b, a>> \in insertedBefore

\* There are never more keys than may be tracked.
BotsKept == IsFiniteSet(BotRepos) /\ Cardinality(BotRepos) <= MaxKeys

\* A deque holds what was let through and still counts, and fits the limit.
BotsCovered ==
  /\ \A r \in BotRepos : Covers(botEvents[r], passed[r], botClock) /\ Len(botEvents[r]) <= Cap
  /\ \A r \in Repos \ BotRepos : passed[r] = <<>>

BotInv == BotLimiterTypeOK /\ BotsOrdered /\ BotsKept /\ BotsCovered

\* The invariant of BotInteractionLimiter holds at first.
LEMMA BotInvInit == BotLimiterInit => BotInv
<1> SUFFICES ASSUME BotLimiterInit PROVE BotInv
  OBVIOUS
<1>1. BotRepos = {}
  BY DEF BotLimiterInit, BotRepos
<1>2. botClock \in 0..MaxTime /\ passed \in [Repos -> Seq(0..MaxTime)]
  BY LimitsAssumption DEF BotLimiterInit
<1>3. BotLimiterTypeOK
  BY <1>1, <1>2 DEF BotLimiterTypeOK, BotRepos, BotLimiterInit
<1>4. BotsOrdered
  BY <1>1 DEF BotsOrdered
<1>5. BotsKept
  BY <1>1, FS_EmptySet, LimitsAssumption DEF BotsKept
<1>6. BotsCovered
  BY <1>1 DEF BotsCovered, BotLimiterInit
<1> QED BY <1>3, <1>4, <1>5, <1>6 DEF BotInv

\* _evict_stale_keys leaves room for one more key.
LEMMA EvictionMakesRoom ==
  ASSUME BotInv
  PROVE  EvictedRepos \subseteq BotRepos /\ Cardinality(BotRepos \ EvictedRepos) < MaxKeys
<1> DEFINE live == BotRepos \ StaleRepos
           Oldest1(some) == /\ Cardinality(some) = Surplus(live)
                            /\ \A a \in some, b \in live \ some : <<a, b>> \in insertedBefore
           oldest == CHOOSE some \in SUBSET live : Oldest1(some)
<1>1. IsFiniteSet(live) /\ live \subseteq BotRepos
  BY FS_Subset DEF BotInv, BotsKept
<1>2. Surplus(live) \in 0..Cardinality(live)
  BY <1>1, SurplusMakesRoom
<1>3. \E some \in SUBSET live : Oldest1(some)
  <2>1. /\ \A a \in live : <<a, a>> \notin insertedBefore
        /\ \A a, b, c \in live :
             <<a, b>> \in insertedBefore /\ <<b, c>> \in insertedBefore => <<a, c>> \in insertedBefore
        /\ \A a, b \in live :
             a # b => <<a, b>> \in insertedBefore \/ <<b, a>> \in insertedBefore
    BY <1>1 DEF BotInv, BotsOrdered
  <2> HIDE DEF live
  <2> QED BY <1>1, <1>2, <2>1, FirstOfOrdered
<1>4. oldest \in SUBSET live /\ Cardinality(oldest) = Surplus(live)
  BY <1>3
<1>5. Cardinality(live \ oldest) < MaxKeys
  BY <1>1, <1>4, SurplusMakesRoom
<1>6. EvictedRepos = StaleRepos \cup oldest
  BY DEF EvictedRepos, First, BotRepos
<1>7. StaleRepos \subseteq BotRepos
  BY DEF StaleRepos, BotRepos
<1> HIDE DEF oldest
<1>8. BotRepos \ EvictedRepos = live \ oldest
  BY <1>6
<1> QED BY <1>1, <1>4, <1>5, <1>6, <1>7, <1>8

\* What allow() does, key by key.
LEMMA AllowByKeys ==
  ASSUME BotInv, NEW r \in Repos, Allow(r)
  PROVE  \E kept \in SUBSET BotRepos :
           /\ r \in BotRepos => kept = BotRepos /\ insertedBefore' = insertedBefore
           /\ r \notin BotRepos =>
                insertedBefore' = (insertedBefore \cap (kept \X kept)) \cup (kept \X {r})
           /\ IsFiniteSet(kept) /\ Cardinality(kept \cup {r}) <= MaxKeys
           /\ BotRepos' = kept \cup {r}
           /\ \A k \in kept \ {r} : botEvents'[k] = botEvents[k] /\ passed'[k] = passed[k]
           /\ \A k \in Repos \ (kept \cup {r}) : passed'[k] = <<>>
           /\ passed' \in [Repos -> Seq(0..MaxTime)]
           /\ LET window == IF r \in BotRepos THEN Current(botEvents[r], botClock) ELSE <<>>
              IN  \/ /\ Len(window) < Cap
                     /\ botEvents'[r] = Append(window, botClock)
                     /\ passed'[r] = Append(passed[r], botClock)
                  \/ /\ Len(window) >= Cap
                     /\ botEvents'[r] = window
                     /\ passed'[r] = passed[r]
<1> DEFINE known == r \in BotRepos
           dropped == IF ~known /\ Surplus(BotRepos) > 0 THEN EvictedRepos ELSE {}
           kept == BotRepos \ dropped
           window == IF known THEN Current(botEvents[r], botClock) ELSE <<>>
           before == [k \in Repos |-> IF k \in dropped THEN <<>> ELSE passed[k]]
<1>1. /\ botEvents' = With(Without(botEvents, dropped), r,
                           IF Fits(Len(window)) THEN Append(window, botClock) ELSE window)
      /\ insertedBefore' = IF known THEN insertedBefore
                            ELSE (insertedBefore \cap (kept \X kept)) \cup (kept \X {r})
      /\ passed' = IF Fits(Len(window)) THEN [before EXCEPT ![r] = Append(@, botClock)] ELSE before
  BY DEF Allow, BotRepos
<1>2. dropped \subseteq BotRepos /\ r \notin dropped
  BY EvictionMakesRoom
<1>3. IsFiniteSet(BotRepos) /\ Cardinality(BotRepos) <= MaxKeys /\ Cardinality(BotRepos) \in Nat
  BY FS_CardinalityType DEF BotInv, BotsKept
<1>4. IsFiniteSet(kept) /\ Cardinality(kept) \in Nat
  BY <1>3, FS_Subset, FS_CardinalityType
<1>5. Cardinality(kept \cup {r}) <= MaxKeys
  <2>1. CASE known
    <3>1. kept = BotRepos /\ BotRepos \cup {r} = BotRepos
      BY <2>1
    <3> QED BY <3>1, <1>3
  <2>2. ASSUME ~known PROVE Cardinality(kept \cup {r}) <= MaxKeys
    <3>1. Cardinality(kept) < MaxKeys
      <4>1. CASE Surplus(BotRepos) > 0
        <5>1. kept = BotRepos \ EvictedRepos
          BY <2>2, <4>1
        <5> QED BY <5>1, EvictionMakesRoom
      <4>2. ASSUME ~(Surplus(BotRepos) > 0) PROVE Cardinality(kept) < MaxKeys
        <5>1. kept = BotRepos
          BY <4>2
        <5>2. Cardinality(BotRepos) < MaxKeys
          BY <4>2, <1>3, LimitsAssumption DEF Surplus
        <5> QED BY <5>1, <5>2
      <4> QED BY <4>1, <4>2
    <3>2. Cardinality(kept \cup {r}) = Cardinality(kept) + 1
      BY <2>2, <1>4, FS_AddElement
    <3> QED BY <3>1, <3>2, <1>4, LimitsAssumption
  <2> QED BY <2>1, <2>2
<1> HIDE DEF dropped
<1>6. /\ BotRepos' = kept \cup {r}
      /\ \A k \in kept \ {r} : botEvents'[k] = botEvents[k]
      /\ botEvents'[r] = IF Fits(Len(window)) THEN Append(window, botClock) ELSE window
  BY <1>1 DEF With, Without, BotRepos
<1>7. Seq(0..MaxTime) # {} /\ passed \in [Repos -> Seq(0..MaxTime)] /\ botClock \in 0..MaxTime
  BY DEF BotInv, BotLimiterTypeOK
<1>8. before \in [Repos -> Seq(0..MaxTime)] /\ before[r] = passed[r]
  <2>1. <<>> \in Seq(0..MaxTime)
    OBVIOUS
  <2>2. \A k \in Repos : (IF k \in dropped THEN <<>> ELSE passed[k]) \in Seq(0..MaxTime)
    BY <2>1, <1>7
  <2> QED BY <1>2, <2>2
<1>9. passed' \in [Repos -> Seq(0..MaxTime)]
  BY <1>1, <1>7, <1>8, AppendProperties
<1>10. \A k \in Repos \ {r} : passed'[k] = before[k]
  BY <1>1, <1>8
<1>11. passed'[r] = IF Fits(Len(window)) THEN Append(passed[r], botClock) ELSE passed[r]
  BY <1>1, <1>8
<1>12. BotRepos \subseteq Repos /\ \A k \in Repos \ BotRepos : passed[k] = <<>>
  BY DEF BotInv, BotLimiterTypeOK, BotsCovered, BotRepos
<1>13. \A k \in kept \ {r} : passed'[k] = passed[k]
  BY <1>10, <1>12
<1>14. \A k \in Repos \ (kept \cup {r}) : passed'[k] = <<>>
  BY <1>10, <1>12
<1>15. window \in Seq(0..MaxTime)
  <2>1. CASE known
    <3>1. botEvents[r] \in Seq(0..MaxTime) /\ botClock \in Nat
      BY <2>1, <1>7, LimitsAssumption DEF BotInv, BotLimiterTypeOK, BotRepos
    <3> QED BY <2>1, <3>1, CurrentTyped
  <2>2. CASE ~known
    BY <2>2
  <2> QED BY <2>1, <2>2
<1>16. Fits(Len(window)) <=> Len(window) < Cap
  BY DEF Fits
<1>17. Len(window) \in Nat /\ Cap \in Nat
  BY <1>15, LimitsAssumption
<1>18. known => kept = BotRepos
  BY DEF dropped
<1>19. kept \in SUBSET BotRepos
  OBVIOUS
<1> HIDE DEF kept, before, window
<1>20. \/ /\ Len(window) < Cap
          /\ botEvents'[r] = Append(window, botClock)
          /\ passed'[r] = Append(passed[r], botClock)
       \/ /\ Len(window) >= Cap
          /\ botEvents'[r] = window
          /\ passed'[r] = passed[r]
  BY <1>6, <1>11, <1>16, <1>17
<1> WITNESS kept \in SUBSET BotRepos
<1> QED BY <1>1, <1>4, <1>5, <1>6, <1>9, <1>13, <1>14, <1>18, <1>20 DEF window

\* allow keeps it: what it prunes, drops and evicts no longer counts.
LEMMA AllowKeeps ==
  ASSUME BotInv, NEW r \in Repos, Allow(r)
  PROVE  BotInv'
<1> DEFINE window == IF r \in BotRepos THEN Current(botEvents[r], botClock) ELSE <<>>
<1>1. PICK kept \in SUBSET BotRepos :
           /\ r \in BotRepos => kept = BotRepos /\ insertedBefore' = insertedBefore
           /\ r \notin BotRepos =>
                insertedBefore' = (insertedBefore \cap (kept \X kept)) \cup (kept \X {r})
           /\ IsFiniteSet(kept) /\ Cardinality(kept \cup {r}) <= MaxKeys
           /\ BotRepos' = kept \cup {r}
           /\ \A k \in kept \ {r} : botEvents'[k] = botEvents[k] /\ passed'[k] = passed[k]
           /\ \A k \in Repos \ (kept \cup {r}) : passed'[k] = <<>>
           /\ passed' \in [Repos -> Seq(0..MaxTime)]
           /\ \/ /\ Len(window) < Cap
                 /\ botEvents'[r] = Append(window, botClock)
                 /\ passed'[r] = Append(passed[r], botClock)
              \/ /\ Len(window) >= Cap
                 /\ botEvents'[r] = window
                 /\ passed'[r] = passed[r]
  BY AllowByKeys
<1>2. botClock' = botClock /\ botClock \in 0..MaxTime /\ botClock \in Nat
  BY LimitsAssumption DEF Allow, BotInv, BotLimiterTypeOK
<1>3. /\ BotRepos \subseteq Repos /\ insertedBefore \subseteq BotRepos \X BotRepos
      /\ \A k \in BotRepos : botEvents[k] \in Seq(0..MaxTime)
      /\ \A k \in Repos : passed[k] \in Seq(0..MaxTime)
  BY DEF BotInv, BotLimiterTypeOK, BotRepos
<1>4. window \in Seq(0..MaxTime) /\ Covers(window, passed[r], botClock) /\ Len(window) <= Cap
  <2>1. CASE r \in BotRepos
    <3>1. /\ botEvents[r] \in Seq(0..MaxTime) /\ passed[r] \in Seq(0..MaxTime)
          /\ Covers(botEvents[r], passed[r], botClock) /\ Len(botEvents[r]) <= Cap
      BY <2>1, <1>3 DEF BotInv, BotsCovered
    <3>2. botEvents[r] \in Seq(Nat) /\ passed[r] \in Seq(Nat)
      BY <3>1, TimesAreNaturals
    <3>a. Len(botEvents[r]) \in Nat
      BY <3>2
    <3>b. Len(Current(botEvents[r], botClock)) = Len(botEvents[r]) - Expired(botEvents[r], botClock)
      BY <3>2, <1>2, CurrentIsTail
    <3>c. Expired(botEvents[r], botClock) \in 0..Len(botEvents[r])
      BY <3>2, <1>2, ExpiredStops
    <3>3. /\ Len(Current(botEvents[r], botClock)) = Len(botEvents[r]) - Expired(botEvents[r], botClock)
          /\ Expired(botEvents[r], botClock) \in 0..Len(botEvents[r]) /\ Len(botEvents[r]) \in Nat
      BY <3>a, <3>b, <3>c
    <3>4. Len(Current(botEvents[r], botClock)) <= Cap
      BY <3>1, <3>3, LimitsAssumption
    <3>5. Current(botEvents[r], botClock) \in Seq(0..MaxTime)
      BY <3>1, <1>2, CurrentTyped
    <3>6. Covers(Current(botEvents[r], botClock), passed[r], botClock)
      BY <3>1, <3>2, <1>2, CoversPruned
    <3> QED BY <2>1, <3>4, <3>5, <3>6
  <2>2. ASSUME r \notin BotRepos
        PROVE  window \in Seq(0..MaxTime) /\ Covers(window, passed[r], botClock) /\ Len(window) <= Cap
    <3>1. window = <<>> /\ passed[r] = <<>>
      BY <2>2 DEF BotInv, BotsCovered
    <3>2. Len(<<>>) <= Cap /\ <<>> \in Seq(0..MaxTime)
      BY LimitsAssumption
    <3>3. Covers(<<>>, <<>>, botClock)
      BY <1>2, NothingCounts
    <3> QED BY <3>1, <3>2, <3>3
  <2> QED BY <2>1, <2>2
<1> HIDE DEF window
<1>5. /\ botEvents'[r] \in Seq(0..MaxTime)
      /\ Covers(botEvents'[r], passed'[r], botClock)
      /\ Len(botEvents'[r]) <= Cap
  <2>1. CASE Len(window) < Cap /\ botEvents'[r] = Append(window, botClock)
               /\ passed'[r] = Append(passed[r], botClock)
    <3>1. window \in Seq(Nat) /\ passed[r] \in Seq(Nat)
      BY <1>3, <1>4, TimesAreNaturals
    <3>2. Covers(Append(window, botClock), Append(passed[r], botClock), botClock)
      BY <3>1, <1>2, <1>4, CoversAppended
    <3>3. Append(window, botClock) \in Seq(0..MaxTime)
      BY <1>2, <1>4, AppendProperties
    <3>4. Len(Append(window, botClock)) = Len(window) + 1 /\ Len(window) \in Nat
      BY <3>1, <1>2, AppendProperties
    <3>5. Len(Append(window, botClock)) <= Cap
      BY <2>1, <3>4, LimitsAssumption
    <3> QED BY <2>1, <3>2, <3>3, <3>5
  <2>2. CASE Len(window) >= Cap /\ botEvents'[r] = window /\ passed'[r] = passed[r]
    BY <2>2, <1>4
  <2> QED BY <1>1, <2>1, <2>2
<1>6. BotLimiterTypeOK'
  <2>1. BotRepos' \subseteq Repos /\ insertedBefore' \subseteq BotRepos' \X BotRepos'
    BY <1>1, <1>3
  <2>2. \A k \in BotRepos' : botEvents'[k] \in Seq(0..MaxTime)
    BY <1>1, <1>3, <1>5
  <2> QED BY <2>1, <2>2, <1>1, <1>2 DEF BotLimiterTypeOK, BotRepos
<1>7. BotsOrdered'
  <2>1. CASE r \in BotRepos
    BY <2>1, <1>1 DEF BotInv, BotsOrdered
  <2>2. ASSUME r \notin BotRepos PROVE BotsOrdered'
    <3>1. \A a, b \in BotRepos' :
            <<a, b>> \in insertedBefore' <=> \/ a \in kept /\ b \in kept /\ <<a, b>> \in insertedBefore
                                             \/ a \in kept /\ b = r
      BY <2>2, <1>1
    <3>2. r \notin kept /\ kept \subseteq BotRepos
      BY <2>2
    <3> QED BY <3>1, <3>2, <1>1 DEF BotInv, BotsOrdered
  <2> QED BY <2>1, <2>2
<1>8. BotsKept'
  <2>1. IsFiniteSet(kept \cup {r})
    BY <1>1, FS_AddElement
  <2>2. (IsFiniteSet(BotRepos) /\ Cardinality(BotRepos) <= MaxKeys)'
    BY <1>1, <2>1
  <2> QED BY <2>2 DEF BotsKept
<1>9. BotsCovered'
  <2>1. \A k \in kept \ {r} : Covers(botEvents[k], passed[k], botClock) /\ Len(botEvents[k]) <= Cap
    BY DEF BotInv, BotsCovered
  <2>2. \A k \in BotRepos' : Covers(botEvents'[k], passed'[k], botClock) /\ Len(botEvents'[k]) <= Cap
    BY <2>1, <1>1, <1>5
  <2>3. \A k \in Repos \ BotRepos' : passed'[k] = <<>>
    BY <1>1
  <2>4. (\A k \in BotRepos : Covers(botEvents[k], passed[k], botClock) /\ Len(botEvents[k]) <= Cap)'
    BY <2>2, <1>2 DEF Covers, Inside
  <2> QED BY <2>3, <2>4 DEF BotsCovered
<1> QED BY <1>6, <1>7, <1>8, <1>9 DEF BotInv

\* Time only takes events out of the window.
LEMMA BotClockKeeps ==
  ASSUME BotInv, BotClockTicks
  PROVE  BotInv'
<1>1. /\ botClock' = botClock + 1 /\ botClock' \in 0..MaxTime /\ botClock \in Nat
      /\ botEvents' = botEvents /\ insertedBefore' = insertedBefore /\ passed' = passed
  BY LimitsAssumption DEF BotClockTicks, BotInv, BotLimiterTypeOK
<1>2. BotRepos' = BotRepos
  BY <1>1 DEF BotRepos
<1>3. BotLimiterTypeOK'
  BY <1>1 DEF BotInv, BotLimiterTypeOK
<1>4. BotsOrdered' /\ BotsKept'
  BY <1>1, <1>2 DEF BotInv, BotsOrdered, BotsKept
<1>5. \A r \in BotRepos : Covers(botEvents[r], passed[r], botClock + 1) /\ Len(botEvents[r]) <= Cap
  <2> SUFFICES ASSUME NEW r \in BotRepos
               PROVE  Covers(botEvents[r], passed[r], botClock + 1) /\ Len(botEvents[r]) <= Cap
    OBVIOUS
  <2>1. Covers(botEvents[r], passed[r], botClock) /\ Len(botEvents[r]) <= Cap /\ passed[r] \in Seq(Nat)
    BY TimesAreNaturals DEF BotInv, BotsCovered, BotLimiterTypeOK, BotRepos
  <2> QED BY <2>1, <1>1, CoversLater
<1>6. (\A r \in BotRepos : Covers(botEvents[r], passed[r], botClock) /\ Len(botEvents[r]) <= Cap)'
  BY <1>1, <1>2, <1>5 DEF Covers, Inside
<1>7. (\A r \in Repos \ BotRepos : passed[r] = <<>>)'
  BY <1>1, <1>2 DEF BotInv, BotsCovered
<1>8. BotsCovered'
  BY <1>6, <1>7 DEF BotsCovered
<1> QED BY <1>3, <1>4, <1>8 DEF BotInv

\* Every step keeps it.
LEMMA BotInvNext == BotInv /\ [BotLimiterNext]_botVars => BotInv'
<1>1. ASSUME BotInv, UNCHANGED botVars PROVE BotInv'
  <2>1. botEvents' = botEvents /\ insertedBefore' = insertedBefore /\ passed' = passed
        /\ botClock' = botClock
    BY <1>1 DEF botVars
  <2>2. BotRepos' = BotRepos
    BY <2>1 DEF BotRepos
  <2> QED BY <1>1, <2>1, <2>2 DEF BotInv, BotLimiterTypeOK, BotsOrdered, BotsKept, BotsCovered,
                                 Covers, Inside
<1> QED BY <1>1, AllowKeeps, BotClockKeeps DEF BotLimiterNext

\* It holds always.
LEMMA BotInvHolds == BotLimiterSpec => []BotInv
BY BotInvInit, BotInvNext, PTL DEF BotLimiterSpec

\* It bounds what passes within a window.
LEMMA BotInvBounds == BotInv => BotEventsBounded
<1> SUFFICES ASSUME BotInv PROVE BotEventsBounded
  OBVIOUS
<1>1. botClock \in Nat /\ \A r \in Repos : passed[r] \in Seq(Nat)
  BY LimitsAssumption, TimesAreNaturals DEF BotInv, BotLimiterTypeOK
<1>2. ASSUME NEW r \in Repos PROVE CountInside(passed[r], botClock) <= Cap
  <2>1. CASE r \in BotRepos
    <3>1. botEvents[r] \in Seq(Nat) /\ Covers(botEvents[r], passed[r], botClock) /\ Len(botEvents[r]) <= Cap
      BY <2>1, TimesAreNaturals DEF BotInv, BotsCovered, BotLimiterTypeOK, BotRepos
    <3>2. CountInside(passed[r], botClock) <= Len(botEvents[r])
      BY <3>1, <1>1, CoversCounts
    <3>3. CountInside(passed[r], botClock) \in Nat /\ Len(botEvents[r]) \in Nat
      BY <3>1, <1>1, CountAppended
    <3> QED BY <3>1, <3>2, <3>3, LimitsAssumption
  <2>2. CASE r \notin BotRepos
    <3>1. passed[r] = <<>>
      BY <2>2 DEF BotInv, BotsCovered
    <3>2. CountInside(passed[r], botClock) = 0
      BY <3>1, <1>1, NothingCounts
    <3> QED BY <3>2, LimitsAssumption
  <2> QED BY <2>1, <2>2
<1> QED BY <1>2 DEF BotInv, BotsKept, BotEventsBounded, BotRepos

\* In any window no more than MAX_BOT_EVENTS_PER_HOUR events of a repository are
\* let through as long as its counter is kept, and the table of counters never
\* outgrows its limit, whatever keys come (BotInteractionLimiter.allow).
THEOREM BotEventsBoundedHolds == BotLimiterSpec => []BotEventsBounded
BY BotInvHolds, BotInvBounds, PTL

-----------------------------------------------------------------------------
(* _OtpAttemptLimiter                                                      *)

OtpUsers == DOMAIN failures

\* Commands of the user that have passed the check and may still fail.
Tries(u) == {h \in Handlers : connecting[h].user = u /\ connecting[h].at \in {"lookup", "wrong"}}

\* A command in hand has a user.
CommandsHaveUsers ==
  \A h \in Handlers : connecting[h].at # "idle" => connecting[h].user \in TelegramIds

\* There are never more keys than OTP_LIMITER_MAX_KEYS.
UsersKept == IsFiniteSet(OtpUsers) /\ Cardinality(OtpUsers) <= MaxKeys

\* A deque holds every wrong code that still counts.
UsersCovered == \A u \in TelegramIds : Covers(Stamps(u), guesses[u], otpClock)

\* The codes that count and the commands that may add one.
GuessBudget ==
  \A u \in TelegramIds :
    CountInside(guesses[u], otpClock) + Cardinality(Tries(u)) <= Cap - 1 + Cardinality(Handlers)

OtpInv == OtpLimiterTypeOK /\ CommandsHaveUsers /\ UsersKept /\ UsersCovered /\ GuessBudget

\* There are no more guesses of a user under way than handlers.
LEMMA TriesAreFew ==
  ASSUME NEW u
  PROVE  /\ IsFiniteSet(Tries(u)) /\ Cardinality(Tries(u)) \in Nat
         /\ Cardinality(Handlers) \in Nat /\ Cardinality(Tries(u)) <= Cardinality(Handlers)
<1>1. Tries(u) \in SUBSET Handlers
  BY DEF Tries
<1> QED BY <1>1, HandlersAssumption, FS_Subset, FS_CardinalityType

\* A user with nothing inside is within the budget, and so is one who passes
\* the check.
LEMMA BelowTheCap ==
  ASSUME NEW u, NEW count \in Nat, count < Cap
  PROVE  count + Cardinality(Tries(u)) <= Cap - 1 + Cardinality(Handlers)
BY TriesAreFew, LimitsAssumption

\* The invariant of the OTP counters holds at first.
LEMMA OtpInvInit == OtpLimiterInit => OtpInv
<1> SUFFICES ASSUME OtpLimiterInit PROVE OtpInv
  OBVIOUS
<1>1. OtpUsers = {} /\ otpClock = 0 /\ otpClock \in 0..MaxTime /\ otpClock \in Nat
  BY LimitsAssumption DEF OtpLimiterInit, OtpUsers
<1>2. /\ connecting = [h \in Handlers |-> [user |-> "nobody", at |-> "idle"]]
      /\ \A u \in TelegramIds : Stamps(u) = <<>> /\ guesses[u] = <<>>
      /\ guesses \in [TelegramIds -> Seq(0..MaxTime)]
  BY <1>1 DEF OtpLimiterInit, Stamps, OtpUsers, NoCommand
<1>3. OtpLimiterTypeOK
  BY <1>1, <1>2 DEF OtpLimiterTypeOK, OtpUsers
<1>4. CommandsHaveUsers
  BY <1>2 DEF CommandsHaveUsers
<1>5. UsersKept
  BY <1>1, FS_EmptySet, LimitsAssumption DEF UsersKept
<1>6. UsersCovered
  BY <1>1, <1>2, NothingCounts DEF UsersCovered
<1>7. ASSUME NEW u \in TelegramIds
      PROVE  CountInside(guesses[u], otpClock) + Cardinality(Tries(u)) <= Cap - 1 + Cardinality(Handlers)
  <2>1. CountInside(guesses[u], otpClock) = 0
    BY <1>1, <1>2, NothingCounts
  <2>2. 0 < Cap
    BY LimitsAssumption
  <2> QED BY <2>1, <2>2, BelowTheCap
<1> QED BY <1>3, <1>4, <1>5, <1>6, <1>7 DEF OtpInv, GuessBudget

\* What the types of the limiter say of one user.
LEMMA UserTypes ==
  ASSUME OtpLimiterTypeOK
  PROVE  /\ otpClock \in Nat /\ otpClock \in 0..MaxTime
         /\ \A u \in TelegramIds : /\ Stamps(u) \in Seq(0..MaxTime) /\ Stamps(u) \in Seq(Nat)
                                   /\ guesses[u] \in Seq(0..MaxTime) /\ guesses[u] \in Seq(Nat)
                                   /\ CountInside(guesses[u], otpClock) \in Nat
<1>1. otpClock \in Nat /\ otpClock \in 0..MaxTime
  BY LimitsAssumption DEF OtpLimiterTypeOK
<1>2. ASSUME NEW u \in TelegramIds
      PROVE  /\ Stamps(u) \in Seq(0..MaxTime) /\ Stamps(u) \in Seq(Nat)
             /\ guesses[u] \in Seq(0..MaxTime) /\ guesses[u] \in Seq(Nat)
  <2>1. <<>> \in Seq(0..MaxTime)
    OBVIOUS
  <2>2. Stamps(u) \in Seq(0..MaxTime) /\ guesses[u] \in Seq(0..MaxTime)
    BY <2>1 DEF OtpLimiterTypeOK, Stamps
  <2> QED BY <2>2, TimesAreNaturals
<1>3. ASSUME NEW u \in TelegramIds PROVE CountInside(guesses[u], otpClock) \in Nat
  BY <1>1, <1>2, CountAppended
<1> QED BY <1>1, <1>2, <1>3

\* is_blocked drops nothing that counts, and lets through only below the cap.
LEMMA CheckKeeps ==
  ASSUME OtpInv, NEW h \in Handlers, NEW u \in TelegramIds, CheckBlocked(h, u)
  PROVE  OtpInv'
<1>0. OtpLimiterTypeOK /\ otpClock' = otpClock /\ guesses' = guesses
  BY DEF OtpInv, CheckBlocked
<1>1. OtpUsers' = OtpUsers /\ \A k \in OtpUsers : failures'[k] =
        IF k = u THEN Current(failures[k], otpClock) ELSE failures[k]
  BY DEF CheckBlocked, OtpUsers
<1>2. \/ UNCHANGED connecting
      \/ /\ CountInside(Stamps(u), otpClock) < Cap
         /\ connecting' = [connecting EXCEPT ![h] = [user |-> u, at |-> "lookup"]]
  <2>1. CountInside(Stamps(u), otpClock) \in Nat
    BY <1>0, UserTypes, CountAppended
  <2> QED BY <2>1, LimitsAssumption DEF CheckBlocked, IsBlocked, Goes
<1>3. connecting[h].at = "idle"
  BY DEF CheckBlocked, NoCommand
<1>4. \A k \in OtpUsers : failures'[k] \in Seq(0..MaxTime)
  <2> SUFFICES ASSUME NEW k \in OtpUsers PROVE failures'[k] \in Seq(0..MaxTime)
    OBVIOUS
  <2>1. failures[k] \in Seq(0..MaxTime)
    BY <1>0 DEF OtpLimiterTypeOK, OtpUsers
  <2>2. Current(failures[k], otpClock) \in Seq(0..MaxTime)
    BY <2>1, <1>0, UserTypes, CurrentTyped
  <2> QED BY <1>1, <2>1, <2>2
<1>5. connecting' \in [Handlers -> [user : TelegramIds \cup {"nobody"},
                                    at : {"idle", "lookup", "wrong", "linked"}]]
  <2> DEFINE Commands == [user : TelegramIds \cup {"nobody"}, at : {"idle", "lookup", "wrong", "linked"}]
  <2>1. connecting \in [Handlers -> Commands]
    BY <1>0 DEF OtpLimiterTypeOK
  <2>2. [user |-> u, at |-> "lookup"] \in Commands
    OBVIOUS
  <2> HIDE DEF Commands
  <2>3. connecting' \in [Handlers -> Commands]
    BY <2>1, <2>2, <1>2
  <2> QED BY <2>3 DEF Commands
<1>6. OtpLimiterTypeOK'
  BY <1>0, <1>1, <1>4, <1>5 DEF OtpLimiterTypeOK, OtpUsers
<1>7. CommandsHaveUsers'
  BY <1>0, <1>2 DEF OtpInv, CommandsHaveUsers, OtpLimiterTypeOK
<1>8. UsersKept'
  BY <1>1 DEF OtpInv, UsersKept
<1>9. ASSUME NEW k \in TelegramIds PROVE Covers(Stamps(k)', guesses[k], otpClock)
  <2>1. Covers(Stamps(k), guesses[k], otpClock)
    BY DEF OtpInv, UsersCovered
  <2>2. CASE k \in OtpUsers /\ k = u
    <3>1. Stamps(k)' = Current(Stamps(k), otpClock)
      BY <2>2, <1>1 DEF Stamps, OtpUsers
    <3> QED BY <3>1, <2>1, <1>0, UserTypes, CoversPruned
  <2>3. CASE ~(k \in OtpUsers /\ k = u)
    <3>1. Stamps(k)' = Stamps(k)
      BY <2>3, <1>1 DEF Stamps, OtpUsers
    <3> QED BY <3>1, <2>1
  <2> QED BY <2>2, <2>3
<1>10. UsersCovered'
  BY <1>0, <1>9 DEF UsersCovered, Covers, Inside
<1>11. ASSUME NEW k \in TelegramIds
       PROVE  CountInside(guesses[k], otpClock) + Cardinality(Tries(k)')
                <= Cap - 1 + Cardinality(Handlers)
  <2>1. CountInside(guesses[k], otpClock) + Cardinality(Tries(k)) <= Cap - 1 + Cardinality(Handlers)
    BY DEF OtpInv, GuessBudget
  <2>2. CASE UNCHANGED connecting
    <3>1. Tries(k)' = Tries(k)
      BY <2>2 DEF Tries
    <3> QED BY <3>1, <2>1
  <2>3. ASSUME k # u, ~UNCHANGED connecting PROVE Tries(k)' = Tries(k)
    BY <2>3, <1>0, <1>2, <1>3 DEF Tries, OtpLimiterTypeOK
  <2>4. ASSUME k = u, ~UNCHANGED connecting
        PROVE  CountInside(guesses[k], otpClock) + Cardinality(Tries(k)')
                 <= Cap - 1 + Cardinality(Handlers)
    <3>1. CountInside(guesses[u], otpClock) = CountInside(Stamps(u), otpClock)
      BY <1>0, UserTypes, CoversCounts DEF OtpInv, UsersCovered
    <3>2. CountInside(guesses[u], otpClock) \in Nat /\ CountInside(guesses[u], otpClock) < Cap
      BY <3>1, <2>4, <1>0, <1>2, UserTypes
    <3>3. Tries(k)' \in SUBSET Handlers
      BY DEF Tries
    <3>4. Cardinality(Tries(k)') \in Nat /\ Cardinality(Tries(k)') <= Cardinality(Handlers)
          /\ Cardinality(Handlers) \in Nat
      BY <3>3, HandlersAssumption, FS_Subset, FS_CardinalityType
    <3> QED BY <3>2, <3>4, <2>4, LimitsAssumption
  <2> QED BY <2>1, <2>2, <2>3, <2>4
<1>12. GuessBudget'
  BY <1>0, <1>11 DEF GuessBudget, CountInside, Current, Expired, Inside
<1> QED BY <1>6, <1>7, <1>8, <1>10, <1>12 DEF OtpInv

\* A command that goes on or ends is never one more that may fail.
LEMMA CommandGoesOn ==
  ASSUME OtpInv, NEW h \in Handlers, connecting[h].at # "idle",
         \/ \E next \in {"wrong", "linked"} :
              /\ connecting' = [connecting EXCEPT ![h] = [user |-> connecting[h].user, at |-> next]]
              /\ connecting[h].at = "lookup"
         \/ connecting' = [connecting EXCEPT ![h] = NoCommand]
  PROVE  /\ connecting' \in [Handlers -> [user : TelegramIds \cup {"nobody"},
                                          at : {"idle", "lookup", "wrong", "linked"}]]
         /\ CommandsHaveUsers'
         /\ \A u \in TelegramIds : /\ Tries(u)' \subseteq Tries(u)
                                   /\ IsFiniteSet(Tries(u)') /\ Cardinality(Tries(u)') \in Nat
                                   /\ Cardinality(Tries(u)') <= Cardinality(Tries(u))
<1> DEFINE Commands == [user : TelegramIds \cup {"nobody"}, at : {"idle", "lookup", "wrong", "linked"}]
<1>1. connecting \in [Handlers -> Commands] /\ connecting[h].user \in TelegramIds
  BY DEF OtpInv, OtpLimiterTypeOK, CommandsHaveUsers
<1>2. PICK new \in Commands : connecting' = [connecting EXCEPT ![h] = new]
                              /\ (new = NoCommand \/ /\ new.user = connecting[h].user
                                                     /\ new.at \in {"wrong", "linked"}
                                                     /\ connecting[h].at = "lookup")
  <2>1. NoCommand \in Commands
    BY DEF NoCommand
  <2>2. \A next \in {"wrong", "linked"} : [user |-> connecting[h].user, at |-> next] \in Commands
    BY <1>1
  <2> HIDE DEF Commands
  <2> QED BY <2>1, <2>2
<1>3. connecting' \in [Handlers -> Commands]
  <2> HIDE DEF Commands
  <2> QED BY <1>1, <1>2
<1>4. \A g \in Handlers : connecting'[g] = IF g = h THEN new ELSE connecting[g]
  BY <1>1, <1>2
<1>5. CommandsHaveUsers'
  BY <1>1, <1>2, <1>4 DEF OtpInv, CommandsHaveUsers, NoCommand
<1>6. ASSUME NEW u \in TelegramIds PROVE Tries(u)' \subseteq Tries(u)
  BY <1>2, <1>4 DEF Tries, NoCommand
<1>7. ASSUME NEW u \in TelegramIds
      PROVE  /\ IsFiniteSet(Tries(u)') /\ Cardinality(Tries(u)') \in Nat
             /\ Cardinality(Tries(u)') <= Cardinality(Tries(u))
  BY <1>6, TriesAreFew, FS_Subset, FS_CardinalityType
<1> QED BY <1>3, <1>5, <1>6, <1>7

\* The look at the OTP changes no counter.
LEMMA LookUpKeeps ==
  ASSUME OtpInv, NEW h \in Handlers, LookUpOtp(h)
  PROVE  OtpInv'
<1>1. /\ otpClock' = otpClock /\ guesses' = guesses /\ failures' = failures
      /\ connecting[h].at # "idle" /\ OtpLimiterTypeOK
  BY DEF LookUpOtp, OtpInv
<1>2. /\ connecting' \in [Handlers -> [user : TelegramIds \cup {"nobody"},
                                       at : {"idle", "lookup", "wrong", "linked"}]]
      /\ CommandsHaveUsers'
      /\ \A u \in TelegramIds : /\ Cardinality(Tries(u)') \in Nat
                                /\ Cardinality(Tries(u)') <= Cardinality(Tries(u))
  BY <1>1, CommandGoesOn DEF LookUpOtp, Goes, Ends
<1>3. OtpLimiterTypeOK'
  BY <1>1, <1>2 DEF OtpLimiterTypeOK
<1>4. UsersKept' /\ UsersCovered'
  BY <1>1 DEF OtpInv, UsersKept, UsersCovered, OtpUsers, Stamps, Covers, Inside
<1>5. ASSUME NEW u \in TelegramIds
      PROVE  CountInside(guesses[u], otpClock) + Cardinality(Tries(u)') <= Cap - 1 + Cardinality(Handlers)
  <2>1. CountInside(guesses[u], otpClock) + Cardinality(Tries(u)) <= Cap - 1 + Cardinality(Handlers)
    BY DEF OtpInv, GuessBudget
  <2>2. CountInside(guesses[u], otpClock) \in Nat
    BY <1>1, UserTypes
  <2> QED BY <2>1, <2>2, <1>2, TriesAreFew, LimitsAssumption
<1>6. GuessBudget'
  BY <1>1, <1>5 DEF GuessBudget, CountInside, Current, Expired, Inside
<1> QED BY <1>2, <1>3, <1>4, <1>6 DEF OtpInv

\* clear drops the counter of a user who has got in.
LEMMA ClearKeeps ==
  ASSUME OtpInv, NEW h \in Handlers, ClearFailures(h)
  PROVE  OtpInv'
<1> DEFINE u == connecting[h].user
<1>1. /\ otpClock' = otpClock /\ connecting[h].at # "idle" /\ OtpLimiterTypeOK
      /\ failures' = Without(failures, {u}) /\ guesses' = [guesses EXCEPT ![u] = <<>>]
      /\ connecting' = [connecting EXCEPT ![h] = NoCommand]
  BY DEF ClearFailures, OtpInv, Ends
<1>2. u \in TelegramIds
  BY <1>1 DEF OtpInv, CommandsHaveUsers
<1>3. /\ connecting' \in [Handlers -> [user : TelegramIds \cup {"nobody"},
                                       at : {"idle", "lookup", "wrong", "linked"}]]
      /\ CommandsHaveUsers'
      /\ \A k \in TelegramIds : /\ Cardinality(Tries(k)') \in Nat
                                /\ Cardinality(Tries(k)') <= Cardinality(Tries(k))
  BY <1>1, CommandGoesOn
<1> HIDE DEF u
<1>4. /\ OtpUsers' = OtpUsers \ {u} /\ \A k \in OtpUsers' : failures'[k] = failures[k]
      /\ \A k \in TelegramIds : guesses'[k] = IF k = u THEN <<>> ELSE guesses[k]
      /\ \A k \in TelegramIds : Stamps(k)' = IF k = u THEN <<>> ELSE Stamps(k)
  <2>1. OtpUsers' = OtpUsers \ {u} /\ \A k \in OtpUsers' : failures'[k] = failures[k]
    BY <1>1 DEF Without, OtpUsers
  <2>2. \A k \in TelegramIds : guesses'[k] = IF k = u THEN <<>> ELSE guesses[k]
    BY <1>1 DEF OtpLimiterTypeOK
  <2>3. \A k \in TelegramIds : Stamps(k)' = IF k = u THEN <<>> ELSE Stamps(k)
    BY <2>1 DEF Stamps, OtpUsers
  <2> QED BY <2>1, <2>2, <2>3
<1>5. OtpLimiterTypeOK'
  <2>1. <<>> \in Seq(0..MaxTime)
    OBVIOUS
  <2>2. guesses' \in [TelegramIds -> Seq(0..MaxTime)]
    BY <2>1, <1>1 DEF OtpLimiterTypeOK
  <2> QED BY <2>2, <1>1, <1>3, <1>4 DEF OtpLimiterTypeOK, OtpUsers
<1>6. UsersKept'
  <2>1. IsFiniteSet(OtpUsers) /\ Cardinality(OtpUsers) <= MaxKeys /\ Cardinality(OtpUsers) \in Nat
    BY FS_CardinalityType DEF OtpInv, UsersKept
  <2>2. IsFiniteSet(OtpUsers \ {u}) /\ Cardinality(OtpUsers \ {u}) <= Cardinality(OtpUsers)
        /\ Cardinality(OtpUsers \ {u}) \in Nat
    BY <2>1, FS_Subset, FS_CardinalityType
  <2>3. Cardinality(OtpUsers \ {u}) <= MaxKeys
    BY <2>1, <2>2, LimitsAssumption
  <2> QED BY <2>2, <2>3, <1>4 DEF UsersKept
<1>7. otpClock \in Nat
  BY <1>1, UserTypes
<1>8. \A k \in TelegramIds : Covers(Stamps(k)', guesses'[k], otpClock)
  BY <1>4, <1>7, NothingCounts DEF OtpInv, UsersCovered
<1>9. UsersCovered'
  BY <1>1, <1>8 DEF UsersCovered, Covers, Inside
<1>10. ASSUME NEW k \in TelegramIds
       PROVE  CountInside(guesses'[k], otpClock) + Cardinality(Tries(k)') <= Cap - 1 + Cardinality(Handlers)
  <2>1. /\ CountInside(guesses[k], otpClock) + Cardinality(Tries(k)) <= Cap - 1 + Cardinality(Handlers)
        /\ CountInside(guesses[k], otpClock) \in Nat
    BY <1>1, UserTypes DEF OtpInv, GuessBudget
  <2>2. CountInside(guesses'[k], otpClock) \in Nat
        /\ CountInside(guesses'[k], otpClock) <= CountInside(guesses[k], otpClock)
    BY <2>1, <1>4, <1>7, NothingCounts
  <2> QED BY <2>1, <2>2, <1>3, TriesAreFew, LimitsAssumption
<1>11. GuessBudget'
  BY <1>1, <1>10 DEF GuessBudget, CountInside, Current, Expired, Inside
<1> QED BY <1>3, <1>5, <1>6, <1>9, <1>11 DEF OtpInv

\* Time only takes failures out of the window.
LEMMA OtpClockKeeps ==
  ASSUME OtpInv, OtpClockTicks
  PROVE  OtpInv'
<1>1. /\ otpClock' = otpClock + 1 /\ otpClock' \in 0..MaxTime /\ otpClock \in Nat /\ OtpLimiterTypeOK
      /\ failures' = failures /\ connecting' = connecting /\ guesses' = guesses
  BY LimitsAssumption DEF OtpClockTicks, OtpInv, OtpLimiterTypeOK
<1>2. OtpLimiterTypeOK' /\ CommandsHaveUsers' /\ UsersKept'
  BY <1>1 DEF OtpInv, OtpLimiterTypeOK, CommandsHaveUsers, UsersKept, OtpUsers
<1>3. \A u \in TelegramIds : Tries(u)' = Tries(u) /\ Stamps(u)' = Stamps(u)
  BY <1>1 DEF Tries, Stamps
<1>4. \A u \in TelegramIds : Covers(Stamps(u), guesses[u], otpClock + 1)
  BY <1>1, UserTypes, CoversLater DEF OtpInv, UsersCovered
<1>5. UsersCovered'
  BY <1>1, <1>3, <1>4 DEF UsersCovered, Covers, Inside
<1>6. ASSUME NEW u \in TelegramIds
      PROVE  CountInside(guesses[u], otpClock + 1) + Cardinality(Tries(u)) <= Cap - 1 + Cardinality(Handlers)
  <2>1. CountInside(guesses[u], otpClock) + Cardinality(Tries(u)) <= Cap - 1 + Cardinality(Handlers)
    BY DEF OtpInv, GuessBudget
  <2>2. guesses[u] \in Seq(Nat) /\ CountInside(guesses[u], otpClock) \in Nat
    BY <1>1, UserTypes
  <2>3. CountInside(guesses[u], otpClock + 1) <= CountInside(guesses[u], otpClock)
    BY <2>2, <1>1, CountFalls
  <2>4. otpClock + 1 \in Nat
    BY <1>1
  <2>5. CountInside(guesses[u], otpClock + 1) \in Nat
    BY <2>2, <2>4, CountAppended
  <2> QED BY <2>1, <2>2, <2>3, <2>5, TriesAreFew, LimitsAssumption
<1>7. GuessBudget'
  BY <1>1, <1>3, <1>6 DEF GuessBudget, CountInside, Current, Expired, Inside
<1> QED BY <1>2, <1>5, <1>7 DEF OtpInv

\* _evict_stale leaves room for one more key.
LEMMA OtpEvictionMakesRoom ==
  ASSUME OtpInv
  PROVE  Evicted \subseteq OtpUsers /\ Cardinality(OtpUsers \ Evicted) < MaxKeys
<1> DEFINE live == OtpUsers \ StaleUsers
           before == {p \in live \X live : LastFailure(p[1]) <= LastFailure(p[2])}
           Oldest1(some) == /\ Cardinality(some) = Surplus(live)
                            /\ \A a \in some, b \in live \ some : <<a, b>> \in before
           oldest == CHOOSE some \in SUBSET live : Oldest1(some)
           rank == [u \in live |-> LastFailure(u)]
<1>1. IsFiniteSet(live) /\ live \subseteq OtpUsers
  BY FS_Subset DEF OtpInv, UsersKept
<1>2. Surplus(live) \in 0..Cardinality(live)
  BY <1>1, SurplusMakesRoom
<1>3. ASSUME NEW u \in live PROVE LastFailure(u) \in Nat
  <2>1. failures[u] # <<>>
    BY DEF StaleUsers, OtpUsers, IsStale
  <2>2. failures[u] \in Seq(Nat)
    BY TimesAreNaturals DEF OtpInv, OtpLimiterTypeOK, OtpUsers
  <2>3. Len(failures[u]) \in 1..Len(failures[u])
    BY <2>1, <2>2, EmptySeq
  <2> QED BY <2>2, <2>3, ElementOfSeq DEF LastFailure
<1>4. \E some \in SUBSET live : Oldest1(some)
  <2>1. rank \in [live -> Nat] /\ \A u \in live : rank[u] = LastFailure(u)
    BY <1>3
  <2> HIDE DEF live, rank
  <2>2. PICK some \in SUBSET live : /\ Cardinality(some) = Surplus(live)
                                    /\ \A a \in some, b \in live \ some : rank[a] <= rank[b]
    BY <1>1, <1>2, <2>1, FirstOfRanked
  <2>3. Oldest1(some)
    BY <2>1, <2>2
  <2> QED BY <2>3
<1>5. oldest \in SUBSET live /\ Cardinality(oldest) = Surplus(live)
  BY <1>4
<1>6. Cardinality(live \ oldest) < MaxKeys
  BY <1>1, <1>5, SurplusMakesRoom
<1>7. Evicted = StaleUsers \cup oldest
  BY DEF Evicted, Oldest, First, OtpUsers
<1>8. StaleUsers \subseteq OtpUsers
  BY DEF StaleUsers, OtpUsers
<1> HIDE DEF oldest
<1>9. OtpUsers \ Evicted = live \ oldest
  BY <1>7
<1> QED BY <1>1, <1>5, <1>6, <1>7, <1>8, <1>9

\* record_failure keeps it: what it prunes and evicts no longer counts.
LEMMA RecordKeeps ==
  ASSUME OtpInv, NEW h \in Handlers, RecordFailure(h)
  PROVE  OtpInv'
<1> DEFINE u == connecting[h].user
           dropped == IF u \notin OtpUsers /\ Surplus(OtpUsers) > 0 THEN Evicted ELSE {}
           kept == OtpUsers \ dropped
           more == Append(Current(Stamps(u), otpClock), otpClock)
           guessed == Append(Current(guesses[u], otpClock), otpClock)
<1>1. /\ otpClock' = otpClock /\ connecting[h].at = "wrong" /\ OtpLimiterTypeOK
      /\ failures' = With(Without(failures, dropped), u, more)
      /\ guesses' = [k \in TelegramIds |-> CASE k = u -> guessed
                                             [] k # u /\ k \in dropped -> <<>>
                                             [] OTHER -> guesses[k]]
      /\ connecting' = [connecting EXCEPT ![h] = NoCommand]
  BY DEF RecordFailure, OtpInv, Ends, OtpUsers
<1>2. u \in TelegramIds
  BY <1>1 DEF OtpInv, CommandsHaveUsers
<1>3. /\ connecting' \in [Handlers -> [user : TelegramIds \cup {"nobody"},
                                       at : {"idle", "lookup", "wrong", "linked"}]]
      /\ CommandsHaveUsers'
      /\ \A k \in TelegramIds : /\ Tries(k)' \subseteq Tries(k) 
                                /\ Cardinality(Tries(k)') \in Nat
                                /\ Cardinality(Tries(k)') <= Cardinality(Tries(k))
  BY <1>1, CommandGoesOn
<1>4. dropped \subseteq OtpUsers /\ u \notin dropped
  BY OtpEvictionMakesRoom
<1>5. IsFiniteSet(OtpUsers) /\ Cardinality(OtpUsers) <= MaxKeys /\ Cardinality(OtpUsers) \in Nat
  BY FS_CardinalityType DEF OtpInv, UsersKept
<1>6. IsFiniteSet(kept) /\ Cardinality(kept) \in Nat
  BY <1>5, FS_Subset, FS_CardinalityType
<1>7. Cardinality(kept \cup {u}) <= MaxKeys
  <2>1. CASE u \in OtpUsers
    <3>1. kept = OtpUsers /\ OtpUsers \cup {u} = OtpUsers
      BY <2>1
    <3> QED BY <3>1, <1>5
  <2>2. ASSUME u \notin OtpUsers PROVE Cardinality(kept \cup {u}) <= MaxKeys
    <3>1. Cardinality(kept) < MaxKeys
      <4>1. CASE Surplus(OtpUsers) > 0
        <5>1. kept = OtpUsers \ Evicted
          BY <2>2, <4>1
        <5> QED BY <5>1, OtpEvictionMakesRoom
      <4>2. ASSUME ~(Surplus(OtpUsers) > 0) PROVE Cardinality(kept) < MaxKeys
        <5>1. kept = OtpUsers
          BY <4>2
        <5>2. Cardinality(OtpUsers) < MaxKeys
          BY <4>2, <1>5, LimitsAssumption DEF Surplus
        <5> QED BY <5>1, <5>2
      <4> QED BY <4>1, <4>2
    <3>2. Cardinality(kept \cup {u}) = Cardinality(kept) + 1
      BY <2>2, <1>6, FS_AddElement
    <3> QED BY <3>1, <3>2, <1>6, LimitsAssumption
  <2> QED BY <2>1, <2>2
<1> HIDE DEF u, dropped, more, guessed
<1>8. /\ OtpUsers' = kept \cup {u}
      /\ \A k \in kept \ {u} : failures'[k] = failures[k]
      /\ failures'[u] = more
  BY <1>1 DEF With, Without, OtpUsers
<1>9. \A k \in TelegramIds : guesses'[k] = IF k = u THEN guessed
                                           ELSE IF k \in dropped THEN <<>> ELSE guesses[k]
  BY <1>1
<1>10. \A k \in TelegramIds : Stamps(k)' = IF k = u THEN more
                                           ELSE IF k \in dropped THEN <<>> ELSE Stamps(k)
  BY <1>2, <1>4, <1>8 DEF Stamps, OtpUsers
<1>11. /\ otpClock \in Nat /\ otpClock \in 0..MaxTime
       /\ Stamps(u) \in Seq(0..MaxTime) /\ Stamps(u) \in Seq(Nat)
       /\ guesses[u] \in Seq(0..MaxTime) /\ guesses[u] \in Seq(Nat)
       /\ CountInside(guesses[u], otpClock) \in Nat
  BY <1>1, <1>2, UserTypes
<1>12. /\ Current(Stamps(u), otpClock) \in Seq(0..MaxTime)
       /\ Current(guesses[u], otpClock) \in Seq(0..MaxTime)
       /\ more \in Seq(0..MaxTime) /\ guessed \in Seq(0..MaxTime)
  <2>1. /\ Current(Stamps(u), otpClock) \in Seq(0..MaxTime)
        /\ Current(guesses[u], otpClock) \in Seq(0..MaxTime)
    BY <1>11, CurrentTyped
  <2> QED BY <2>1, <1>11, AppendProperties DEF more, guessed
<1>13. OtpLimiterTypeOK'
  <2>1. <<>> \in Seq(0..MaxTime)
    OBVIOUS
  <2>2. \A k \in TelegramIds : guesses[k] \in Seq(0..MaxTime)
    BY <1>1 DEF OtpLimiterTypeOK
  <2>3. \A k \in TelegramIds : guesses'[k] \in Seq(0..MaxTime)
    BY <2>1, <2>2, <1>9, <1>12
  <2>4. guesses' = [k \in TelegramIds |-> guesses'[k]]
    BY <1>1
  <2>5. guesses' \in [TelegramIds -> Seq(0..MaxTime)]
    BY <2>3, <2>4
  <2>6. OtpUsers' \subseteq TelegramIds /\ \A k \in OtpUsers' : failures'[k] \in Seq(0..MaxTime)
    BY <1>1, <1>2, <1>8, <1>12 DEF OtpLimiterTypeOK, OtpUsers
  <2> QED BY <2>5, <2>6, <1>1, <1>3, <1>11 DEF OtpLimiterTypeOK, OtpUsers
<1>14. UsersKept'
  <2>1. IsFiniteSet(kept \cup {u})
    BY <1>6, FS_AddElement
  <2> QED BY <2>1, <1>7, <1>8 DEF UsersKept
<1>15. Covers(more, guessed, otpClock)
  <2> DEFINE s == Current(Stamps(u), otpClock)
             g == Current(guesses[u], otpClock)
  <2>1. Covers(Stamps(u), guesses[u], otpClock)
    BY <1>2 DEF OtpInv, UsersCovered
  <2>2. Len(s) = Len(g) /\ \A i \in 1..Len(s) : s[i] = g[i]
    BY <2>1, <1>11, CoversCounts
  <2>3. s \in Seq(Nat) /\ g \in Seq(Nat)
    BY <1>12, TimesAreNaturals
  <2> HIDE DEF s, g
  <2>4. s = g
    BY <2>2, <2>3, SeqEqual
  <2>5. Covers(s, s, otpClock)
    <3>1. Len(s) \in Nat
      BY <2>3
    <3>2. /\ 0 \in 0..Len(s) /\ Len(s) = Len(s) - 0
          /\ \A i \in 1..Len(s) : s[i] = s[0 + i]
          /\ \A i \in 1..0 : ~Inside(s[i], otpClock)
      BY <3>1
    <3> QED BY <3>2 DEF Covers
  <2>6. Covers(Append(s, otpClock), Append(s, otpClock), otpClock)
    BY <2>3, <2>5, <1>11, CoversAppended
  <2> QED BY <2>4, <2>6 DEF s, g, more, guessed
<1>16. \A k \in TelegramIds : Covers(Stamps(k)', guesses'[k], otpClock)
  BY <1>9, <1>10, <1>11, <1>15, NothingCounts DEF OtpInv, UsersCovered
<1>a. otpClock' = otpClock
  BY <1>1
<1>17. UsersCovered'
  BY <1>a, <1>16 DEF UsersCovered, Covers, Inside
<1>18. ASSUME NEW k \in TelegramIds
       PROVE  CountInside(guesses'[k], otpClock) + Cardinality(Tries(k)') <= Cap - 1 + Cardinality(Handlers)
  <2>1. /\ CountInside(guesses[k], otpClock) + Cardinality(Tries(k)) <= Cap - 1 + Cardinality(Handlers)
        /\ CountInside(guesses[k], otpClock) \in Nat
    BY <1>1, UserTypes DEF OtpInv, GuessBudget
  <2>2. ASSUME k = u
        PROVE  CountInside(guesses'[k], otpClock) + Cardinality(Tries(k)') <= Cap - 1 + Cardinality(Handlers)
    <3>1. CountInside(guessed, otpClock) <= CountInside(guesses[k], otpClock) + 1
      BY <2>2, <1>11, CountAppended DEF guessed
    <3>2. CountInside(guessed, otpClock) \in Nat
      BY <1>11, <1>12, TimesAreNaturals, CountAppended
    <3>3. h \in Tries(k) /\ h \notin Tries(k)'
      BY <2>2, <1>1 DEF Tries, u, OtpLimiterTypeOK, NoCommand
    <3>4. Tries(k)' \in SUBSET (Tries(k) \ {h})
      BY <3>3, <1>3
    <3>5. IsFiniteSet(Tries(k)) /\ Cardinality(Tries(k)) \in Nat /\ Cardinality(Handlers) \in Nat
      BY TriesAreFew
    <3>6. IsFiniteSet(Tries(k) \ {h}) /\ Cardinality(Tries(k) \ {h}) = Cardinality(Tries(k)) - 1
      BY <3>3, <3>5, FS_RemoveElement
    <3>7. Cardinality(Tries(k)') <= Cardinality(Tries(k)) - 1 /\ Cardinality(Tries(k)') \in Nat
      BY <3>4, <3>6, <1>3, FS_Subset
    <3>8. guesses'[k] = guessed
      BY <2>2, <1>9
    <3> QED BY <3>1, <3>2, <3>5, <3>7, <3>8, <2>1, LimitsAssumption
  <2>3. ASSUME k # u
        PROVE  CountInside(guesses'[k], otpClock) + Cardinality(Tries(k)') <= Cap - 1 + Cardinality(Handlers)
    <3>1. CountInside(guesses'[k], otpClock) \in Nat
          /\ CountInside(guesses'[k], otpClock) <= CountInside(guesses[k], otpClock)
      BY <2>1, <2>3, <1>9, <1>11, NothingCounts
    <3> QED BY <3>1, <2>1, <1>3, TriesAreFew, LimitsAssumption
  <2> QED BY <2>2, <2>3
<1>19. GuessBudget'
  BY <1>1, <1>18 DEF GuessBudget, CountInside, Current, Expired, Inside
<1> QED BY <1>3, <1>13, <1>14, <1>17, <1>19 DEF OtpInv

\* Every step keeps it.
LEMMA OtpInvNext == OtpInv /\ [OtpLimiterNext]_otpVars => OtpInv'
<1>1. ASSUME OtpInv, UNCHANGED otpVars PROVE OtpInv'
  <2>1. otpClock' = otpClock /\ failures' = failures /\ connecting' = connecting /\ guesses' = guesses
    BY <1>1 DEF otpVars
  <2>2. OtpUsers' = OtpUsers /\ \A u \in TelegramIds : Tries(u)' = Tries(u) /\ Stamps(u)' = Stamps(u)
    BY <2>1 DEF OtpUsers, Tries, Stamps
  <2>3. OtpLimiterTypeOK' /\ CommandsHaveUsers' /\ UsersKept'
    BY <1>1, <2>1, <2>2 DEF OtpInv, OtpLimiterTypeOK, CommandsHaveUsers, UsersKept
  <2>4. UsersCovered'
    BY <1>1, <2>1, <2>2 DEF OtpInv, UsersCovered, Covers, Inside
  <2>5. GuessBudget'
    BY <1>1, <2>1, <2>2 DEF OtpInv, GuessBudget, CountInside, Current, Expired, Inside
  <2> QED BY <2>3, <2>4, <2>5 DEF OtpInv
<1> QED BY <1>1, CheckKeeps, LookUpKeeps, RecordKeeps, ClearKeeps, OtpClockKeeps DEF OtpLimiterNext

\* It holds always.
LEMMA OtpInvHolds == OtpLimiterSpec => []OtpInv
BY OtpInvInit, OtpInvNext, PTL DEF OtpLimiterSpec

\* It bounds the guesses and the counters.
LEMMA OtpInvBounds == OtpInv => GuessesBounded /\ OtpKeysBounded
<1> SUFFICES ASSUME OtpInv PROVE GuessesBounded /\ OtpKeysBounded
  OBVIOUS
<1>1. ASSUME NEW u \in TelegramIds
      PROVE  CountInside(guesses[u], otpClock) <= Cap + Cardinality(Handlers) - 1
  <2>1. CountInside(guesses[u], otpClock) \in Nat
    BY UserTypes DEF OtpInv
  <2>2. CountInside(guesses[u], otpClock) + Cardinality(Tries(u)) <= Cap - 1 + Cardinality(Handlers)
    BY DEF OtpInv, GuessBudget
  <2> QED BY <2>1, <2>2, TriesAreFew, LimitsAssumption
<1> QED BY <1>1 DEF GuessesBounded, OtpKeysBounded, OtpInv, UsersKept, OtpUsers

\* Handlers that pass is_blocked side by side overshoot OTP_MAX_FAILED_ATTEMPTS
\* by no more than their number less one, however the checks, lookups and
\* records interleave and whatever the eviction drops (the limit that
\* _OtpAttemptLimiter accepts for itself).
THEOREM GuessesBoundedHolds == OtpLimiterSpec => []GuessesBounded
BY OtpInvHolds, OtpInvBounds, PTL

\* record_failure never lets the table outgrow OTP_LIMITER_MAX_KEYS: dropping
\* stale users and then those least recently active always makes room.
THEOREM OtpKeysBoundedHolds == OtpLimiterSpec => []OtpKeysBounded
BY OtpInvHolds, OtpInvBounds, PTL

================================================================================
