---------------------------- MODULE SlidingWindows ----------------------------
(***************************************************************************)
(* What the two in-memory limiters have in common: per key a deque of time *)
(* stamps of which only those inside the window count, and a limit on the  *)
(* number of keys (webhook/loop_guard.py, notifier/telegram_commands.py).  *)
(***************************************************************************)
EXTENDS Integers, Sequences, FiniteSets

CONSTANTS
  Window,     \* seconds, as ticks of the model's clock
  Cap,        \* stamps per window
  MaxKeys,    \* keys a limiter keeps
  MaxTime     \* bound on the clock

\* All four are literals of the code and positive there.
ASSUME LimitsAssumption ==
  Window \in Nat /\ MaxTime \in Nat /\ Cap \in Nat \ {0} /\ MaxKeys \in Nat \ {0}

Inside(time, now) == time > now - Window
\* What popleft takes: the stamps before the first one that is inside.
Expired(stamps, now) ==
  CHOOSE n \in 0..Len(stamps) : /\ \A i \in 1..n : ~Inside(stamps[i], now)
                                /\ n < Len(stamps) => Inside(stamps[n + 1], now)
Current(stamps, now) == SubSeq(stamps, Expired(stamps, now) + 1, Len(stamps))
\* A key to drop first: nothing of it is inside.
IsStale(stamps, now) == stamps = <<>> \/ ~Inside(stamps[Len(stamps)], now)
Without(table, keys) == [k \in DOMAIN table \ keys |-> table[k]]
With(table, key, stamps) == [k \in DOMAIN table \cup {key} |-> IF k = key THEN stamps ELSE table[k]]
CountInside(stamps, now) == Len(Current(stamps, now))

\* The n keys that the order puts before all the others.
First(n, keys, order) ==
  CHOOSE some \in SUBSET keys : /\ Cardinality(some) = n
                                /\ \A a \in some, b \in keys \ some : <<a, b>> \in order
\* How many of the keys have to go until a new one fits.
Surplus(keys) == IF Cardinality(keys) < MaxKeys THEN 0 ELSE Cardinality(keys) - MaxKeys + 1

=============================================================================
