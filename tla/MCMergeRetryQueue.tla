-------------------------- MODULE MCMergeRetryQueue --------------------------
EXTENDS MergeRetryQueue, TLC
CONSTANTS a, b, r1, r2, w1, w2, g1, g2, Slow, Crashes, Errors, Logs, Removes
MCBudget == [f \in Faults |-> CASE f = "slow" -> Slow [] f = "crash" -> Crashes
   [] f = "error" -> Errors [] f = "log" -> Logs [] f = "remove" -> Removes]
Symm == Permutations({a, b}) \cup Permutations({r1, r2}) \cup Permutations({w1, w2})
          \cup Permutations({g1, g2})
=============================================================================
