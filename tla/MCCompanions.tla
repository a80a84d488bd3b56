----------------------------- MODULE MCCompanions -----------------------------
EXTENDS GateRun, MergeAttempts, IssueRegistration, BotLimiter, OtpLimiter,
        NarrativeCache, DatabaseFailover

\* The parts share no state, so a behaviour follows one of them.
VARIABLE focus

Rest(name) ==
  /\ UNCHANGED focus
  /\ name # "gate run" => UNCHANGED gateRunVars
  /\ name # "attempts" => UNCHANGED mergeAttemptsVars
  /\ name # "issues" => UNCHANGED registrationVars
  /\ name # "bots" => UNCHANGED botVars
  /\ name # "otp" => UNCHANGED otpVars
  /\ name # "narrative" => UNCHANGED narrativeVars
  /\ name # "failover" => UNCHANGED failoverVars

Init ==
  /\ focus \in {"gate run", "attempts", "issues", "bots", "otp", "narrative", "failover"}
  /\ GateRunInit /\ MergeAttemptsInit /\ IssueRegistrationInit /\ BotLimiterInit
  /\ OtpLimiterInit /\ NarrativeCacheInit /\ DatabaseFailoverInit

Next ==
  \/ focus = "gate run" /\ GateRunNext /\ Rest(focus)
  \/ focus = "attempts" /\ MergeAttemptsNext /\ Rest(focus)
  \/ focus = "issues" /\ IssueRegistrationNext /\ Rest(focus)
  \/ focus = "bots" /\ BotLimiterNext /\ Rest(focus)
  \/ focus = "otp" /\ OtpLimiterNext /\ Rest(focus)
  \/ focus = "narrative" /\ NarrativeCacheNext /\ Rest(focus)
  \/ focus = "failover" /\ DatabaseFailoverNext /\ Rest(focus)

vars == <<focus, gateRunVars, mergeAttemptsVars, registrationVars, botVars, otpVars,
          narrativeVars, failoverVars>>

\* The event loop runs what is ready; tools, GitHub and people owe nothing.
Fairness ==
  /\ WF_vars(focus = "gate run" /\ GateLoop /\ Rest(focus))
  /\ WF_vars(focus = "gate run" /\ GateActions /\ Rest(focus))
  /\ WF_vars(focus = "attempts" /\ Handler /\ Rest(focus))
  /\ WF_vars(focus = "failover" /\ ProbeStep /\ Rest(focus))
  /\ \A c \in Callers : WF_vars(focus = "failover" /\ CallerStep(c) /\ Rest(focus))

Spec == Init /\ [][Next]_vars /\ Fairness

CompanionsTypeOK ==
  /\ GateRunTypeOK /\ MergeAttemptsTypeOK /\ IssueRegistrationTypeOK /\ BotLimiterTypeOK
  /\ OtpLimiterTypeOK /\ NarrativeCacheTypeOK /\ DatabaseFailoverTypeOK
=============================================================================
