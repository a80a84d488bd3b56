--------------------------- MODULE DatabaseFailover ---------------------------
(***************************************************************************)
(* FailoverSessionFactory (database.py): the callers of SessionLocal() in  *)
(* threads of their own, and the daemon thread that looks for the primary  *)
(* while the fallback is in use.  Only the switch is under the lock; what  *)
(* it is based on was seen before.                                         *)
(***************************************************************************)
EXTENDS FiniteSets

CONSTANT Callers

VARIABLES
  active,        \* _active
  primaryUp, fallbackUp,
  opening,       \* where each caller is
  fellDuring,    \* history: callers in whose call the fallback was down
  probe

failoverVars == <<active, primaryUp, fallbackUp, opening, fellDuring, probe>>
servers == <<primaryUp, fallbackUp>>
Open(c, at) == opening' = [opening EXCEPT ![c] = at]

DatabaseFailoverInit ==
  /\ active = "primary"
  /\ primaryUp = TRUE /\ fallbackUp = TRUE
  /\ opening = [c \in Callers |-> "idle"]
  /\ fellDuring = {}
  /\ probe = "asleep"

-----------------------------------------------------------------------------
(* The servers                                                             *)

PrimaryTurns ==
  /\ primaryUp' = ~primaryUp
  /\ UNCHANGED <<active, fallbackUp, opening, fellDuring, probe>>

FallbackTurns ==
  /\ fallbackUp' = ~fallbackUp
  /\ fellDuring' = fellDuring \cup {c \in Callers : opening[c] # "idle"}
  /\ UNCHANGED <<active, primaryUp, opening, probe>>

-----------------------------------------------------------------------------
(* __call__                                                                *)

AskForSession(c) ==
  /\ opening[c] = "idle"
  /\ Open(c, IF active = "fallback" THEN "fallback" ELSE "primary")
  /\ fellDuring' = IF fallbackUp THEN fellDuring \ {c} ELSE fellDuring \cup {c}
  /\ UNCHANGED <<active, servers, probe>>

\* SELECT 1 on the primary; an exhausted pool is no OperationalError and goes
\* to the caller.
TryPrimary(c) ==
  /\ opening[c] = "primary"
  /\ \/ primaryUp /\ Open(c, "open")
     \/ ~primaryUp /\ Open(c, "lost")
     \/ Open(c, "exhausted")
  /\ UNCHANGED <<active, servers, fellDuring, probe>>

\* Under the lock: whoever comes first switches, and everybody goes on.
SlipAfterLost(c) == IF active = "primary" THEN "fallback" ELSE "refused"
AfterLost(c) == "fallback"
TakeOver(c) ==
  /\ opening[c] = "lost"
  /\ active' = "fallback"
  /\ Open(c, AfterLost(c))
  /\ UNCHANGED <<servers, fellDuring, probe>>

TryFallback(c) ==
  /\ opening[c] = "fallback"
  /\ \/ fallbackUp /\ Open(c, "open")
     \/ ~fallbackUp /\ Open(c, "refused")
     \/ Open(c, "exhausted")
  /\ UNCHANGED <<active, servers, fellDuring, probe>>

CloseSession(c) ==
  /\ opening[c] \in {"open", "refused", "exhausted"}
  /\ Open(c, "idle")
  /\ UNCHANGED <<active, servers, fellDuring, probe>>

-----------------------------------------------------------------------------
(* _probe_primary_loop                                                     *)

ProbeWakes ==
  /\ probe = "asleep" /\ active = "fallback"
  /\ probe' = "looking"
  /\ UNCHANGED <<active, servers, opening, fellDuring>>

SlipProbeAnswered == fallbackUp
ProbeAnswered == primaryUp
ProbeLooks ==
  /\ probe = "looking"
  /\ probe' = IF ProbeAnswered THEN "found" ELSE "asleep"
  /\ UNCHANGED <<active, servers, opening, fellDuring>>

ProbeSwitches ==
  /\ probe = "found"
  /\ active' = "primary" /\ probe' = "asleep"
  /\ UNCHANGED <<servers, opening, fellDuring>>

CallerStep(c) == TryPrimary(c) \/ TakeOver(c) \/ TryFallback(c)
ProbeStep == ProbeWakes \/ ProbeLooks \/ ProbeSwitches
DatabaseFailoverNext ==
  \/ PrimaryTurns \/ FallbackTurns \/ ProbeStep
  \/ \E c \in Callers : AskForSession(c) \/ CallerStep(c) \/ CloseSession(c)

\* Threads run on; the servers and new callers owe nothing.
DatabaseFailoverSpec ==
  DatabaseFailoverInit /\ [][DatabaseFailoverNext]_failoverVars
    /\ WF_failoverVars(ProbeStep) /\ \A c \in Callers : WF_failoverVars(CallerStep(c))

-----------------------------------------------------------------------------
\* The factory, the callers and the probe keep their types.
DatabaseFailoverTypeOK ==
  /\ active \in {"primary", "fallback"}
  /\ primaryUp \in BOOLEAN /\ fallbackUp \in BOOLEAN
  /\ opening \in [Callers -> {"idle", "primary", "lost", "fallback",
                              "open", "refused", "exhausted"}]
  /\ fellDuring \subseteq Callers
  /\ probe \in {"asleep", "looking", "found"}

\* A caller is refused only when the fallback was down at some time of its
\* call, also when another caller or the probe switched under its feet.
FallbackServesTheCaller ==
  \A c \in Callers : opening[c] = "refused" => c \in fellDuring

\* When the primary is back for good, so is the factory: the probe returns to
\* it, and callers whose look at the primary is outdated switch away from it
\* only once more.
PrimaryComesBack == <>[]primaryUp => <>[](active = "primary")

=============================================================================
