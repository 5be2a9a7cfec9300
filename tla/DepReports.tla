----------------------------- MODULE DepReports -----------------------------
(***************************************************************************)
(* The store under nothing but reports: DepReporters and wrapped clients   *)
(* without a circuit breaker report what they saw of their dependencies,   *)
(* while others register dependencies again or remove them.  Each call     *)
(* holds s.mu throughout, so each is one step.                             *)
(*                                                                         *)
(* fails is history: the failures of each dependency reported since its    *)
(* last success or removal.  The names carry a prefix so that the module   *)
(* can be extended beside another client of the store.                     *)
(***************************************************************************)
EXTENDS DepStateStore

CONSTANTS Deps,       \* the ids in use
          MaxFails    \* bound: consecutive failures

ASSUME ReportsAssumption == MaxFails \in Nat

VARIABLES states,     \* s.states: an entry or NoEntry for each id
          fails

reportsVars == <<states, fails>>

ReportsInit ==
  /\ states = [d \in Deps |-> NoEntry]
  /\ fails = [d \in Deps |-> 0]

RegisterDep(d) ==
  /\ states' = [states EXCEPT ![d] = Register(states[d])]
  /\ UNCHANGED fails

ReporterSuccess(d) ==
  /\ states' = [states EXCEPT ![d] = ReportSuccess(states[d])]
  /\ fails' = [fails EXCEPT ![d] = 0]

ReporterFailure(d) ==
  /\ fails[d] < MaxFails
  /\ states' = [states EXCEPT ![d] = ReportFailure(states[d])]
  /\ fails' = [fails EXCEPT ![d] = fails[d] + 1]

RemoveDep(d) ==
  /\ states' = [states EXCEPT ![d] = Remove(states[d])]
  /\ fails' = [fails EXCEPT ![d] = 0]

ReportsNext ==
  \E d \in Deps :
    RegisterDep(d) \/ ReporterSuccess(d) \/ ReporterFailure(d) \/ RemoveDep(d)

ReportsSpec == ReportsInit /\ [][ReportsNext]_reportsVars

-----------------------------------------------------------------------------
\* What so many consecutive failures make of a dependency.
Verdict(n) ==
  IF n = 0 THEN StatusUp
  ELSE IF n >= StoreFailureThreshold THEN StatusDown
  ELSE IF n >= DegradedThreshold THEN StatusDegraded
  ELSE StatusUp

\* Under reports alone, whatever their order and whoever registers or removes
\* a dependency in between, its status and its circuit say exactly how many of
\* its own failures came in a row, in either order of the two thresholds, and
\* one success clears all of it (ReportSuccess, ReportFailure).  A threshold of
\* 0 acts as 1: without a failure nothing is DOWN or DEGRADED.
StatusFollowsFailures ==
  \A d \in Deps : states[d] # NoEntry =>
    /\ states[d].Status = Verdict(fails[d])
    /\ states[d].CircuitState = (IF Verdict(fails[d]) = StatusDown
                                 THEN CircuitOpen ELSE CircuitClosed)
=============================================================================
