--------------------------- MODULE DepStateStore ---------------------------
(***************************************************************************)
(* The entry the dependency state store keeps for one dependency, and the  *)
(* operations of DepStateStore on it.  Each method holds s.mu from start   *)
(* to end, so each is one atomic function from the old entry to the new    *)
(* one; NoEntry stands for an id the map does not hold.  Latencies,        *)
(* timestamps, messages and metadata are left out: no decision of the      *)
(* extension reads them.                                                   *)
(*                                                                         *)
(* The thresholds are taken as they are configured: nothing stands in the  *)
(* way of 0, which is what a field left out of the configuration has.      *)
(*                                                                         *)
(* FailureCount is an int64 that is only ever compared with the two        *)
(* thresholds, so it saturates at the larger of them, but not below 1: the *)
(* properties ask whether there was a failure at all.                      *)
(***************************************************************************)
EXTENDS HealthTypes

CONSTANTS StoreFailureThreshold,   \* DepStateStoreConfig.FailureThreshold
          DegradedThreshold        \* DepStateStoreConfig.DegradedThreshold

ASSUME StoreConfigAssumption ==
  /\ StoreFailureThreshold \in Int
  /\ DegradedThreshold \in Int

Larger(m, n) == IF m > n THEN m ELSE n

FailureCountCap == Larger(1, Larger(StoreFailureThreshold, DegradedThreshold))

Entry == [Status       : Status,
          FailureCount : 0..FailureCountCap,
          CircuitState : CircuitState]

NoEntry == [absent |-> TRUE]

\* The entry the first report on an unregistered dependency starts from.
NewDepState ==
  [Status |-> StatusUp, FailureCount |-> 0, CircuitState |-> CircuitClosed]

Ensure(e) == IF e = NoEntry THEN NewDepState ELSE e

\* Variant: an entry that exists is started over.
ResettingRegister(e) == NewDepState

Register(e) == Ensure(e)

ReportSuccess(e) ==
  [Status |-> StatusUp, FailureCount |-> 0, CircuitState |-> CircuitClosed]

CountFailure(n) == IF n < FailureCountCap THEN n + 1 ELSE n

ReportFailure(e) ==
  LET old == Ensure(e)
      n   == CountFailure(old.FailureCount)
  IN  [Status |->
         IF n >= StoreFailureThreshold THEN StatusDown
         ELSE IF n >= DegradedThreshold THEN StatusDegraded
         ELSE old.Status,
       FailureCount |-> n,
       CircuitState |->
         IF n >= StoreFailureThreshold THEN CircuitOpen ELSE old.CircuitState]

SetStatus(e, status) == [Ensure(e) EXCEPT !.Status = status]

SetCircuitState(e, circuit) ==
  IF e = NoEntry THEN e ELSE [e EXCEPT !.CircuitState = circuit]

Remove(e) == NoEntry

\* The two reports CheckCache.GetOrExecute and registry.executeAndReport
\* choose between before they set the status itself.
ReportResult(e, status) ==
  IF status = StatusUp THEN ReportSuccess(e) ELSE ReportFailure(e)
=============================================================================
