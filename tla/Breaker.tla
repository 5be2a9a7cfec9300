------------------------------ MODULE Breaker ------------------------------
(***************************************************************************)
(* circuitBreaker, as functions on its fields.                             *)
(*                                                                         *)
(* Every method of the breaker runs under cb.mu, so each is one function   *)
(* from the fields to an effect: the new fields, and the status that       *)
(* syncState writes to the dependency state store while the lock is still  *)
(* held (NoSync when the method does not call it).  The store write itself *)
(* is two store calls and belongs to the modules that compose the breaker  *)
(* with a store.                                                           *)
(*                                                                         *)
(* lastFailure is kept as elapsed, the time since it, which saturates at   *)
(* Timeout (checkState only asks whether it has reached it).  failureCount *)
(* saturates at FailureThreshold (it is only compared with the threshold   *)
(* and its half).                                                          *)
(***************************************************************************)
EXTENDS HealthTypes

CONSTANTS FailureThreshold,   \* failures that open the circuit
          SuccessThreshold,   \* successes that close it from half-open
          Timeout,            \* time it stays open
          HalfOpenMaxCalls    \* calls admitted per half-open period

\* A FailureThreshold below 1 acts as 1, for Failure counts before it compares;
\* so does a SuccessThreshold, and a negative Timeout or quota acts as 0.
ASSUME BreakerConfigAssumption ==
  /\ FailureThreshold \in Nat \ {0}
  /\ SuccessThreshold \in Nat
  /\ Timeout \in Nat
  /\ HalfOpenMaxCalls \in Nat

BreakerFields ==
  [state         : CircuitState,
   failureCount  : 0..FailureThreshold,
   successCount  : Nat,
   halfOpenCalls : Nat,
   elapsed       : 0..Timeout]

NewCircuitBreaker ==
  [state |-> CircuitClosed, failureCount |-> 0, successCount |-> 0,
   halfOpenCalls |-> 0, elapsed |-> 0]

NoSync == -1

Effect(b, status) == [breaker |-> b, sync |-> status]

-----------------------------------------------------------------------------
\* checkState: the transition from open to half-open.  Both counters restart.

TimedOut(b) == b.state = CircuitOpen /\ b.elapsed >= Timeout

HalfOpened(b) ==
  [b EXCEPT !.state = CircuitHalfOpen, !.halfOpenCalls = 0, !.successCount = 0]

\* Variant: the half-open transition is not written to the store.
UnsyncedCheckState(b) ==
  IF TimedOut(b) THEN Effect(HalfOpened(b), NoSync) ELSE Effect(b, NoSync)

\* Variant: the half-open transition is written to the store as a recovery.
CheerfulCheckState(b) ==
  IF TimedOut(b) THEN Effect(HalfOpened(b), StatusUp) ELSE Effect(b, NoSync)

CheckState(b) ==
  IF TimedOut(b) THEN Effect(HalfOpened(b), StatusDegraded) ELSE Effect(b, NoSync)

-----------------------------------------------------------------------------
\* Allow: the answer, and the slot a half-open admission takes.

\* Variant: off by one in the quota.
GenerousSlotFree(b) == b.halfOpenCalls <= HalfOpenMaxCalls

HalfOpenSlotFree(b) == b.halfOpenCalls < HalfOpenMaxCalls

Admits(b) ==
  \/ b.state = CircuitClosed
  \/ b.state = CircuitHalfOpen /\ HalfOpenSlotFree(b)

TakeSlot(b) == [b EXCEPT !.halfOpenCalls = @ + 1]

Allow(b) ==
  LET e == CheckState(b)
  IN  IF e.breaker.state = CircuitHalfOpen /\ Admits(e.breaker)
        THEN Effect(TakeSlot(e.breaker), e.sync)
        ELSE e

Allowed(b) == Admits(CheckState(b).breaker)

-----------------------------------------------------------------------------
\* Success, Failure, Reset.

\* Variant: closing forgets to clear the failure count.
RememberingClosed(b) ==
  [b EXCEPT !.state = CircuitClosed, !.successCount = 0, !.halfOpenCalls = 0]

Closed(b) ==
  [b EXCEPT !.state = CircuitClosed, !.failureCount = 0,
            !.successCount = 0, !.halfOpenCalls = 0]

\* Variants: one success too many is asked for; an open circuit counts
\* successes as well; a success hands back a slot without asking whose it was.
StrictSuccess(b) ==
  IF b.state = CircuitHalfOpen
    THEN IF b.successCount + 1 > SuccessThreshold
           THEN Effect(Closed(b), StatusUp)
           ELSE Effect([b EXCEPT !.successCount = @ + 1], NoSync)
    ELSE Effect(b, NoSync)

HastySuccess(b) ==
  IF b.state # CircuitClosed /\ b.successCount + 1 >= SuccessThreshold
    THEN Effect(Closed(b), StatusUp)
    ELSE Effect([b EXCEPT !.successCount = @ + 1], NoSync)

RefundingSuccess(b) ==
  IF b.state = CircuitHalfOpen
    THEN Effect([b EXCEPT !.halfOpenCalls = @ - 1], NoSync)
    ELSE Effect(b, NoSync)

Success(b) ==
  IF b.state = CircuitHalfOpen
    THEN IF b.successCount + 1 >= SuccessThreshold
           THEN Effect(Closed(b), StatusUp)
           ELSE Effect([b EXCEPT !.successCount = @ + 1], NoSync)
    ELSE IF b.state = CircuitClosed
           THEN Effect([b EXCEPT !.failureCount = 0], NoSync)
           ELSE Effect(b, NoSync)

\* failureCount++ and lastFailure = now, in whatever state the circuit is.
RecordFailure(b) ==
  [b EXCEPT !.failureCount = IF @ < FailureThreshold THEN @ + 1 ELSE @,
            !.elapsed = 0]

Failure(b) ==
  LET f == RecordFailure(b)
  IN  IF b.state = CircuitHalfOpen
        THEN Effect([f EXCEPT !.state = CircuitOpen, !.successCount = 0,
                              !.halfOpenCalls = 0], StatusDown)
      ELSE IF f.failureCount >= FailureThreshold
        THEN Effect([f EXCEPT !.state = CircuitOpen], StatusDown)
      ELSE IF f.failureCount >= FailureThreshold \div 2
        THEN Effect(f, StatusDegraded)
      ELSE Effect(f, NoSync)

Reset(b) == Effect(Closed(b), StatusUp)

-----------------------------------------------------------------------------
\* The clock: time since lastFailure grows.
Older(b) == [b EXCEPT !.elapsed = @ + 1]
=============================================================================
