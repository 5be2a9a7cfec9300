---------------------------- MODULE BreakerProofs ----------------------------
(***************************************************************************)
(* What each method of circuitBreaker does to its fields, as lemmas for    *)
(* the proofs about the modules that run them: the counters it leaves, the *)
(* circuit states it can lead to, the clock, and the status it writes to   *)
(* the store.                                                              *)
(***************************************************************************)
EXTENDS Breaker, TLAPS

\* What the counters may be in each circuit state.
Counters(b) ==
  /\ b.state = CircuitClosed <=> b.failureCount < FailureThreshold
  /\ b.state # CircuitHalfOpen => b.successCount = 0 /\ b.halfOpenCalls = 0

\* What the entry of a circuit in this state may say.
StatusesOf(state) ==
  CASE state = CircuitOpen     -> {StatusDown}
    [] state = CircuitHalfOpen -> {StatusDegraded}
    [] state = CircuitClosed   -> {StatusUp, StatusDegraded}

\* A method writes to the store whenever it changes the circuit's state, and
\* what it writes fits the state it leaves.
Synced(b, e) ==
  IF e.sync = NoSync THEN e.breaker.state = b.state
                     ELSE e.sync \in StatusesOf(e.breaker.state)

\* checkState leaves the fields alone or, once Timeout has passed, starts a
\* half-open period afresh.
LEMMA CheckStateEffect ==
  ASSUME NEW b \in BreakerFields, Counters(b)
  PROVE  LET e == CheckState(b) IN
         /\ e.breaker \in BreakerFields
         /\ Counters(e.breaker)
         /\ e.sync \in Status \cup {NoSync} /\ Synced(b, e)
         /\ e.breaker.elapsed = b.elapsed
         /\ \/ e.breaker = b /\ e.sync = NoSync
            \/ /\ b.state = CircuitOpen /\ b.elapsed = Timeout
               /\ e.breaker.state = CircuitHalfOpen
               /\ e.breaker.halfOpenCalls = 0
               /\ e.breaker.successCount = 0
  <1>1. CASE TimedOut(b)
    <2>1. CheckState(b).breaker = HalfOpened(b) /\ CheckState(b).sync = StatusDegraded
      BY <1>1 DEF CheckState, Effect
    <2>2. HalfOpened(b) \in BreakerFields
          /\ HalfOpened(b).state = CircuitHalfOpen
          /\ HalfOpened(b).failureCount = b.failureCount
          /\ HalfOpened(b).halfOpenCalls = 0
          /\ HalfOpened(b).successCount = 0
          /\ HalfOpened(b).elapsed = b.elapsed
      BY DEF HalfOpened, BreakerFields, CircuitState
    <2>3. b.state = CircuitOpen /\ b.elapsed = Timeout
      BY <1>1, BreakerConfigAssumption DEF TimedOut, BreakerFields
    <2> QED
      BY <2>1, <2>2, <2>3
      DEF Counters, Synced, StatusesOf, Status, NoSync, StatusDegraded,
          CircuitClosed, CircuitOpen, CircuitHalfOpen
  <1>2. CASE ~TimedOut(b)
    <2>1. CheckState(b).breaker = b /\ CheckState(b).sync = NoSync
      BY <1>2 DEF CheckState, Effect
    <2> QED
      BY <2>1 DEF Synced
  <1> QED
    BY <1>1, <1>2

\* Closing clears every counter.
LEMMA ClosedFields ==
  ASSUME NEW b \in BreakerFields
  PROVE  /\ Closed(b) \in BreakerFields
         /\ Closed(b).state = CircuitClosed
         /\ Closed(b).elapsed = b.elapsed
         /\ Counters(Closed(b))
  <1>1. /\ Closed(b) \in BreakerFields
        /\ Closed(b).state = CircuitClosed
        /\ Closed(b).failureCount = 0
        /\ Closed(b).successCount = 0
        /\ Closed(b).halfOpenCalls = 0
        /\ Closed(b).elapsed = b.elapsed
    <2>1. 0 \in 0..FailureThreshold
      BY BreakerConfigAssumption
    <2> QED
      BY <2>1 DEF Closed, BreakerFields, CircuitState
  <1> QED
    BY <1>1, BreakerConfigAssumption DEF Counters

\* A success counts in a half-open circuit below its threshold, and otherwise
\* leaves the circuit not half-open with its counters clear.
LEMMA SuccessEffect ==
  ASSUME NEW b \in BreakerFields, Counters(b)
  PROVE  LET e == Success(b) IN
         /\ e.breaker \in BreakerFields
         /\ Counters(e.breaker)
         /\ e.sync \in Status \cup {NoSync} /\ Synced(b, e)
         /\ e.breaker.elapsed = b.elapsed
         /\ \/ e.breaker.state = b.state
            \/ b.state = CircuitHalfOpen /\ e.breaker.state = CircuitClosed
         /\ e.breaker.state = CircuitHalfOpen =>
              /\ b.state = CircuitHalfOpen
              /\ e.breaker.halfOpenCalls = b.halfOpenCalls
              /\ e.breaker.successCount = b.successCount + 1
              /\ e.breaker.successCount < SuccessThreshold
  <1> DEFINE Counted  == [b EXCEPT !.successCount = @ + 1]
             Cleared  == [b EXCEPT !.failureCount = 0]
  <1>1. CASE b.state = CircuitHalfOpen /\ b.successCount + 1 >= SuccessThreshold
    <2>1. Success(b).breaker = Closed(b) /\ Success(b).sync = StatusUp
      BY <1>1 DEF Success, Effect
    <2> QED
      BY <1>1, <2>1, ClosedFields
      DEF Synced, StatusesOf, Status, NoSync, StatusUp, CircuitClosed, CircuitOpen,
          CircuitHalfOpen
  <1>2. CASE b.state = CircuitHalfOpen /\ ~(b.successCount + 1 >= SuccessThreshold)
    <2>1. Success(b).breaker = Counted /\ Success(b).sync = NoSync
      BY <1>2 DEF Success, Effect
    <2>2. /\ Counted \in BreakerFields
          /\ Counted.state = b.state
          /\ Counted.failureCount = b.failureCount
          /\ Counted.halfOpenCalls = b.halfOpenCalls
          /\ Counted.successCount = b.successCount + 1
          /\ Counted.elapsed = b.elapsed
      BY DEF BreakerFields
    <2>3. b.successCount + 1 < SuccessThreshold
      BY <1>2, BreakerConfigAssumption DEF BreakerFields
    <2> QED
      BY <1>2, <2>1, <2>2, <2>3 DEF Counters, Synced, CircuitClosed, CircuitHalfOpen
  <1>3. CASE b.state = CircuitClosed
    <2>1. Success(b).breaker = Cleared /\ Success(b).sync = NoSync
      BY <1>3 DEF Success, Effect, CircuitClosed, CircuitHalfOpen
    <2>2. /\ Cleared \in BreakerFields
          /\ Cleared.state = b.state
          /\ Cleared.failureCount = 0
          /\ Cleared.halfOpenCalls = b.halfOpenCalls
          /\ Cleared.successCount = b.successCount
          /\ Cleared.elapsed = b.elapsed
      BY BreakerConfigAssumption DEF BreakerFields
    <2> QED
      BY <1>3, <2>1, <2>2, BreakerConfigAssumption
      DEF Counters, Synced, CircuitClosed, CircuitHalfOpen
  <1>4. CASE b.state # CircuitHalfOpen /\ b.state # CircuitClosed
    <2>1. Success(b).breaker = b /\ Success(b).sync = NoSync
      BY <1>4 DEF Success, Effect
    <2> QED
      BY <1>4, <2>1 DEF Synced
  <1> QED
    BY <1>1, <1>2, <1>3, <1>4

\* A failure leaves the circuit open, or a closed one closed, and restarts the
\* clock.
LEMMA FailureEffect ==
  ASSUME NEW b \in BreakerFields, Counters(b)
  PROVE  LET e == Failure(b) IN
         /\ e.breaker \in BreakerFields
         /\ Counters(e.breaker)
         /\ e.sync \in Status \cup {NoSync} /\ Synced(b, e)
         /\ e.breaker.elapsed = 0
         /\ \/ e.breaker.state = CircuitOpen
            \/ b.state = CircuitClosed /\ e.breaker.state = CircuitClosed
         /\ e.breaker.state # CircuitHalfOpen
  <1> DEFINE f        == RecordFailure(b)
             Reopened == [f EXCEPT !.state = CircuitOpen, !.successCount = 0,
                                   !.halfOpenCalls = 0]
             Opened   == [f EXCEPT !.state = CircuitOpen]
  <1>1. b.failureCount \in 0..FailureThreshold /\ b.elapsed \in 0..Timeout
    BY DEF BreakerFields
  <1>2. /\ f \in BreakerFields
        /\ f.state = b.state
        /\ f.failureCount = IF b.failureCount < FailureThreshold
                              THEN b.failureCount + 1 ELSE b.failureCount
        /\ f.successCount = b.successCount
        /\ f.halfOpenCalls = b.halfOpenCalls
        /\ f.elapsed = 0
    <2>1. (IF b.failureCount < FailureThreshold
             THEN b.failureCount + 1 ELSE b.failureCount) \in 0..FailureThreshold
      BY <1>1, BreakerConfigAssumption
    <2>2. 0 \in 0..Timeout
      BY BreakerConfigAssumption
    <2> QED
      BY <2>1, <2>2 DEF RecordFailure, BreakerFields
  <1>3. /\ f.failureCount \in 0..FailureThreshold
        /\ b.state # CircuitClosed => f.failureCount = FailureThreshold
    BY <1>1, <1>2, BreakerConfigAssumption DEF Counters
  <1> HIDE DEF f
  <1>4. CASE b.state = CircuitHalfOpen
    <2>1. Failure(b).breaker = Reopened /\ Failure(b).sync = StatusDown
      BY <1>4 DEF Failure, Effect, f
    <2>2. /\ Reopened \in BreakerFields
          /\ Reopened.state = CircuitOpen
          /\ Reopened.failureCount = f.failureCount
          /\ Reopened.successCount = 0
          /\ Reopened.halfOpenCalls = 0
          /\ Reopened.elapsed = 0
      BY <1>2 DEF BreakerFields, CircuitState
    <2> QED
      BY <1>3, <1>4, <2>1, <2>2, BreakerConfigAssumption
      DEF Counters, Synced, StatusesOf, Status, NoSync, StatusDown,
          CircuitClosed, CircuitOpen, CircuitHalfOpen
  <1>5. CASE b.state # CircuitHalfOpen /\ f.failureCount >= FailureThreshold
    <2>1. Failure(b).breaker = Opened /\ Failure(b).sync = StatusDown
      BY <1>5 DEF Failure, Effect, f
    <2>2. /\ Opened \in BreakerFields
          /\ Opened.state = CircuitOpen
          /\ Opened.failureCount = f.failureCount
          /\ Opened.successCount = f.successCount
          /\ Opened.halfOpenCalls = f.halfOpenCalls
          /\ Opened.elapsed = 0
      BY <1>2 DEF BreakerFields, CircuitState
    <2> QED
      BY <1>2, <1>3, <1>5, <2>1, <2>2, BreakerConfigAssumption
      DEF Counters, Synced, StatusesOf, Status, NoSync, StatusDown,
          CircuitClosed, CircuitOpen, CircuitHalfOpen
  <1>6. CASE b.state # CircuitHalfOpen /\ ~(f.failureCount >= FailureThreshold)
    <2>1. /\ Failure(b).breaker = f
          /\ Failure(b).sync \in {StatusDegraded, NoSync}
      BY <1>6 DEF Failure, Effect, f
    <2>2. f.failureCount < FailureThreshold /\ b.state = CircuitClosed
      BY <1>3, <1>6, BreakerConfigAssumption
    <2> QED
      BY <1>2, <1>6, <2>1, <2>2
      DEF Counters, Synced, StatusesOf, Status, NoSync, StatusDegraded,
          CircuitClosed, CircuitOpen, CircuitHalfOpen
  <1> QED
    BY <1>4, <1>5, <1>6

\* Reset closes the circuit and clears the counters.
LEMMA ResetEffect ==
  ASSUME NEW b \in BreakerFields
  PROVE  LET e == Reset(b) IN
         /\ e.breaker \in BreakerFields
         /\ Counters(e.breaker)
         /\ e.sync = StatusUp /\ Synced(b, e)
         /\ e.breaker.elapsed = b.elapsed
         /\ e.breaker.state = CircuitClosed
  <1>1. Reset(b).breaker = Closed(b) /\ Reset(b).sync = StatusUp
    BY DEF Reset, Effect
  <1> QED
    BY <1>1, ClosedFields
    DEF Synced, StatusesOf, NoSync, StatusUp, CircuitClosed, CircuitOpen,
        CircuitHalfOpen

\* Allow admits a call and takes a slot while half-open, or does what checkState
\* does.
LEMMA AllowEffect ==
  ASSUME NEW b \in BreakerFields, Counters(b)
  PROVE  LET e == Allow(b)
             d == CheckState(b).breaker
         IN
         /\ e.breaker \in BreakerFields
         /\ Counters(e.breaker)
         /\ e.sync \in Status \cup {NoSync} /\ Synced(b, e)
         /\ e.sync = CheckState(b).sync
         /\ e.breaker.elapsed = b.elapsed
         /\ e.breaker.state = d.state
         /\ e.breaker.successCount = d.successCount
         /\ \/ /\ e.breaker.state = CircuitHalfOpen /\ Allowed(b)
               /\ d.halfOpenCalls < HalfOpenMaxCalls
               /\ e.breaker.halfOpenCalls = d.halfOpenCalls + 1
            \/ /\ e.breaker.state = CircuitHalfOpen => ~Allowed(b)
               /\ e.breaker = d
  <1> DEFINE d == CheckState(b).breaker
  <1>1. /\ d \in BreakerFields /\ Counters(d) /\ Synced(b, CheckState(b))
        /\ CheckState(b).sync \in Status \cup {NoSync}
        /\ d.elapsed = b.elapsed
    BY CheckStateEffect
  <1>2. CASE d.state = CircuitHalfOpen /\ Admits(d)
    <2>1. Allow(b).breaker = TakeSlot(d) /\ Allow(b).sync = CheckState(b).sync
      BY <1>2 DEF Allow, Effect
    <2>2. Allowed(b)
      BY <1>2 DEF Allowed
    <2>3. d.halfOpenCalls < HalfOpenMaxCalls
      BY <1>2 DEF Admits, HalfOpenSlotFree, CircuitClosed, CircuitHalfOpen
    <2> HIDE DEF d
    <2>4. /\ TakeSlot(d) \in BreakerFields
          /\ TakeSlot(d).state = d.state
          /\ TakeSlot(d).failureCount = d.failureCount
          /\ TakeSlot(d).successCount = d.successCount
          /\ TakeSlot(d).halfOpenCalls = d.halfOpenCalls + 1
          /\ TakeSlot(d).elapsed = d.elapsed
      BY <1>1 DEF TakeSlot, BreakerFields
    <2>5. Counters(TakeSlot(d))
      BY <1>1, <1>2, <2>4 DEF Counters
    <2>6. Synced(b, Allow(b))
      BY <1>1, <2>1, <2>4 DEF Synced, d
    <2> QED
      BY <1>1, <1>2, <2>1, <2>2, <2>3, <2>4, <2>5, <2>6 DEF d
  <1>3. CASE ~(d.state = CircuitHalfOpen /\ Admits(d))
    <2>1. Allow(b) = CheckState(b)
      BY <1>3 DEF Allow
    <2>2. d.state = CircuitHalfOpen => ~Allowed(b)
      BY <1>3 DEF Allowed
    <2> QED
      BY <1>1, <2>1, <2>2
  <1> QED
    BY <1>2, <1>3
=============================================================================
