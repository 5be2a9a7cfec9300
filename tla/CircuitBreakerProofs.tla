------------------------ MODULE CircuitBreakerProofs ------------------------
(***************************************************************************)
(* Proofs about the circuit breaker, for every set of callers, every       *)
(* threshold and every order of calls, answers, resets and ticks.          *)
(*                                                                         *)
(* The inductive invariant adds to the type of the state what the counters *)
(* can be in each circuit state and the accounting of half-open slots;     *)
(* neither the quota on probes nor the absence of a wedge is inductive     *)
(* alone, because Allow and Success read the counters, not the probes.     *)
(***************************************************************************)
EXTENDS CircuitBreaker, BreakerProofs, FiniteSetTheorems, TLAPS

IInv == TypeOK /\ FreshCounters /\ SlotAccounting

\* The quota covers the successes asked for.
QuotaCoversThreshold ==
  HalfOpenMaxCalls > 0 /\ HalfOpenMaxCalls >= SuccessThreshold

-----------------------------------------------------------------------------
\* What a step does to the variables.

LEMMA ProbesFinite == IsFiniteSet(Probes) /\ Cardinality(Probes) \in Nat
  <1>1. Probes \subseteq Callers
    BY DEF Probes
  <1> QED
    BY <1>1, CallersAssumption, FS_Subset, FS_CardinalityType

LEMMA InitIInv == Init => IInv
  <1> SUFFICES ASSUME Init PROVE IInv
    OBVIOUS
  <1>1. TypeOK
    <2>1. 0 \in 0..FailureThreshold /\ 0 \in 0..Timeout
      BY BreakerConfigAssumption
    <2>2. breaker \in BreakerFields
      BY <2>1 DEF Init, NewCircuitBreaker, BreakerFields, CircuitState
    <2> QED
      BY <2>2 DEF Init, TypeOK, Nothing, Status, CircuitState
  <1>2. /\ breaker.state = CircuitClosed
        /\ breaker.failureCount = 0
        /\ breaker.successCount = 0
        /\ breaker.halfOpenCalls = 0
    BY DEF Init, NewCircuitBreaker
  <1>3. FreshCounters
    BY <1>2, BreakerConfigAssumption DEF FreshCounters
  <1>4. SlotAccounting
    BY <1>2 DEF Init, SlotAccounting, Probes, CircuitClosed, CircuitHalfOpen
  <1> QED
    BY <1>1, <1>3, <1>4 DEF IInv

\* A method of the breaker keeps the types of the fields and of what it has
\* left to write.
LEMMA RunTypes ==
  ASSUME TypeOK, NEW e, e.breaker \in BreakerFields,
         e.sync \in Status \cup {NoSync}, Run(e)
  PROVE  /\ breaker' \in BreakerFields
         /\ dep' \in [Status : Status, CircuitState : CircuitState]
         /\ due' \in [Status       : Status \cup {NoSync},
                     CircuitState : CircuitState \cup {NoSync}]
  <1>1. e.breaker.state \in CircuitState
    BY DEF BreakerFields
  <1>2. CASE e.sync = NoSync
    BY <1>2 DEF TypeOK, Run, SyncState, Nothing
  <1>3. CASE e.sync \in Status /\ e.sync # NoSync
    BY <1>1, <1>3 DEF TypeOK, Run, SyncState
  <1> QED
    BY <1>2, <1>3

\* The probes after an answer: those of calls, unless the period is over.
LEMMA OutlivedProbes ==
  ASSUME NEW e, NEW calls \in [Callers -> InFlight \cup {"idle"}],
         call' = Outlived(e, calls)
  PROVE  /\ call' \in [Callers -> InFlight \cup {"idle"}]
         /\ e.breaker.state # CircuitHalfOpen => Probes' = {}
         /\ e.breaker.state = CircuitHalfOpen =>
              Probes' = {c \in Callers : calls[c] = "probe"}
  BY DEF Outlived, Probes, InFlight

\* A success in a half-open period is accounted for, whoever reports it: the
\* probes in flight lose at most the one whose call returned.
LEMMA SuccessAccounting ==
  ASSUME IInv, NEW e, e = Success(breaker), Run(e),
         IsFiniteSet(Probes'),
         e.breaker.state = CircuitHalfOpen =>
            \/ Probes' = Probes
            \/ \E c \in Probes : Probes' = Probes \ {c},
         e.breaker.state # CircuitHalfOpen => Probes' = {}
  PROVE  FreshCounters' /\ SlotAccounting'
  <1> USE DEF IInv
  <1>1. breaker \in BreakerFields /\ Counters(breaker)
    BY DEF TypeOK, FreshCounters, Counters
  <1>2. /\ breaker' = e.breaker
        /\ breaker' \in BreakerFields
        /\ Counters(breaker')
        /\ breaker'.state = CircuitHalfOpen =>
              /\ breaker.state = CircuitHalfOpen
              /\ breaker'.halfOpenCalls = breaker.halfOpenCalls
              /\ breaker'.successCount = breaker.successCount + 1
              /\ breaker'.successCount < SuccessThreshold
    BY <1>1, SuccessEffect DEF Run
  <1>3. FreshCounters'
    BY <1>2 DEF FreshCounters, Counters
  <1>4. SlotAccounting'
    <2>1. CASE breaker'.state # CircuitHalfOpen
      BY <1>2, <2>1 DEF SlotAccounting
    <2>2. CASE breaker'.state = CircuitHalfOpen
      <3>1. /\ Cardinality(Probes) <= breaker.halfOpenCalls
            /\ breaker.halfOpenCalls <= breaker.successCount + Cardinality(Probes)
            /\ breaker.halfOpenCalls <= HalfOpenMaxCalls
        BY <1>2, <2>2 DEF SlotAccounting
      <3>2. \/ Cardinality(Probes') = Cardinality(Probes)
            \/ Cardinality(Probes') = Cardinality(Probes) - 1
        <4>1. CASE Probes' = Probes
          BY <4>1
        <4>2. CASE \E c \in Probes : Probes' = Probes \ {c}
          BY <4>2, ProbesFinite, FS_RemoveElement
        <4> QED
          BY <1>2, <2>2, <4>1, <4>2
      <3>3. /\ breaker.halfOpenCalls \in Nat /\ breaker.successCount \in Nat
            /\ Cardinality(Probes) \in Nat /\ Cardinality(Probes') \in Nat
        BY <1>1, ProbesFinite, FS_CardinalityType DEF BreakerFields
      <3> QED
        BY <1>2, <2>2, <3>1, <3>2, <3>3, BreakerConfigAssumption DEF SlotAccounting
    <2> QED
      BY <2>1, <2>2
  <1> QED
    BY <1>3, <1>4

\* Any method after which the circuit is not half-open needs no accounting.
LEMMA EndedAccounting ==
  ASSUME NEW e, Counters(e.breaker), e.breaker.state # CircuitHalfOpen, Run(e),
         Probes' = {}
  PROVE  FreshCounters' /\ SlotAccounting'
  BY DEF Run, Counters, FreshCounters, SlotAccounting

\* checkState keeps the accounting: it changes nothing, or starts a period in
\* which no slot is taken and no probe is in flight.
LEMMA CheckStateAccounting ==
  ASSUME IInv, NEW b, b = CheckState(breaker).breaker
  PROVE  /\ b \in BreakerFields /\ Counters(b)
         /\ b.state = CircuitHalfOpen =>
              /\ Cardinality(Probes) <= b.halfOpenCalls
              /\ b.halfOpenCalls <= b.successCount + Cardinality(Probes)
              /\ b.halfOpenCalls <= HalfOpenMaxCalls
              /\ b.successCount > 0 => b.successCount < SuccessThreshold
         /\ b.state # CircuitHalfOpen => Probes = {}
  <1>1. breaker \in BreakerFields /\ Counters(breaker)
    BY DEF IInv, TypeOK, FreshCounters, Counters
  <1>2. /\ b \in BreakerFields /\ Counters(b)
        /\ \/ b = breaker
           \/ /\ breaker.state # CircuitHalfOpen
              /\ b.state = CircuitHalfOpen
              /\ b.halfOpenCalls = 0
              /\ b.successCount = 0
    BY <1>1, CheckStateEffect DEF CircuitOpen, CircuitHalfOpen
  <1>3. CASE b = breaker
    BY <1>2, <1>3 DEF IInv, SlotAccounting
  <1>4. CASE breaker.state # CircuitHalfOpen /\ b.state = CircuitHalfOpen
             /\ b.halfOpenCalls = 0 /\ b.successCount = 0
    <2>1. Probes = {}
      BY <1>4 DEF IInv, SlotAccounting
    <2>2. Cardinality(Probes) = 0
      BY <2>1, FS_EmptySet
    <2> QED
      BY <1>2, <1>4, <2>2, BreakerConfigAssumption
  <1> QED
    BY <1>2, <1>3, <1>4

LEMMA AllowInductive ==
  ASSUME IInv, NEW c \in Callers, CallAllow(c)
  PROVE  IInv'
  <1> DEFINE b == CheckState(breaker).breaker
             e == Allow(breaker)
  <1>1. /\ breaker \in BreakerFields /\ Counters(breaker)
        /\ call \in [Callers -> InFlight \cup {"idle"}]
        /\ call[c] = "idle"
    BY DEF IInv, TypeOK, FreshCounters, Counters, CallAllow
  <1>2. /\ b \in BreakerFields /\ Counters(b)
        /\ b.state = CircuitHalfOpen =>
              /\ Cardinality(Probes) <= b.halfOpenCalls
              /\ b.halfOpenCalls <= b.successCount + Cardinality(Probes)
              /\ b.halfOpenCalls <= HalfOpenMaxCalls
              /\ b.successCount > 0 => b.successCount < SuccessThreshold
        /\ b.state # CircuitHalfOpen => Probes = {}
    BY CheckStateAccounting
  <1>3. CheckState(breaker).sync \in Status \cup {NoSync}
    BY <1>1, CheckStateEffect
  <1>4. Run(e)
        /\ call' = IF Allowed(breaker)
                     THEN [call EXCEPT ![c] = Admission(e)] ELSE call
    BY DEF CallAllow
  <1>5. c \notin Probes
    BY <1>1 DEF Probes
  <1> HIDE DEF b
  <1>6. CASE b.state = CircuitHalfOpen /\ Admits(b)
    <2>1. e.breaker = TakeSlot(b) /\ e.sync = CheckState(breaker).sync
      BY <1>6 DEF Allow, Effect, b
    <2>2. /\ TakeSlot(b) \in BreakerFields
          /\ TakeSlot(b).state = CircuitHalfOpen
          /\ TakeSlot(b).failureCount = b.failureCount
          /\ TakeSlot(b).successCount = b.successCount
          /\ TakeSlot(b).halfOpenCalls = b.halfOpenCalls + 1
      BY <1>2, <1>6 DEF TakeSlot, BreakerFields
    <2>3. breaker' = TakeSlot(b)
      BY <1>4, <2>1 DEF Run
    <2>4. /\ breaker' \in BreakerFields
          /\ dep' \in [Status : Status, CircuitState : CircuitState]
          /\ due' \in [Status       : Status \cup {NoSync},
                      CircuitState : CircuitState \cup {NoSync}]
      <3>1. e.breaker \in BreakerFields /\ e.sync \in Status \cup {NoSync} /\ TypeOK
        BY <1>3, <2>1, <2>2 DEF IInv
      <3> HIDE DEF e
      <3> QED
        BY <1>4, <3>1, RunTypes
    <2>5. call' = [call EXCEPT ![c] = "probe"]
      BY <1>4, <1>6, <2>1, <2>2 DEF Allowed, Admission, b
    <2>6. Probes' = Probes \cup {c}
      BY <1>1, <2>5 DEF Probes
    <2>7. TypeOK'
      BY <1>1, <2>4, <2>5 DEF TypeOK, InFlight
    <2>8. FreshCounters'
      BY <1>2, <1>6, <2>2, <2>3 DEF FreshCounters, Counters
    <2>9. Cardinality(Probes') = Cardinality(Probes) + 1
      BY <1>5, <2>6, ProbesFinite, FS_AddElement
    <2>10. SlotAccounting'
      <3>1. b.halfOpenCalls < HalfOpenMaxCalls
        BY <1>6 DEF Admits, HalfOpenSlotFree, CircuitClosed, CircuitHalfOpen
      <3>2. b.halfOpenCalls \in Nat /\ b.successCount \in Nat
        BY <1>2 DEF BreakerFields
      <3> QED
        BY <1>2, <1>6, <2>2, <2>3, <2>9, <3>1, <3>2, ProbesFinite,
           BreakerConfigAssumption
        DEF SlotAccounting
    <2> QED
      BY <2>7, <2>8, <2>10 DEF IInv
  <1>7. CASE ~(b.state = CircuitHalfOpen /\ Admits(b))
    <2>1. e = CheckState(breaker)
      BY <1>7 DEF Allow, b
    <2>2. e.breaker = b /\ breaker' = b
      BY <1>4, <2>1 DEF Run, b
    <2>3. /\ breaker' \in BreakerFields
          /\ dep' \in [Status : Status, CircuitState : CircuitState]
          /\ due' \in [Status       : Status \cup {NoSync},
                      CircuitState : CircuitState \cup {NoSync}]
      <3>1. e.breaker \in BreakerFields /\ e.sync \in Status \cup {NoSync} /\ TypeOK
        BY <1>2, <1>3, <2>1, <2>2 DEF IInv
      <3> HIDE DEF e
      <3> QED
        BY <1>4, <3>1, RunTypes
    <2>4. call' = call \/ call' = [call EXCEPT ![c] = "normal"]
      <3>1. CASE Allowed(breaker)
        <4>1. b.state # CircuitHalfOpen
          BY <1>7, <3>1 DEF Allowed, b
        <4> QED
          BY <1>4, <2>2, <3>1, <4>1 DEF Admission
      <3>2. CASE ~Allowed(breaker)
        BY <1>4, <3>2
      <3> QED
        BY <3>1, <3>2
    <2>5. Probes' = Probes
      BY <1>1, <2>4 DEF Probes
    <2>6. TypeOK'
      BY <1>1, <2>3, <2>4 DEF TypeOK, InFlight
    <2>7. FreshCounters' /\ SlotAccounting'
      BY <1>2, <2>2, <2>5 DEF FreshCounters, SlotAccounting, Counters
    <2> QED
      BY <2>6, <2>7 DEF IInv
  <1> QED
    BY <1>6, <1>7

\* Every step keeps the invariant.
LEMMA NextInductive == IInv /\ [Next]_vars => IInv'
  <1> SUFFICES ASSUME IInv, [Next]_vars PROVE IInv'
    OBVIOUS
  <1>1. /\ breaker \in BreakerFields /\ Counters(breaker)
        /\ call \in [Callers -> InFlight \cup {"idle"}]
        /\ TypeOK
    BY DEF IInv, TypeOK, FreshCounters, Counters
  <1>2. ASSUME NEW c \in Callers, CallAllow(c) PROVE IInv'
    BY <1>2, AllowInductive
  <1>3. ASSUME NEW c \in Callers, CallSucceeds(c) PROVE IInv'
    <2> DEFINE e    == Success(breaker)
               left == [call EXCEPT ![c] = "idle"]
    <2>1. Run(e) /\ call' = Outlived(e, left) /\ call[c] \in InFlight
      BY <1>3 DEF CallSucceeds, CallReturns
    <2>2. /\ e.breaker \in BreakerFields
          /\ e.sync \in Status \cup {NoSync}
          /\ e.breaker.state = CircuitHalfOpen => breaker.state = CircuitHalfOpen
      BY <1>1, SuccessEffect
    <2>3. left \in [Callers -> InFlight \cup {"idle"}]
      BY <1>1
    <2>4. {d \in Callers : left[d] = "probe"} = Probes \ {c}
      BY <1>1 DEF Probes
    <2>e. e = Success(breaker)
      OBVIOUS
    <2> HIDE DEF e, left
    <2>5. /\ call' \in [Callers -> InFlight \cup {"idle"}]
          /\ e.breaker.state # CircuitHalfOpen => Probes' = {}
          /\ e.breaker.state = CircuitHalfOpen => Probes' = Probes \ {c}
      BY <2>1, <2>3, <2>4, OutlivedProbes
    <2>6. TypeOK'
      BY <1>1, <2>1, <2>2, <2>5, RunTypes DEF TypeOK
    <2>7. IsFiniteSet(Probes')
      BY <2>5, ProbesFinite, FS_EmptySet, FS_RemoveElement
    <2>8. e.breaker.state = CircuitHalfOpen =>
             Probes' = Probes \/ \E d \in Probes : Probes' = Probes \ {d}
      BY <2>5
    <2>9. FreshCounters' /\ SlotAccounting'
      BY <2>1, <2>5, <2>7, <2>8, <2>e, SuccessAccounting
    <2> QED
      BY <2>6, <2>9 DEF IInv
  <1>4. ASSUME NEW c \in Callers, CallFails(c) PROVE IInv'
    <2> DEFINE e    == Failure(breaker)
               left == [call EXCEPT ![c] = "idle"]
    <2>1. Run(e) /\ call' = Outlived(e, left)
      BY <1>4 DEF CallFails, CallReturns
    <2>2. /\ e.breaker \in BreakerFields /\ Counters(e.breaker)
          /\ e.sync \in Status \cup {NoSync}
          /\ e.breaker.state # CircuitHalfOpen
      BY <1>1, FailureEffect
    <2>3. left \in [Callers -> InFlight \cup {"idle"}]
      BY <1>1
    <2> HIDE DEF e, left
    <2>4. call' \in [Callers -> InFlight \cup {"idle"}] /\ Probes' = {}
      BY <2>1, <2>2, <2>3, OutlivedProbes
    <2>5. TypeOK'
      BY <1>1, <2>1, <2>2, <2>4, RunTypes DEF TypeOK
    <2> QED
      BY <2>1, <2>2, <2>4, <2>5, EndedAccounting DEF IInv
  <1>5. CASE ReporterSuccess
    <2> DEFINE e == Success(breaker)
    <2>1. Run(e) /\ call' = Outlived(e, call)
      BY <1>5 DEF ReporterSuccess, Unsolicited
    <2>2. /\ e.breaker \in BreakerFields
          /\ e.sync \in Status \cup {NoSync}
      BY <1>1, SuccessEffect
    <2>e. e = Success(breaker)
      OBVIOUS
    <2> HIDE DEF e
    <2>3. /\ call' \in [Callers -> InFlight \cup {"idle"}]
          /\ e.breaker.state # CircuitHalfOpen => Probes' = {}
          /\ e.breaker.state = CircuitHalfOpen => Probes' = Probes
      BY <1>1, <2>1, OutlivedProbes DEF Probes
    <2>4. TypeOK'
      BY <1>1, <2>1, <2>2, <2>3, RunTypes DEF TypeOK
    <2>5. IsFiniteSet(Probes')
      BY <2>3, ProbesFinite, FS_EmptySet
    <2>6. FreshCounters' /\ SlotAccounting'
      BY <2>1, <2>3, <2>5, <2>e, SuccessAccounting
    <2> QED
      BY <2>4, <2>6 DEF IInv
  <1>6. ASSUME NEW e, e.breaker \in BreakerFields, Counters(e.breaker),
               e.sync \in Status \cup {NoSync},
               e.breaker.state # CircuitHalfOpen, Unsolicited(e)
        PROVE  IInv'
    <2>1. Run(e) /\ call' = Outlived(e, call)
      BY <1>6 DEF Unsolicited
    <2>2. call' \in [Callers -> InFlight \cup {"idle"}] /\ Probes' = {}
      BY <1>1, <1>6, <2>1, OutlivedProbes
    <2>3. TypeOK'
      BY <1>1, <1>6, <2>1, <2>2, RunTypes DEF TypeOK
    <2> QED
      BY <1>6, <2>1, <2>2, <2>3, EndedAccounting DEF IInv
  <1>7. CASE ReporterFailure
    BY <1>1, <1>6, <1>7, FailureEffect DEF ReporterFailure
  <1>8. CASE ResetBreaker
    BY <1>1, <1>6, <1>8, ResetEffect
    DEF ResetBreaker, Status, CircuitClosed, CircuitHalfOpen
  <1>9. CASE PollState
    <2> DEFINE e == CheckState(breaker)
    <2>1. Run(e) /\ call' = Outlived(e, call)
      BY <1>9 DEF PollState, Unsolicited
    <2>2. /\ e.breaker \in BreakerFields /\ Counters(e.breaker)
          /\ e.sync \in Status \cup {NoSync}
      BY <1>1, CheckStateEffect
    <2>3. /\ e.breaker.state = CircuitHalfOpen =>
               /\ Cardinality(Probes) <= e.breaker.halfOpenCalls
               /\ e.breaker.halfOpenCalls
                    <= e.breaker.successCount + Cardinality(Probes)
               /\ e.breaker.halfOpenCalls <= HalfOpenMaxCalls
               /\ e.breaker.successCount > 0 =>
                     e.breaker.successCount < SuccessThreshold
          /\ e.breaker.state # CircuitHalfOpen => Probes = {}
      BY CheckStateAccounting
    <2> HIDE DEF e
    <2>4. /\ call' \in [Callers -> InFlight \cup {"idle"}]
          /\ Probes' = Probes
      BY <1>1, <2>1, <2>3, OutlivedProbes DEF Probes
    <2>5. TypeOK'
      BY <1>1, <2>1, <2>2, <2>4, RunTypes DEF TypeOK
    <2>6. FreshCounters' /\ SlotAccounting'
      BY <2>1, <2>2, <2>3, <2>4 DEF Run, FreshCounters, SlotAccounting, Counters
    <2> QED
      BY <2>5, <2>6 DEF IInv
  <1>10. CASE Tick
    <2>1. /\ breaker' = Older(breaker) /\ breaker.elapsed < Timeout
          /\ dep' = dep /\ due' = due /\ call' = call /\ Probes' = Probes
      BY <1>10 DEF Tick, Probes
    <2>2. breaker.elapsed + 1 \in 0..Timeout
      BY <1>1, <2>1, BreakerConfigAssumption DEF BreakerFields
    <2>3. /\ breaker' \in BreakerFields
          /\ breaker'.state = breaker.state
          /\ breaker'.failureCount = breaker.failureCount
          /\ breaker'.successCount = breaker.successCount
          /\ breaker'.halfOpenCalls = breaker.halfOpenCalls
      BY <1>1, <2>1, <2>2 DEF Older, BreakerFields
    <2> QED
      BY <2>1, <2>3 DEF IInv, TypeOK, FreshCounters, SlotAccounting
  <1>11. CASE UNCHANGED vars
    BY <1>11 DEF vars, IInv, TypeOK, FreshCounters, SlotAccounting, Probes
  <1>12. CASE SyncStatus \/ SyncCircuitState
    <2>1. breaker' = breaker /\ call' = call /\ Probes' = Probes
      BY <1>12 DEF SyncStatus, SyncCircuitState, Probes
    <2>2. TypeOK'
      <3>1. CASE SyncStatus
        BY <1>1, <2>1, <3>1 DEF SyncStatus, TypeOK
      <3>2. CASE SyncCircuitState
        BY <1>1, <2>1, <3>2 DEF SyncCircuitState, TypeOK, Nothing, NoSync
      <3> QED
        BY <1>12, <3>1, <3>2
    <2> QED
      BY <2>1, <2>2 DEF IInv, FreshCounters, SlotAccounting
  <1> QED
    BY <1>2, <1>3, <1>4, <1>5, <1>7, <1>8, <1>9, <1>10, <1>11, <1>12 DEF Next

-----------------------------------------------------------------------------
\* The breaker's fields, the store entry and the calls keep their types
\* whatever calls, answers and resets interleave.
THEOREM TypeCorrect == Spec => []TypeOK
  <1>1. IInv => TypeOK
    BY DEF IInv
  <1> QED
    BY InitIInv, NextInductive, <1>1, PTL DEF Spec

\* The counters Allow, Success and Failure read mean what they say, and every
\* slot of a half-open period is a live probe or a counted success.
THEOREM Accounting == Spec => [](FreshCounters /\ SlotAccounting)
  <1>1. IInv => FreshCounters /\ SlotAccounting
    BY DEF IInv
  <1> QED
    BY InitIInv, NextInductive, <1>1, PTL DEF Spec

\* The counters of one circuit state are not carried into the next.
THEOREM CountersRestart == Spec => []FreshCounters
  <1>1. IInv => FreshCounters
    BY DEF IInv
  <1> QED
    BY InitIInv, NextInductive, <1>1, PTL DEF Spec

\* No half-open period ever has more than HalfOpenMaxCalls probes in flight.
THEOREM QuotaHolds == Spec => []ProbesWithinQuota
  <1>1. IInv => ProbesWithinQuota
    <2> SUFFICES ASSUME IInv PROVE ProbesWithinQuota
      OBVIOUS
    <2>1. CASE breaker.state = CircuitHalfOpen
      BY <2>1, ProbesFinite, BreakerConfigAssumption
      DEF IInv, TypeOK, BreakerFields, SlotAccounting, ProbesWithinQuota
    <2>2. CASE breaker.state # CircuitHalfOpen
      BY <2>2, FS_EmptySet, BreakerConfigAssumption
      DEF IInv, SlotAccounting, ProbesWithinQuota
    <2> QED
      BY <2>1, <2>2
  <1> QED
    BY InitIInv, NextInductive, <1>1, PTL DEF Spec

\* A half-open circuit with no probe in flight admits the next call, for every
\* configuration whose quota covers the successes it asks for.
THEOREM NeverWedged == ASSUME QuotaCoversThreshold PROVE Spec => []NoWedge
  <1>1. IInv => NoWedge
    <2> SUFFICES ASSUME IInv, breaker.state = CircuitHalfOpen, Probes = {}
                 PROVE  breaker.halfOpenCalls < HalfOpenMaxCalls
      BY DEF NoWedge, HalfOpenSlotFree
    <2>1. Cardinality(Probes) = 0
      BY FS_EmptySet
    <2>2. breaker.halfOpenCalls \in Nat /\ breaker.successCount \in Nat
      BY DEF IInv, TypeOK, BreakerFields
    <2> QED
      BY <2>1, <2>2, BreakerConfigAssumption, QuotaCoversThreshold
      DEF IInv, SlotAccounting, QuotaCoversThreshold
  <1> QED
    BY InitIInv, NextInductive, <1>1, PTL DEF Spec

\* An open circuit ends by checkState, after the timeout, or by Reset: neither
\* Allow's slot nor an answer, late or unsolicited, takes it out of that state.
LEMMA OpenEnds ==
  ASSUME IInv, [Next]_vars, breaker.state = CircuitOpen
  PROVE  \/ breaker'.state = CircuitOpen
         \/ breaker'.state = CircuitHalfOpen /\ breaker.elapsed = Timeout
         \/ ResetBreaker
  <1> DEFINE Patient == \/ breaker'.state = CircuitOpen
                        \/ breaker'.state = CircuitHalfOpen /\ breaker.elapsed = Timeout
             b == CheckState(breaker).breaker
  <1>1. breaker \in BreakerFields
    BY DEF IInv, TypeOK
  <1>2. \/ b.state = CircuitOpen
        \/ b.state = CircuitHalfOpen /\ breaker.elapsed = Timeout
    <2>1. CASE TimedOut(breaker)
      <3>1. b = HalfOpened(breaker)
        BY <2>1 DEF CheckState, Effect
      <3>2. b.state = CircuitHalfOpen
        BY <1>1, <3>1 DEF HalfOpened, BreakerFields
      <3>3. breaker.elapsed = Timeout
        BY <1>1, <2>1, BreakerConfigAssumption DEF TimedOut, BreakerFields
      <3> QED BY <3>2, <3>3
    <2>2. CASE ~TimedOut(breaker)
      BY <2>2 DEF CheckState, Effect
    <2> QED BY <2>1, <2>2
  <1>3. b \in BreakerFields
    BY <1>1, CheckStateEffect DEF IInv, FreshCounters, Counters
  <1>4. Success(breaker).breaker = breaker
    BY DEF Success, Effect, CircuitClosed, CircuitOpen, CircuitHalfOpen
  <1>5. Failure(breaker).breaker.state = CircuitOpen
    <2> DEFINE f == RecordFailure(breaker)
    <2>1. f.state = CircuitOpen /\ [f EXCEPT !.state = CircuitOpen].state = CircuitOpen
      BY <1>1 DEF RecordFailure, BreakerFields
    <2> HIDE DEF f
    <2>2. Failure(breaker).breaker \in {f, [f EXCEPT !.state = CircuitOpen]}
      BY DEF Failure, Effect, f, CircuitOpen, CircuitHalfOpen
    <2> QED BY <2>1, <2>2
  <1>6. ASSUME NEW c \in Callers, CallAllow(c) PROVE Patient
    <2>1. breaker' = Allow(breaker).breaker
      BY <1>6 DEF CallAllow, Run
    <2>2. Allow(breaker).breaker \in {b, TakeSlot(b)}
      BY DEF Allow, Effect
    <2>3. TakeSlot(b).state = b.state
      BY <1>3 DEF TakeSlot, BreakerFields
    <2> HIDE DEF b
    <2> QED BY <1>2, <2>1, <2>2, <2>3
  <1>7. ASSUME NEW c \in Callers, CallSucceeds(c) PROVE Patient
    BY <1>4, <1>7 DEF CallSucceeds, CallReturns, Run
  <1>8. ASSUME NEW c \in Callers, CallFails(c) PROVE Patient
    BY <1>5, <1>8 DEF CallFails, CallReturns, Run
  <1>9. CASE ReporterSuccess
    BY <1>4, <1>9 DEF ReporterSuccess, Unsolicited, Run
  <1>10. CASE ReporterFailure
    BY <1>5, <1>10 DEF ReporterFailure, Unsolicited, Run
  <1>11. CASE PollState
    BY <1>2, <1>11 DEF PollState, Unsolicited, Run
  <1>12. CASE Tick
    BY <1>1, <1>12 DEF Tick, Older, BreakerFields
  <1>13. CASE SyncStatus \/ SyncCircuitState \/ UNCHANGED vars
    BY <1>13 DEF SyncStatus, SyncCircuitState, vars
  <1> QED
    BY <1>6, <1>7, <1>8, <1>9, <1>10, <1>11, <1>12, <1>13 DEF Next

\* No late answer closes an open circuit, and nothing but Reset ends it before
\* Timeout has passed since the last failure.
THEOREM Patience == Spec => OpenIsPatient
  <1>1. IInv /\ [Next]_vars =>
          [breaker.state = CircuitOpen =>
             \/ breaker'.state = CircuitOpen
             \/ breaker'.state = CircuitHalfOpen /\ breaker.elapsed = Timeout
             \/ ResetBreaker]_vars
    BY OpenEnds
  <1> QED
    BY InitIInv, NextInductive, <1>1, PTL DEF Spec, OpenIsPatient

-----------------------------------------------------------------------------
\* A wedge: the half-open period has given out its slots and nobody who holds
\* one, or was admitted before, will answer any more.
Wedged ==
  /\ breaker.state = CircuitHalfOpen /\ ~HalfOpenSlotFree(breaker)
  /\ \A c \in Callers : call[c] = "idle"

\* A wedge refuses every call, and no call, poll or tick ends it.
LEMMA WedgeStays ==
  ASSUME IInv, [Next]_vars, Wedged
  PROVE  /\ ~Allowed(breaker)
         /\ Wedged' \/ ReporterSuccess \/ ReporterFailure \/ ResetBreaker
  <1>1. CheckState(breaker) = Effect(breaker, NoSync)
    BY DEF Wedged, CheckState, TimedOut, CircuitHalfOpen, CircuitOpen
  <1>2. CheckState(breaker).breaker = breaker
    BY <1>1 DEF Effect
  <1>3. ~Allowed(breaker)
    BY <1>2 DEF Wedged, Allowed, Admits, CircuitHalfOpen, CircuitClosed
  <1>4. Allow(breaker) = CheckState(breaker)
    BY <1>2, <1>3 DEF Allow, Allowed
  <1>5. ASSUME breaker' = breaker, call' = call PROVE Wedged'
    BY <1>5 DEF Wedged, HalfOpenSlotFree
  <1>6. ASSUME NEW c \in Callers, CallAllow(c) PROVE Wedged'
    BY <1>2, <1>3, <1>4, <1>5, <1>6 DEF CallAllow, Run
  <1>7. ASSUME NEW c \in Callers, CallSucceeds(c) \/ CallFails(c) PROVE FALSE
    BY <1>7 DEF CallSucceeds, CallFails, CallReturns, InFlight, Wedged
  <1>8. ASSUME PollState PROVE Wedged'
    <2>1. breaker' = breaker
      BY <1>2, <1>8 DEF PollState, Unsolicited, Run
    <2>2. \A c \in Callers : call'[c] = "idle"
      BY <1>8 DEF PollState, Unsolicited, Outlived, Wedged
    <2> QED
      BY <2>1, <2>2 DEF Wedged, HalfOpenSlotFree
  <1>9. ASSUME Tick PROVE Wedged'
    <2>1. /\ breaker'.state = breaker.state
          /\ breaker'.halfOpenCalls = breaker.halfOpenCalls
          /\ call' = call
      BY <1>9 DEF Tick, Older, IInv, TypeOK, BreakerFields
    <2> QED
      BY <2>1 DEF Wedged, HalfOpenSlotFree
  <1>10. ASSUME SyncStatus \/ SyncCircuitState \/ UNCHANGED vars PROVE Wedged'
    BY <1>5, <1>10 DEF SyncStatus, SyncCircuitState, vars
  <1> QED
    BY <1>3, <1>6, <1>7, <1>8, <1>9, <1>10 DEF Next

\* A wedge is for good as far as the users of Allow are concerned, for every
\* configuration that can reach one (the defaults do): time does not heal it,
\* and neither does any number of further calls.  Only Reset, or a report of
\* somebody who did not ask Allow first, ends it.
THEOREM WedgeIsPermanent ==
  Spec => [][Wedged =>
               /\ ~Allowed(breaker)
               /\ \/ Wedged'
                  \/ ReporterSuccess \/ ReporterFailure \/ ResetBreaker]_vars
  <1>1. IInv /\ [Next]_vars =>
          [Wedged =>
             /\ ~Allowed(breaker)
             /\ \/ Wedged'
                \/ ReporterSuccess \/ ReporterFailure \/ ResetBreaker]_vars
    BY WedgeStays
  <1> QED
    BY InitIInv, NextInductive, <1>1, PTL DEF Spec

-----------------------------------------------------------------------------
(***************************************************************************)
(* CircuitBreaker implements AbstractBreaker.                              *)
(*                                                                         *)
(* The counters say nothing of the entry.  EntryFollows does: when nobody  *)
(* holds cb.mu the entry fits the circuit, and what a holder has left to   *)
(* write makes it fit, the status first.                                   *)
(***************************************************************************)

StatusFits(status) == status \in Promise!StatusesOf(breaker.state)

EntryFollows ==
  IF Unlocked
    THEN Promise!Told
    ELSE /\ due.CircuitState = breaker.state
         /\ IF due.Status = NoSync THEN StatusFits(dep.Status) ELSE StatusFits(due.Status)

\* Both modules take their enumerations from HealthTypes.
LEMMA SameTypes ==
  /\ Promise!CircuitClosed = CircuitClosed
  /\ Promise!CircuitOpen = CircuitOpen
  /\ Promise!CircuitHalfOpen = CircuitHalfOpen
  /\ Promise!StatusUp = StatusUp
  /\ Promise!StatusDegraded = StatusDegraded
  /\ Promise!StatusDown = StatusDown
  /\ CircuitClosed # CircuitOpen /\ CircuitClosed # CircuitHalfOpen
  /\ CircuitOpen # CircuitHalfOpen
  BY DEF Promise!CircuitClosed, Promise!CircuitOpen, Promise!CircuitHalfOpen,
         Promise!StatusUp, Promise!StatusDegraded, Promise!StatusDown,
         CircuitClosed, CircuitOpen, CircuitHalfOpen,
         StatusUp, StatusDegraded, StatusDown

\* And their probes are the same.
LEMMA SameProbes == Promise!Cardinality(Promise!Probes) = Cardinality(Probes)
  <1>1. Promise!Probes = Probes
    BY DEF Promise!Probes, Probes
  <1>2. Promise!Cardinality(Probes) = Cardinality(Probes)
    BY DEF Promise!Cardinality, Cardinality
  <1> QED
    BY <1>1, <1>2

LEMMA SameStatuses ==
  ASSUME NEW state PROVE Promise!StatusesOf(state) = StatusesOf(state)
  BY SameTypes DEF Promise!StatusesOf, StatusesOf

\* A method whose effect is Synced has left to write what makes the entry fit.
LEMMA RunFollows ==
  ASSUME EntryFollows, NEW e, e.breaker.state \in CircuitState,
         Synced(breaker, e), Run(e)
  PROVE  EntryFollows'
  <1>1. Unlocked /\ Promise!Told /\ dep' = dep /\ breaker' = e.breaker
    BY DEF EntryFollows, Run
  <1>2. CASE e.sync = NoSync
    <2>1. breaker'.state = breaker.state
      BY <1>1, <1>2 DEF Synced
    <2>2. Unlocked'
      BY <1>2 DEF Run, SyncState, Unlocked
    <2> QED
      BY <1>1, <2>1, <2>2, SameTypes DEF EntryFollows, Promise!Told, Promise!StatusesOf
  <1>3. CASE e.sync # NoSync
    <2>1. due' = [Status |-> e.sync, CircuitState |-> breaker'.state]
      BY <1>1, <1>3 DEF Run, SyncState
    <2>2. due'.Status # NoSync /\ ~Unlocked'
      BY <1>3, <2>1 DEF Unlocked, Nothing
    <2>3. e.sync \in StatusesOf(breaker'.state)
      BY <1>1, <1>3 DEF Synced
    <2>4. StatusFits(due.Status)'
      BY <2>1, <2>3, SameTypes DEF StatusFits, Promise!StatusesOf, StatusesOf
    <2> QED
      BY <2>1, <2>2, <2>4 DEF EntryFollows
  <1> QED
    BY <1>2, <1>3

\* The abstract circuit goes on in the state the method leaves.
LEMMA RunBecomes ==
  ASSUME EntryFollows, NEW e, Run(e), NEW calls, call' = Outlived(e, calls)
  PROVE  Promise!Becomes(e.breaker.state, calls)
  BY SameTypes DEF EntryFollows, Run, Outlived, Promise!Becomes

\* What is left of the timeout.
LEMMA WaitIs ==
  ASSUME breaker \in BreakerFields
  PROVE  /\ Timeout - breaker.elapsed \in 0..Timeout
         /\ breaker.elapsed = Timeout <=> Timeout - breaker.elapsed = 0
  BY BreakerConfigAssumption DEF BreakerFields

\* checkState, alone or as the first part of Allow, half-opens the abstract
\* circuit when it leaves this one half-open.
LEMMA HalfOpenMapsToMayProbe ==
  ASSUME IInv, CheckState(breaker).breaker.state = CircuitHalfOpen
  PROVE  Promise!MayProbe
  <1>1. breaker \in BreakerFields /\ Counters(breaker)
    BY DEF IInv, TypeOK, FreshCounters, Counters
  <1>2. CASE breaker.state = CircuitHalfOpen
    BY <1>2, SameTypes DEF Promise!MayProbe
  <1>3. CASE breaker.state = CircuitOpen /\ breaker.elapsed = Timeout
    BY <1>1, <1>3, WaitIs, SameTypes DEF Promise!MayProbe
  <1> QED
    BY <1>1, <1>2, <1>3, CheckStateEffect

\* Allow admits as the interface does, or only polls, or changes nothing.
LEMMA AllowMaps ==
  ASSUME IInv, EntryFollows, NEW c \in Callers, CallAllow(c)
  PROVE  Promise!Admit(c) \/ Promise!Poll \/ UNCHANGED vars
  <1> DEFINE e == Allow(breaker)
             d == CheckState(breaker).breaker
  <1>1. /\ breaker \in BreakerFields /\ Counters(breaker)
        /\ call \in [Callers -> InFlight \cup {"idle"}] /\ call[c] = "idle"
    BY DEF IInv, TypeOK, FreshCounters, Counters, CallAllow
  <1>2. /\ Synced(breaker, e) /\ Run(e)
        /\ e.breaker.elapsed = breaker.elapsed
        /\ e.sync = CheckState(breaker).sync
        /\ e.breaker.state = d.state
        /\ \/ /\ e.breaker.state = CircuitHalfOpen /\ Allowed(breaker)
              /\ d.halfOpenCalls < HalfOpenMaxCalls
           \/ /\ e.breaker.state = CircuitHalfOpen => ~Allowed(breaker)
              /\ e.breaker = d
    BY <1>1, AllowEffect DEF CallAllow
  <1>3. call' = IF Allowed(breaker) THEN [call EXCEPT ![c] = Admission(e)] ELSE call
    BY DEF CallAllow
  <1>4. UNCHANGED (Timeout - breaker.elapsed)
    BY <1>2 DEF Run
  <1>5. d.state # CircuitHalfOpen => Probes = {}
    BY CheckStateAccounting
  <1>6. ASSUME NEW calls, call' = Outlived(e, calls)
        PROVE  Promise!Becomes(d.state, calls)
    BY <1>2, <1>6, RunBecomes
  <1>7. CASE d.state = CircuitHalfOpen /\ Allowed(breaker)
    <2> DEFINE calls == [call EXCEPT ![c] = "probe"]
    <2>1. Cardinality(Probes) < HalfOpenMaxCalls
      <3>1. d.halfOpenCalls < HalfOpenMaxCalls
        BY <1>2, <1>7
      <3>2. d \in BreakerFields /\ Cardinality(Probes) <= d.halfOpenCalls
        BY <1>7, CheckStateAccounting
      <3> QED
        BY <3>1, <3>2, ProbesFinite, BreakerConfigAssumption DEF BreakerFields
    <2>2. call' = calls
      BY <1>2, <1>3, <1>7 DEF Admission
    <2>3. call' = Outlived(e, calls)
      BY <1>1, <1>2, <1>7, <2>2 DEF Outlived
    <2>4. Promise!HalfOpens(calls)
      BY <1>4, <1>6, <1>7, <2>3, HalfOpenMapsToMayProbe, SameTypes DEF Promise!HalfOpens
    <2> QED
      BY <1>1, <2>1, <2>4, SameProbes DEF Promise!Admit
  <1>8. CASE d.state = CircuitHalfOpen /\ ~Allowed(breaker)
    <2>1. call' = Outlived(e, call)
      BY <1>1, <1>2, <1>3, <1>8 DEF Outlived
    <2> QED
      BY <1>4, <1>6, <1>8, <2>1, HalfOpenMapsToMayProbe, SameTypes
      DEF Promise!Poll, Promise!HalfOpens
  <1>9. CASE d.state # CircuitHalfOpen
    <2>1. d = breaker /\ e.breaker = breaker /\ e.sync = NoSync
      BY <1>1, <1>2, <1>9, CheckStateEffect
    <2>2. breaker' = breaker /\ dep' = dep /\ due' = due
      BY <1>2, <2>1 DEF Run, SyncState, Unlocked
    <2>3. CASE Allowed(breaker)
      <3>1. breaker.state = CircuitClosed
        BY <1>9, <2>1, <2>3 DEF Allowed, Admits
      <3>2. call' = [call EXCEPT ![c] = "normal"]
        BY <1>3, <2>1, <2>3, <3>1 DEF Admission, CircuitClosed, CircuitHalfOpen
      <3>3. call' = Outlived(e, [call EXCEPT ![c] = "normal"])
        BY <1>1, <1>5, <1>9, <3>2 DEF Outlived, Probes
      <3> QED
        BY <1>1, <1>4, <1>6, <2>1, <3>1, <3>3, SameTypes DEF Promise!Admit
    <2>4. CASE ~Allowed(breaker)
      BY <1>3, <2>2, <2>4 DEF vars
    <2> QED
      BY <2>3, <2>4
  <1> QED
    BY <1>7, <1>8, <1>9

\* Whoever reports a success, it is one of the interface.
LEMMA SuccessMaps ==
  ASSUME IInv, EntryFollows, NEW e, e = Success(breaker), Run(e),
         NEW calls, call' = Outlived(e, calls)
  PROVE  Promise!Succeed(calls)
  <1>1. breaker \in BreakerFields /\ Counters(breaker)
    BY DEF IInv, TypeOK, FreshCounters, Counters
  <1>2. /\ Synced(breaker, e)
        /\ e.breaker.elapsed = breaker.elapsed
        /\ \/ e.breaker.state = breaker.state
           \/ breaker.state = CircuitHalfOpen /\ e.breaker.state = CircuitClosed
    BY <1>1, SuccessEffect
  <1>3. UNCHANGED (Timeout - breaker.elapsed)
    BY <1>2 DEF Run
  <1> QED
    BY <1>2, <1>3, RunBecomes, SameTypes DEF Promise!Succeed

\* Likewise a failure.
LEMMA FailureMaps ==
  ASSUME IInv, EntryFollows, NEW e, e = Failure(breaker), Run(e),
         NEW calls, call' = Outlived(e, calls)
  PROVE  Promise!Fail(calls)
  <1>1. breaker \in BreakerFields /\ Counters(breaker)
    BY DEF IInv, TypeOK, FreshCounters, Counters
  <1>2. /\ Synced(breaker, e)
        /\ e.breaker.elapsed = 0
        /\ \/ e.breaker.state = CircuitOpen
           \/ breaker.state = CircuitClosed /\ e.breaker.state = CircuitClosed
    BY <1>1, FailureEffect
  <1>3. (Timeout - breaker.elapsed)' = Timeout
    BY <1>2, BreakerConfigAssumption DEF Run
  <1> QED
    BY <1>2, <1>3, RunBecomes, SameTypes DEF Promise!Fail

\* Every step of the breaker is a step of the interface, or none.
LEMMA StepSimulation ==
  ASSUME IInv, EntryFollows, [Next]_vars
  PROVE  [Promise!Next]_(Promise!vars)
  <1>1. breaker \in BreakerFields /\ Counters(breaker)
    BY DEF IInv, TypeOK, FreshCounters, Counters
  <1>2. UNCHANGED vars => UNCHANGED Promise!vars
    BY DEF vars, Promise!vars
  <1>3. ASSUME NEW c \in Callers, CallAllow(c) PROVE [Promise!Next]_(Promise!vars)
    BY <1>2, <1>3, AllowMaps DEF Promise!Next
  <1>4. ASSUME NEW c \in Callers, CallSucceeds(c) PROVE Promise!Answer(c)
    BY <1>4, SuccessMaps
    DEF CallSucceeds, CallReturns, Promise!Answer, Promise!InFlight, InFlight
  <1>5. ASSUME NEW c \in Callers, CallFails(c) PROVE Promise!Answer(c)
    BY <1>5, FailureMaps
    DEF CallFails, CallReturns, Promise!Answer, Promise!InFlight, InFlight
  <1>6. CASE ReporterSuccess
    BY <1>6, SuccessMaps DEF ReporterSuccess, Unsolicited, Promise!Next, Promise!Report
  <1>7. CASE ReporterFailure
    BY <1>7, FailureMaps DEF ReporterFailure, Unsolicited, Promise!Next, Promise!Report
  <1>8. CASE ResetBreaker
    <2> DEFINE e == Reset(breaker)
    <2>1. /\ Synced(breaker, e) /\ e.breaker.elapsed = breaker.elapsed
          /\ e.breaker.state = CircuitClosed
      BY <1>1, ResetEffect
    <2>2. Run(e) /\ call' = Outlived(e, call)
      BY <1>8 DEF ResetBreaker, Unsolicited
    <2> HIDE DEF e
    <2>3. UNCHANGED (Timeout - breaker.elapsed)
      BY <2>1, <2>2 DEF Run
    <2> QED
      BY <2>1, <2>2, <2>3, RunBecomes, SameTypes DEF Promise!Next, Promise!Reset
  <1>9. CASE PollState
    <2> DEFINE e == CheckState(breaker)
    <2>1. /\ Synced(breaker, e) /\ e.breaker.elapsed = breaker.elapsed
          /\ \/ e.breaker = breaker /\ e.sync = NoSync
             \/ e.breaker.state = CircuitHalfOpen
      BY <1>1, CheckStateEffect
    <2>2. Run(e) /\ call' = Outlived(e, call)
      BY <1>9 DEF PollState, Unsolicited
    <2>3. UNCHANGED (Timeout - breaker.elapsed)
      BY <2>1, <2>2 DEF Run
    <2>4. CASE e.breaker.state = CircuitHalfOpen
      BY <2>1, <2>2, <2>3, <2>4, RunBecomes, SameTypes, HalfOpenMapsToMayProbe, SameTypes
      DEF Promise!Next, Promise!Poll, Promise!HalfOpens
    <2>5. CASE e.breaker = breaker /\ e.sync = NoSync /\ e.breaker.state # CircuitHalfOpen
      <3>1. Probes = {} /\ call \in [Callers -> InFlight \cup {"idle"}]
        BY <2>5 DEF IInv, SlotAccounting, TypeOK
      <3>2. breaker' = breaker /\ dep' = dep /\ due' = due /\ call' = call
        BY <2>2, <2>5, <3>1 DEF Run, SyncState, Unlocked, Outlived, Probes
      <3> QED
        BY <1>2, <3>2 DEF vars
    <2> QED
      BY <2>1, <2>4, <2>5
  <1>10. CASE Tick
    <2>1. /\ breaker.elapsed < Timeout /\ breaker' = Older(breaker)
          /\ dep' = dep /\ call' = call
      BY <1>10 DEF Tick
    <2>2. breaker'.elapsed = breaker.elapsed + 1 /\ breaker'.state = breaker.state
      BY <1>1, <2>1 DEF Older, BreakerFields
    <2>3. /\ Timeout - breaker.elapsed > 0
          /\ (Timeout - breaker.elapsed)' = (Timeout - breaker.elapsed) - 1
      BY <1>1, <2>1, <2>2, BreakerConfigAssumption DEF BreakerFields
    <2> QED
      BY <2>1, <2>2, <2>3 DEF Promise!Next, Promise!Tick
  <1>11. CASE SyncStatus
    <2>1. /\ due.Status # NoSync
          /\ dep' = [dep EXCEPT !.Status = due.Status]
          /\ UNCHANGED <<breaker, call>>
      BY <1>11 DEF SyncStatus
    <2>2. ~Unlocked
      BY <2>1 DEF Unlocked, Nothing
    <2> QED
      BY <2>1, <2>2
      DEF EntryFollows, StatusFits, Promise!Next, Promise!TellStatus
  <1>12. CASE SyncCircuitState
    <2>1. /\ due.Status = NoSync /\ due.CircuitState # NoSync
          /\ dep' = [dep EXCEPT !.CircuitState = due.CircuitState]
          /\ UNCHANGED <<breaker, call>>
      BY <1>12 DEF SyncCircuitState
    <2>2. ~Unlocked
      BY <2>1 DEF Unlocked, Nothing
    <2> QED
      BY <2>1, <2>2
      DEF EntryFollows, StatusFits, Promise!Next, Promise!TellCircuit
  <1> QED
    BY <1>2, <1>3, <1>4, <1>5, <1>6, <1>7, <1>8, <1>9, <1>10, <1>11, <1>12
    DEF Next, Promise!Next

\* Every step keeps the entry following the circuit.
LEMMA EntryFollowsInductive ==
  ASSUME IInv, EntryFollows, [Next]_vars
  PROVE  EntryFollows'
  <1>1. breaker \in BreakerFields /\ Counters(breaker)
    BY DEF IInv, TypeOK, FreshCounters, Counters
  <1>2. ASSUME NEW e, e.breaker \in BreakerFields, Synced(breaker, e), Run(e)
        PROVE  EntryFollows'
    BY <1>2, RunFollows DEF BreakerFields
  <1>3. ASSUME NEW c \in Callers, CallAllow(c) PROVE EntryFollows'
    BY <1>1, <1>2, <1>3, AllowEffect DEF CallAllow
  <1>4. ASSUME NEW c \in Callers, CallSucceeds(c) PROVE EntryFollows'
    BY <1>1, <1>2, <1>4, SuccessEffect DEF CallSucceeds, CallReturns
  <1>5. ASSUME NEW c \in Callers, CallFails(c) PROVE EntryFollows'
    BY <1>1, <1>2, <1>5, FailureEffect DEF CallFails, CallReturns
  <1>6. CASE ReporterSuccess
    BY <1>1, <1>2, <1>6, SuccessEffect DEF ReporterSuccess, Unsolicited
  <1>7. CASE ReporterFailure
    BY <1>1, <1>2, <1>7, FailureEffect DEF ReporterFailure, Unsolicited
  <1>8. CASE ResetBreaker
    BY <1>1, <1>2, <1>8, ResetEffect DEF ResetBreaker, Unsolicited
  <1>9. CASE PollState
    BY <1>1, <1>2, <1>9, CheckStateEffect DEF PollState, Unsolicited
  <1>10. CASE Tick \/ UNCHANGED vars
    <2>1. breaker'.state = breaker.state /\ UNCHANGED <<dep, due>>
      BY <1>1, <1>10 DEF Tick, Older, BreakerFields, vars
    <2> QED
      BY <2>1, SameTypes
      DEF EntryFollows, StatusFits, Unlocked, Promise!Told, Promise!StatusesOf
  <1>11. CASE SyncStatus
    <2>1. /\ due.Status # NoSync /\ breaker' = breaker
          /\ dep' = [dep EXCEPT !.Status = due.Status]
          /\ due' = [due EXCEPT !.Status = NoSync]
      BY <1>11 DEF SyncStatus
    <2>2. ~Unlocked
      BY <2>1 DEF Unlocked, Nothing
    <2>3. /\ due.CircuitState = breaker.state
          /\ due.Status \in Promise!StatusesOf(breaker.state)
      BY <2>1, <2>2 DEF EntryFollows, StatusFits
    <2>4. /\ due'.Status = NoSync /\ due'.CircuitState = breaker.state
          /\ dep'.Status = due.Status
      BY <2>1, <2>3 DEF IInv, TypeOK
    <2>5. due'.CircuitState # NoSync
      BY <1>1, <2>4 DEF BreakerFields, CircuitState, NoSync,
                       CircuitClosed, CircuitOpen, CircuitHalfOpen
    <2>6. ~Unlocked'
      BY <2>5 DEF Unlocked, Nothing
    <2> QED
      BY <2>1, <2>3, <2>4, <2>6, SameTypes DEF EntryFollows, StatusFits, Promise!StatusesOf
  <1>12. CASE SyncCircuitState
    <2>1. /\ due.Status = NoSync /\ due.CircuitState # NoSync /\ breaker' = breaker
          /\ dep' = [dep EXCEPT !.CircuitState = due.CircuitState]
          /\ due' = Nothing
      BY <1>12 DEF SyncCircuitState
    <2>2. ~Unlocked /\ Unlocked'
      BY <2>1 DEF Unlocked, Nothing
    <2>3. /\ due.CircuitState = breaker.state
          /\ dep.Status \in Promise!StatusesOf(breaker.state)
      BY <2>1, <2>2 DEF EntryFollows, StatusFits
    <2>4. dep'.Status = dep.Status /\ dep'.CircuitState = breaker.state
      BY <2>1, <2>3 DEF IInv, TypeOK
    <2> QED
      BY <2>1, <2>2, <2>3, <2>4, SameTypes
      DEF EntryFollows, Promise!Told, Promise!StatusesOf
  <1> QED
    BY <1>3, <1>4, <1>5, <1>6, <1>7, <1>8, <1>9, <1>10, <1>11, <1>12 DEF Next

LEMMA InitEntryFollows == Init => EntryFollows /\ Promise!Init
  BY BreakerConfigAssumption, SameTypes
  DEF Init, NewCircuitBreaker, EntryFollows, Unlocked, Promise!Init, Promise!Told,
      Promise!StatusesOf

\* The breaker with its counters implements the interface without them: what it
\* admits, when it opens, half-opens and closes, and what those who read its
\* store entry see, between the two store calls too (the safety part of
\* KeepsPromise).
THEOREM ImplementsInterface == Spec => Promise!Spec
  <1>1. IInv /\ EntryFollows /\ [Next]_vars =>
          [Promise!Next]_(Promise!vars) /\ EntryFollows'
    BY StepSimulation, EntryFollowsInductive
  <1> QED
    BY InitIInv, NextInductive, InitEntryFollows, <1>1, PTL DEF Spec, Promise!Spec
=============================================================================
