------------------------ MODULE ClientWrapperProofs ------------------------
(***************************************************************************)
(* Proofs about the wrapped client and the reporter, for every set of      *)
(* clients and reporters, every number of retries and every threshold.     *)
(*                                                                         *)
(* A step may find a goroutine in the middle of syncState, so what the     *)
(* properties say of the moments in between has to be carried through it:  *)
(* the lock, what is still to be written, which part of the entry is       *)
(* already the breaker's, and how many of the calls that hold a slot of    *)
(* the half-open period have not told the breaker yet.                     *)
(***************************************************************************)
EXTENDS ClientWrapper, BreakerProofs, FiniteSetTheorems, TLAPS

InSync(p) == pc[p] \in {"status", "circuit"}

\* Only the goroutine in syncState holds the lock, and what it has left to
\* write fits the circuit.
LockInv ==
  \A p \in Procs : InSync(p) =>
    /\ holder = p
    /\ pending[p].circuit = breaker.state
    /\ pending[p].status \in StatusesOf(breaker.state)

\* A request is sent only when there is one left.
WillCall(p) == pc[p] = "calling" \/ (InSync(p) /\ pending[p].next = "calling")

AttemptsInv == \A c \in Clients : WillCall(c) => left[c] > 0

\* Once syncState has written the status, a DOWN one has its cause; so has an
\* OPEN circuit in the entry once syncState is done.
Cause == Tripped(entry) \/ breaker.state = CircuitOpen

CauseInv ==
  /\ holder = NoProc => (entry.CircuitState = CircuitOpen => Cause)
  /\ (\A p \in Procs : pc[p] # "status") => (entry.Status = StatusDown => Cause)

\* The calls that may hold a slot: admitted, and the breaker not told yet.
Calls ==
  {c \in Clients : WillCall(c) \/ pc[c] \in {"reportOk", "reportFail", "tellOk", "tellFail"}}

\* Unless a panic has lost one, every slot taken is one of these calls or a
\* success counted.
SlotInv ==
  breaker.state = CircuitHalfOpen =>
    /\ breaker.successCount > 0 => breaker.successCount < SuccessThreshold
    /\ ~lost => breaker.halfOpenCalls <= breaker.successCount + Cardinality(Calls)

IInv ==
  TypeOK /\ Counters(breaker) /\ LockInv /\ AttemptsInv /\ CauseInv /\ SlotInv

\* The quota covers the successes asked for.
QuotaCoversThreshold ==
  HalfOpenMaxCalls > 0 /\ HalfOpenMaxCalls >= SuccessThreshold

-----------------------------------------------------------------------------
\* The store's operations on an entry that exists.

LEMMA StoreTypes ==
  ASSUME NEW e \in Entry
  PROVE  /\ ReportSuccess(e) \in Entry /\ ReportFailure(e) \in Entry
         /\ \A s \in Status :
              /\ SetStatus(e, s) \in Entry
              /\ SetStatus(e, s).Status = s
              /\ SetStatus(e, s).FailureCount = e.FailureCount
         /\ \A c \in CircuitState :
              /\ SetCircuitState(e, c) \in Entry
              /\ SetCircuitState(e, c).CircuitState = c
              /\ SetCircuitState(e, c).Status = e.Status
              /\ SetCircuitState(e, c).FailureCount = e.FailureCount
  <1>1. FailureCountCap \in Nat
    BY StoreConfigAssumption DEF FailureCountCap, Larger
  <1>2. e # NoEntry
    <2>1. "Status" \in DOMAIN e /\ "Status" \notin DOMAIN NoEntry
      BY DEF Entry, NoEntry
    <2> QED
      BY <2>1
  <1>3. Ensure(e) = e
    BY <1>2 DEF Ensure
  <1>4. CountFailure(e.FailureCount) \in 0..FailureCountCap
    BY <1>1 DEF CountFailure, Entry
  <1>5. ReportSuccess(e) \in Entry
    BY <1>1 DEF ReportSuccess, Entry, Status, CircuitState
  <1>6. ReportFailure(e) \in Entry
    BY <1>3, <1>4 DEF ReportFailure, Entry, Status, CircuitState
  <1>7. ASSUME NEW s \in Status
        PROVE  /\ SetStatus(e, s) \in Entry
               /\ SetStatus(e, s).Status = s
               /\ SetStatus(e, s).FailureCount = e.FailureCount
    BY <1>3 DEF SetStatus, Entry
  <1>8. ASSUME NEW c \in CircuitState
        PROVE  /\ SetCircuitState(e, c) \in Entry
               /\ SetCircuitState(e, c).CircuitState = c
               /\ SetCircuitState(e, c).Status = e.Status
               /\ SetCircuitState(e, c).FailureCount = e.FailureCount
    BY <1>2 DEF SetCircuitState, Entry
  <1> QED
    BY <1>5, <1>6, <1>7, <1>8

\* A report makes an entry DOWN or OPEN only at the store's own threshold.
LEMMA ReportHasCause ==
  ASSUME NEW e \in Entry
  PROVE  /\ ReportSuccess(e).Status # StatusDown
         /\ ReportSuccess(e).CircuitState # CircuitOpen
         /\ LET f == ReportFailure(e) IN
              /\ f.Status = StatusDown =>
                   e.Status = StatusDown \/ Tripped(f)
              /\ f.CircuitState = CircuitOpen =>
                   e.CircuitState = CircuitOpen \/ Tripped(f)
              /\ Tripped(e) => Tripped(f)
  <1>1. e # NoEntry
    <2>1. "Status" \in DOMAIN e /\ "Status" \notin DOMAIN NoEntry
      BY DEF Entry, NoEntry
    <2> QED
      BY <2>1
  <1>2. Ensure(e) = e
    BY <1>1 DEF Ensure
  <1>3. ReportSuccess(e).Status = StatusUp /\ ReportSuccess(e).CircuitState = CircuitClosed
    BY DEF ReportSuccess
  <1> DEFINE n == CountFailure(e.FailureCount)
  <1>4. /\ n \in Nat /\ n > 0
        /\ e.FailureCount >= StoreFailureThreshold => n >= StoreFailureThreshold
    BY StoreConfigAssumption DEF CountFailure, FailureCountCap, Larger, Entry
  <1> HIDE DEF n
  <1>5. ReportFailure(e) =
          [Status |-> IF n >= StoreFailureThreshold THEN StatusDown
                      ELSE IF n >= DegradedThreshold THEN StatusDegraded
                      ELSE e.Status,
           FailureCount |-> n,
           CircuitState |-> IF n >= StoreFailureThreshold THEN CircuitOpen
                            ELSE e.CircuitState]
    BY <1>2 DEF ReportFailure, n
  <1> QED
    BY <1>3, <1>4, <1>5
    DEF Tripped, StatusUp, StatusDegraded, StatusDown, CircuitClosed, CircuitOpen

-----------------------------------------------------------------------------
\* What the steps of one goroutine leave of the others.

LEMMA StatusesAreStatuses ==
  \A c \in CircuitState :
    /\ StatusesOf(c) \subseteq Status \ {NoSync}
    /\ StatusDown \in StatusesOf(c) => c = CircuitOpen
  BY DEF StatusesOf, CircuitState, CircuitClosed, CircuitOpen, CircuitHalfOpen,
         Status, StatusUp, StatusDegraded, StatusDown, StatusUnknown, NoSync

LEMMA CallsFinite == IsFiniteSet(Calls) /\ Cardinality(Calls) \in Nat
  <1>1. Calls \subseteq Clients
    BY DEF Calls
  <1> QED
    BY <1>1, ClientAssumption, FS_Subset, FS_CardinalityType

\* Nobody is in syncState while the lock is free.
LEMMA FreeLock ==
  ASSUME LockInv, holder = NoProc
  PROVE  \A p \in Procs : ~InSync(p)
  BY ClientAssumption DEF LockInv, Procs

\* A method of the breaker that p runs: the lock, the entry and the calls of the
\* others are as they were, and p goes on at next, by way of syncState or not.
LEMMA InvokeKeeps ==
  ASSUME IInv, NEW p \in Procs, NEW e, NEW next \in {"idle", "calling"},
         e.breaker \in BreakerFields, Counters(e.breaker),
         e.sync \in Status \cup {NoSync}, Synced(breaker, e),
         Invoke(p, e, next), UNCHANGED <<entry, lost>>,
         left' \in [Procs -> 0..(1 + MaxRetries)]
  PROVE  /\ breaker' = e.breaker
         /\ TypeOK' /\ Counters(breaker') /\ LockInv' /\ CauseInv'
         /\ \A q \in Procs : q # p => (WillCall(q)' <=> WillCall(q)) /\ pc'[q] = pc[q]
         /\ WillCall(p)' <=> next = "calling"
         /\ pc'[p] \in {"status", next}
  <1> USE DEF IInv
  <1>1. breaker' = e.breaker /\ holder = NoProc
    BY DEF Invoke
  <1>2. \A q \in Procs : ~InSync(q)
    BY <1>1, FreeLock
  <1>3. /\ pc \in [Procs -> {"idle", "calling", "reportOk", "reportFail",
                             "tellOk", "tellFail", "status", "circuit"}]
        /\ pending \in [Procs -> [status  : Status \cup {NoSync},
                                  circuit : CircuitState,
                                  next    : {"idle", "calling"}]]
        /\ breaker.state \in CircuitState /\ e.breaker.state \in CircuitState
    BY DEF TypeOK, BreakerFields
  <1>4. CASE e.sync = NoSync
    <2>1. pc' = [pc EXCEPT ![p] = next] /\ holder' = holder /\ pending' = pending
      BY <1>4 DEF Invoke
    <2>2. breaker'.state = breaker.state
      BY <1>1, <1>4 DEF Synced
    <2>3. TypeOK'
      BY <1>1, <1>3, <2>1 DEF TypeOK
    <2>4. \A q \in Procs : ~InSync(q)'
      BY <1>2, <1>3, <2>1 DEF InSync
    <2>5. LockInv'
      BY <2>4 DEF LockInv
    <2>6. CauseInv'
      <3>1. \A q \in Procs : pc[q] # "status"
        BY <1>2 DEF InSync
      <3> QED
        BY <1>1, <2>1, <2>2, <3>1 DEF CauseInv, Cause, Tripped
    <2>7. /\ \A q \in Procs : q # p => (WillCall(q)' <=> WillCall(q)) /\ pc'[q] = pc[q]
          /\ WillCall(p)' <=> next = "calling"
          /\ pc'[p] = next
      BY <1>3, <2>1 DEF WillCall, InSync
    <2> QED
      BY <1>1, <2>3, <2>5, <2>6, <2>7
  <1>5. CASE e.sync # NoSync
    <2>1. /\ pc' = [pc EXCEPT ![p] = "status"]
          /\ holder' = p
          /\ pending' = [pending EXCEPT ![p] =
               [status |-> e.sync, circuit |-> e.breaker.state, next |-> next]]
      BY <1>5 DEF Invoke
    <2>2. e.sync \in StatusesOf(e.breaker.state)
      BY <1>5 DEF Synced
    <2>3. TypeOK'
      BY <1>1, <1>3, <2>1 DEF TypeOK
    <2>4. /\ pending'[p].circuit = breaker'.state
          /\ pending'[p].status \in StatusesOf(breaker'.state)
          /\ pending'[p].next = next
      BY <1>1, <1>3, <2>1, <2>2
    <2>5. \A q \in Procs : q # p => ~InSync(q)' /\ pc'[q] = pc[q]
      BY <1>2, <1>3, <2>1 DEF InSync
    <2>6. LockInv'
      BY <2>1, <2>4, <2>5 DEF LockInv
    <2>7. CauseInv'
      BY <1>3, <2>1, ClientAssumption DEF CauseInv, Procs
    <2>8. /\ \A q \in Procs : q # p => (WillCall(q)' <=> WillCall(q))
          /\ WillCall(p)' <=> next = "calling"
          /\ pc'[p] = "status"
      BY <1>2, <1>3, <2>1, <2>4, <2>5 DEF WillCall, InSync
    <2> QED
      BY <1>1, <2>3, <2>5, <2>6, <2>7, <2>8
  <1> QED
    BY <1>4, <1>5

\* A step of p outside the breaker that takes it to next.
LEMMA StepKeeps ==
  ASSUME IInv, NEW p \in Procs, ~InSync(p),
         NEW next \in {"idle", "calling", "reportOk", "reportFail", "tellOk", "tellFail"},
         pc' = [pc EXCEPT ![p] = next], UNCHANGED <<breaker, holder, pending>>
  PROVE  /\ pc' \in [Procs -> {"idle", "calling", "reportOk", "reportFail",
                               "tellOk", "tellFail", "status", "circuit"}]
         /\ Counters(breaker') /\ LockInv'
         /\ \A q \in Procs : q # p => (WillCall(q)' <=> WillCall(q)) /\ pc'[q] = pc[q]
         /\ WillCall(p)' <=> next = "calling"
         /\ pc'[p] = next
         /\ (\A q \in Procs : pc'[q] # "status") => (\A q \in Procs : pc[q] # "status")
  <1>1. pc \in [Procs -> {"idle", "calling", "reportOk", "reportFail",
                          "tellOk", "tellFail", "status", "circuit"}]
    BY DEF IInv, TypeOK
  <1>2. \A q \in Procs : InSync(q)' <=> InSync(q)
    BY <1>1 DEF InSync
  <1>3. LockInv'
    BY <1>2 DEF IInv, LockInv
  <1>4. /\ \A q \in Procs : q # p => (WillCall(q)' <=> WillCall(q)) /\ pc'[q] = pc[q]
        /\ WillCall(p)' <=> next = "calling"
        /\ pc'[p] = next
    BY <1>1 DEF WillCall, InSync
  <1>5. (\A q \in Procs : pc'[q] # "status") => (\A q \in Procs : pc[q] # "status")
    BY <1>1 DEF InSync
  <1> QED
    BY <1>1, <1>3, <1>4, <1>5 DEF IInv

\* The calls that may hold a slot change by p at most.
LEMMA OneCall ==
  ASSUME NEW p \in Procs,
         \A q \in Procs : q # p => (WillCall(q)' <=> WillCall(q)) /\ pc'[q] = pc[q]
  PROVE  /\ IsFiniteSet(Calls')
         /\ Calls' \in {Calls, Calls \cup {p}, Calls \ {p}}
         /\ Cardinality(Calls') \in Nat
         /\ Cardinality(Calls') >= Cardinality(Calls) - 1
         /\ p \in Calls' => Cardinality(Calls') >= Cardinality(Calls)
         /\ p \notin Calls => Cardinality(Calls') >= Cardinality(Calls)
         /\ p \in Calls' /\ p \notin Calls => Cardinality(Calls') = Cardinality(Calls) + 1
  <1>1. Calls' \in {Calls, Calls \cup {p}, Calls \ {p}}
    BY DEF Calls, Procs
  <1>2. /\ IsFiniteSet(Calls) /\ Cardinality(Calls) \in Nat
    BY CallsFinite
  <1>3. /\ IsFiniteSet(Calls \cup {p})
        /\ Cardinality(Calls \cup {p}) =
             IF p \in Calls THEN Cardinality(Calls) ELSE Cardinality(Calls) + 1
    BY <1>2, FS_AddElement
  <1>4. /\ IsFiniteSet(Calls \ {p})
        /\ Cardinality(Calls \ {p}) =
             IF p \in Calls THEN Cardinality(Calls) - 1 ELSE Cardinality(Calls)
    BY <1>2, FS_RemoveElement
  <1>5. IsFiniteSet(Calls') /\ Cardinality(Calls') \in Nat
    BY <1>1, <1>2, <1>3, <1>4, FS_CardinalityType
  <1>6. CASE Calls' = Calls
    BY <1>1, <1>2, <1>5, <1>6
  <1>7. CASE Calls' = Calls \cup {p}
    BY <1>1, <1>2, <1>3, <1>5, <1>7
  <1>8. CASE Calls' = Calls \ {p}
    BY <1>1, <1>2, <1>4, <1>5, <1>8
  <1> QED
    BY <1>1, <1>6, <1>7, <1>8

-----------------------------------------------------------------------------
\* The steps of a call and of a report.

\* A step outside the breaker that gives up no slot of a half-open period keeps
\* the accounting.
LEMMA SlotKeeps ==
  ASSUME IInv, breaker' = breaker, ~lost' => ~lost, Cardinality(Calls') \in Nat,
         ~lost' /\ breaker.state = CircuitHalfOpen =>
            Cardinality(Calls') >= Cardinality(Calls)
  PROVE  SlotInv'
  <1>1. /\ breaker.halfOpenCalls \in Nat /\ breaker.successCount \in Nat
        /\ Cardinality(Calls) \in Nat
    BY CallsFinite DEF IInv, TypeOK, BreakerFields
  <1>2. ASSUME breaker.state = CircuitHalfOpen, ~lost'
        PROVE  breaker.halfOpenCalls <= breaker.successCount + Cardinality(Calls')
    <2>1. /\ breaker.halfOpenCalls <= breaker.successCount + Cardinality(Calls)
          /\ Cardinality(Calls') >= Cardinality(Calls)
      BY <1>2 DEF IInv, SlotInv
    <2> QED
      BY <1>1, <2>1
  <1> QED
    BY <1>2 DEF IInv, SlotInv

LEMMA InitIInv == Init => IInv
  <1> SUFFICES ASSUME Init PROVE IInv
    OBVIOUS
  <1>1. 0 \in 0..FailureThreshold /\ 0 \in 0..Timeout /\ FailureCountCap \in Nat
        /\ 0 \in 0..(1 + MaxRetries)
    BY BreakerConfigAssumption, StoreConfigAssumption, ClientAssumption
    DEF FailureCountCap, Larger
  <1>2. breaker \in BreakerFields
    BY <1>1 DEF Init, NewCircuitBreaker, BreakerFields, CircuitState
  <1>3. entry \in Entry /\ entry.Status = StatusUp /\ entry.CircuitState = CircuitClosed
    BY <1>1 DEF Init, Register, Ensure, NewDepState, Entry, Status, CircuitState
  <1>4. TypeOK
    BY <1>1, <1>2, <1>3 DEF Init, TypeOK, Idle, Status, CircuitState
  <1>5. Counters(breaker) /\ breaker.state = CircuitClosed
    BY BreakerConfigAssumption
    DEF Init, NewCircuitBreaker, Counters, CircuitClosed, CircuitHalfOpen
  <1>6. LockInv /\ AttemptsInv
    BY DEF Init, LockInv, AttemptsInv, WillCall, InSync, Procs
  <1>7. CauseInv
    BY <1>3 DEF CauseInv, StatusUp, StatusDown, CircuitClosed, CircuitOpen
  <1>8. SlotInv
    BY <1>5 DEF SlotInv, CircuitClosed, CircuitHalfOpen
  <1> QED
    BY <1>4, <1>5, <1>6, <1>7, <1>8 DEF IInv

\* Do: an admitted call may hold a slot from here on.
LEMMA DoInductive == ASSUME IInv, NEW c \in Clients, Do(c) PROVE IInv'
  <1> DEFINE e    == Allow(breaker)
             d    == CheckState(breaker).breaker
             next == IF Allowed(breaker) THEN "calling" ELSE "idle"
  <1>1. /\ breaker \in BreakerFields /\ Counters(breaker)
        /\ c \in Procs /\ left \in [Procs -> 0..(1 + MaxRetries)]
        /\ pc[c] = "idle" /\ Invoke(c, e, next) /\ UNCHANGED <<entry, lost>>
        /\ left' = [left EXCEPT ![c] = IF Allowed(breaker) THEN 1 + MaxRetries ELSE 0]
    BY DEF IInv, TypeOK, Do, Procs
  <1>2. left' \in [Procs -> 0..(1 + MaxRetries)]
    BY <1>1, ClientAssumption
  <1>3. /\ e.breaker \in BreakerFields /\ Counters(e.breaker)
        /\ e.sync \in Status \cup {NoSync} /\ Synced(breaker, e)
        /\ e.breaker.state = d.state
        /\ e.breaker.successCount = d.successCount
        /\ \/ /\ e.breaker.state = CircuitHalfOpen /\ Allowed(breaker)
              /\ d.halfOpenCalls < HalfOpenMaxCalls
              /\ e.breaker.halfOpenCalls = d.halfOpenCalls + 1
           \/ /\ e.breaker.state = CircuitHalfOpen => ~Allowed(breaker)
              /\ e.breaker = d
    BY <1>1, AllowEffect
  <1>4. next \in {"idle", "calling"} /\ (next = "calling" <=> Allowed(breaker))
    OBVIOUS
  <1>5. /\ d \in BreakerFields
        /\ \/ d = breaker
           \/ d.halfOpenCalls = 0 /\ d.successCount = 0
    BY <1>1, CheckStateEffect
  <1>e. breaker' = e.breaker
    BY <1>1 DEF Invoke
  <1> HIDE DEF e, d, next
  <1>6. /\ TypeOK' /\ Counters(breaker') /\ LockInv' /\ CauseInv'
        /\ \A q \in Procs : q # c => (WillCall(q)' <=> WillCall(q)) /\ pc'[q] = pc[q]
        /\ WillCall(c)' <=> Allowed(breaker)
        /\ pc'[c] \in {"status", next}
    BY <1>1, <1>2, <1>3, <1>4, InvokeKeeps
  <1>7. AttemptsInv'
    <2> SUFFICES ASSUME NEW q \in Clients, WillCall(q)' PROVE left'[q] > 0
      BY DEF AttemptsInv
    <2>1. CASE q = c
      BY <1>1, <1>6, <2>1, ClientAssumption
    <2>2. CASE q # c
      BY <1>1, <1>6, <2>2 DEF IInv, AttemptsInv, Procs
    <2> QED
      BY <2>1, <2>2
  <1>8. SlotInv'
    <2>1. c \notin Calls
      BY <1>1 DEF Calls, WillCall, InSync
    <2>2. c \in Calls' <=> Allowed(breaker)
      BY <1>4, <1>6 DEF Calls
    <2>3. /\ Cardinality(Calls') \in Nat /\ Cardinality(Calls) \in Nat
          /\ Cardinality(Calls') >= Cardinality(Calls)
          /\ Allowed(breaker) => Cardinality(Calls') = Cardinality(Calls) + 1
      BY <1>1, <1>6, <2>1, <2>2, OneCall, CallsFinite
    <2>4. /\ e.breaker.halfOpenCalls \in Nat /\ e.breaker.successCount \in Nat
          /\ d.halfOpenCalls \in Nat /\ d.successCount \in Nat
      BY <1>3, <1>5 DEF BreakerFields
    <2>5. ASSUME d.state = CircuitHalfOpen
          PROVE  /\ d.successCount > 0 => d.successCount < SuccessThreshold
                 /\ ~lost => d.halfOpenCalls <= d.successCount + Cardinality(Calls)
      <3>1. CASE d = breaker
        BY <2>5, <3>1 DEF IInv, SlotInv
      <3>2. CASE d.halfOpenCalls = 0 /\ d.successCount = 0
        BY <2>3, <3>2
      <3> QED
        BY <1>5, <3>1, <3>2
    <2>6. ASSUME e.breaker.state = CircuitHalfOpen, ~lost
          PROVE  e.breaker.halfOpenCalls <= e.breaker.successCount + Cardinality(Calls')
      <3>1. d.halfOpenCalls <= d.successCount + Cardinality(Calls)
        BY <1>3, <2>5, <2>6
      <3>2. \/ /\ Cardinality(Calls') = Cardinality(Calls) + 1
               /\ e.breaker.halfOpenCalls = d.halfOpenCalls + 1
            \/ e.breaker.halfOpenCalls = d.halfOpenCalls
        BY <1>3, <2>3, <2>6
      <3> QED
        BY <1>3, <2>3, <2>4, <3>1, <3>2
    <2> QED
      BY <1>1, <1>3, <1>e, <2>5, <2>6 DEF SlotInv
  <1> QED
    BY <1>6, <1>7, <1>8 DEF IInv

\* A request of the call has failed, succeeded or panicked.
LEMMA AttemptInductive ==
  ASSUME IInv, NEW c \in Clients, AttemptSucceeds(c) \/ AttemptFails(c) \/ Panic(c)
  PROVE  IInv'
  <1>1. /\ TypeOK /\ c \in Procs /\ pc[c] = "calling"
        /\ left \in [Procs -> 0..(1 + MaxRetries)] /\ left[c] > 0
    BY DEF IInv, TypeOK, AttemptsInv, WillCall, AttemptSucceeds, AttemptFails, Panic, Procs
  <1>2. ~InSync(c) /\ c \in Calls
    BY <1>1 DEF InSync, Calls, WillCall
  <1>3. PICK next \in {"idle", "calling", "reportOk", "reportFail"} :
          /\ pc' = [pc EXCEPT ![c] = next]
          /\ UNCHANGED <<breaker, holder, entry, pending>>
          /\ left' \in {[left EXCEPT ![c] = 0], [left EXCEPT ![c] = @ - 1]}
          /\ next = "calling" => left' = [left EXCEPT ![c] = @ - 1] /\ left[c] # 1
          /\ next = "idle" => lost' = (lost \/ breaker.state = CircuitHalfOpen)
          /\ next # "idle" => lost' = lost
    BY <1>1 DEF AttemptSucceeds, AttemptFails, Panic
  <1>4. /\ left' \in [Procs -> 0..(1 + MaxRetries)]
        /\ next = "calling" => left'[c] > 0
        /\ \A q \in Procs : q # c => left'[q] = left[q]
    BY <1>1, <1>3, ClientAssumption
  <1>5. /\ pc' \in [Procs -> {"idle", "calling", "reportOk", "reportFail",
                              "tellOk", "tellFail", "status", "circuit"}]
        /\ Counters(breaker') /\ LockInv'
        /\ \A q \in Procs : q # c => (WillCall(q)' <=> WillCall(q)) /\ pc'[q] = pc[q]
        /\ WillCall(c)' <=> next = "calling"
        /\ pc'[c] = next
        /\ (\A q \in Procs : pc'[q] # "status") => (\A q \in Procs : pc[q] # "status")
    BY <1>1, <1>2, <1>3, StepKeeps
  <1>6. lost' \in BOOLEAN
    BY <1>1, <1>3 DEF TypeOK
  <1>7. TypeOK'
    BY <1>1, <1>3, <1>4, <1>5, <1>6 DEF TypeOK
  <1>8. AttemptsInv'
    BY <1>4, <1>5 DEF IInv, AttemptsInv, Procs
  <1>9. CauseInv'
    BY <1>3, <1>5 DEF IInv, CauseInv, Cause, Tripped
  <1>10. SlotInv'
    <2>1. next # "idle" => c \in Calls'
      BY <1>3, <1>5 DEF Calls
    <2>2. next # "idle" => Cardinality(Calls') >= Cardinality(Calls)
      BY <1>1, <1>5, <2>1, OneCall
    <2>3. Cardinality(Calls') \in Nat
      BY <1>1, <1>5, OneCall
    <2>4. ~lost' => ~lost
      BY <1>3
    <2>5. ~lost' /\ breaker.state = CircuitHalfOpen => next # "idle"
      BY <1>3
    <2> QED
      BY <1>3, <2>2, <2>3, <2>4, <2>5, SlotKeeps
  <1> QED
    BY <1>5, <1>7, <1>8, <1>9, <1>10 DEF IInv

\* The outcome is reported to the store, or a report begins.
LEMMA ReportInductive ==
  ASSUME IInv, NEW p \in Procs,
         \/ ReportToStore(p)
         \/ p \in Reporters /\ \E o \in {"reportOk", "reportFail"} : ReporterReports(p, o)
  PROVE  IInv'
  <1>1. /\ TypeOK /\ entry \in Entry
        /\ pc[p] \in {"idle", "reportOk", "reportFail"}
        /\ pc[p] = "idle" => p \notin Clients
    BY ClientAssumption DEF IInv, TypeOK, ReportToStore, ReporterReports
  <1>2. ~InSync(p)
    BY <1>1 DEF InSync
  <1>3. PICK next \in {"reportOk", "reportFail", "tellOk", "tellFail"} :
          /\ pc' = [pc EXCEPT ![p] = next]
          /\ UNCHANGED <<breaker, holder, left, pending, lost>>
          /\ entry' \in {entry, ReportSuccess(entry), ReportFailure(entry)}
    BY DEF ReportToStore, ReporterReports
  <1>4. /\ pc' \in [Procs -> {"idle", "calling", "reportOk", "reportFail",
                              "tellOk", "tellFail", "status", "circuit"}]
        /\ Counters(breaker') /\ LockInv'
        /\ \A q \in Procs : q # p => (WillCall(q)' <=> WillCall(q)) /\ pc'[q] = pc[q]
        /\ WillCall(p)' <=> next = "calling"
        /\ pc'[p] = next
        /\ (\A q \in Procs : pc'[q] # "status") => (\A q \in Procs : pc[q] # "status")
    BY <1>2, <1>3, StepKeeps
  <1>5. TypeOK'
    BY <1>1, <1>3, <1>4, StoreTypes DEF TypeOK
  <1>6. AttemptsInv'
    BY <1>3, <1>4 DEF IInv, AttemptsInv, Procs
  <1>7. /\ entry'.Status = StatusDown =>
             entry.Status = StatusDown \/ Tripped(entry')
        /\ entry'.CircuitState = CircuitOpen =>
             entry.CircuitState = CircuitOpen \/ Tripped(entry')
        /\ entry' = ReportSuccess(entry) \/
           (Tripped(entry) => Tripped(entry'))
    BY <1>1, <1>3, ReportHasCause
  <1>8. CauseInv'
    <2>1. CASE entry' = ReportSuccess(entry)
      BY <1>1, <2>1, ReportHasCause DEF CauseInv
    <2>2. CASE entry' # ReportSuccess(entry)
      <3>1. Cause => Cause'
        BY <1>3, <1>7, <2>2 DEF Cause, Tripped
      <3> QED
        BY <1>3, <1>4, <1>7, <3>1 DEF IInv, CauseInv, Cause, Tripped
    <2> QED
      BY <2>1, <2>2
  <1>9. SlotInv'
    <2>1. p \in Calls' \/ p \notin Calls
      BY <1>1, <1>3, <1>4 DEF Calls
    <2>2. Cardinality(Calls') >= Cardinality(Calls) /\ Cardinality(Calls') \in Nat
      BY <1>4, <2>1, OneCall
    <2> QED
      BY <1>3, <2>2, SlotKeeps
  <1> QED
    BY <1>4, <1>5, <1>6, <1>8, <1>9 DEF IInv

\* A method of the breaker after which p is idle again.
LEMMA MethodInductive ==
  ASSUME IInv, NEW p \in Procs, ~InSync(p), NEW e,
         e.breaker \in BreakerFields, Counters(e.breaker),
         e.sync \in Status \cup {NoSync}, Synced(breaker, e),
         Invoke(p, e, "idle"), UNCHANGED <<entry, left, lost>>,
         /\ Cardinality(Calls') \in Nat
         /\ Cardinality(Calls') >= Cardinality(Calls) - 1
         /\ p \notin Calls => Cardinality(Calls') >= Cardinality(Calls)
         => (e.breaker.state = CircuitHalfOpen =>
               /\ e.breaker.successCount > 0 => e.breaker.successCount < SuccessThreshold
               /\ ~lost => e.breaker.halfOpenCalls
                             <= e.breaker.successCount + Cardinality(Calls'))
  PROVE  IInv'
  <1>1. left' \in [Procs -> 0..(1 + MaxRetries)] /\ UNCHANGED <<entry, lost>>
    BY DEF IInv, TypeOK
  <1>2. /\ breaker' = e.breaker
        /\ TypeOK' /\ Counters(breaker') /\ LockInv' /\ CauseInv'
        /\ \A q \in Procs : q # p => (WillCall(q)' <=> WillCall(q)) /\ pc'[q] = pc[q]
        /\ ~WillCall(p)'
        /\ pc'[p] \in {"status", "idle"}
    BY <1>1, InvokeKeeps
  <1>3. AttemptsInv'
    BY <1>2 DEF IInv, AttemptsInv, Procs
  <1>4. SlotInv'
    BY <1>2, OneCall DEF SlotInv
  <1> QED
    BY <1>2, <1>3, <1>4 DEF IInv

\* The outcome is reported to the breaker: a call gives back what it may hold, and
\* the breaker counts a success.
LEMMA TellInductive == ASSUME IInv, NEW p \in Procs, TellBreaker(p) PROVE IInv'
  <1>1. breaker \in BreakerFields /\ Counters(breaker)
    BY DEF IInv, TypeOK
  <1>2. ~InSync(p)
    BY DEF TellBreaker, InSync
  <1>3. UNCHANGED <<entry, left, lost>>
    BY DEF TellBreaker
  <1>4. CASE pc[p] = "tellOk" /\ Invoke(p, Success(breaker), "idle")
    <2> DEFINE e == Success(breaker)
    <2>1. /\ e.breaker \in BreakerFields /\ Counters(e.breaker)
          /\ e.sync \in Status \cup {NoSync} /\ Synced(breaker, e)
          /\ e.breaker.state = CircuitHalfOpen =>
               /\ breaker.state = CircuitHalfOpen
               /\ e.breaker.halfOpenCalls = breaker.halfOpenCalls
               /\ e.breaker.successCount = breaker.successCount + 1
               /\ e.breaker.successCount < SuccessThreshold
      BY <1>1, SuccessEffect
    <2>2. /\ breaker.halfOpenCalls \in Nat /\ breaker.successCount \in Nat
          /\ Cardinality(Calls) \in Nat
      BY <1>1, CallsFinite DEF BreakerFields
    <2>3. Invoke(p, e, "idle")
      BY <1>4
    <2> HIDE DEF e
    <2>4. ASSUME e.breaker.state = CircuitHalfOpen, ~lost,
                 Cardinality(Calls') \in Nat,
                 Cardinality(Calls') >= Cardinality(Calls) - 1
          PROVE  e.breaker.halfOpenCalls <= e.breaker.successCount + Cardinality(Calls')
      <3>1. breaker.halfOpenCalls <= breaker.successCount + Cardinality(Calls)
        BY <2>1, <2>4 DEF IInv, SlotInv
      <3> QED
        BY <2>1, <2>2, <2>4, <3>1
    <2> QED
      BY <1>2, <1>3, <2>1, <2>3, <2>4, MethodInductive
  <1>5. CASE pc[p] = "tellFail" /\ Invoke(p, Failure(breaker), "idle")
    <2> DEFINE e == Failure(breaker)
    <2>1. /\ e.breaker \in BreakerFields /\ Counters(e.breaker)
          /\ e.sync \in Status \cup {NoSync} /\ Synced(breaker, e)
          /\ e.breaker.state # CircuitHalfOpen
      BY <1>1, FailureEffect
    <2>2. Invoke(p, e, "idle")
      BY <1>5
    <2> HIDE DEF e
    <2> QED
      BY <1>2, <1>3, <2>1, <2>2, MethodInductive
  <1> QED
    BY <1>4, <1>5 DEF TellBreaker

\* Reset, and the polling of the state.
LEMMA ReporterCallInductive ==
  ASSUME IInv, NEW r \in Reporters, ResetBreaker(r) \/ PollState(r) PROVE IInv'
  <1>1. /\ breaker \in BreakerFields /\ Counters(breaker)
        /\ r \in Procs /\ r \notin Calls
    BY ClientAssumption DEF IInv, TypeOK, Procs, Calls
  <1>2. ~InSync(r) /\ UNCHANGED <<entry, left, lost>>
    BY DEF ResetBreaker, PollState, InSync
  <1>3. CASE ResetBreaker(r)
    <2> DEFINE e == Reset(breaker)
    <2>1. /\ e.breaker \in BreakerFields /\ Counters(e.breaker)
          /\ e.sync \in Status \cup {NoSync} /\ Synced(breaker, e)
          /\ e.breaker.state # CircuitHalfOpen
      BY <1>1, ResetEffect DEF Status, CircuitClosed, CircuitHalfOpen
    <2>2. Invoke(r, e, "idle")
      BY <1>3 DEF ResetBreaker
    <2> HIDE DEF e
    <2> QED
      BY <1>1, <1>2, <2>1, <2>2, MethodInductive
  <1>4. CASE PollState(r)
    <2> DEFINE e == CheckState(breaker)
    <2>1. /\ e.breaker \in BreakerFields /\ Counters(e.breaker)
          /\ e.sync \in Status \cup {NoSync} /\ Synced(breaker, e)
          /\ \/ e.breaker = breaker
             \/ e.breaker.halfOpenCalls = 0 /\ e.breaker.successCount = 0
      BY <1>1, CheckStateEffect
    <2>2. Invoke(r, e, "idle")
      BY <1>4 DEF PollState
    <2> HIDE DEF e
    <2>3. ASSUME e.breaker.state = CircuitHalfOpen,
                 Cardinality(Calls') \in Nat,
                 Cardinality(Calls') >= Cardinality(Calls)
          PROVE  /\ e.breaker.successCount > 0 => e.breaker.successCount < SuccessThreshold
                 /\ ~lost => e.breaker.halfOpenCalls
                               <= e.breaker.successCount + Cardinality(Calls')
      <3>1. /\ breaker.halfOpenCalls \in Nat /\ breaker.successCount \in Nat
            /\ Cardinality(Calls) \in Nat
        BY <1>1, CallsFinite DEF BreakerFields
      <3>2. CASE e.breaker = breaker
        <4>1. /\ breaker.successCount > 0 => breaker.successCount < SuccessThreshold
              /\ ~lost => breaker.halfOpenCalls <= breaker.successCount + Cardinality(Calls)
          BY <2>3, <3>2 DEF IInv, SlotInv
        <4>2. breaker.halfOpenCalls <= breaker.successCount + Cardinality(Calls) =>
              breaker.halfOpenCalls <= breaker.successCount + Cardinality(Calls')
          BY <2>3, <3>1
        <4> QED
          BY <3>2, <4>1, <4>2
      <3>3. CASE e.breaker.halfOpenCalls = 0 /\ e.breaker.successCount = 0
        BY <2>3, <3>3
      <3> QED
        BY <2>1, <3>2, <3>3
    <2> QED
      BY <1>1, <1>2, <2>1, <2>2, <2>3, MethodInductive
  <1> QED
    BY <1>3, <1>4

\* The first store call of syncState: the status in the entry is the breaker's.
LEMMA SyncStatusInductive == ASSUME IInv, NEW p \in Procs, SyncStatus(p) PROVE IInv'
  <1>1. /\ pc[p] = "status" /\ pc' = [pc EXCEPT ![p] = "circuit"]
        /\ entry' = SetStatus(entry, pending[p].status)
        /\ UNCHANGED <<breaker, holder, left, pending, lost>>
        /\ pc \in [Procs -> {"idle", "calling", "reportOk", "reportFail",
                             "tellOk", "tellFail", "status", "circuit"}]
        /\ entry \in Entry /\ breaker.state \in CircuitState
    BY DEF IInv, TypeOK, BreakerFields, SyncStatus
  <1>2. pending[p].status \in StatusesOf(breaker.state)
    BY <1>1 DEF IInv, LockInv, InSync
  <1>3. /\ pending[p].status \in Status
        /\ pending[p].status = StatusDown => breaker.state = CircuitOpen
    BY <1>1, <1>2, StatusesAreStatuses
  <1>4. entry' \in Entry /\ entry'.Status = pending[p].status
    BY <1>1, <1>3, StoreTypes
  <1>5. /\ \A q \in Procs : (InSync(q)' <=> InSync(q)) /\ (WillCall(q)' <=> WillCall(q))
        /\ \A q \in Procs : q # p => pc'[q] = pc[q]
        /\ pc'[p] = "circuit"
    BY <1>1 DEF InSync, WillCall
  <1>6. TypeOK'
    BY <1>1, <1>4 DEF IInv, TypeOK
  <1>7. Counters(breaker') /\ LockInv'
    BY <1>1, <1>5 DEF IInv, LockInv
  <1>8. AttemptsInv'
    BY <1>1, <1>5 DEF IInv, AttemptsInv, Procs
  <1>9. CauseInv'
    <2>1. holder = p /\ holder # NoProc
      BY <1>1, ClientAssumption DEF IInv, LockInv, InSync, Procs
    <2> QED
      BY <1>1, <1>3, <1>4, <2>1 DEF CauseInv, Cause, Tripped
  <1>10. Calls' = Calls
    BY <1>1, <1>5 DEF Calls, Procs
  <1>11. SlotInv'
    BY <1>1, <1>10 DEF IInv, SlotInv
  <1> QED
    BY <1>6, <1>7, <1>8, <1>9, <1>11 DEF IInv

\* The second, and the release of the lock: so is the circuit.
LEMMA SyncCircuitInductive == ASSUME IInv, NEW p \in Procs, SyncCircuit(p) PROVE IInv'
  <1>1. /\ pc[p] = "circuit" /\ pc' = [pc EXCEPT ![p] = pending[p].next]
        /\ entry' = SetCircuitState(entry, pending[p].circuit)
        /\ holder' = NoProc
        /\ pending' = [pending EXCEPT ![p] = Idle]
        /\ UNCHANGED <<breaker, left, lost>>
        /\ pc \in [Procs -> {"idle", "calling", "reportOk", "reportFail",
                             "tellOk", "tellFail", "status", "circuit"}]
        /\ pending \in [Procs -> [status  : Status \cup {NoSync},
                                  circuit : CircuitState,
                                  next    : {"idle", "calling"}]]
        /\ pending[p].next \in {"idle", "calling"}
        /\ entry \in Entry /\ breaker.state \in CircuitState
    BY DEF IInv, TypeOK, BreakerFields, SyncCircuit
  <1>2. pending[p].circuit = breaker.state /\ holder = p
    BY <1>1 DEF IInv, LockInv, InSync
  <1>3. /\ entry' \in Entry
        /\ entry'.CircuitState = breaker.state
        /\ entry'.Status = entry.Status
        /\ entry'.FailureCount = entry.FailureCount
    BY <1>1, <1>2, StoreTypes
  <1>4. \A q \in Procs : q # p => ~InSync(q) /\ pc'[q] = pc[q]
    BY <1>1, <1>2 DEF IInv, LockInv
  <1>5. /\ \A q \in Procs : ~InSync(q)'
        /\ \A q \in Procs : WillCall(q)' <=> WillCall(q)
    BY <1>1, <1>4 DEF InSync, WillCall
  <1>6. TypeOK'
    BY <1>1, <1>3 DEF IInv, TypeOK, Idle, CircuitState
  <1>7. Counters(breaker') /\ LockInv'
    BY <1>1, <1>5 DEF IInv, LockInv
  <1>8. AttemptsInv'
    BY <1>1, <1>5 DEF IInv, AttemptsInv, Procs
  <1>9. CauseInv'
    <2>1. \A q \in Procs : pc[q] # "status"
      BY <1>1, <1>4 DEF InSync
    <2>2. entry.Status = StatusDown => Cause
      BY <2>1 DEF IInv, CauseInv
    <2> QED
      BY <1>1, <1>3, <2>2 DEF CauseInv, Cause, Tripped
  <1>10. Calls' = Calls
    BY <1>1, <1>4, <1>5 DEF Calls, Procs
  <1>11. SlotInv'
    BY <1>1, <1>10 DEF IInv, SlotInv
  <1> QED
    BY <1>6, <1>7, <1>8, <1>9, <1>11 DEF IInv

LEMMA TickInductive == ASSUME IInv, Tick PROVE IInv'
  <1>1. /\ breaker' = Older(breaker) /\ breaker.elapsed < Timeout
        /\ UNCHANGED <<holder, entry, pc, left, pending, lost>>
        /\ breaker \in BreakerFields
    BY DEF IInv, TypeOK, Tick
  <1>2. breaker.elapsed + 1 \in 0..Timeout
    BY <1>1, BreakerConfigAssumption DEF BreakerFields
  <1>3. /\ breaker' \in BreakerFields
        /\ breaker'.state = breaker.state
        /\ breaker'.failureCount = breaker.failureCount
        /\ breaker'.successCount = breaker.successCount
        /\ breaker'.halfOpenCalls = breaker.halfOpenCalls
    BY <1>1, <1>2 DEF Older, BreakerFields
  <1>4. Calls' = Calls
    BY <1>1 DEF Calls, WillCall, InSync
  <1> QED
    BY <1>1, <1>3, <1>4
    DEF IInv, TypeOK, Counters, LockInv, AttemptsInv, CauseInv, Cause, Tripped, SlotInv,
        WillCall, InSync

\* Every step keeps the invariant.
LEMMA NextInductive == IInv /\ [Next]_vars => IInv'
  <1> SUFFICES ASSUME IInv, [Next]_vars PROVE IInv'
    OBVIOUS
  <1>1. CASE \E c \in Clients :
               Do(c) \/ AttemptSucceeds(c) \/ AttemptFails(c) \/ Panic(c)
    BY <1>1, DoInductive, AttemptInductive
  <1>2. CASE \E p \in Procs :
               ReportToStore(p) \/ TellBreaker(p) \/ SyncStatus(p) \/ SyncCircuit(p)
    BY <1>2, ReportInductive, TellInductive, SyncStatusInductive, SyncCircuitInductive
  <1>3. CASE \E r \in Reporters :
               \/ \E o \in {"reportOk", "reportFail"} : ReporterReports(r, o)
               \/ ResetBreaker(r) \/ PollState(r)
    BY <1>3, ReportInductive, ReporterCallInductive DEF Procs
  <1>4. CASE Tick
    BY <1>4, TickInductive
  <1>5. CASE UNCHANGED vars
    BY <1>5
    DEF vars, IInv, TypeOK, Counters, LockInv, AttemptsInv, CauseInv, Cause, Tripped, SlotInv,
        Calls, WillCall, InSync
  <1> QED
    BY <1>1, <1>2, <1>3, <1>4, <1>5 DEF Next

-----------------------------------------------------------------------------
\* The breaker, the lock, the entry and the goroutines keep their types; so no Do
\* sends more than 1 + MaxRetries requests.
THEOREM TypeCorrect == Spec => []TypeOK
  <1>1. IInv => TypeOK
    BY DEF IInv
  <1> QED
    BY InitIInv, NextInductive, <1>1, PTL DEF Spec

\* One goroutine at a time is in syncState, and the store is told of the circuit
\* the breaker is in and of no earlier one.
THEOREM StoreWritesInOrder == Spec => []WritesInOrder
  <1>1. IInv => WritesInOrder
    BY DEF IInv, LockInv, InSync, WritesInOrder
  <1> QED
    BY InitIInv, NextInductive, <1>1, PTL DEF Spec

\* Between two writers that do not know of each other, no entry is left DOWN or
\* OPEN once both its causes are gone, whatever reports come between the two store
\* calls of syncState.
THEOREM DownIsExplained == Spec => []DownHasCause
  <1>1. IInv => DownHasCause
    <2> SUFFICES ASSUME IInv, holder = NoProc
                 PROVE  /\ entry.Status = StatusDown => Cause
                        /\ entry.CircuitState = CircuitOpen => Cause
      BY DEF DownHasCause, Cause, Tripped
    <2>1. \A p \in Procs : pc[p] # "status"
      BY FreeLock DEF IInv, InSync
    <2> QED
      BY <2>1 DEF IInv, CauseInv
  <1> QED
    BY InitIInv, NextInductive, <1>1, PTL DEF Spec

\* Whatever the order in which calls report to the store and to the breaker, a
\* circuit no panic has cost a slot is not wedged, for every configuration whose
\* quota covers the successes it asks for.
THEOREM WedgeTakesPanic == ASSUME QuotaCoversThreshold PROVE Spec => []OnlyPanicsWedge
  <1>1. IInv => OnlyPanicsWedge
    <2> SUFFICES ASSUME IInv, \A p \in Procs : pc[p] = "idle",
                        breaker.state = CircuitHalfOpen, ~lost
                 PROVE  breaker.halfOpenCalls < HalfOpenMaxCalls
      BY DEF OnlyPanicsWedge, HalfOpenSlotFree
    <2>1. Calls = {}
      BY DEF Calls, WillCall, InSync, Procs
    <2>2. Cardinality(Calls) = 0
      BY <2>1, FS_EmptySet
    <2>3. /\ breaker.successCount > 0 => breaker.successCount < SuccessThreshold
          /\ breaker.halfOpenCalls <= breaker.successCount + 0
      BY <2>2 DEF IInv, SlotInv
    <2>4. breaker.halfOpenCalls \in Nat /\ breaker.successCount \in Nat
      BY DEF IInv, TypeOK, BreakerFields
    <2> QED
      BY <2>3, <2>4, BreakerConfigAssumption, QuotaCoversThreshold
      DEF QuotaCoversThreshold
  <1> QED
    BY InitIInv, NextInductive, <1>1, PTL DEF Spec

-----------------------------------------------------------------------------
(***************************************************************************)
(* What DoReturns rests on.  A Do has a bounded number of steps ahead of   *)
(* it, no step adds to them, and cb.mu, the one thing it may have to       *)
(* wait for, is held only by a goroutine that has the lock's last steps    *)
(* ahead and needs nothing for them.  That the steps are taken is the      *)
(* fairness TLC checks DoReturns under.                                    *)
(***************************************************************************)

\* The most steps p can still take until its Do, or its report, is over.
Sending(p) == left[p] + 4
Resumed(p) == IF pending[p].next = "calling" THEN Sending(p) ELSE 0

Ahead(p) ==
  CASE pc[p] = "idle"    -> 0
    [] pc[p] = "calling" -> Sending(p)
    [] pc[p] \in {"reportOk", "reportFail"} -> 4
    [] pc[p] \in {"tellOk", "tellFail"} -> 3
    [] pc[p] = "status"  -> 2 + Resumed(p)
    [] pc[p] = "circuit" -> 1 + Resumed(p)

Untouched(p) == pc'[p] = pc[p] /\ left'[p] = left[p] /\ pending'[p] = pending[p]

LEMMA AheadIs ==
  ASSUME NEW p \in Procs
  PROVE  /\ pc[p] = "idle" => Ahead(p) = 0
         /\ pc[p] = "calling" => Ahead(p) = left[p] + 4
         /\ pc[p] \in {"reportOk", "reportFail"} => Ahead(p) = 4
         /\ pc[p] \in {"tellOk", "tellFail"} => Ahead(p) = 3
         /\ pc[p] = "status" =>
              Ahead(p) = 2 + IF pending[p].next = "calling" THEN left[p] + 4 ELSE 0
         /\ pc[p] = "circuit" =>
              Ahead(p) = 1 + IF pending[p].next = "calling" THEN left[p] + 4 ELSE 0
  BY DEF Ahead, Sending, Resumed

LEMMA AheadAfter ==
  ASSUME NEW p \in Procs
  PROVE  /\ pc'[p] = "idle" => Ahead(p)' = 0
         /\ pc'[p] = "calling" => Ahead(p)' = left'[p] + 4
         /\ pc'[p] \in {"reportOk", "reportFail"} => Ahead(p)' = 4
         /\ pc'[p] \in {"tellOk", "tellFail"} => Ahead(p)' = 3
         /\ pc'[p] = "status" =>
              Ahead(p)' = 2 + IF pending'[p].next = "calling" THEN left'[p] + 4 ELSE 0
         /\ pc'[p] = "circuit" =>
              Ahead(p)' = 1 + IF pending'[p].next = "calling" THEN left'[p] + 4 ELSE 0
  BY DEF Ahead, Sending, Resumed

LEMMA AheadBounded ==
  ASSUME TypeOK, NEW p \in Procs
  PROVE  Ahead(p) \in 0..(MaxRetries + 7) /\ (Ahead(p) = 0 <=> pc[p] = "idle")
  <1>1. /\ pc[p] \in {"idle", "calling", "reportOk", "reportFail",
                      "tellOk", "tellFail", "status", "circuit"}
        /\ left[p] \in 0..(1 + MaxRetries) /\ MaxRetries \in Nat
    BY ClientAssumption DEF TypeOK
  <1> QED
    BY <1>1, AheadIs

\* A method of the breaker leaves all goroutines but its own alone.
LEMMA InvokeIsOwn ==
  ASSUME TypeOK, NEW q \in Procs, NEW e, NEW next, Invoke(q, e, next), left' = left
  PROVE  /\ \A p \in Procs : p # q => Untouched(p)
         /\ \/ pc'[q] = next
            \/ pc'[q] = "status" /\ pending'[q].next = next
  BY DEF TypeOK, Invoke, Untouched

\* A goroutine on its way is brought nearer to the end or not moved at all.
LEMMA AheadShrinks ==
  ASSUME IInv, [Next]_vars, NEW p \in Procs, pc[p] # "idle"
  PROVE  Ahead(p)' < Ahead(p) \/ Untouched(p)
  <1> USE DEF IInv
  <1>1. /\ pc \in [Procs -> {"idle", "calling", "reportOk", "reportFail",
                             "tellOk", "tellFail", "status", "circuit"}]
        /\ left \in [Procs -> 0..(1 + MaxRetries)]
        /\ pending \in [Procs -> [status  : Status \cup {NoSync},
                                  circuit : CircuitState,
                                  next    : {"idle", "calling"}]]
    BY DEF TypeOK
  <1>2. left[p] \in Nat
    BY <1>1, ClientAssumption
  <1>3. ASSUME NEW c \in Clients, Do(c) PROVE Untouched(p)
    <2>1. c \in Procs /\ c # p /\ left'[p] = left[p]
      BY <1>1, <1>3 DEF Do, Procs
    <2> QED
      BY <1>1, <1>3, <2>1 DEF Do, Invoke, Untouched
  <1>4. ASSUME NEW c \in Clients, AttemptSucceeds(c) \/ AttemptFails(c) \/ Panic(c)
        PROVE  Ahead(p)' < Ahead(p) \/ Untouched(p)
    <2>1. c \in Procs /\ pc[c] = "calling" /\ left[c] > 0
      BY <1>4 DEF AttemptSucceeds, AttemptFails, Panic, AttemptsInv, WillCall, Procs
    <2>2. CASE c = p
      <3>1. \/ pc'[p] \in {"idle", "reportOk", "reportFail"}
            \/ pc'[p] = "calling" /\ left'[p] = left[p] - 1
        BY <1>1, <1>4, <2>2 DEF AttemptSucceeds, AttemptFails, Panic
      <3> QED
        BY <1>2, <2>1, <2>2, <3>1, AheadIs, AheadAfter
    <2>3. CASE c # p
      BY <1>1, <1>4, <2>3 DEF AttemptSucceeds, AttemptFails, Panic, Untouched
    <2> QED
      BY <2>2, <2>3
  <1>5. ASSUME NEW q \in Procs, ReportToStore(q)
        PROVE  Ahead(p)' < Ahead(p) \/ Untouched(p)
    <2>1. CASE q = p
      <3>1. pc[p] \in {"reportOk", "reportFail"} /\ pc'[p] \in {"tellOk", "tellFail"}
        BY <1>1, <1>5, <2>1 DEF ReportToStore
      <3> QED
        BY <3>1, AheadIs, AheadAfter
    <2>2. CASE q # p
      BY <1>1, <1>5, <2>2 DEF ReportToStore, Untouched
    <2> QED
      BY <2>1, <2>2
  <1>6. ASSUME NEW q \in Procs, TellBreaker(q)
        PROVE  Ahead(p)' < Ahead(p) \/ Untouched(p)
    <2>1. /\ pc[q] \in {"tellOk", "tellFail"}
          /\ \A r \in Procs : r # q => Untouched(r)
          /\ \/ pc'[q] = "idle"
             \/ pc'[q] = "status" /\ pending'[q].next = "idle"
      <3>1. CASE pc[q] = "tellOk" /\ Invoke(q, Success(breaker), "idle")
        BY <1>6, <3>1, InvokeIsOwn DEF TellBreaker
      <3>2. CASE pc[q] = "tellFail" /\ Invoke(q, Failure(breaker), "idle")
        BY <1>6, <3>2, InvokeIsOwn DEF TellBreaker
      <3> QED
        BY <1>6, <3>1, <3>2 DEF TellBreaker
    <2>2. CASE q = p
      BY <2>1, <2>2, AheadIs, AheadAfter
    <2>3. CASE q # p
      BY <2>1, <2>3
    <2> QED
      BY <2>2, <2>3
  <1>7. ASSUME NEW q \in Procs, SyncStatus(q)
        PROVE  Ahead(p)' < Ahead(p) \/ Untouched(p)
    <2>1. CASE q = p
      <3>1. /\ pc[p] = "status" /\ pc'[p] = "circuit"
            /\ left'[p] = left[p] /\ pending'[p] = pending[p]
        BY <1>1, <1>7, <2>1 DEF SyncStatus
      <3> QED
        BY <1>2, <3>1, AheadIs, AheadAfter
    <2>2. CASE q # p
      BY <1>1, <1>7, <2>2 DEF SyncStatus, Untouched
    <2> QED
      BY <2>1, <2>2
  <1>8. ASSUME NEW q \in Procs, SyncCircuit(q)
        PROVE  Ahead(p)' < Ahead(p) \/ Untouched(p)
    <2>1. CASE q = p
      <3>1. /\ pc[p] = "circuit" /\ pc'[p] = pending[p].next
            /\ left'[p] = left[p] /\ pending[p].next \in {"idle", "calling"}
        BY <1>1, <1>8, <2>1 DEF SyncCircuit
      <3> QED
        BY <1>2, <3>1, AheadIs, AheadAfter
    <2>2. CASE q # p
      BY <1>1, <1>8, <2>2 DEF SyncCircuit, Untouched
    <2> QED
      BY <2>1, <2>2
  <1>9. ASSUME NEW r \in Reporters, NEW o \in {"reportOk", "reportFail"},
               ReporterReports(r, o)
        PROVE  Untouched(p)
    BY <1>1, <1>9 DEF ReporterReports, Untouched, Procs
  <1>10. ASSUME NEW r \in Reporters, ResetBreaker(r) \/ PollState(r)
         PROVE  Untouched(p)
    <2>1. r \in Procs /\ r # p
      BY <1>10 DEF ResetBreaker, PollState, Procs
    <2> QED
      BY <1>10, <2>1, InvokeIsOwn DEF ResetBreaker, PollState
  <1>11. CASE Tick
    BY <1>11 DEF Tick, Untouched
  <1>12. CASE UNCHANGED vars
    BY <1>12 DEF vars, Untouched
  <1> QED
    BY <1>3, <1>4, <1>5, <1>6, <1>7, <1>8, <1>9, <1>10, <1>11, <1>12 DEF Next

\* Whatever the circuit does and whoever else calls, the way of a Do or a report in
\* progress to its return is bounded by the retries, at most MaxRetries + 7, and
\* every step brings it nearer or leaves it where it is; no step sends it back.
THEOREM DoIsBounded ==
  Spec => /\ [](\A p \in Procs : /\ Ahead(p) \in 0..(MaxRetries + 7)
                                 /\ Ahead(p) = 0 <=> pc[p] = "idle")
          /\ [][\A p \in Procs : pc[p] # "idle" =>
                  Ahead(p)' < Ahead(p) \/ Untouched(p)]_vars
  <1>1. IInv => \A p \in Procs : /\ Ahead(p) \in 0..(MaxRetries + 7)
                                 /\ Ahead(p) = 0 <=> pc[p] = "idle"
    BY AheadBounded DEF IInv
  <1>2. IInv /\ [Next]_vars =>
          [\A p \in Procs : pc[p] # "idle" =>
             Ahead(p)' < Ahead(p) \/ Untouched(p)]_vars
    BY AheadShrinks
  <1> QED
    BY InitIInv, NextInductive, <1>1, <1>2, PTL DEF Spec

\* cb.mu is held across a step only by a goroutine in the middle of syncState, to
\* which both steps it has left are open: nobody keeps the lock and waits.
HeldInSync == holder # NoProc => InSync(holder)

LEMMA HeldInSyncInductive ==
  IInv /\ HeldInSync /\ [Next]_vars => HeldInSync'
  <1> SUFFICES ASSUME IInv, HeldInSync, [Next]_vars PROVE HeldInSync'
    OBVIOUS
  <1>1. /\ pc \in [Procs -> {"idle", "calling", "reportOk", "reportFail",
                             "tellOk", "tellFail", "status", "circuit"}]
        /\ holder \in Procs \cup {NoProc}
    BY DEF IInv, TypeOK
  <1>2. ASSUME NEW q \in Procs, NEW e, NEW next, Invoke(q, e, next)
        PROVE  HeldInSync'
    BY <1>1, <1>2 DEF Invoke, HeldInSync, InSync
  <1>3. ASSUME NEW q \in Procs, ~InSync(q), holder' = holder,
               NEW next, pc' = [pc EXCEPT ![q] = next]
        PROVE  HeldInSync'
    BY <1>1, <1>3 DEF HeldInSync, InSync
  <1>4. ASSUME NEW c \in Clients, Do(c) PROVE HeldInSync'
    BY <1>2, <1>4 DEF Do, Procs
  <1>5. ASSUME NEW c \in Clients, AttemptSucceeds(c) \/ AttemptFails(c) \/ Panic(c)
        PROVE  HeldInSync'
    <2>1. c \in Procs /\ ~InSync(c) /\ holder' = holder
      BY <1>5 DEF AttemptSucceeds, AttemptFails, Panic, InSync, Procs
    <2>2. \E next : pc' = [pc EXCEPT ![c] = next]
      BY <1>5 DEF AttemptSucceeds, AttemptFails, Panic
    <2> QED
      BY <1>3, <2>1, <2>2
  <1>6. ASSUME NEW p \in Procs, ReportToStore(p) PROVE HeldInSync'
    <2>1. ~InSync(p) /\ holder' = holder /\ \E next : pc' = [pc EXCEPT ![p] = next]
      BY <1>6 DEF ReportToStore, InSync
    <2> QED
      BY <1>3, <2>1
  <1>7. ASSUME NEW p \in Procs, TellBreaker(p) PROVE HeldInSync'
    BY <1>2, <1>7 DEF TellBreaker
  <1>8. ASSUME NEW p \in Procs, SyncStatus(p) PROVE HeldInSync'
    BY <1>1, <1>8 DEF SyncStatus, HeldInSync, InSync
  <1>9. ASSUME NEW p \in Procs, SyncCircuit(p) PROVE HeldInSync'
    BY <1>9 DEF SyncCircuit, HeldInSync
  <1>10. ASSUME NEW r \in Reporters, NEW o \in {"reportOk", "reportFail"},
                ReporterReports(r, o)
         PROVE  HeldInSync'
    <2>1. r \in Procs /\ ~InSync(r) /\ holder' = holder /\ pc' = [pc EXCEPT ![r] = o]
      BY <1>10 DEF ReporterReports, InSync, Procs
    <2> QED
      BY <1>3, <2>1
  <1>11. ASSUME NEW r \in Reporters, ResetBreaker(r) \/ PollState(r) PROVE HeldInSync'
    BY <1>2, <1>11 DEF ResetBreaker, PollState, Procs
  <1>12. CASE Tick
    BY <1>12 DEF Tick, HeldInSync, InSync
  <1>13. CASE UNCHANGED vars
    BY <1>13 DEF vars, HeldInSync, InSync
  <1> QED
    BY <1>4, <1>5, <1>6, <1>7, <1>8, <1>9, <1>10, <1>11, <1>12, <1>13 DEF Next

\* The lock of the breaker is never left held: not by a call that was refused, that
\* panicked or that has returned.
THEOREM LockIsReturned == Spec => []HeldInSync
  <1>1. Init => HeldInSync
    BY DEF Init, HeldInSync
  <1> QED
    BY <1>1, InitIInv, NextInductive, HeldInSyncInductive, PTL DEF Spec
=============================================================================
