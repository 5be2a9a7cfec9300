--------------------------- MODULE CircuitBreaker ---------------------------
(***************************************************************************)
(* One circuit breaker built by NewCircuitBreakerWithStore, the store      *)
(* entry it keeps in step, and the goroutines that use it.                 *)
(*                                                                         *)
(* A caller asks Allow, is admitted or refused, and when its call returns  *)
(* reports Success or Failure; nothing bounds the time in between, so the  *)
(* report may arrive in any later state of the circuit.  DepReporter       *)
(* reports without asking Allow first, and Reset may come from anywhere.   *)
(*                                                                         *)
(* call[c] is "idle", or says how the call in flight was admitted: while   *)
(* the circuit was closed ("normal"), as a probe of the half-open period   *)
(* that is still going on ("probe"), or as a probe of one that has ended   *)
(* ("late").  The breaker does not know the difference: call is history,   *)
(* and only the properties read more of it than "in flight or not".        *)
(*                                                                         *)
(* dep is the part of the store entry the breaker writes; the breaker is   *)
(* the only writer here (ClientWrapper adds the others).  It is written by *)
(* two store calls while cb.mu is held, and whoever reads the store does   *)
(* not take cb.mu: due is what syncState has still to write before the     *)
(* method that called it unlocks, field by field.                          *)
(***************************************************************************)
EXTENDS Breaker, FiniteSets

CONSTANT Callers

ASSUME CallersAssumption == IsFiniteSet(Callers)

VARIABLES breaker, dep, due, call

vars == <<breaker, dep, due, call>>

InFlight == {"normal", "probe", "late"}
Probes   == {c \in Callers : call[c] = "probe"}

Nothing == [Status |-> NoSync, CircuitState |-> NoSync]

TypeOK ==
  /\ breaker \in BreakerFields
  /\ dep \in [Status : Status, CircuitState : CircuitState]
  /\ due \in [Status       : Status \cup {NoSync},
              CircuitState : CircuitState \cup {NoSync}]
  /\ call \in [Callers -> InFlight \cup {"idle"}]

Init ==
  /\ breaker = NewCircuitBreaker
  /\ dep = [Status |-> StatusUp, CircuitState |-> CircuitClosed]
  /\ due = Nothing
  /\ call = [c \in Callers |-> "idle"]

-----------------------------------------------------------------------------
\* Variant: the store is told after the unlock.
NeverLocked == TRUE

\* Nobody holds cb.mu: the entry has been told what there was to tell.
Unlocked == due = Nothing

\* syncState has its two store calls before it.
SyncState(e) ==
  due' = IF e.sync = NoSync
           THEN Nothing
           ELSE [Status |-> e.sync, CircuitState |-> e.breaker.state]

\* One method of the breaker, up to the store calls of its syncState.
Run(e) == Unlocked /\ breaker' = e.breaker /\ SyncState(e) /\ UNCHANGED dep

\* SetStatus, the first of them.
SyncStatus ==
  /\ due.Status # NoSync
  /\ dep' = [dep EXCEPT !.Status = due.Status]
  /\ due' = [due EXCEPT !.Status = NoSync]
  /\ UNCHANGED <<breaker, call>>

\* SetCircuitState, the second, and the unlock.
SyncCircuitState ==
  /\ due.Status = NoSync /\ due.CircuitState # NoSync
  /\ dep' = [dep EXCEPT !.CircuitState = due.CircuitState]
  /\ due' = Nothing
  /\ UNCHANGED <<breaker, call>>

\* calls, with the probes of a half-open period that e ends marked late.
Outlived(e, calls) ==
  [c \in Callers |->
     IF calls[c] = "probe" /\ e.breaker.state # CircuitHalfOpen
       THEN "late" ELSE calls[c]]

Admission(e) == IF e.breaker.state = CircuitHalfOpen THEN "probe" ELSE "normal"

CallAllow(c) ==
  LET e == Allow(breaker)
  IN  /\ call[c] = "idle"
      /\ Run(e)
      /\ call' = IF Allowed(breaker)
                   THEN [call EXCEPT ![c] = Admission(e)] ELSE call

CallReturns(c, e) ==
  /\ call[c] \in InFlight
  /\ Run(e)
  /\ call' = Outlived(e, [call EXCEPT ![c] = "idle"])

CallSucceeds(c) == CallReturns(c, Success(breaker))
CallFails(c)    == CallReturns(c, Failure(breaker))

Unsolicited(e) == Run(e) /\ call' = Outlived(e, call)

ReporterSuccess == Unsolicited(Success(breaker))
ReporterFailure == Unsolicited(Failure(breaker))
ResetBreaker    == Unsolicited(Reset(breaker))
PollState       == Unsolicited(CheckState(breaker))

\* Time passes, under the lock too; Timeout bounds the clock.
Tick ==
  /\ breaker.elapsed < Timeout
  /\ breaker' = Older(breaker)
  /\ UNCHANGED <<dep, due, call>>

Next ==
  \/ \E c \in Callers : CallAllow(c) \/ CallSucceeds(c) \/ CallFails(c)
  \/ ReporterSuccess \/ ReporterFailure
  \/ ResetBreaker
  \/ PollState
  \/ SyncStatus \/ SyncCircuitState
  \/ Tick

Spec == Init /\ [][Next]_vars

\* Time passes, the holder of cb.mu goes on, calls return (Do bounds each by
\* its timeout), and there is traffic: every caller keeps asking.  Who waits
\* for cb.mu gets it in the end, for a sync.Mutex starves nobody.
Fairness ==
  /\ WF_vars(Tick)
  /\ WF_vars(SyncStatus \/ SyncCircuitState)
  /\ \A c \in Callers : /\ SF_vars(CallAllow(c))
                        /\ SF_vars(CallSucceeds(c) \/ CallFails(c))

FairSpec == Spec /\ Fairness

-----------------------------------------------------------------------------
(***************************************************************************)
(* Safety.                                                                 *)
(***************************************************************************)

\* What the counters may be in each circuit state (Allow, Success, Failure,
\* Reset and checkState keep it up between them): a closed circuit is short
\* of its threshold, any other is at it, and no half-open counter survives
\* the period it belongs to, so that the next one starts with a full quota.
FreshCounters ==
  /\ breaker.state = CircuitClosed <=> breaker.failureCount < FailureThreshold
  /\ breaker.state # CircuitHalfOpen =>
       breaker.successCount = 0 /\ breaker.halfOpenCalls = 0

\* Success and Allow account for every slot of a half-open period: a slot
\* taken is a probe in flight or a success counted, and every probe in flight
\* has one.  The circuit closes before the successes exceed their threshold.
SlotAccounting ==
  IF breaker.state = CircuitHalfOpen
    THEN /\ Cardinality(Probes) <= breaker.halfOpenCalls
         /\ breaker.halfOpenCalls <= breaker.successCount + Cardinality(Probes)
         /\ breaker.halfOpenCalls <= HalfOpenMaxCalls
         /\ breaker.successCount > 0 => breaker.successCount < SuccessThreshold
    ELSE Probes = {}

\* Allow never lets more than HalfOpenMaxCalls probes of one half-open
\* period be in flight, whatever answers, late or unsolicited, arrive in it.
ProbesWithinQuota == Cardinality(Probes) <= HalfOpenMaxCalls

\* A half-open circuit is never stuck: when none of its probes is in flight,
\* Allow still has a slot to give.  Success does not give slots back, so this
\* needs a quota no smaller than the number of successes asked for.
NoWedge ==
  breaker.state = CircuitHalfOpen /\ Probes = {} => HalfOpenSlotFree(breaker)

\* An open circuit leaves that state in two ways only: to half-open once
\* Timeout has passed since the last failure reported, in whatever state that
\* report found it, or closed by Reset.  No late answer of a call closes it.
OpenIsPatient ==
  [][breaker.state = CircuitOpen =>
       \/ breaker'.state = CircuitOpen
       \/ breaker'.state = CircuitHalfOpen /\ breaker.elapsed = Timeout
       \/ ResetBreaker]_vars

(***************************************************************************)
(* Liveness.                                                               *)
(***************************************************************************)

FailureStep == ReporterFailure \/ \E c \in Callers : CallFails(c)

\* If failures stop, the circuit closes and stays closed (Allow, checkState
\* and Success together), given a quota that covers SuccessThreshold.
Recovers == <>[][~FailureStep]_vars => <>[](breaker.state = CircuitClosed)

(***************************************************************************)
(* Refinement.                                                             *)
(***************************************************************************)

Promise == INSTANCE AbstractBreaker WITH
  MaxProbes <- HalfOpenMaxCalls,
  circuit   <- breaker.state,
  wait      <- Timeout - breaker.elapsed,
  shown     <- dep

\* The counters of circuitBreaker keep the promise of the interface (Allow,
\* Success, Failure, State, Reset and syncState): every step is one the
\* interface allows; the store, which may show a new status beside an old
\* circuit meanwhile, has been told of a change before the next one is made;
\* and a caller that goes on asking is not refused for ever while the circuit
\* has room for its call.
KeepsPromise == Promise!FairSpec
=============================================================================
