--------------------------- MODULE ClientWrapper ---------------------------
(***************************************************************************)
(* The wrapped HTTP client and the dependency reporter of one dependency,  *)
(* on top of one breaker (module Breaker) and one store entry (module      *)
(* DepStateStore) that both write.                                         *)
(*                                                                         *)
(* A client's Do asks the breaker once, sends up to 1 + MaxRetries         *)
(* requests, reports the last outcome to the store and then to the         *)
(* breaker.  A reporter reports in the same order without asking.  Each    *)
(* method of the breaker holds cb.mu, also across the two store calls of   *)
(* syncState, while the other goroutines go on using the store:            *)
(*                                                                         *)
(*   "idle"        not in Do (or in no report)                             *)
(*   "calling"     admitted, left[p] requests may still be sent            *)
(*   "reportOk/Fail"  about to report to the store                         *)
(*   "tellOk/Fail"    about to call Success or Failure on the breaker      *)
(*   "status", "circuit"  in syncState, before SetStatus, SetCircuitState  *)
(*                                                                         *)
(* The HTTP exchange is nondeterministic; an error and a response of 500   *)
(* or more are one failure, and the transport may panic.  A client without *)
(* a breaker or a store takes a subset of these steps.                     *)
(*                                                                         *)
(* lost is history: whether a panic has met a half-open circuit.           *)
(***************************************************************************)
EXTENDS Breaker, DepStateStore, FiniteSets

CONSTANTS Clients, Reporters, MaxRetries

NoProc == "nobody"

ASSUME ClientAssumption ==
  /\ Clients \cap Reporters = {} /\ NoProc \notin Clients \cup Reporters
  /\ IsFiniteSet(Clients)
  /\ MaxRetries \in Nat

VARIABLES breaker,   \* the fields of circuitBreaker
          holder,    \* the goroutine that holds cb.mu across a step
          entry,     \* the store's DepState
          pc, left,
          pending,   \* what syncState has left to write, and where p goes next
          lost

vars == <<breaker, holder, entry, pc, left, pending, lost>>

Procs == Clients \cup Reporters
Idle  == [status |-> NoSync, circuit |-> CircuitClosed, next |-> "idle"]

TypeOK ==
  /\ breaker \in BreakerFields
  /\ holder \in Procs \cup {NoProc}
  /\ entry \in Entry
  /\ pc \in [Procs -> {"idle", "calling", "reportOk", "reportFail",
                       "tellOk", "tellFail", "status", "circuit"}]
  /\ left \in [Procs -> 0..(1 + MaxRetries)]
  /\ pending \in [Procs -> [status  : Status \cup {NoSync},
                            circuit : CircuitState,
                            next    : {"idle", "calling"}]]
  /\ lost \in BOOLEAN

\* NewCircuitBreakerWithStore has registered the dependency.
Init ==
  /\ breaker = NewCircuitBreaker
  /\ holder = NoProc
  /\ entry = Register(NoEntry)
  /\ pc = [p \in Procs |-> "idle"]
  /\ left = [p \in Procs |-> 0]
  /\ pending = [p \in Procs |-> Idle]
  /\ lost = FALSE

-----------------------------------------------------------------------------
\* A method of the breaker with effect e, after which p goes on at next.  When
\* it calls syncState it keeps cb.mu.

\* Variant: the lock is released before the store is written.
UnlockedInvoke(p, e, next) ==
  /\ breaker' = e.breaker
  /\ holder' = holder
  /\ IF e.sync = NoSync
       THEN pc' = [pc EXCEPT ![p] = next] /\ UNCHANGED pending
       ELSE /\ pc' = [pc EXCEPT ![p] = "status"]
            /\ pending' = [pending EXCEPT ![p] =
                 [status |-> e.sync, circuit |-> e.breaker.state, next |-> next]]

Invoke(p, e, next) ==
  /\ holder = NoProc
  /\ breaker' = e.breaker
  /\ IF e.sync = NoSync
       THEN /\ pc' = [pc EXCEPT ![p] = next]
            /\ UNCHANGED <<holder, pending>>
       ELSE /\ holder' = p
            /\ pc' = [pc EXCEPT ![p] = "status"]
            /\ pending' = [pending EXCEPT ![p] =
                 [status |-> e.sync, circuit |-> e.breaker.state, next |-> next]]

SyncStatus(p) ==
  /\ pc[p] = "status"
  /\ entry' = SetStatus(entry, pending[p].status)
  /\ pc' = [pc EXCEPT ![p] = "circuit"]
  /\ UNCHANGED <<breaker, holder, left, pending, lost>>

\* The second store call, and the release of cb.mu on return.
SyncCircuit(p) ==
  /\ pc[p] = "circuit"
  /\ entry' = SetCircuitState(entry, pending[p].circuit)
  /\ pc' = [pc EXCEPT ![p] = pending[p].next]
  /\ holder' = NoProc
  /\ pending' = [pending EXCEPT ![p] = Idle]
  /\ UNCHANGED <<breaker, left, lost>>

-----------------------------------------------------------------------------
\* Do.  A refused call returns CircuitOpenError and touches nothing else.
Do(c) ==
  /\ pc[c] = "idle"
  /\ Invoke(c, Allow(breaker), IF Allowed(breaker) THEN "calling" ELSE "idle")
  /\ left' = [left EXCEPT ![c] = IF Allowed(breaker) THEN 1 + MaxRetries ELSE 0]
  /\ UNCHANGED <<entry, lost>>

AttemptSucceeds(c) ==
  /\ pc[c] = "calling"
  /\ left' = [left EXCEPT ![c] = 0]
  /\ pc' = [pc EXCEPT ![c] = "reportOk"]
  /\ UNCHANGED <<breaker, holder, entry, pending, lost>>

\* Variant: a retry does not use up an attempt.
EndlessAttemptFails(c) ==
  /\ pc[c] = "calling"
  /\ \/ left[c] = 1 + MaxRetries /\ left' = [left EXCEPT ![c] = 1]
     \/ left[c] < 1 + MaxRetries /\ left' = [left EXCEPT ![c] = 1 + MaxRetries]
  /\ UNCHANGED <<breaker, holder, entry, pc, pending, lost>>

\* Variant: the last attempt is retried too.
OverdrawnAttemptFails(c) ==
  /\ pc[c] = "calling"
  /\ left' = [left EXCEPT ![c] = @ - 1]
  /\ pc' = [pc EXCEPT ![c] = IF left[c] < 1 THEN "reportFail" ELSE @]
  /\ UNCHANGED <<breaker, holder, entry, pending, lost>>

\* Another attempt follows after the backoff, or the failure is reported.
AttemptFails(c) ==
  /\ pc[c] = "calling"
  /\ left' = [left EXCEPT ![c] = @ - 1]
  /\ pc' = [pc EXCEPT ![c] = IF left[c] = 1 THEN "reportFail" ELSE @]
  /\ UNCHANGED <<breaker, holder, entry, pending, lost>>

\* A panic of the transport leaves Do with nothing reported; the caller lives on.
Panic(c) ==
  /\ pc[c] = "calling"
  /\ left' = [left EXCEPT ![c] = 0]
  /\ pc' = [pc EXCEPT ![c] = "idle"]
  /\ lost' = (lost \/ breaker.state = CircuitHalfOpen)
  /\ UNCHANGED <<breaker, holder, entry, pending>>

ReportToStore(p) ==
  /\ \/ /\ pc[p] = "reportOk"
        /\ entry' = ReportSuccess(entry)
        /\ pc' = [pc EXCEPT ![p] = "tellOk"]
     \/ /\ pc[p] = "reportFail"
        /\ entry' = ReportFailure(entry)
        /\ pc' = [pc EXCEPT ![p] = "tellFail"]
  /\ UNCHANGED <<breaker, holder, left, pending, lost>>

TellBreaker(p) ==
  /\ \/ pc[p] = "tellOk"   /\ Invoke(p, Success(breaker), "idle")
     \/ pc[p] = "tellFail" /\ Invoke(p, Failure(breaker), "idle")
  /\ UNCHANGED <<entry, left, lost>>

-----------------------------------------------------------------------------
\* DepReporter, and the calls anyone may make on the breaker.
ReporterReports(r, outcome) ==
  /\ pc[r] = "idle"
  /\ pc' = [pc EXCEPT ![r] = outcome]
  /\ UNCHANGED <<breaker, holder, entry, left, pending, lost>>

ResetBreaker(r) ==
  /\ pc[r] = "idle" /\ Invoke(r, Reset(breaker), "idle") /\ UNCHANGED <<entry, left, lost>>

PollState(r) ==
  /\ pc[r] = "idle" /\ Invoke(r, CheckState(breaker), "idle") /\ UNCHANGED <<entry, left, lost>>

Tick ==
  /\ breaker.elapsed < Timeout
  /\ breaker' = Older(breaker)
  /\ UNCHANGED <<holder, entry, pc, left, pending, lost>>

Next ==
  \/ \E c \in Clients : Do(c) \/ AttemptSucceeds(c) \/ AttemptFails(c) \/ Panic(c)
  \/ \E p \in Procs : ReportToStore(p) \/ TellBreaker(p) \/ SyncStatus(p) \/ SyncCircuit(p)
  \/ \E r \in Reporters : \/ \E o \in {"reportOk", "reportFail"} : ReporterReports(r, o)
                          \/ ResetBreaker(r) \/ PollState(r)
  \/ Tick

Spec == Init /\ [][Next]_vars

\* Goroutines run, requests return, time passes, clients keep calling; a
\* goroutine that waits for cb.mu gets it (sync.Mutex does not starve).
Fairness ==
  /\ WF_vars(Tick)
  /\ \A c \in Clients : /\ SF_vars(Do(c))
                        /\ WF_vars(AttemptSucceeds(c) \/ AttemptFails(c) \/ Panic(c))
  /\ \A p \in Procs : /\ WF_vars(ReportToStore(p)) /\ SF_vars(TellBreaker(p))
                      /\ WF_vars(SyncStatus(p) \/ SyncCircuit(p))

FairSpec == Spec /\ Fairness

-----------------------------------------------------------------------------
\* syncState runs under cb.mu: what is still to be written to the store is the
\* state the circuit is in, so the breaker's writes arrive in the order of its
\* transitions.
WritesInOrder ==
  \A p \in Procs : pc[p] \in {"status", "circuit"} =>
    holder = p /\ pending[p].circuit = breaker.state

\* The failures reported in a row have reached the store's own threshold.
Tripped(e) == e.FailureCount > 0 /\ e.FailureCount >= StoreFailureThreshold

\* The entry has two writers that do not know of each other, the reports and
\* syncState; still, when the breaker is not in the middle of a write, the
\* entry is DOWN or OPEN only if the reports have reached the store's own
\* threshold or the breaker is open.
DownHasCause ==
  /\ holder = NoProc
  /\ entry.Status = StatusDown \/ entry.CircuitState = CircuitOpen
  => Tripped(entry) \/ breaker.state = CircuitOpen

\* Every Do returns, whatever the circuit, the retries and the contention for
\* cb.mu are.
DoReturns == \A c \in Clients : pc[c] # "idle" ~> pc[c] = "idle"

NotASuccess ==
  \/ \E c \in Clients : AttemptFails(c) \/ Panic(c)
  \/ \E r \in Reporters : ReporterReports(r, "reportFail")

NotAFailure ==
  \/ \E c \in Clients : AttemptSucceeds(c) \/ Panic(c)
  \/ \E r \in Reporters : ReporterReports(r, "reportOk") \/ ResetBreaker(r)

\* If requests stop failing and no panic has cost a half-open period a slot,
\* breaker and entry both settle: the circuit closes and /status shows UP and
\* CLOSED for good, whoever wrote last before.
BothRecover ==
  []~lost /\ <>[][~NotASuccess]_vars =>
    <>[](/\ breaker.state = CircuitClosed
         /\ entry.Status = StatusUp /\ entry.CircuitState = CircuitClosed)

\* If every request fails from some time on, the entry is never UP again and keeps
\* returning to DOWN, though syncState writes DEGRADED at every half-open period.
OutageShows ==
  []~lost /\ <>[][~NotAFailure]_vars =>
    <>[](entry.Status # StatusUp) /\ []<>(entry.Status = StatusDown)

\* Only a panic wedges the circuit: with nobody in a call or a report, a half-open
\* one that has lost no slot admits the next call.  This needs a quota that covers
\* SuccessThreshold (NoWedge of CircuitBreaker, now with the way Do reports).
OnlyPanicsWedge ==
  /\ \A p \in Procs : pc[p] = "idle"
  /\ breaker.state = CircuitHalfOpen /\ ~lost
  => HalfOpenSlotFree(breaker)
=============================================================================
