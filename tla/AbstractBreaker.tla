--------------------------- MODULE AbstractBreaker ---------------------------
(***************************************************************************)
(* What interface CircuitBreaker promises to those who call it and to      *)
(* those who read its store entry, without the counters it keeps:          *)
(*                                                                         *)
(*   - a closed circuit lets every call through, an open one none, and a   *)
(*     half-open one a limited number of probes at a time;                 *)
(*   - only a failure opens the circuit, only Timeout without a failure    *)
(*     makes an open one half-open, and only a success that finds it       *)
(*     half-open, or Reset, closes it;                                     *)
(*   - the store is told of every change, the status first and then the    *)
(*     circuit, before the breaker does anything else; who reads it before *)
(*     that sees the last state of the circuit, or the new status beside   *)
(*     the old circuit.                                                    *)
(*                                                                         *)
(* How many failures and successes it takes is left open: it is what the   *)
(* counters of module CircuitBreaker decide.                               *)
(***************************************************************************)
EXTENDS HealthTypes, FiniteSets

CONSTANTS Callers, Timeout, MaxProbes

VARIABLES circuit,
          wait,     \* what is left of Timeout since the last failure
          shown,    \* the store entry
          call      \* each caller: "idle", or how its call was admitted

vars == <<circuit, wait, shown, call>>

InFlight == {"normal", "probe", "late"}
Probes   == {c \in Callers : call[c] = "probe"}

\* What the entry may say of a circuit.
StatusesOf(state) ==
  CASE state = CircuitOpen     -> {StatusDown}
    [] state = CircuitHalfOpen -> {StatusDegraded}
    [] state = CircuitClosed   -> {StatusUp, StatusDegraded}

Told == shown.Status \in StatusesOf(circuit) /\ shown.CircuitState = circuit

Init ==
  /\ circuit = CircuitClosed
  /\ wait \in 0..Timeout
  /\ shown = [Status |-> StatusUp, CircuitState |-> CircuitClosed]
  /\ call = [c \in Callers |-> "idle"]

\* The circuit goes on in state: probes of a half-open period that is over
\* have come too late.
Becomes(state, calls) ==
  /\ Told
  /\ circuit' = state
  /\ call' = [c \in Callers |->
                IF calls[c] = "probe" /\ state # CircuitHalfOpen THEN "late" ELSE calls[c]]
  /\ UNCHANGED shown

TellStatus ==
  /\ \E s \in StatusesOf(circuit) : shown' = [shown EXCEPT !.Status = s]
  /\ UNCHANGED <<circuit, wait, call>>

TellCircuit ==
  /\ shown.Status \in StatusesOf(circuit)
  /\ shown' = [shown EXCEPT !.CircuitState = circuit]
  /\ UNCHANGED <<circuit, wait, call>>

MayProbe == circuit = CircuitHalfOpen \/ (circuit = CircuitOpen /\ wait = 0)

HalfOpens(calls) == MayProbe /\ Becomes(CircuitHalfOpen, calls) /\ UNCHANGED wait

Admit(c) ==
  /\ call[c] = "idle"
  /\ \/ /\ circuit = CircuitClosed
        /\ Becomes(CircuitClosed, [call EXCEPT ![c] = "normal"])
        /\ UNCHANGED wait
     \/ /\ Cardinality(Probes) < MaxProbes
        /\ HalfOpens([call EXCEPT ![c] = "probe"])

Poll == HalfOpens(call)

Succeed(calls) ==
  /\ \/ Becomes(circuit, calls)
     \/ circuit = CircuitHalfOpen /\ Becomes(CircuitClosed, calls)
  /\ UNCHANGED wait

Fail(calls) ==
  /\ \/ Becomes(CircuitOpen, calls)
     \/ circuit = CircuitClosed /\ Becomes(CircuitClosed, calls)
  /\ wait' = Timeout

Answer(c) ==
  /\ call[c] \in InFlight
  /\ LET calls == [call EXCEPT ![c] = "idle"] IN Succeed(calls) \/ Fail(calls)

Report == Succeed(call) \/ Fail(call)

Reset == Becomes(CircuitClosed, call) /\ UNCHANGED wait

Tick == wait > 0 /\ wait' = wait - 1 /\ UNCHANGED <<circuit, shown, call>>

Next ==
  \/ \E c \in Callers : Admit(c) \/ Answer(c)
  \/ Poll \/ Report \/ Reset
  \/ TellStatus \/ TellCircuit
  \/ Tick

Spec == Init /\ [][Next]_vars

Room(c) ==
  /\ call[c] = "idle"
  /\ circuit = CircuitClosed \/ (MayProbe /\ Cardinality(Probes) < MaxProbes)

\* The store is told in the end, and a caller is not refused for ever while
\* there is room for its call.
FairSpec == Spec /\ []<>Told /\ \A c \in Callers : []<>~Room(c)
=============================================================================
