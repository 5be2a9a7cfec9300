-------------------------- MODULE AbstractSnapshots --------------------------
(***************************************************************************)
(* What interface SnapshotCache promises: Get, GetReadiness, Invalidate    *)
(* and SetTTL act as if each were one step between its call and its        *)
(* return.  A call is answered either by the snapshot held, if that is     *)
(* younger than the TTL, or by one built for it at that moment, which is   *)
(* then held for the others; no snapshot is built while there is a fresh   *)
(* one, and none outlives an Invalidate.                                   *)
(***************************************************************************)
EXTENDS Integers

CONSTANTS Callers, Kinds

VARIABLES held,      \* the epoch in which each kind's snapshot was built
          age, ttl,
          epoch,     \* the Invalidate calls so far
          waits      \* for each caller the kind it has asked for

vars == <<held, age, ttl, epoch, waits>>

None == -1

Init ==
  /\ held = [k \in Kinds |-> None]
  /\ age \in [Kinds -> Nat] /\ ttl \in Nat
  /\ epoch = 0
  /\ waits = [c \in Callers |-> "nothing"]

Fresh(k) == held[k] # None /\ age[k] < ttl

Ask(c, k) ==
  /\ waits[c] = "nothing" /\ waits' = [waits EXCEPT ![c] = k]
  /\ UNCHANGED <<held, age, ttl, epoch>>

Returns(c) == waits' = [waits EXCEPT ![c] = "nothing"]

Hit(c, k) ==
  /\ waits[c] = k /\ Fresh(k)
  /\ Returns(c)
  /\ UNCHANGED <<held, age, ttl, epoch>>

Build(c, k) ==
  /\ waits[c] = k /\ ~Fresh(k)
  /\ held' = [held EXCEPT ![k] = epoch]
  /\ age' = [age EXCEPT ![k] = 0]
  /\ Returns(c)
  /\ UNCHANGED <<ttl, epoch>>

Invalidate ==
  /\ held' = [k \in Kinds |-> None]
  /\ age' \in [Kinds -> Nat]
  /\ epoch' = epoch + 1
  /\ UNCHANGED <<ttl, waits>>

SetTTL == ttl' \in Nat /\ UNCHANGED <<held, age, epoch, waits>>

Tick ==
  /\ \A k \in Kinds : age'[k] \in {age[k], age[k] + 1}
  /\ UNCHANGED <<held, ttl, epoch, waits>>

Answer(c) == \E k \in Kinds : Hit(c, k) \/ Build(c, k)

Next ==
  \/ \E c \in Callers : Answer(c) \/ \E k \in Kinds : Ask(c, k)
  \/ Invalidate \/ SetTTL \/ Tick

Spec == Init /\ [][Next]_vars

\* Every call is answered.
FairSpec == Spec /\ \A c \in Callers : WF_vars(Answer(c))
=============================================================================
