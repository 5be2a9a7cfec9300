--------------------------- MODULE DependencyGate ---------------------------
(***************************************************************************)
(* The dependency gate of one route, the requests that walk through it,    *)
(* and what they decide on: the cached snapshot of the store for a         *)
(* dependency that is polled or only reported, the check cache for one     *)
(* whose check is passive or on-demand.                                    *)
(*                                                                         *)
(* A request takes the snapshot once, then visits the route's requirements *)
(* in order; the store, the checks and the time move on between any two    *)
(* of its steps:                                                           *)
(*                                                                         *)
(*   "idle" -> "walk" <-> "exec"  -> "served" or "refused" -> "idle"       *)
(*                                                                         *)
(* A dependency the store has no entry for is UNKNOWN here: the gate makes *)
(* such a state for it.  Requests of other routes appear by what they do   *)
(* to the two caches, which is all they share with these.  A build of the  *)
(* snapshot and an execution of a check with its caching and reporting are *)
(* one step each; SnapshotCache and CheckCache have their interleavings.   *)
(*                                                                         *)
(* A passive dependency is what its check answers when it is left to; one  *)
(* that outlives its timeout has answered DOWN.  The check runs under the  *)
(* context of the request that needs it, though, and when that client goes *)
(* away Execute returns DOWN of a dependency that has not changed.         *)
(*                                                                         *)
(* age, settled, cut and spoilt are history: for how many ticks a          *)
(* dependency has been what it is, and, for each request, the dependencies *)
(* that were that way longer than any cache of the gate remembers when it  *)
(* arrived and still are; how long ago a client's going away last cut the  *)
(* check of a dependency short, and, for each request, the dependencies    *)
(* where that was less than a CacheTTL before it arrived, or since.        *)
(***************************************************************************)
EXTENDS HealthTypes, Sequences

CONSTANTS Deps, Requests,
          PassiveDeps,      \* whose registered check is passive or on-demand
          Routes,           \* the requirement lists a route may declare
          Statuses,         \* what reports and checks may say
          TreatUnknownAs,   \* Config.TreatUnknownAs
          SnapshotTTL,      \* Config.SnapshotTTL
          MaxCacheTTL       \* bound: of CacheTTL

Requirement == [dep : Deps, type : {"hard", "soft"}, min : Status]

ASSUME GateAssumption ==
  /\ PassiveDeps \subseteq Deps
  /\ Routes \subseteq Seq(Requirement)
  /\ Statuses \subseteq Status /\ StatusUnknown \in Statuses
  /\ TreatUnknownAs \in Status \ {StatusUnknown}
  /\ SnapshotTTL \in Nat /\ MaxCacheTTL \in Nat

NewHardRequirement(d) == [dep |-> d, type |-> "hard", min |-> StatusUp]
NewSoftRequirement(d) == [dep |-> d, type |-> "soft", min |-> StatusDegraded]
WithMinStatus(q, s)   == [q EXCEPT !.min = s]

VARIABLES route,
          ttl,          \* CacheTTL of each passive check, 0 if on-demand
          store,        \* the status in each entry of the store
          health,       \* what each passive check would answer now
          snap,         \* the cached snapshot and the time it is still valid
          cache,        \* the cached check results, likewise
          pc, pos,      \* where each request is in the gate's loop
          states,       \* snap.Dependencies as the request took it
          seen,         \* dsc.Dependencies
          degraded,     \* dsc.DegradedDeps
          gone,         \* whether its context is done
          age, settled, cut, spoilt

config == <<route, ttl>>
world  == <<store, health>>
caches == <<snap, cache>>
walks  == <<pc, pos, states, seen, degraded>>
cuts   == <<cut, spoilt>>
vars   == <<config, world, caches, walks, gone, age, settled, cuts>>

MaxAge == IF SnapshotTTL > MaxCacheTTL THEN SnapshotTTL ELSE MaxCacheTTL

TypeOK ==
  /\ route \in Routes
  /\ ttl \in [PassiveDeps -> 0..MaxCacheTTL]
  /\ store \in [Deps -> Statuses \cup {StatusDown}]
  /\ health \in [PassiveDeps -> Statuses]
  /\ snap \in [deps : [Deps -> Statuses \cup {StatusDown}], left : 0..SnapshotTTL]
  /\ cache \in [PassiveDeps -> [status : Statuses \cup {StatusDown},
                                left : 0..MaxCacheTTL]]
  /\ \A d \in PassiveDeps : cache[d].left <= ttl[d]
  /\ pc \in [Requests -> {"idle", "walk", "exec", "served", "refused"}]
  /\ pos \in [Requests -> 1..Len(route) + 1]
  /\ states \in [Requests -> [Deps -> Statuses \cup {StatusDown}]]
  /\ seen \in [Requests -> [Deps -> Statuses \cup {StatusDown}]]
  /\ degraded \in [Requests -> SUBSET Deps]
  /\ gone \in [Requests -> BOOLEAN]
  /\ age \in [Deps -> 0..MaxAge]
  /\ settled \in [Requests -> SUBSET Deps]
  /\ cut \in [PassiveDeps -> 0..MaxCacheTTL]
  /\ spoilt \in [Requests -> SUBSET PassiveDeps]

Unknown == [d \in Deps |-> StatusUnknown]

Init ==
  /\ route \in Routes
  /\ ttl \in [PassiveDeps -> 0..MaxCacheTTL]
  /\ store \in [Deps -> Statuses]
  /\ health \in [PassiveDeps -> Statuses]
  /\ snap = [deps |-> Unknown, left |-> 0]
  /\ cache = [d \in PassiveDeps |-> [status |-> StatusUnknown, left |-> 0]]
  /\ pc = [r \in Requests |-> "idle"]
  /\ pos = [r \in Requests |-> 1]
  /\ states = [r \in Requests |-> Unknown]
  /\ seen = [r \in Requests |-> Unknown]
  /\ degraded = [r \in Requests |-> {}]
  /\ age = [d \in Deps |-> MaxAge]
  /\ settled = [r \in Requests |-> {}]
  /\ gone = [r \in Requests |-> FALSE]
  /\ cut = [d \in PassiveDeps |-> MaxCacheTTL]
  /\ spoilt = [r \in Requests |-> {}]

-----------------------------------------------------------------------------
\* Variant: UNKNOWN is compared by its ordinal, after DOWN.
OrdinalEffective(status) == status

\* Variant: TreatUnknownAs is not looked at.
FailOpenEffective(status) == IF status = StatusUnknown THEN StatusUp ELSE status

Effective(status) == IF status = StatusUnknown THEN TreatUnknownAs ELSE status

\* effective > dep.MinStatus
Below(status, q) == Effective(status) > q.min

\* What the dependency is, as opposed to what the gate remembers of it.
Truth(d) == IF d \in PassiveDeps THEN health[d] ELSE store[d]

\* How long the gate may go on with an old answer.
Memory(d) == IF d \in PassiveDeps THEN ttl[d] ELSE SnapshotTTL

\* Something about d changed: nobody can count on what it was.
Unsettle(d) ==
  /\ age' = [age EXCEPT ![d] = 0]
  /\ settled' = [r \in Requests |-> settled[r] \ {d}]

-----------------------------------------------------------------------------
\* Variant: a snapshot is kept one tick too long.
LongSnapshotGet ==
  IF snap.left > 0 THEN snap ELSE [deps |-> store, left |-> SnapshotTTL + 1]

\* SnapshotCache.Get: a valid snapshot as it is, else a new one.
SnapshotGet ==
  IF snap.left > 0 THEN snap ELSE [deps |-> store, left |-> SnapshotTTL]

\* A route without dependencies has no gate attached.
Attached == route # <<>>

Arrive(r) ==
  /\ pc[r] = "idle" /\ Attached
  /\ snap' = SnapshotGet
  /\ states' = [states EXCEPT ![r] = SnapshotGet.deps]
  /\ pc' = [pc EXCEPT ![r] = "walk"]
  /\ settled' = [settled EXCEPT ![r] = {d \in Deps : age[d] >= Memory(d)}]
  /\ spoilt' = [spoilt EXCEPT ![r] = {d \in PassiveDeps : cut[d] < ttl[d]}]
  /\ UNCHANGED <<config, world, cache, pos, seen, degraded, gone, age, cut>>

ArriveUngated(r) ==
  /\ pc[r] = "idle" /\ ~Attached
  /\ pc' = [pc EXCEPT ![r] = "served"]
  /\ UNCHANGED <<config, world, caches, pos, states, seen, degraded, gone, age, settled, cuts>>

\* The requirement the request has come to.
Visiting(r, q) == pos[r] <= Len(route) /\ q = route[pos[r]]

\* The loop's body once the state of the dependency is known.
Decide(r, q, status) ==
  /\ seen' = [seen EXCEPT ![r][q.dep] = status]
  /\ IF Below(status, q) /\ q.type = "hard"
     THEN /\ pc' = [pc EXCEPT ![r] = "refused"]
          /\ UNCHANGED <<pos, degraded>>
     ELSE /\ pc' = [pc EXCEPT ![r] = "walk"]
          /\ pos' = [pos EXCEPT ![r] = @ + 1]
          /\ degraded' = IF Below(status, q)
                         THEN [degraded EXCEPT ![r] = @ \cup {q.dep}]
                         ELSE degraded
  /\ UNCHANGED states

\* Variant: a check is only run for a dependency the snapshot does not know.
ShyShouldExecute(r, d) == states[r][d] = StatusUnknown /\ d \in PassiveDeps

ShouldExecutePassiveCheck(r, d) == d \in PassiveDeps

VisitState(r, q) ==
  /\ pc[r] = "walk" /\ Visiting(r, q)
  /\ ~ShouldExecutePassiveCheck(r, q.dep)
  /\ Decide(r, q, states[r][q.dep])
  /\ UNCHANGED <<config, world, caches, gone, age, settled, cuts>>

VisitCached(r, q) ==
  /\ pc[r] = "walk" /\ Visiting(r, q)
  /\ ShouldExecutePassiveCheck(r, q.dep) /\ cache[q.dep].left > 0
  /\ Decide(r, q, cache[q.dep].status)
  /\ UNCHANGED <<config, world, caches, gone, age, settled, cuts>>

StartCheck(r, q) ==
  /\ pc[r] = "walk" /\ Visiting(r, q)
  /\ ShouldExecutePassiveCheck(r, q.dep) /\ cache[q.dep].left = 0
  /\ pc' = [pc EXCEPT ![r] = "exec"]
  /\ UNCHANGED <<config, world, caches, pos, states, seen, degraded, gone, age, settled, cuts>>

\* Execute has a result for d; it is cached and reported.
Executed(d, status) ==
  /\ cache' = IF ttl[d] > 0
              THEN [cache EXCEPT ![d] = [status |-> status, left |-> ttl[d]]]
              ELSE cache
  /\ store' = [store EXCEPT ![d] = status]
  /\ UNCHANGED <<config, health, snap>>

\* It is the DOWN of a check that was cut short.
CutShort(d) ==
  /\ Executed(d, StatusDown)
  /\ IF ttl[d] > 0
     THEN /\ cut' = [cut EXCEPT ![d] = 0]
          /\ spoilt' = [r \in Requests |->
                          IF pc[r] \in {"walk", "exec"} THEN spoilt[r] \cup {d} ELSE spoilt[r]]
     ELSE UNCHANGED cuts
  /\ UNCHANGED <<gone, age, settled>>

FinishCheck(r, q) ==
  /\ pc[r] = "exec" /\ Visiting(r, q)
  /\ Executed(q.dep, health[q.dep])
  /\ Decide(r, q, health[q.dep])
  /\ UNCHANGED <<gone, age, settled, cuts>>

\* The request's context is done before the check answers.
CutCheck(r, q) ==
  /\ pc[r] = "exec" /\ Visiting(r, q) /\ gone[r]
  /\ CutShort(q.dep)
  /\ Decide(r, q, StatusDown)

\* The client goes away; the gate itself does not look.
Cancel(r) ==
  /\ pc[r] \in {"walk", "exec"} /\ ~gone[r]
  /\ gone' = [gone EXCEPT ![r] = TRUE]
  /\ UNCHANGED <<config, world, caches, walks, age, settled, cuts>>

Serve(r) ==
  /\ pc[r] = "walk" /\ pos[r] > Len(route)
  /\ pc' = [pc EXCEPT ![r] = "served"]
  /\ UNCHANGED <<config, world, caches, pos, states, seen, degraded, gone, age, settled, cuts>>

\* What the handler finds in the request's context.
IsDegraded(r, d)  == d \in degraded[r]
GetDepState(r, d) == seen[r][d]

Leave(r) ==
  /\ pc[r] \in {"served", "refused"}
  /\ pc' = [pc EXCEPT ![r] = "idle"]
  /\ pos' = [pos EXCEPT ![r] = 1]
  /\ states' = [states EXCEPT ![r] = Unknown]
  /\ seen' = [seen EXCEPT ![r] = Unknown]
  /\ degraded' = [degraded EXCEPT ![r] = {}]
  /\ gone' = [gone EXCEPT ![r] = FALSE]
  /\ settled' = [settled EXCEPT ![r] = {}]
  /\ spoilt' = [spoilt EXCEPT ![r] = {}]
  /\ UNCHANGED <<config, world, caches, age, cut>>

-----------------------------------------------------------------------------
\* Requests of other routes, /ready and /status use the same two caches.
OtherSnapshot ==
  /\ snap' = SnapshotGet
  /\ UNCHANGED <<config, world, cache, walks, gone, age, settled, cuts>>

OtherCheck(d) ==
  /\ Executed(d, health[d])
  /\ UNCHANGED <<walks, gone, age, settled, cuts>>

OtherCut(d) == CutShort(d) /\ UNCHANGED walks

\* A report, a poll or a removal changes the entry of a dependency.
StoreChanges(d, s) ==
  /\ d \notin PassiveDeps /\ store[d] # s
  /\ store' = [store EXCEPT ![d] = s]
  /\ Unsettle(d)
  /\ UNCHANGED <<config, health, caches, walks, gone, cuts>>

HealthChanges(d, s) ==
  /\ health[d] # s
  /\ health' = [health EXCEPT ![d] = s]
  /\ Unsettle(d)
  /\ UNCHANGED <<config, store, caches, walks, gone, cuts>>

Tick ==
  /\ snap' = IF snap.left > 0 THEN [snap EXCEPT !.left = @ - 1] ELSE snap
  /\ cache' = [d \in PassiveDeps |->
                 IF cache[d].left > 0 THEN [cache[d] EXCEPT !.left = @ - 1]
                                      ELSE cache[d]]
  /\ age' = [d \in Deps |-> IF age[d] < MaxAge THEN age[d] + 1 ELSE age[d]]
  /\ cut' = [d \in PassiveDeps |-> IF cut[d] < MaxCacheTTL THEN cut[d] + 1 ELSE cut[d]]
  /\ UNCHANGED <<config, world, walks, gone, settled, spoilt>>

Next ==
  \/ \E r \in Requests :
       Arrive(r) \/ ArriveUngated(r) \/ Serve(r) \/ Leave(r) \/ Cancel(r)
  \/ \E r \in Requests : \E i \in DOMAIN route :
       \/ VisitState(r, route[i]) \/ VisitCached(r, route[i])
       \/ StartCheck(r, route[i]) \/ FinishCheck(r, route[i])
       \/ CutCheck(r, route[i])
  \/ OtherSnapshot
  \/ \E d \in PassiveDeps : OtherCheck(d) \/ OtherCut(d)
  \/ \E d \in Deps, s \in Statuses : StoreChanges(d, s)
  \/ \E d \in PassiveDeps, s \in Statuses : HealthChanges(d, s)
  \/ Tick

Spec == Init /\ [][Next]_vars

-----------------------------------------------------------------------------
\* The statuses a requirement accepts.
Acceptable(q) ==
  {s \in Status \ {StatusUnknown} : s <= q.min}
    \cup (IF TreatUnknownAs <= q.min THEN {StatusUnknown} ELSE {})

Met(i) == Truth(route[i].dep) \in Acceptable(route[i])

Wants(type) == {i \in DOMAIN route : route[i].type = type}

\* While a hard dependency is, and for longer than the gate remembers has
\* been, below what the route asks for, no request is served: whatever the
\* snapshot and the check cache hold, whoever goes away, and however the world
\* moves while the request visits the other dependencies (dependencyGate,
\* lines 117-200).
NoServeInOutage ==
  \A r \in Requests : (pc[r] = "served" /\ Attached) =>
    \A i \in Wants("hard") :
      route[i].dep \in settled[r] => Met(i)

\* The request may be told that d is DOWN although it is not: its own client has
\* gone, or another one went while d was checked for it, less than the CacheTTL
\* of d before this request arrived or since.
Doubtful(r, d) == d \in PassiveDeps /\ (gone[r] \/ d \in spoilt[r])

\* While every hard dependency is, and has been for that long, good enough, no
\* request is refused, but for what clients that go away do: they leave a DOWN
\* in the check cache (check_cache.go, lines 79-90) that refuses the requests of
\* others for one CacheTTL and no longer, and never one that needs no passive
\* check.  A dependency nothing is known of counts as TreatUnknownAs says and
\* not by the place of UNKNOWN in the enumeration (lines 161-170).
NoRefusalInHealth ==
  \A r \in Requests : pc[r] = "refused" =>
    \E i \in Wants("hard") :
      \/ route[i].dep \notin settled[r]
      \/ ~Met(i)
      \/ Doubtful(r, route[i].dep)

\* A handler that is served is told of every dependency that is what it has been
\* either the truth or, where clients have gone away as above, DOWN.  It finds
\* every dependency that is below what a soft requirement of the route asks for
\* among the degraded ones, so no fallback it needs is missed, and without such
\* a client no other (lines 153-198).  A route may have several requirements of
\* one dependency.
HandlerIsTold ==
  \A r \in Requests : (pc[r] = "served" /\ Attached) => \A d \in settled[r] :
    LET needed == \E i \in Wants("soft") : route[i].dep = d /\ ~Met(i)
    IN  /\ (\E i \in DOMAIN route : route[i].dep = d) =>
             \/ GetDepState(r, d) = Truth(d)
             \/ GetDepState(r, d) = StatusDown /\ Doubtful(r, d)
        /\ needed => IsDegraded(r, d)
        /\ IsDegraded(r, d) => needed \/ Doubtful(r, d)
=============================================================================
