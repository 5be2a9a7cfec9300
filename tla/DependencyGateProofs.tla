------------------------ MODULE DependencyGateProofs ------------------------
(***************************************************************************)
(* Proofs about the dependency gate, for every route over any number of    *)
(* dependencies, every number of requests and all TTLs.                    *)
(*                                                                         *)
(* The properties compare what a request was told, some of it long ago,    *)
(* with what is true when it leaves.  The inductive invariant carries the  *)
(* truth from one to the other: a cache that is still valid and was filled *)
(* after the last change of a dependency holds what that is now, or the    *)
(* DOWN of a check cut short less than a CacheTTL ago, and so does all     *)
(* that a request under way has taken from the caches for the dependencies *)
(* it is settled on.                                                       *)
(***************************************************************************)
EXTENDS DependencyGate, TLAPS

\* A valid snapshot that is younger than what d is has d as it is.
SnapInv ==
  \A d \in Deps \ PassiveDeps :
    snap.left > 0 /\ age[d] + snap.left > SnapshotTTL => snap.deps[d] = store[d]

\* Likewise the cached result of a check, unless the last that was cut short left
\* it, which was then as long ago as it has been there.
CacheInv ==
  \A d \in PassiveDeps :
    cache[d].left > 0 /\ age[d] + cache[d].left > ttl[d] =>
      \/ cache[d].status = health[d]
      \/ cache[d].status = StatusDown /\ cut[d] + cache[d].left <= ttl[d]

SettledInv ==
  \A r \in Requests : \A d \in settled[r] : age[d] >= Memory(d)

\* A request under way knows where a check was cut short lately.
Aware(r) == \A d \in PassiveDeps : cut[d] < ttl[d] => d \in spoilt[r]

SpoiltInv == \A r \in Requests : pc[r] \in {"walk", "exec"} => Aware(r)

\* Where a request is in the loop.
Placed(r) ==
  /\ pc[r] = "idle" => /\ pos[r] = 1 /\ degraded[r] = {} /\ settled[r] = {}
                      /\ ~gone[r] /\ spoilt[r] = {}
  /\ pc[r] = "exec" => pos[r] <= Len(route) /\ route[pos[r]].dep \in PassiveDeps
  /\ pc[r] = "served" /\ Attached => pos[r] = Len(route) + 1

PositionInv == \A r \in Requests : Placed(r)

\* The requirements the request has passed.
Passed(r) == 1..(pos[r] - 1)

\* What it has taken from the snapshot is true of what it is settled on.
Taken(r) == \A d \in settled[r] \ PassiveDeps : states[r][d] = store[d]

\* A status the request may be told of d.
MayTell(r, d, s) == s = Truth(d) \/ (s = StatusDown /\ Doubtful(r, d))

\* So is what it has told the handler, or it is a doubtful DOWN, and no hard
\* requirement it has passed fails.
Told(r) ==
  \A i \in Passed(r) : route[i].dep \in settled[r] =>
    /\ MayTell(r, route[i].dep, seen[r][route[i].dep])
    /\ route[i].type = "hard" => Met(i)

\* It has noted what fails a soft requirement it has passed.
Flagged(r, d) ==
  \E i \in Passed(r) : route[i].type = "soft" /\ route[i].dep = d /\ ~Met(i)

Noted(r) ==
  \A d \in settled[r] :
    /\ Flagged(r, d) => d \in degraded[r]
    /\ d \in degraded[r] => Flagged(r, d) \/ Doubtful(r, d)

WalkInv == \A r \in Requests : pc[r] # "idle" => Taken(r) /\ Told(r) /\ Noted(r)

\* It is refused by the hard requirement it has come to.
Refuses(r) ==
  /\ pos[r] <= Len(route) /\ route[pos[r]].type = "hard"
  /\ route[pos[r]].dep \in settled[r] => ~Met(pos[r]) \/ Doubtful(r, route[pos[r]].dep)

RefusedInv == \A r \in Requests : pc[r] = "refused" => Refuses(r)

IInv ==
  /\ TypeOK /\ SnapInv /\ CacheInv /\ SettledInv /\ SpoiltInv
  /\ PositionInv /\ WalkInv /\ RefusedInv

-----------------------------------------------------------------------------
\* The operators of the model.

LEMMA RouteTypes ==
  ASSUME TypeOK
  PROVE  /\ Len(route) \in Nat /\ DOMAIN route = 1..Len(route)
         /\ \A i \in DOMAIN route : route[i] \in Requirement
  BY GateAssumption DEF TypeOK

LEMMA StatusesAreStatuses == Statuses \cup {StatusDown} \subseteq Status
  BY GateAssumption DEF Status

LEMMA TruthIsAStatus ==
  ASSUME TypeOK, NEW d \in Deps PROVE Truth(d) \in Statuses \cup {StatusDown}
  BY GateAssumption DEF TypeOK, Truth

\* The comparison of the code decides what a requirement accepts.
LEMMA BelowMeansNotAcceptable ==
  ASSUME NEW q \in Requirement, NEW s \in Status
  PROVE  Below(s, q) <=> s \notin Acceptable(q)
  BY GateAssumption DEF Below, Effective, Acceptable, Requirement, Status,
     StatusUp, StatusDegraded, StatusDown, StatusUnknown

\* DOWN passes no requirement that the truth does not pass.
LEMMA DownIsWorst ==
  ASSUME NEW q \in Requirement, NEW s \in Status
  PROVE  Below(s, q) => Below(StatusDown, q)
  BY GateAssumption DEF Below, Effective, Requirement, Status,
     StatusUp, StatusDegraded, StatusDown, StatusUnknown

LEMMA MemoryIsBounded ==
  ASSUME TypeOK, NEW d \in Deps
  PROVE  MaxAge \in Nat /\ Memory(d) \in Nat /\ Memory(d) <= MaxAge
  BY GateAssumption DEF TypeOK, Memory, MaxAge

-----------------------------------------------------------------------------
\* A step may end what a request is settled on, and changes nothing of the rest.
KeptFor(r) ==
  /\ settled'[r] \subseteq settled[r]
  /\ \A d \in settled'[r] : Truth(d)' = Truth(d) /\ (Doubtful(r, d) => Doubtful(r, d)')
  /\ pc[r] = "idle" => gone'[r] = gone[r] /\ spoilt'[r] = spoilt[r]

Kept == UNCHANGED config /\ \A r \in Requests : KeptFor(r)

LEMMA MetKept ==
  ASSUME UNCHANGED config, NEW i \in DOMAIN route, Truth(route[i].dep)' = Truth(route[i].dep)
  PROVE  Met(i)' <=> Met(i)
  BY DEF config, Met, Acceptable

\* Then all the request knows of that stays true.
LEMMA RequestKept ==
  ASSUME TypeOK, UNCHANGED config, NEW r \in Requests, KeptFor(r),
         pos'[r] = pos[r], states'[r] = states[r],
         seen'[r] = seen[r], degraded'[r] = degraded[r]
  PROVE  /\ Taken(r) => Taken(r)'
         /\ Told(r) => Told(r)'
         /\ Noted(r) => Noted(r)'
         /\ Refuses(r) => Refuses(r)'
  <1>1. /\ route' = route /\ settled'[r] \subseteq settled[r] /\ settled[r] \subseteq Deps
        /\ \A d \in settled'[r] : Truth(d)' = Truth(d) /\ (Doubtful(r, d) => Doubtful(r, d)')
    BY DEF KeptFor, config, TypeOK
  <1>2. pos[r] \in 1..(Len(route) + 1) /\ Len(route) \in Nat /\ DOMAIN route = 1..Len(route)
    BY RouteTypes DEF TypeOK
  <1>3. Passed(r)' = Passed(r) /\ Passed(r) \subseteq DOMAIN route
    BY <1>2 DEF Passed
  <1>4. \A i \in DOMAIN route : route[i].dep \in settled'[r] => (Met(i)' <=> Met(i))
    BY <1>1, MetKept
  <1>5. Taken(r) => Taken(r)'
    BY <1>1 DEF Taken, Truth
  <1>6. Told(r) => Told(r)'
    BY <1>1, <1>3, <1>4 DEF Told, MayTell
  <1>7. ASSUME NEW d \in settled'[r] PROVE Flagged(r, d)' <=> Flagged(r, d)
    BY <1>1, <1>3, <1>4, <1>7 DEF Flagged
  <1>8. Noted(r) => Noted(r)'
    BY <1>1, <1>7 DEF Noted
  <1>9. Refuses(r) => Refuses(r)'
    BY <1>1, <1>2, <1>4 DEF Refuses
  <1> QED
    BY <1>5, <1>6, <1>8, <1>9

LEMMA WalksKept ==
  ASSUME IInv, Kept, UNCHANGED walks PROVE PositionInv' /\ WalkInv' /\ RefusedInv'
  <1>1. route' = route /\ UNCHANGED <<pc, pos, states, seen, degraded>>
    BY DEF Kept, config, walks
  <1>2. PositionInv'
    BY <1>1 DEF IInv, PositionInv, Placed, Attached, Kept, KeptFor
  <1> QED
    BY <1>1, <1>2, RequestKept DEF Kept, IInv, WalkInv, RefusedInv

-----------------------------------------------------------------------------
\* The world and the two caches.

\* Whoever counted on d no longer does.
LEMMA UnsettleKeeps ==
  ASSUME TypeOK, SettledInv, NEW d \in Deps, Unsettle(d)
  PROVE  /\ age' \in [Deps -> 0..MaxAge] /\ age'[d] = 0
         /\ \A e \in Deps : e # d => age'[e] = age[e]
         /\ settled' \in [Requests -> SUBSET Deps]
         /\ \A r \in Requests : settled'[r] = settled[r] \ {d}
         /\ \A r \in Requests : \A e \in settled'[r] : age'[e] >= Memory(e)
  <1>1. 0 \in 0..MaxAge
    BY MemoryIsBounded
  <1>2. /\ age' = [age EXCEPT ![d] = 0]
        /\ settled' = [r \in Requests |-> settled[r] \ {d}]
    BY DEF Unsettle
  <1> QED
    BY <1>1, <1>2 DEF TypeOK, SettledInv

\* A check is cut short: the requests under way know.
LEMMA CutShortKeeps ==
  ASSUME IInv, NEW d \in PassiveDeps, CutShort(d)
  PROVE  /\ UNCHANGED <<gone, age, settled>>
         /\ cut' \in [PassiveDeps -> 0..MaxCacheTTL]
         /\ spoilt' \in [Requests -> SUBSET PassiveDeps]
         /\ \A e \in PassiveDeps : e # d => cut'[e] = cut[e]
         /\ ttl[d] > 0 => cut'[d] = 0
         /\ \A r \in Requests :
              /\ spoilt[r] \subseteq spoilt'[r]
              /\ pc[r] = "idle" => spoilt'[r] = spoilt[r]
              /\ pc[r] \in {"walk", "exec"} =>
                   \A e \in PassiveDeps : cut'[e] < ttl[e] => e \in spoilt'[r]
  <1>1. /\ UNCHANGED <<gone, age, settled>> /\ 0 \in 0..MaxCacheTTL
        /\ cut \in [PassiveDeps -> 0..MaxCacheTTL] /\ cut[d] \in 0..MaxCacheTTL
        /\ spoilt \in [Requests -> SUBSET PassiveDeps]
        /\ \A r \in Requests : pc[r] \in {"walk", "exec"} => Aware(r)
    BY GateAssumption DEF CutShort, IInv, TypeOK, SpoiltInv
  <1>2. CASE ttl[d] > 0
    <2>1. /\ cut' = [cut EXCEPT ![d] = 0]
          /\ spoilt' = [r \in Requests |->
                          IF pc[r] \in {"walk", "exec"} THEN spoilt[r] \cup {d} ELSE spoilt[r]]
      BY <1>2 DEF CutShort
    <2> QED
      BY <1>1, <2>1 DEF Aware
  <1>3. CASE ~(ttl[d] > 0)
    <2>1. cut' = cut /\ spoilt' = spoilt
      BY <1>3 DEF CutShort, cuts
    <2> QED
      BY <1>1, <1>3, <2>1 DEF Aware
  <1> QED
    BY <1>2, <1>3

\* A check has run, and its result is the truth or it was cut short.
LEMMA ExecutedKeeps ==
  ASSUME IInv, NEW d \in PassiveDeps, NEW s \in Statuses \cup {StatusDown}, Executed(d, s),
         \/ s = health[d] /\ UNCHANGED <<gone, age, settled, cuts>>
         \/ s = StatusDown /\ CutShort(d)
  PROVE  /\ UNCHANGED <<config, health, snap, gone, age, settled>>
         /\ store' \in [Deps -> Statuses \cup {StatusDown}]
         /\ cache' \in [PassiveDeps -> [status : Statuses \cup {StatusDown}, left : 0..MaxCacheTTL]]
         /\ \A e \in PassiveDeps : cache'[e].left <= ttl'[e]
         /\ cut' \in [PassiveDeps -> 0..MaxCacheTTL]
         /\ spoilt' \in [Requests -> SUBSET PassiveDeps]
         /\ SnapInv' /\ CacheInv' /\ SettledInv' /\ Kept
         /\ \A r \in Requests : pc[r] \in {"walk", "exec"} => Aware(r)'
  <1> USE DEF IInv
  <1>1. /\ UNCHANGED <<config, health, snap, gone, age, settled>>
        /\ route' = route /\ ttl' = ttl
        /\ store' = [store EXCEPT ![d] = s] /\ d \in Deps
        /\ cache' = IF ttl[d] > 0
                    THEN [cache EXCEPT ![d] = [status |-> s, left |-> ttl[d]]]
                    ELSE cache
    BY GateAssumption DEF Executed, config, CutShort
  <1>2. /\ cut' \in [PassiveDeps -> 0..MaxCacheTTL]
        /\ spoilt' \in [Requests -> SUBSET PassiveDeps]
        /\ \A e \in PassiveDeps : e # d => cut'[e] = cut[e]
        /\ s = health[d] \/ (s = StatusDown /\ (ttl[d] > 0 => cut'[d] = 0))
        /\ \A r \in Requests :
             /\ spoilt[r] \subseteq spoilt'[r]
             /\ pc[r] = "idle" => spoilt'[r] = spoilt[r]
             /\ pc[r] \in {"walk", "exec"} =>
                  \A e \in PassiveDeps : cut'[e] < ttl[e] => e \in spoilt'[r]
    <2>1. CASE s = health[d] /\ UNCHANGED cuts
      BY <2>1 DEF cuts, TypeOK, SpoiltInv, Aware
    <2>2. CASE s = StatusDown /\ CutShort(d)
      BY <2>2, CutShortKeeps
    <2> QED
      BY <2>1, <2>2
  <1>3. store' \in [Deps -> Statuses \cup {StatusDown}]
    BY <1>1 DEF TypeOK
  <1>4. /\ cache' \in [PassiveDeps -> [status : Statuses \cup {StatusDown}, left : 0..MaxCacheTTL]]
        /\ \A e \in PassiveDeps : cache'[e].left <= ttl'[e]
    BY <1>1 DEF TypeOK
  <1>5. SnapInv'
    BY <1>1 DEF TypeOK, SnapInv
  <1>6. ASSUME NEW e \in PassiveDeps,
               cache'[e].left > 0, age'[e] + cache'[e].left > ttl'[e]
        PROVE  \/ cache'[e].status = health'[e]
               \/ cache'[e].status = StatusDown /\ cut'[e] + cache'[e].left <= ttl'[e]
    <2>1. /\ e \in Deps /\ ttl[e] \in Nat /\ cache[e].left <= ttl[e] /\ cache[e].left \in Nat
      BY GateAssumption DEF TypeOK
    <2>2. CASE e # d
      BY <1>1, <1>2, <1>6, <2>1, <2>2 DEF TypeOK, CacheInv
    <2>3. CASE e = d /\ ttl[d] > 0
      <3>1. cache'[d] = [status |-> s, left |-> ttl[d]]
        BY <1>1, <2>3 DEF TypeOK
      <3> QED
        BY <1>1, <1>2, <1>6, <2>1, <2>3, <3>1
    <2>4. CASE e = d /\ ~(ttl[d] > 0)
      BY <1>1, <1>6, <2>1, <2>4
    <2> QED
      BY <2>2, <2>3, <2>4
  <1>7. CacheInv'
    BY <1>6 DEF CacheInv
  <1>8. SettledInv'
    BY <1>1 DEF SettledInv, Memory
  <1>9. Kept
    BY <1>1, <1>2 DEF Kept, KeptFor, config, Truth, TypeOK, Doubtful
  <1>10. \A r \in Requests : pc[r] \in {"walk", "exec"} => Aware(r)'
    BY <1>1, <1>2 DEF Aware
  <1> QED
    BY <1>1, <1>2, <1>3, <1>4, <1>5, <1>7, <1>8, <1>9, <1>10

\* A snapshot is taken, or the one that is still valid is left.
LEMMA SnapshotTaken ==
  ASSUME IInv, snap' = SnapshotGet, UNCHANGED <<store, age>>
  PROVE  /\ snap' \in [deps : [Deps -> Statuses \cup {StatusDown}], left : 0..SnapshotTTL]
         /\ SnapInv'
         /\ \A d \in Deps \ PassiveDeps : age[d] >= SnapshotTTL => SnapshotGet.deps[d] = store[d]
  <1>1. SnapshotTTL \in Nat /\ age \in [Deps -> Nat] /\ snap.left \in Nat
    BY GateAssumption, MemoryIsBounded DEF IInv, TypeOK
  <1>2. CASE snap.left > 0
    BY <1>1, <1>2 DEF IInv, TypeOK, SnapInv, SnapshotGet
  <1>3. CASE ~(snap.left > 0)
    <2>1. snap' = [deps |-> store, left |-> SnapshotTTL]
      BY <1>3 DEF SnapshotGet
    <2> QED
      BY <1>1, <2>1 DEF IInv, TypeOK, SnapInv
  <1> QED
    BY <1>2, <1>3

LEMMA OtherSnapshotInductive ==
  ASSUME IInv, OtherSnapshot PROVE IInv'
  <1>1. /\ UNCHANGED <<route, ttl, store, health, cache, gone, age, settled, cut, spoilt>>
        /\ UNCHANGED config /\ UNCHANGED walks /\ snap' = SnapshotGet
    BY DEF OtherSnapshot, config, world, cuts
  <1>2. TypeOK' /\ SnapInv'
    BY <1>1, SnapshotTaken DEF IInv, TypeOK, walks
  <1>3. CacheInv' /\ SettledInv' /\ SpoiltInv' /\ Kept
    BY <1>1
    DEF IInv, CacheInv, SettledInv, SpoiltInv, Aware, Memory, Kept, KeptFor, Truth, Doubtful, walks
  <1> QED
    BY <1>1, <1>2, <1>3, WalksKept DEF IInv

LEMMA OtherCheckInductive ==
  ASSUME IInv, NEW d \in PassiveDeps, OtherCheck(d) \/ OtherCut(d) PROVE IInv'
  <1>1. PICK s \in Statuses \cup {StatusDown} :
          /\ Executed(d, s)
          /\ \/ s = health[d] /\ UNCHANGED <<gone, age, settled, cuts>>
             \/ s = StatusDown /\ CutShort(d)
    BY DEF IInv, TypeOK, OtherCheck, OtherCut, CutShort
  <1>2. UNCHANGED walks
    BY DEF OtherCheck, OtherCut
  <1>3. TypeOK'
    BY <1>1, <1>2, ExecutedKeeps DEF IInv, TypeOK, walks, config
  <1>4. SpoiltInv'
    BY <1>1, <1>2, ExecutedKeeps DEF SpoiltInv, walks
  <1> QED
    BY <1>1, <1>2, <1>3, <1>4, ExecutedKeeps, WalksKept DEF IInv

\* What changes is no longer settled, and no cache is young enough to count.
LEMMA ChangeInductive ==
  ASSUME IInv, NEW d \in Deps, NEW s \in Statuses,
         StoreChanges(d, s) \/ (d \in PassiveDeps /\ HealthChanges(d, s))
  PROVE  IInv'
  <1>1. /\ Unsettle(d) /\ UNCHANGED <<route, ttl, snap, cache, gone, cut, spoilt>>
        /\ UNCHANGED config /\ UNCHANGED walks
        /\ \/ /\ d \notin PassiveDeps /\ health' = health
              /\ store' = [store EXCEPT ![d] = s]
           \/ /\ d \in PassiveDeps /\ store' = store
              /\ health' = [health EXCEPT ![d] = s]
    BY DEF StoreChanges, HealthChanges, config, caches, cuts
  <1>2. /\ age' \in [Deps -> 0..MaxAge] /\ age'[d] = 0
        /\ \A e \in Deps : e # d => age'[e] = age[e]
        /\ settled' \in [Requests -> SUBSET Deps]
        /\ \A r \in Requests : settled'[r] = settled[r] \ {d}
        /\ \A r \in Requests : \A e \in settled'[r] : age'[e] >= Memory(e)
    BY <1>1, UnsettleKeeps DEF IInv
  <1>3. TypeOK'
    <2>1. store' \in [Deps -> Statuses \cup {StatusDown}]
      BY <1>1 DEF IInv, TypeOK
    <2>2. health' \in [PassiveDeps -> Statuses]
      BY <1>1 DEF IInv, TypeOK
    <2> QED
      BY <1>1, <1>2, <2>1, <2>2 DEF IInv, TypeOK, walks
  <1>4. ASSUME NEW e \in Deps \ PassiveDeps, snap.left > 0, age'[e] + snap.left > SnapshotTTL
        PROVE  snap.deps[e] = store'[e]
    <2>1. e # d
      BY <1>2, <1>4, GateAssumption DEF IInv, TypeOK
    <2>2. age'[e] = age[e] /\ store'[e] = store[e]
      BY <1>1, <1>2, <2>1 DEF IInv, TypeOK
    <2> QED
      BY <1>4, <2>2 DEF IInv, SnapInv
  <1>5. ASSUME NEW e \in PassiveDeps, cache[e].left > 0, age'[e] + cache[e].left > ttl[e]
        PROVE  \/ cache[e].status = health'[e]
               \/ cache[e].status = StatusDown /\ cut[e] + cache[e].left <= ttl[e]
    <2>1. /\ e \in Deps /\ ttl[e] \in Nat
          /\ cache[e].left \in Nat /\ cache[e].left <= ttl[e]
      BY GateAssumption DEF IInv, TypeOK
    <2>2. e # d
      BY <1>2, <1>5, <2>1
    <2>3. age'[e] = age[e] /\ health'[e] = health[e]
      BY <1>1, <1>2, <2>1, <2>2 DEF IInv, TypeOK
    <2> QED
      BY <1>5, <2>3 DEF IInv, CacheInv
  <1>6. SettledInv' /\ SpoiltInv'
    BY <1>1, <1>2 DEF IInv, SettledInv, SpoiltInv, Aware, Memory, walks
  <1>7. Kept
    BY <1>1, <1>2 DEF Kept, KeptFor, Truth, Doubtful, IInv, TypeOK
  <1>8. SnapInv' /\ CacheInv'
    BY <1>1, <1>4, <1>5 DEF SnapInv, CacheInv
  <1> QED
    BY <1>1, <1>3, <1>6, <1>7, <1>8, WalksKept DEF IInv

\* A cache loses of its time what a dependency gains.
LEMMA TickInductive ==
  ASSUME IInv, Tick PROVE IInv'
  <1>1. /\ UNCHANGED <<route, ttl, store, health, gone, settled, spoilt>>
        /\ cut' = [d \in PassiveDeps |-> IF cut[d] < MaxCacheTTL THEN cut[d] + 1 ELSE cut[d]]
        /\ UNCHANGED config /\ UNCHANGED walks
        /\ snap' = IF snap.left > 0 THEN [snap EXCEPT !.left = @ - 1] ELSE snap
        /\ cache' = [d \in PassiveDeps |->
                       IF cache[d].left > 0 THEN [cache[d] EXCEPT !.left = @ - 1]
                                            ELSE cache[d]]
        /\ age' = [d \in Deps |-> IF age[d] < MaxAge THEN age[d] + 1 ELSE age[d]]
    BY DEF Tick, config, world
  <1>2. /\ snap' \in [deps : [Deps -> Statuses \cup {StatusDown}], left : 0..SnapshotTTL]
        /\ snap'.deps = snap.deps
        /\ snap'.left > 0 => snap.left = snap'.left + 1
    <2>1. /\ snap \in [deps : [Deps -> Statuses \cup {StatusDown}], left : 0..SnapshotTTL]
          /\ SnapshotTTL \in Nat
      BY GateAssumption DEF IInv, TypeOK
    <2> HIDE DEF IInv
    <2> QED
      BY <1>1, <2>1
  <1>3. ASSUME NEW d \in PassiveDeps
        PROVE  /\ cache'[d] \in [status : Statuses \cup {StatusDown}, left : 0..MaxCacheTTL]
               /\ cache'[d].status = cache[d].status
               /\ cache'[d].left <= ttl[d]
               /\ cache'[d].left > 0 => cache[d].left = cache'[d].left + 1
    <2>1. /\ cache[d] \in [status : Statuses \cup {StatusDown}, left : 0..MaxCacheTTL]
          /\ MaxCacheTTL \in Nat /\ ttl[d] \in Nat /\ cache[d].left <= ttl[d]
      BY GateAssumption DEF IInv, TypeOK
    <2> QED
      BY <1>1, <2>1
  <1>4. ASSUME NEW d \in Deps
        PROVE  /\ age'[d] \in 0..MaxAge /\ age'[d] >= age[d]
               /\ age'[d] <= age[d] + 1 /\ (age'[d] = age[d] => age[d] = MaxAge)
               /\ Memory(d) \in Nat /\ Memory(d) <= MaxAge /\ age[d] \in Nat
    BY <1>1, MemoryIsBounded DEF IInv, TypeOK
  <1>5. ASSUME NEW d \in PassiveDeps
        PROVE  /\ cut'[d] \in 0..MaxCacheTTL /\ cut[d] \in Nat /\ cut'[d] >= cut[d]
               /\ cut'[d] <= cut[d] + 1
               /\ ttl[d] \in Nat /\ ttl[d] <= MaxCacheTTL /\ MaxCacheTTL \in Nat
    BY <1>1, GateAssumption DEF IInv, TypeOK
  <1>6. TypeOK'
    <2>1. age' \in [Deps -> 0..MaxAge] /\ cut' \in [PassiveDeps -> 0..MaxCacheTTL]
      BY <1>1, <1>4, <1>5
    <2>2. cache' \in [PassiveDeps -> [status : Statuses \cup {StatusDown}, left : 0..MaxCacheTTL]]
      BY <1>1, <1>3
    <2> QED
      BY <1>1, <1>2, <1>3, <2>1, <2>2 DEF IInv, TypeOK, walks
  <1>7. SnapInv'
    <2>1. SnapshotTTL \in Nat /\ snap'.left \in Nat
      BY <1>2, GateAssumption
    <2>2. \A d \in Deps \ PassiveDeps : Memory(d) = SnapshotTTL
      BY DEF Memory
    <2> QED
      BY <1>1, <1>2, <1>4, <2>1, <2>2 DEF IInv, SnapInv
  <1>8. CacheInv'
    <2>1. \A d \in PassiveDeps :
            d \in Deps /\ Memory(d) = ttl[d] /\ cache'[d].left \in Nat
      BY <1>3, GateAssumption DEF Memory
    <2> QED
      BY <1>1, <1>3, <1>4, <1>5, <2>1 DEF IInv, CacheInv
  <1>9. SettledInv' /\ Kept
    BY <1>1, <1>4 DEF IInv, TypeOK, SettledInv, Memory, Kept, KeptFor, Truth, Doubtful
  <1>10. SpoiltInv'
    BY <1>1, <1>5 DEF IInv, SpoiltInv, Aware, walks
  <1> QED
    BY <1>1, <1>6, <1>7, <1>8, <1>9, <1>10, WalksKept DEF IInv

-----------------------------------------------------------------------------
\* The steps of a request.

\* They concern no other request.
LEMMA OtherRequests ==
  ASSUME IInv, UNCHANGED config, NEW r \in Requests,
         \A p \in Requests : p # r =>
           /\ KeptFor(p) /\ pc'[p] = pc[p] /\ pos'[p] = pos[p] /\ states'[p] = states[p]
           /\ seen'[p] = seen[p] /\ degraded'[p] = degraded[p],
         Placed(r)',
         pc'[r] # "idle" => Taken(r)' /\ Told(r)' /\ Noted(r)',
         pc'[r] = "refused" => Refuses(r)'
  PROVE  PositionInv' /\ WalkInv' /\ RefusedInv'
  <1>1. ASSUME NEW p \in Requests, p # r
        PROVE  /\ Placed(p)'
               /\ pc'[p] # "idle" => Taken(p)' /\ Told(p)' /\ Noted(p)'
               /\ pc'[p] = "refused" => Refuses(p)'
    <2>1. Placed(p)'
      BY <1>1 DEF IInv, PositionInv, Placed, Attached, KeptFor, config
    <2> QED
      BY <1>1, <2>1, RequestKept DEF IInv, WalkInv, RefusedInv
  <1> QED
    BY <1>1 DEF PositionInv, WalkInv, RefusedInv

\* The decision on a requirement, on a status the request may be told of the
\* dependency if it is settled on it.
LEMMA Decided ==
  ASSUME IInv, Kept, NEW r \in Requests, pc[r] \in {"walk", "exec"},
         NEW i \in DOMAIN route, i = pos[r],
         NEW s \in Statuses \cup {StatusDown}, Decide(r, route[i], s),
         route[i].dep \in settled'[r] => MayTell(r, route[i].dep, s)'
  PROVE  /\ pc' \in [Requests -> {"idle", "walk", "exec", "served", "refused"}]
         /\ pos' \in [Requests -> 1..Len(route') + 1]
         /\ states' = states
         /\ seen' \in [Requests -> [Deps -> Statuses \cup {StatusDown}]]
         /\ degraded' \in [Requests -> SUBSET Deps]
         /\ PositionInv' /\ WalkInv' /\ RefusedInv'
  <1> DEFINE q == route[i]
             d == route[i].dep
             Passes == ~(Below(s, q) /\ q.type = "hard")
  <1>1. /\ Len(route) \in Nat /\ DOMAIN route = 1..Len(route)
        /\ q \in Requirement /\ d \in Deps /\ q.type \in {"hard", "soft"}
        /\ route' = route /\ UNCHANGED config /\ \A p \in Requests : KeptFor(p)
    BY RouteTypes DEF IInv, Kept, config, Requirement
  <1>2. /\ states' = states
        /\ seen' = [seen EXCEPT ![r][d] = s]
        /\ pc' = [pc EXCEPT ![r] = IF Passes THEN "walk" ELSE "refused"]
        /\ pos' = IF Passes THEN [pos EXCEPT ![r] = @ + 1] ELSE pos
        /\ degraded' = IF Passes /\ Below(s, q)
                       THEN [degraded EXCEPT ![r] = @ \cup {d}] ELSE degraded
    BY DEF Decide
  <1>3. /\ pos'[r] = IF Passes THEN i + 1 ELSE i
        /\ degraded'[r] = degraded[r] \cup (IF Passes /\ Below(s, q) THEN {d} ELSE {})
        /\ \A e \in Deps : seen'[r][e] = IF e = d THEN s ELSE seen[r][e]
    BY <1>1, <1>2 DEF IInv, TypeOK
  <1>4. /\ pc' \in [Requests -> {"idle", "walk", "exec", "served", "refused"}]
        /\ pos' \in [Requests -> 1..Len(route') + 1]
    BY <1>1, <1>2 DEF IInv, TypeOK
  <1>5. /\ seen' \in [Requests -> [Deps -> Statuses \cup {StatusDown}]]
        /\ degraded' \in [Requests -> SUBSET Deps]
    BY <1>1, <1>2 DEF IInv, TypeOK
  <1>6. /\ Taken(r) /\ Told(r) /\ Noted(r)
        /\ settled'[r] \subseteq settled[r] /\ settled[r] \subseteq Deps
        /\ \A e \in settled'[r] : Truth(e)' = Truth(e) /\ (Doubtful(r, e) => Doubtful(r, e)')
        /\ Passed(r) = 1..(i - 1)
    BY <1>1 DEF IInv, TypeOK, WalkInv, KeptFor, Passed
  <1>7. \A j \in DOMAIN route : route[j].dep \in settled'[r] => (Met(j)' <=> Met(j))
    BY <1>1, <1>6, MetKept
  <1>8. d \in settled'[r] =>
          /\ ~Met(i)' => Below(s, q)
          /\ Below(s, q) => ~Met(i)' \/ Doubtful(r, d)'
    <2> SUFFICES ASSUME d \in settled'[r]
                 PROVE  /\ ~Met(i)' => Below(s, q)
                        /\ Below(s, q) => ~Met(i)' \/ Doubtful(r, d)'
      OBVIOUS
    <2>1. s \in Status /\ Truth(d) \in Status
      BY <1>1, StatusesAreStatuses, TruthIsAStatus DEF IInv
    <2>2. Below(Truth(d), q) <=> ~Met(i)'
      <3>1. Below(Truth(d), q) <=> Truth(d) \notin Acceptable(q)
        BY <1>1, <2>1, BelowMeansNotAcceptable
      <3> QED
        BY <1>1, <1>7, <3>1 DEF Met
    <2>3. s = Truth(d) \/ (s = StatusDown /\ Doubtful(r, d)')
      BY <1>1, <1>6 DEF MayTell
    <2>4. Below(Truth(d), q) => Below(StatusDown, q)
      BY <1>1, <2>1, DownIsWorst
    <2> QED
      BY <2>2, <2>3, <2>4
  <1>9. Passed(r)' = Passed(r) \cup (IF Passes THEN {i} ELSE {}) /\ Passed(r)' \subseteq DOMAIN route
    BY <1>1, <1>3, <1>6 DEF Passed
  <1>10. Taken(r)'
    BY <1>2, <1>6 DEF Taken, Truth
  <1>11. Told(r)'
    <2> SUFFICES ASSUME NEW j \in Passed(r)', route[j].dep \in settled'[r]
                 PROVE  /\ MayTell(r, route[j].dep, seen[r][route[j].dep])'
                        /\ route[j].type = "hard" => Met(j)'
      BY <1>1 DEF Told
    <2>1. MayTell(r, route[j].dep, seen[r][route[j].dep])'
      <3>1. CASE route[j].dep = d
        <4>1. MayTell(r, d, s)'
          BY <3>1
        <4>2. seen'[r][route[j].dep] = s
          BY <1>1, <1>3, <3>1
        <4> QED
          BY <1>1, <3>1, <4>1, <4>2 DEF MayTell
      <3>2. CASE route[j].dep # d
        <4>1. j \in Passed(r) /\ j \in DOMAIN route /\ route[j].dep \in settled[r]
          BY <1>6, <1>9, <3>2
        <4>2. seen'[r][route[j].dep] = seen[r][route[j].dep]
          BY <1>3, <1>6, <3>2, <4>1
        <4>3. MayTell(r, route[j].dep, seen[r][route[j].dep])
          BY <1>6, <4>1 DEF Told
        <4> QED
          BY <1>1, <1>6, <4>2, <4>3 DEF MayTell
      <3> QED
        BY <3>1, <3>2
    <2>2. route[j].type = "hard" => Met(j)'
      <3>1. CASE j = i /\ Passes
        BY <1>8, <3>1
      <3>2. CASE j \in Passed(r)
        <4>1. j \in DOMAIN route /\ route[j].dep \in settled[r]
          BY <1>6, <1>9, <3>2
        <4>2. route[j].type = "hard" => Met(j)
          BY <1>6, <3>2, <4>1 DEF Told
        <4> QED
          BY <1>7, <4>1, <4>2
      <3> QED
        BY <1>9, <3>1, <3>2
    <2> QED
      BY <2>1, <2>2
  <1>12. Noted(r)'
    <2> SUFFICES ASSUME NEW e \in settled'[r]
                 PROVE  /\ Flagged(r, e)' => e \in degraded'[r]
                        /\ e \in degraded'[r] => Flagged(r, e)' \/ Doubtful(r, e)'
      BY DEF Noted
    <2>1. Flagged(r, e)' <=>
            \/ Flagged(r, e)
            \/ Passes /\ q.type = "soft" /\ d = e /\ ~Met(i)'
      BY <1>1, <1>6, <1>7, <1>9 DEF Flagged
    <2>2. /\ Flagged(r, e) => e \in degraded[r]
          /\ e \in degraded[r] => Flagged(r, e) \/ Doubtful(r, e)'
      BY <1>6 DEF Noted
    <2>3. e \in degraded'[r] <=> e \in degraded[r] \/ (Passes /\ Below(s, q) /\ d = e)
      BY <1>3
    <2>4. Passes /\ Below(s, q) => q.type = "soft"
      BY <1>1
    <2>5. CASE d = e
      <3>1. /\ ~Met(i)' => Below(s, q)
            /\ Below(s, q) => ~Met(i)' \/ Doubtful(r, e)'
        BY <1>1, <1>8, <2>5 DEF Doubtful
      <3> HIDE DEF q, Passes
      <3> QED
        BY <2>1, <2>2, <2>3, <2>4, <2>5, <3>1
    <2>6. CASE d # e
      BY <2>1, <2>2, <2>3, <2>6
    <2> QED
      BY <2>5, <2>6
  <1>13. pc'[r] = "refused" => Refuses(r)'
    BY <1>1, <1>2, <1>3, <1>8 DEF Refuses, IInv, TypeOK
  <1>14. Placed(r)'
    BY <1>2 DEF Placed, IInv, TypeOK
  <1>15. \A p \in Requests : p # r =>
           /\ pc'[p] = pc[p] /\ pos'[p] = pos[p] /\ states'[p] = states[p]
           /\ seen'[p] = seen[p] /\ degraded'[p] = degraded[p]
    BY <1>2 DEF IInv, TypeOK
  <1>16. PositionInv' /\ WalkInv' /\ RefusedInv'
    <2> HIDE DEF q, d, Passes
    <2> QED
      BY <1>1, <1>10, <1>11, <1>12, <1>13, <1>14, <1>15, OtherRequests
  <1> QED
    BY <1>2, <1>4, <1>5, <1>16

\* A status taken from a cache is the truth of what the request is settled on, or
\* the DOWN of a check cut short less than a CacheTTL ago.
LEMMA VisitInductive ==
  ASSUME IInv, NEW r \in Requests, NEW i \in DOMAIN route,
         VisitState(r, route[i]) \/ VisitCached(r, route[i])
  PROVE  IInv'
  <1>1. PICK j \in DOMAIN route : j = pos[r] /\ route[j] = route[i]
    BY RouteTypes DEF IInv, TypeOK, VisitState, VisitCached, Visiting
  <1>2. /\ UNCHANGED <<route, ttl, store, health, snap, cache, gone, age, settled, cut, spoilt>>
        /\ UNCHANGED config /\ pc[r] = "walk" /\ route[j].dep \in Deps
    BY <1>1, RouteTypes
    DEF IInv, Requirement, VisitState, VisitCached, config, world, caches, cuts
  <1>3. PICK s \in Statuses \cup {StatusDown} :
          /\ Decide(r, route[j], s)
          /\ route[j].dep \in settled[r] => MayTell(r, route[j].dep, s)
    <2>1. CASE VisitState(r, route[i])
      <3>1. states[r][route[j].dep] \in Statuses \cup {StatusDown} /\ route[j].dep \notin PassiveDeps
        BY <1>1, <1>2, <2>1 DEF IInv, TypeOK, VisitState, ShouldExecutePassiveCheck
      <3>2. route[j].dep \in settled[r] => states[r][route[j].dep] = Truth(route[j].dep)
        BY <1>2, <3>1 DEF IInv, WalkInv, Taken, Truth
      <3> QED
        BY <1>1, <2>1, <3>1, <3>2 DEF VisitState, MayTell
    <2>2. CASE VisitCached(r, route[i])
      <3>1. /\ route[j].dep \in PassiveDeps /\ cache[route[j].dep].left > 0
            /\ cache[route[j].dep].status \in Statuses \cup {StatusDown}
        BY <1>1, <2>2 DEF IInv, TypeOK, VisitCached, ShouldExecutePassiveCheck
      <3>2. ASSUME route[j].dep \in settled[r]
            PROVE  MayTell(r, route[j].dep, cache[route[j].dep].status)
        <4>1. age[route[j].dep] >= ttl[route[j].dep]
          BY <3>1, <3>2 DEF IInv, SettledInv, Memory
        <4>2. /\ age[route[j].dep] \in Int /\ ttl[route[j].dep] \in Int
              /\ cache[route[j].dep].left \in Int /\ cut[route[j].dep] \in Int
          BY <1>2, <3>1, MemoryIsBounded, GateAssumption DEF IInv, TypeOK
        <4>3. \/ cache[route[j].dep].status = health[route[j].dep]
              \/ /\ cache[route[j].dep].status = StatusDown
                 /\ cut[route[j].dep] < ttl[route[j].dep]
          BY <3>1, <4>1, <4>2 DEF IInv, CacheInv
        <4>4. cut[route[j].dep] < ttl[route[j].dep] => route[j].dep \in spoilt[r]
          BY <1>2, <3>1 DEF IInv, SpoiltInv, Aware
        <4> QED
          BY <3>1, <4>3, <4>4 DEF MayTell, Truth, Doubtful
      <3> QED
        BY <1>1, <2>2, <3>1, <3>2 DEF VisitCached
    <2> QED
      BY <2>1, <2>2
  <1>4. Kept /\ (route[j].dep \in settled'[r] => MayTell(r, route[j].dep, s)')
    BY <1>2, <1>3 DEF Kept, KeptFor, Truth, Doubtful, MayTell
  <1>5. /\ pc' \in [Requests -> {"idle", "walk", "exec", "served", "refused"}]
        /\ pos' \in [Requests -> 1..Len(route') + 1]
        /\ states' = states
        /\ seen' \in [Requests -> [Deps -> Statuses \cup {StatusDown}]]
        /\ degraded' \in [Requests -> SUBSET Deps]
        /\ PositionInv' /\ WalkInv' /\ RefusedInv'
    BY <1>1, <1>2, <1>3, <1>4, Decided
  <1>6. TypeOK'
    BY <1>2, <1>5 DEF IInv, TypeOK
  <1>7. SnapInv' /\ CacheInv' /\ SettledInv'
    BY <1>2 DEF IInv, SnapInv, CacheInv, SettledInv, Memory
  <1>8. SpoiltInv'
    <2>1. \A p \in Requests : Aware(p)' <=> Aware(p)
      BY <1>2 DEF Aware
    <2>2. \A p \in Requests : pc'[p] \in {"walk", "exec"} => pc[p] \in {"walk", "exec"}
      BY <1>2, <1>3 DEF IInv, TypeOK, Decide
    <2> QED
      BY <2>1, <2>2 DEF IInv, SpoiltInv
  <1> QED
    BY <1>5, <1>6, <1>7, <1>8 DEF IInv

\* The check answers what is true, or it is cut short and its own request knows.
LEMMA CheckedInductive ==
  ASSUME IInv, NEW r \in Requests, NEW i \in DOMAIN route,
         FinishCheck(r, route[i]) \/ CutCheck(r, route[i])
  PROVE  IInv'
  <1>1. PICK j \in DOMAIN route : j = pos[r] /\ route[j] = route[i]
    BY RouteTypes DEF IInv, TypeOK, FinishCheck, CutCheck, Visiting
  <1>2. PICK d \in PassiveDeps : d = route[j].dep
    BY <1>1 DEF FinishCheck, CutCheck, IInv, PositionInv, Placed
  <1>3. PICK s \in Statuses \cup {StatusDown} :
          /\ pc[r] = "exec" /\ Executed(d, s) /\ Decide(r, route[j], s)
          /\ \/ s = health[d] /\ UNCHANGED <<gone, age, settled, cuts>>
             \/ s = StatusDown /\ CutShort(d) /\ gone[r]
    <2>1. health[d] \in Statuses
      BY DEF IInv, TypeOK
    <2> QED
      BY <1>1, <1>2, <2>1 DEF FinishCheck, CutCheck, CutShort
  <1>4. /\ UNCHANGED <<config, health, snap, gone, age, settled>>
        /\ store' \in [Deps -> Statuses \cup {StatusDown}]
        /\ cache' \in [PassiveDeps -> [status : Statuses \cup {StatusDown}, left : 0..MaxCacheTTL]]
        /\ \A e \in PassiveDeps : cache'[e].left <= ttl'[e]
        /\ cut' \in [PassiveDeps -> 0..MaxCacheTTL]
        /\ spoilt' \in [Requests -> SUBSET PassiveDeps]
        /\ SnapInv' /\ CacheInv' /\ SettledInv' /\ Kept
        /\ \A p \in Requests : pc[p] \in {"walk", "exec"} => Aware(p)'
    BY <1>3, ExecutedKeeps
  <1>5. MayTell(r, d, s)'
    BY <1>3, <1>4 DEF MayTell, Truth, Doubtful
  <1>6. /\ pc' \in [Requests -> {"idle", "walk", "exec", "served", "refused"}]
        /\ pos' \in [Requests -> 1..Len(route') + 1]
        /\ states' = states
        /\ seen' \in [Requests -> [Deps -> Statuses \cup {StatusDown}]]
        /\ degraded' \in [Requests -> SUBSET Deps]
        /\ PositionInv' /\ WalkInv' /\ RefusedInv'
    <2>1. MayTell(r, route[j].dep, s)'
      BY <1>2, <1>4, <1>5 DEF config
    <2> QED
      BY <1>1, <1>3, <1>4, <2>1, Decided
  <1>7. TypeOK'
    BY <1>4, <1>6 DEF IInv, TypeOK, config
  <1>8. SpoiltInv'
    <2>1. \A p \in Requests : pc'[p] \in {"walk", "exec"} => pc[p] \in {"walk", "exec"}
      BY <1>3 DEF IInv, TypeOK, Decide
    <2> QED
      BY <1>4, <2>1 DEF SpoiltInv
  <1> QED
    BY <1>4, <1>6, <1>7, <1>8 DEF IInv

\* A step of the loop that decides nothing.
LEMMA MoveInductive ==
  ASSUME IInv, NEW r \in Requests,
         \/ ArriveUngated(r) \/ Serve(r)
         \/ \E i \in DOMAIN route : StartCheck(r, route[i])
  PROVE  IInv'
  <1>1. /\ UNCHANGED <<route, ttl, store, health, snap, cache, gone, age, settled, cut, spoilt>>
        /\ UNCHANGED config /\ UNCHANGED <<pos, states, seen, degraded>>
        /\ Kept
    BY DEF ArriveUngated, Serve, StartCheck, config, world, caches, cuts, Kept, KeptFor,
       Truth, Doubtful
  <1>2. PICK next \in {"exec", "served"} : pc' = [pc EXCEPT ![r] = next]
    BY DEF ArriveUngated, Serve, StartCheck
  <1>3. TypeOK'
    BY <1>1, <1>2 DEF IInv, TypeOK
  <1>4. SnapInv' /\ CacheInv' /\ SettledInv'
    BY <1>1 DEF IInv, SnapInv, CacheInv, SettledInv, Memory
  <1>5. SpoiltInv'
    <2>1. \A p \in Requests : Aware(p)' <=> Aware(p)
      BY <1>1 DEF Aware
    <2>2. \A p \in Requests : pc'[p] \in {"walk", "exec"} => pc[p] \in {"walk", "exec"}
      BY <1>2 DEF IInv, TypeOK, ArriveUngated, Serve, StartCheck
    <2> QED
      BY <2>1, <2>2 DEF IInv, SpoiltInv
  <1>6. Placed(r)'
    <2>1. CASE ArriveUngated(r)
      BY <1>1, <2>1 DEF ArriveUngated, Placed, Attached, IInv, TypeOK
    <2>2. CASE Serve(r)
      BY <1>1, <2>2, RouteTypes DEF Serve, Placed, IInv, TypeOK
    <2>3. ASSUME NEW i \in DOMAIN route, StartCheck(r, route[i]) PROVE Placed(r)'
      BY <1>1, <2>3 DEF StartCheck, Visiting, ShouldExecutePassiveCheck, Placed, IInv, TypeOK
    <2> QED
      BY <2>1, <2>2, <2>3
  <1>7. Taken(r)' /\ Told(r)' /\ Noted(r)'
    <2>1. CASE ArriveUngated(r)
      <3>1. settled'[r] = {} /\ pos'[r] = 1
        BY <1>1, <2>1 DEF ArriveUngated, IInv, PositionInv, Placed
      <3> QED
        BY <3>1 DEF Taken, Told, Noted, Passed
    <2>2. CASE pc[r] # "idle"
      BY <1>1, <2>2, RequestKept DEF IInv, WalkInv, Kept
    <2> QED
      BY <2>1, <2>2 DEF Serve, StartCheck
  <1>8. pc'[r] # "refused"
    BY <1>2 DEF IInv, TypeOK
  <1>9. PositionInv' /\ WalkInv' /\ RefusedInv'
    BY <1>1, <1>2, <1>6, <1>7, <1>8, OtherRequests DEF Kept, IInv, TypeOK
  <1> QED
    BY <1>3, <1>4, <1>5, <1>9 DEF IInv

\* A client that goes away makes what its request is told of passive checks doubtful.
LEMMA CancelInductive ==
  ASSUME IInv, NEW r \in Requests, Cancel(r) PROVE IInv'
  <1>1. /\ UNCHANGED <<route, ttl, store, health, snap, cache, age, settled, cut, spoilt>>
        /\ UNCHANGED config /\ UNCHANGED walks
        /\ pc[r] # "idle" /\ gone' = [gone EXCEPT ![r] = TRUE]
    BY DEF Cancel, config, world, caches, cuts
  <1>2. /\ gone' \in [Requests -> BOOLEAN]
        /\ \A p \in Requests : (gone[p] => gone'[p]) /\ (p # r => gone'[p] = gone[p])
    BY <1>1 DEF IInv, TypeOK
  <1>3. TypeOK'
    BY <1>1, <1>2 DEF IInv, TypeOK, walks
  <1>4. SnapInv' /\ CacheInv' /\ SettledInv' /\ SpoiltInv'
    BY <1>1 DEF IInv, SnapInv, CacheInv, SettledInv, SpoiltInv, Aware, Memory, walks
  <1>5. Kept
    BY <1>1, <1>2 DEF Kept, KeptFor, Truth, Doubtful
  <1> QED
    BY <1>1, <1>3, <1>4, <1>5, WalksKept DEF IInv

\* A request that arrives is settled on what no valid cache has wrong.
LEMMA ArriveInductive ==
  ASSUME IInv, NEW r \in Requests, Arrive(r) PROVE IInv'
  <1>1. /\ pc[r] = "idle" /\ snap' = SnapshotGet
        /\ states' = [states EXCEPT ![r] = SnapshotGet.deps]
        /\ pc' = [pc EXCEPT ![r] = "walk"]
        /\ settled' = [settled EXCEPT ![r] = {d \in Deps : age[d] >= Memory(d)}]
        /\ spoilt' = [spoilt EXCEPT ![r] = {d \in PassiveDeps : cut[d] < ttl[d]}]
        /\ UNCHANGED <<route, ttl, store, health, cache, pos, seen, degraded, gone, age, cut>>
        /\ UNCHANGED config
    BY DEF Arrive, config, world
  <1>2. /\ snap' \in [deps : [Deps -> Statuses \cup {StatusDown}], left : 0..SnapshotTTL]
        /\ SnapInv'
        /\ \A d \in Deps \ PassiveDeps : age[d] >= SnapshotTTL => SnapshotGet.deps[d] = store[d]
    BY <1>1, SnapshotTaken
  <1>3. settled'[r] = {d \in Deps : age[d] >= Memory(d)} /\ states'[r] = SnapshotGet.deps
    BY <1>1 DEF IInv, TypeOK
  <1>4. TypeOK'
    <2>1. SnapshotGet.deps \in [Deps -> Statuses \cup {StatusDown}]
      BY <1>1, <1>2
    <2>2. states' \in [Requests -> [Deps -> Statuses \cup {StatusDown}]]
      BY <1>1, <2>1 DEF IInv, TypeOK
    <2>3. settled' \in [Requests -> SUBSET Deps] /\ spoilt' \in [Requests -> SUBSET PassiveDeps]
      BY <1>1 DEF IInv, TypeOK
    <2> QED
      BY <1>1, <1>2, <2>2, <2>3 DEF IInv, TypeOK
  <1>5. CacheInv'
    BY <1>1 DEF IInv, CacheInv
  <1>6. SettledInv'
    BY <1>1, <1>3 DEF IInv, TypeOK, SettledInv, Memory
  <1>7. pos'[r] = 1 /\ degraded'[r] = {} /\ pc'[r] = "walk"
    BY <1>1 DEF IInv, TypeOK, PositionInv, Placed
  <1>8. Placed(r)'
    BY <1>7 DEF Placed
  <1>9. Taken(r)'
    BY <1>1, <1>2, <1>3 DEF Taken, Memory
  <1>10. Told(r)' /\ Noted(r)'
    <2>1. Passed(r)' = {}
      BY <1>7 DEF Passed
    <2> QED
      BY <1>7, <2>1 DEF Told, Noted, Flagged
  <1>11. \A p \in Requests : p # r =>
           /\ KeptFor(p) /\ pc'[p] = pc[p] /\ pos'[p] = pos[p] /\ states'[p] = states[p]
           /\ seen'[p] = seen[p] /\ degraded'[p] = degraded[p]
    BY <1>1 DEF IInv, TypeOK, KeptFor, Truth, Doubtful
  <1>12. SpoiltInv'
    BY <1>1 DEF IInv, TypeOK, SpoiltInv, Aware
  <1>13. PositionInv' /\ WalkInv' /\ RefusedInv'
    BY <1>1, <1>7, <1>8, <1>9, <1>10, <1>11, OtherRequests
  <1> QED
    BY <1>2, <1>4, <1>5, <1>6, <1>12, <1>13 DEF IInv

LEMMA LeaveInductive ==
  ASSUME IInv, NEW r \in Requests, Leave(r) PROVE IInv'
  <1>1. /\ pc' = [pc EXCEPT ![r] = "idle"]
        /\ pos' = [pos EXCEPT ![r] = 1]
        /\ states' = [states EXCEPT ![r] = Unknown]
        /\ seen' = [seen EXCEPT ![r] = Unknown]
        /\ degraded' = [degraded EXCEPT ![r] = {}]
        /\ gone' = [gone EXCEPT ![r] = FALSE]
        /\ settled' = [settled EXCEPT ![r] = {}]
        /\ spoilt' = [spoilt EXCEPT ![r] = {}]
        /\ UNCHANGED <<route, ttl, store, health, snap, cache, age, cut>>
        /\ UNCHANGED config
    BY DEF Leave, config, world, caches
  <1>2. TypeOK'
    <2>1. Unknown \in [Deps -> Statuses \cup {StatusDown}]
      BY GateAssumption DEF Unknown
    <2>2. 1 \in 1..(Len(route) + 1)
      BY RouteTypes DEF IInv
    <2>3. pos' \in [Requests -> 1..Len(route') + 1]
      BY <1>1, <2>2 DEF IInv, TypeOK
    <2> QED
      BY <1>1, <2>1, <2>3 DEF IInv, TypeOK
  <1>3. SnapInv' /\ CacheInv'
    BY <1>1 DEF IInv, SnapInv, CacheInv
  <1>4. SettledInv'
    BY <1>1 DEF IInv, TypeOK, SettledInv, Memory
  <1>5. Placed(r)' /\ pc'[r] = "idle"
    BY <1>1 DEF IInv, TypeOK, Placed
  <1>6. SpoiltInv'
    BY <1>1 DEF IInv, TypeOK, SpoiltInv, Aware
  <1>7. \A p \in Requests : p # r =>
           /\ KeptFor(p) /\ pc'[p] = pc[p] /\ pos'[p] = pos[p] /\ states'[p] = states[p]
           /\ seen'[p] = seen[p] /\ degraded'[p] = degraded[p]
    BY <1>1 DEF IInv, TypeOK, KeptFor, Truth, Doubtful
  <1>8. PositionInv' /\ WalkInv' /\ RefusedInv'
    BY <1>1, <1>5, <1>7, OtherRequests
  <1> QED
    BY <1>2, <1>3, <1>4, <1>6, <1>8 DEF IInv

-----------------------------------------------------------------------------
LEMMA InitIInv == Init => IInv
  <1> SUFFICES ASSUME Init PROVE IInv
    OBVIOUS
  <1>1. Unknown \in [Deps -> Statuses \cup {StatusDown}]
    BY GateAssumption DEF Unknown
  <1>2. SnapshotTTL \in Nat /\ MaxCacheTTL \in Nat /\ MaxAge \in Nat
        /\ ttl \in [PassiveDeps -> Nat]
    BY GateAssumption DEF Init, MaxAge
  <1>3. Len(route) \in Nat
    BY GateAssumption DEF Init
  <1>4. TypeOK
    BY <1>1, <1>2, <1>3, GateAssumption DEF Init, TypeOK
  <1>5. SnapInv /\ CacheInv /\ SettledInv /\ SpoiltInv
    BY DEF Init, SnapInv, CacheInv, SettledInv, SpoiltInv
  <1>6. PositionInv /\ WalkInv /\ RefusedInv
    BY DEF Init, PositionInv, Placed, WalkInv, RefusedInv
  <1> QED
    BY <1>4, <1>5, <1>6 DEF IInv

LEMMA NextInductive == IInv /\ [Next]_vars => IInv'
  <1> SUFFICES ASSUME IInv, [Next]_vars PROVE IInv'
    OBVIOUS
  <1>1. CASE UNCHANGED vars
    <2>1. /\ TypeOK' /\ SnapInv' /\ CacheInv' /\ SettledInv' /\ SpoiltInv'
          /\ Kept /\ UNCHANGED walks
      BY <1>1
      DEF vars, config, world, caches, walks, cuts, IInv, TypeOK, SnapInv, CacheInv,
          SettledInv, SpoiltInv, Aware, Memory, Kept, KeptFor, Truth, Doubtful
    <2> QED
      BY <2>1, WalksKept DEF IInv
  <1>2. ASSUME NEW d \in Deps, NEW s \in Statuses, StoreChanges(d, s) PROVE IInv'
    BY <1>2, ChangeInductive
  <1>3. ASSUME NEW d \in PassiveDeps, NEW s \in Statuses, HealthChanges(d, s) PROVE IInv'
    BY <1>3, ChangeInductive, GateAssumption
  <1> QED
    BY <1>1, <1>2, <1>3, ArriveInductive, MoveInductive, CancelInductive, LeaveInductive, VisitInductive,
       CheckedInductive, OtherSnapshotInductive, OtherCheckInductive, TickInductive
    DEF Next

-----------------------------------------------------------------------------
\* What the gate remembers, and where its requests are, keeps its type.
THEOREM TypeCorrect == Spec => []TypeOK
  <1>1. IInv => TypeOK
    BY DEF IInv
  <1> QED
    BY InitIInv, NextInductive, <1>1, PTL DEF Spec

\* A request that is served has passed all requirements of the route.
LEMMA ServedPassedAll ==
  ASSUME IInv, NEW r \in Requests, pc[r] = "served", Attached
  PROVE  /\ Told(r) /\ Noted(r) /\ Passed(r) = DOMAIN route
  BY RouteTypes DEF IInv, WalkInv, PositionInv, Placed, Passed

\* No request is served in an outage that all the caches have had time to see.
THEOREM OutageRefuses == Spec => []NoServeInOutage
  <1>1. IInv => NoServeInOutage
    BY ServedPassedAll DEF NoServeInOutage, Wants, Told
  <1> QED
    BY InitIInv, NextInductive, <1>1, PTL DEF Spec

\* Nor is one refused while all has been well for that long, unless it needs a
\* passive check that a client's going away cut short less than a CacheTTL ago.
THEOREM HealthServes == Spec => []NoRefusalInHealth
  <1>1. ASSUME IInv, NEW r \in Requests, pc[r] = "refused"
        PROVE  \E i \in Wants("hard") :
                 route[i].dep \notin settled[r] \/ ~Met(i) \/ Doubtful(r, route[i].dep)
    <2>1. Refuses(r) /\ pos[r] \in DOMAIN route
      BY <1>1, RouteTypes DEF IInv, TypeOK, RefusedInv, Refuses
    <2>2. PICK i \in DOMAIN route : i = pos[r]
      BY <2>1
    <2> QED
      BY <2>1, <2>2 DEF Refuses, Wants
  <1>2. IInv => NoRefusalInHealth
    BY <1>1 DEF NoRefusalInHealth
  <1> QED
    BY InitIInv, NextInductive, <1>2, PTL DEF Spec

\* And the handler is told what is true, but for such a DOWN, and finds all that
\* is degraded, for routes with any requirements.
THEOREM TruthIsTold == Spec => []HandlerIsTold
  <1> DEFINE Needed(d) == \E i \in Wants("soft") : route[i].dep = d /\ ~Met(i)
  <1>1. ASSUME IInv, NEW r \in Requests, pc[r] = "served", Attached, NEW d \in settled[r]
        PROVE  /\ (\E i \in DOMAIN route : route[i].dep = d) =>
                    \/ GetDepState(r, d) = Truth(d)
                    \/ GetDepState(r, d) = StatusDown /\ Doubtful(r, d)
               /\ Needed(d) => IsDegraded(r, d)
               /\ IsDegraded(r, d) => Needed(d) \/ Doubtful(r, d)
    <2>1. /\ Passed(r) = DOMAIN route
          /\ \A i \in DOMAIN route : route[i].dep = d => MayTell(r, d, seen[r][d])
          /\ Flagged(r, d) => d \in degraded[r]
          /\ d \in degraded[r] => Flagged(r, d) \/ Doubtful(r, d)
      BY <1>1, ServedPassedAll DEF Told, Noted
    <2>2. Needed(d) <=> Flagged(r, d)
      BY <2>1 DEF Flagged, Wants
    <2> QED
      BY <2>1, <2>2 DEF GetDepState, IsDegraded, MayTell
  <1>2. IInv => HandlerIsTold
    BY <1>1 DEF HandlerIsTold
  <1> QED
    BY InitIInv, NextInductive, <1>2, PTL DEF Spec
=============================================================================
