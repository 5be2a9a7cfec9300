------------------------ MODULE SnapshotCacheProofs ------------------------
(***************************************************************************)
(* Proofs about the snapshot cache, for every set of callers and checks    *)
(* and every choice of TTLs, among them that its two lookups and its build *)
(* of many steps implement AbstractSnapshots.                              *)
(*                                                                         *)
(* The properties speak of what a call gets; the inductive invariant says  *)
(* what the write lock protects meanwhile: that no Invalidate and no other *)
(* snapshot comes between the second look and the end of the build.        *)
(***************************************************************************)
EXTENDS SnapshotCache, TLAPS

Building == writer # NoCaller

\* The write lock is held from the second look to the end of the build.
LockInv ==
  /\ \A c \in Callers : pc[c] = "build" <=> writer = c
  /\ \A c \in Callers : writer = c =>
       /\ ~Fresh(kind[c])
       /\ DOMAIN build \subseteq ChecksOf(kind[c])

\* All that is cached, or being built, began after the last Invalidate.
EpochInv ==
  /\ \A k \in Kinds : cache[k] # NoSnapshot => cache[k].epoch = epoch
  /\ Building => began = epoch
  /\ \A c \in Callers : asked[c] <= epoch

IInv ==
  /\ TypeOK /\ DOMAIN cache = Kinds
  /\ LockInv /\ EpochInv

-----------------------------------------------------------------------------
LEMMA MaxAgeIsMax == MaxAge \in TTLs /\ MaxAge \in Nat /\ \A t \in TTLs : t <= MaxAge
  <1>1. MaxAge \in TTLs /\ \A t \in TTLs : t <= MaxAge
    BY SnapshotAssumption DEF MaxAge
  <1> QED
    BY <1>1, SnapshotAssumption

LEMMA KindsAndChecks ==
  /\ "full" \in Kinds /\ "ready" \in Kinds
  /\ \A k \in Kinds : ChecksOf(k) \subseteq Checks
  BY SnapshotAssumption DEF Kinds, ChecksOf

\* A snapshot is not the absence of one.
LEMMA SnapshotExists ==
  ASSUME NEW checks, NEW e PROVE [checks |-> checks, epoch |-> e] # NoSnapshot
  <1> DEFINE s == [checks |-> checks, epoch |-> e]
  <1>1. "epoch" \in DOMAIN s /\ "epoch" \notin DOMAIN NoSnapshot
    BY DEF NoSnapshot
  <1> QED
    BY <1>1

\* The types the steps of a call rely on.
LEMMA CallTypes ==
  ASSUME TypeOK
  PROVE  /\ pc \in [Callers -> {"idle", "lookup", "miss", "build"}]
         /\ kind \in [Callers -> Kinds]
         /\ cancelled \in [Callers -> BOOLEAN]
         /\ asked \in [Callers -> 0..MaxEpoch]
         /\ epoch \in 0..MaxEpoch /\ began \in 0..MaxEpoch
         /\ MaxEpoch \in Nat
         /\ ttl \in Nat
         /\ age \in [Kinds -> 0..MaxAge]
  BY SnapshotAssumption DEF TypeOK

\* Whatever a check does, Execute has a status for it.
LEMMA AnswerType == ASSUME TypeOK PROVE \A k \in Checks : Answer(k) \in Status
  BY SnapshotAssumption DEF TypeOK, Answer, Behaviour, Status

\* A call that returns leaves nothing behind and touches no other call.
LEMMA ReturnKeeps ==
  ASSUME TypeOK, NEW c \in Callers, Return(c)
  PROVE  /\ pc' \in [Callers -> {"idle", "lookup", "miss", "build"}]
         /\ kind' \in [Callers -> Kinds]
         /\ cancelled' \in [Callers -> BOOLEAN]
         /\ asked' \in [Callers -> 0..MaxEpoch]
         /\ pc'[c] = "idle" /\ asked'[c] = 0
         /\ \A d \in Callers : d # c =>
              /\ pc'[d] = pc[d] /\ kind'[d] = kind[d]
              /\ cancelled'[d] = cancelled[d] /\ asked'[d] = asked[d]
  BY CallTypes, KindsAndChecks, SnapshotAssumption DEF Return

LEMMA InitIInv == Init => IInv
  <1> SUFFICES ASSUME Init PROVE IInv
    OBVIOUS
  <1>1. TypeOK
    <2>1. age \in [Kinds -> 0..MaxAge]
      BY MaxAgeIsMax DEF Init
    <2>2. \E S \in SUBSET Checks : build \in [S -> Status]
      <3>1. build \in [{} -> Status]
        BY DEF Init, NoBuild
      <3> QED
        BY <3>1
    <2> QED
      BY <2>1, <2>2, SnapshotAssumption, KindsAndChecks DEF Init, TypeOK
  <1>2. DOMAIN cache = Kinds
    BY DEF Init
  <1>3. LockInv
    BY SnapshotAssumption DEF Init, LockInv
  <1>4. EpochInv
    BY SnapshotAssumption DEF Init, EpochInv, Building
  <1> QED
    BY <1>1, <1>2, <1>3, <1>4 DEF IInv

-----------------------------------------------------------------------------
\* The steps of a call.

LEMMA CallInductive == ASSUME IInv, NEW c \in Callers, NEW k \in Kinds, Call(c, k) PROVE IInv'
  <1> USE DEF IInv
  <1>1. /\ pc' \in [Callers -> {"idle", "lookup", "miss", "build"}]
        /\ kind' \in [Callers -> Kinds]
        /\ cancelled' \in [Callers -> BOOLEAN]
        /\ asked' \in [Callers -> 0..MaxEpoch]
        /\ pc[c] = "idle" /\ pc'[c] = "lookup" /\ asked'[c] = epoch
        /\ \A d \in Callers : d # c =>
             /\ pc'[d] = pc[d] /\ kind'[d] = kind[d]
             /\ cancelled'[d] = cancelled[d] /\ asked'[d] = asked[d]
        /\ UNCHANGED <<cacheVars, writer, build, health, epoch, began, during>>
    BY CallTypes DEF Call
  <1>2. writer # c
    BY <1>1 DEF LockInv
  <1>3. TypeOK'
    BY <1>1 DEF TypeOK, cacheVars, Snapshot
  <1>4. LockInv'
    BY <1>1, <1>2 DEF LockInv, cacheVars, Fresh
  <1>5. EpochInv'
    BY <1>1, CallTypes DEF EpochInv, cacheVars, Building
  <1> QED
    BY <1>1, <1>3, <1>4, <1>5 DEF cacheVars

\* A look at the cache, under either lock.
LEMMA LookInductive ==
  ASSUME IInv, NEW c \in Callers, Lookup(c) \/ DoubleCheck(c) PROVE IInv'
  <1> USE DEF IInv
  <1>1. /\ pc[c] \in {"lookup", "miss"} /\ writer = NoCaller
        /\ UNCHANGED <<cacheVars, writer, build, health, epoch, began, during>>
    BY DEF Lookup, DoubleCheck
  <1>2. /\ pc' \in [Callers -> {"idle", "lookup", "miss", "build"}]
        /\ kind' \in [Callers -> Kinds]
        /\ cancelled' \in [Callers -> BOOLEAN]
        /\ asked' \in [Callers -> 0..MaxEpoch]
        /\ pc'[c] # "build" /\ asked'[c] \in {0, asked[c]}
        /\ \A d \in Callers : d # c =>
             /\ pc'[d] = pc[d] /\ kind'[d] = kind[d]
             /\ cancelled'[d] = cancelled[d] /\ asked'[d] = asked[d]
    <2>1. CASE Return(c)
      BY <2>1, ReturnKeeps
    <2>2. CASE pc' = [pc EXCEPT ![c] = "miss"] /\ UNCHANGED <<kind, cancelled, asked>>
      BY <2>2, CallTypes
    <2> QED
      BY <2>1, <2>2 DEF Lookup, DoubleCheck
  <1>3. TypeOK'
    BY <1>1, <1>2 DEF TypeOK, cacheVars, Snapshot
  <1>4. LockInv'
    BY <1>1, <1>2, SnapshotAssumption DEF LockInv
  <1>5. EpochInv'
    BY <1>1, <1>2, CallTypes DEF EpochInv, cacheVars, Building
  <1> QED
    BY <1>1, <1>3, <1>4, <1>5 DEF cacheVars

LEMMA StartBuildInductive == ASSUME IInv, NEW c \in Callers, StartBuild(c) PROVE IInv'
  <1> USE DEF IInv
  <1>1. /\ pc[c] = "miss" /\ writer = NoCaller /\ ~Fresh(kind[c])
        /\ writer' = c /\ build' = NoBuild /\ began' = epoch
        /\ during' = [k \in Checks |-> {Answer(k)}]
        /\ pc' = [pc EXCEPT ![c] = "build"]
        /\ UNCHANGED <<cache, age, ttl, kind, cancelled, health, epoch, asked>>
    BY DEF StartBuild, cacheVars
  <1>2. build' \in [{} -> Status] /\ DOMAIN build' = {}
    BY <1>1 DEF NoBuild
  <1>3. during' \in [Checks -> SUBSET Status]
    BY <1>1, AnswerType DEF TypeOK
  <1>4. TypeOK'
    <2>1. \E S \in SUBSET Checks : build' \in [S -> Status]
      BY <1>2
    <2> QED
      BY <1>1, <1>3, <2>1 DEF TypeOK, Snapshot
  <1>5. LockInv'
    BY <1>1, <1>2, CallTypes, SnapshotAssumption DEF LockInv, Fresh
  <1>6. EpochInv'
    BY <1>1 DEF EpochInv
  <1> QED
    BY <1>1, <1>4, <1>5, <1>6

LEMMA RunCheckInductive ==
  ASSUME IInv, NEW c \in Callers, NEW k \in Checks, RunCheck(c, k) PROVE IInv'
  <1> USE DEF IInv
  <1>1. /\ pc[c] = "build" /\ writer = c /\ k \in ChecksOf(kind[c])
        /\ UNCHANGED <<cache, age, ttl, writer, pc, kind, cancelled, asked, health,
                       epoch, began, during>>
    BY DEF RunCheck, ChecksToRun, LockInv, cacheVars, callVars
  <1>2. PICK s \in {Answer(k)} \cup (IF cancelled[c] THEN {StatusDown} ELSE {}) :
          build' = Answered(k, s)
    BY DEF RunCheck
  <1>3. s \in Status
    BY <1>2, AnswerType DEF Status
  <1>4. PICK S \in SUBSET Checks : build \in [S -> Status]
    BY DEF TypeOK
  <1>5. /\ build' \in [(S \cup {k}) -> Status]
        /\ DOMAIN build' = DOMAIN build \cup {k}
        /\ \A d \in DOMAIN build' : build'[d] = IF d = k THEN s ELSE build[d]
    BY <1>2, <1>3, <1>4 DEF Answered
  <1>6. TypeOK'
    <2>1. \E T \in SUBSET Checks : build' \in [T -> Status]
      BY <1>5
    <2> QED
      BY <1>1, <2>1 DEF TypeOK, Snapshot
  <1>7. LockInv'
    BY <1>1, <1>5 DEF LockInv, Fresh
  <1>8. EpochInv'
    BY <1>1 DEF EpochInv, Building
  <1> QED
    BY <1>1, <1>6, <1>7, <1>8

\* The build that is stored is complete and of the epoch it began in.
LEMMA FinishBuildInductive == ASSUME IInv, NEW c \in Callers, FinishBuild(c) PROVE IInv'
  <1> USE DEF IInv
  <1>1. /\ pc[c] = "build" /\ writer = c /\ ChecksToRun(c) = {}
        /\ cache' = [cache EXCEPT ![kind[c]] = [checks |-> build, epoch |-> began]]
        /\ age' = [age EXCEPT ![kind[c]] = 0]
        /\ Return(c)
        /\ writer' = NoCaller /\ build' = NoBuild
        /\ during' = [k \in Checks |-> {}]
        /\ UNCHANGED <<ttl, health, epoch, began>>
    BY DEF FinishBuild, Built, LockInv
  <1>2. /\ kind[c] \in Kinds /\ DOMAIN build = ChecksOf(kind[c])
        /\ began = epoch /\ Building
    BY <1>1, CallTypes, SnapshotAssumption
    DEF LockInv, EpochInv, Building, ChecksToRun
  <1>3. build \in [ChecksOf(kind[c]) -> Status]
    BY <1>2 DEF TypeOK
  <1>4. /\ pc' \in [Callers -> {"idle", "lookup", "miss", "build"}]
        /\ kind' \in [Callers -> Kinds]
        /\ cancelled' \in [Callers -> BOOLEAN]
        /\ asked' \in [Callers -> 0..MaxEpoch]
        /\ pc'[c] = "idle" /\ asked'[c] = 0
        /\ \A d \in Callers : d # c =>
             /\ pc'[d] = pc[d] /\ kind'[d] = kind[d]
             /\ cancelled'[d] = cancelled[d] /\ asked'[d] = asked[d]
    BY <1>1, ReturnKeeps
  <1>5. /\ DOMAIN cache' = Kinds
        /\ cache'[kind[c]] = [checks |-> build, epoch |-> epoch]
        /\ \A k \in Kinds : k # kind[c] => cache'[k] = cache[k]
    BY <1>1, <1>2
  <1>6. TypeOK'
    <2>1. \A k \in Kinds : cache'[k] \in Snapshot(k) \cup {NoSnapshot}
      BY <1>2, <1>3, <1>5, CallTypes DEF TypeOK, Snapshot
    <2>2. age' \in [Kinds -> 0..MaxAge]
      BY <1>1, CallTypes, MaxAgeIsMax
    <2>3. \E S \in SUBSET Checks : build' \in [S -> Status]
      <3>1. build' \in [{} -> Status]
        BY <1>1 DEF NoBuild
      <3> QED
        BY <3>1
    <2>4. during' \in [Checks -> SUBSET Status]
      BY <1>1
    <2> QED
      BY <1>1, <1>4, <2>1, <2>2, <2>3, <2>4 DEF TypeOK, Snapshot
  <1>7. LockInv'
    <2>1. \A d \in Callers : pc'[d] # "build"
      BY <1>1, <1>4 DEF LockInv
    <2> QED
      BY <1>1, <2>1, SnapshotAssumption DEF LockInv
  <1>8. EpochInv'
    <2>1. \A k \in Kinds : cache'[k] # NoSnapshot => cache'[k].epoch = epoch
      BY <1>5 DEF EpochInv
    <2>2. \A d \in Callers : asked'[d] <= epoch
      BY <1>4, CallTypes DEF EpochInv
    <2> QED
      BY <1>1, <2>1, <2>2 DEF EpochInv, Building
  <1> QED
    BY <1>5, <1>6, <1>7, <1>8

-----------------------------------------------------------------------------
\* The steps that change the cache for everyone, and the world.

LEMMA InvalidateInductive == ASSUME IInv, Invalidate PROVE IInv'
  <1> USE DEF IInv
  <1>1. /\ writer = NoCaller /\ epoch < MaxEpoch /\ epoch' = epoch + 1
        /\ cache' = [k \in Kinds |-> NoSnapshot]
        /\ age' = [k \in Kinds |-> MaxAge]
        /\ UNCHANGED <<ttl, writer, build, pc, kind, cancelled, asked, health, began, during>>
    BY DEF Invalidate, callVars
  <1>2. TypeOK'
    BY <1>1, CallTypes, MaxAgeIsMax DEF TypeOK
  <1>3. LockInv'
    BY <1>1, SnapshotAssumption DEF LockInv
  <1>4. EpochInv'
    BY <1>1, CallTypes DEF EpochInv, Building
  <1> QED
    BY <1>1, <1>2, <1>3, <1>4

LEMMA SetTTLInductive == ASSUME IInv, NEW t \in TTLs, SetTTL(t) PROVE IInv'
  <1> USE DEF IInv
  <1>1. /\ writer = NoCaller /\ ttl' = t
        /\ UNCHANGED <<cache, age, writer, build, pc, kind, cancelled, asked, health,
                       epoch, began, during>>
    BY DEF SetTTL, callVars
  <1>2. TypeOK'
    BY <1>1 DEF TypeOK, Snapshot
  <1>3. LockInv'
    BY <1>1, SnapshotAssumption DEF LockInv
  <1>4. EpochInv'
    BY <1>1 DEF EpochInv, Building
  <1> QED
    BY <1>1, <1>2, <1>3, <1>4

\* A snapshot that is not fresh does not become so by getting older.
LEMMA WorldInductive == ASSUME IInv, World PROVE IInv'
  <1> USE DEF IInv
  <1>1. ASSUME NEW c \in Callers, Cancel(c) PROVE IInv'
    <2>1. /\ cancelled' = [cancelled EXCEPT ![c] = TRUE]
          /\ UNCHANGED <<cache, age, ttl, writer, build, pc, kind, health, epoch, began,
                         asked, during>>
      BY <1>1 DEF Cancel, cacheVars
    <2>2. /\ cancelled' \in [Callers -> BOOLEAN]
          /\ \A d \in Callers : cancelled[d] => cancelled'[d]
      BY <2>1, CallTypes
    <2>3. TypeOK'
      BY <2>1, <2>2 DEF TypeOK, Snapshot
    <2>4. LockInv' /\ EpochInv'
      BY <2>1 DEF LockInv, EpochInv, Building, Fresh
    <2> QED
      BY <2>1, <2>3, <2>4
  <1>2. ASSUME NEW k \in Checks, NEW s \in Behaviour, HealthChanges(k, s) PROVE IInv'
    <2>1. /\ health' = [health EXCEPT ![k] = s]
          /\ during' \in {during, [during EXCEPT ![k] = @ \cup {Answer(k)'}]}
          /\ UNCHANGED <<cache, age, ttl, writer, build, pc, kind, cancelled, asked,
                         epoch, began>>
      BY <1>2 DEF HealthChanges, cacheVars, callVars
    <2>2. health' \in [Checks -> Behaviour]
      BY <2>1 DEF TypeOK
    <2>3. Answer(k)' \in Status
      BY <2>2, SnapshotAssumption DEF Answer, Behaviour, Status
    <2>4. during' \in [Checks -> SUBSET Status]
      BY <2>1, <2>3 DEF TypeOK
    <2>5. TypeOK'
      BY <2>1, <2>2, <2>4 DEF TypeOK, Snapshot
    <2>6. LockInv' /\ EpochInv'
      BY <2>1 DEF LockInv, EpochInv, Building, Fresh
    <2> QED
      BY <2>1, <2>5, <2>6
  <1>3. ASSUME Tick PROVE IInv'
    <2>1. /\ age' = [k \in Kinds |-> IF age[k] < MaxAge THEN age[k] + 1 ELSE age[k]]
          /\ UNCHANGED <<cache, ttl, writer, build, pc, kind, cancelled, asked, health,
                         epoch, began, during>>
      BY <1>3 DEF Tick, callVars
    <2>2. /\ age' \in [Kinds -> 0..MaxAge]
          /\ \A k \in Kinds : age'[k] >= age[k]
      BY <2>1, CallTypes, MaxAgeIsMax
    <2>3. TypeOK'
      BY <2>1, <2>2 DEF TypeOK, Snapshot
    <2>4. LockInv'
      <3>1. \A k \in Kinds : Fresh(k)' => Fresh(k)
        BY <2>1, <2>2, CallTypes, MaxAgeIsMax DEF Fresh
      <3> QED
        BY <2>1, <3>1, CallTypes DEF LockInv
    <2>5. EpochInv'
      BY <2>1 DEF EpochInv, Building
    <2> QED
      BY <2>1, <2>3, <2>4, <2>5
  <1> QED
    BY <1>1, <1>2, <1>3 DEF World

\* Every step keeps the invariant.
LEMMA NextInductive == IInv /\ [Next]_vars => IInv'
  <1> SUFFICES ASSUME IInv, [Next]_vars PROVE IInv'
    OBVIOUS
  <1>1. ASSUME NEW c \in Callers, Step(c) PROVE IInv'
    BY <1>1, LookInductive, StartBuildInductive, RunCheckInductive, FinishBuildInductive
    DEF Step
  <1>2. CASE UNCHANGED vars
    BY <1>2
    DEF vars, cacheVars, callVars, IInv, TypeOK, Snapshot, LockInv, EpochInv, Building, Fresh
  <1> QED
    BY <1>1, <1>2, CallInductive, InvalidateInductive, SetTTLInductive, WorldInductive
    DEF Next

-----------------------------------------------------------------------------
\* The snapshots, the ages, the lock and the calls keep their types; so what is
\* stored has a result of every check of its kind, and no other.
THEOREM TypeCorrect == Spec => []TypeOK
  <1>1. IInv => TypeOK
    BY DEF IInv
  <1> QED
    BY InitIInv, NextInductive, <1>1, PTL DEF Spec

\* What a call that returns finds in the cache is of the epoch it returns in.
LEMMA ReturnedEpoch ==
  ASSUME IInv, [Next]_vars, NEW c \in Callers, pc[c] # "idle", pc'[c] = "idle"
  PROVE  cache'[kind[c]].epoch >= asked[c]
  <1> USE DEF IInv
  <1>1. /\ pc \in [Callers -> {"idle", "lookup", "miss", "build"}] /\ kind[c] \in Kinds
        /\ asked[c] \in Nat /\ epoch \in Nat /\ asked[c] <= epoch
    BY CallTypes DEF EpochInv
  <1>2. Step(c)
    <2>1. ASSUME NEW d \in Callers, NEW k \in Kinds, Call(d, k) PROVE FALSE
      BY <1>1, <2>1 DEF Call
    <2>2. ASSUME NEW d \in Callers, Step(d), d # c PROVE FALSE
      BY <1>1, <2>2
      DEF Step, Lookup, DoubleCheck, StartBuild, RunCheck, FinishBuild, Return, callVars
    <2>3. CASE Invalidate \/ (\E t \in TTLs : SetTTL(t)) \/ World \/ UNCHANGED vars
      BY <2>3
      DEF Invalidate, SetTTL, World, Cancel, HealthChanges, Tick, vars, callVars
    <2> QED
      BY <2>1, <2>2, <2>3 DEF Next
  <1>3. CASE FinishBuild(c)
    <2>1. /\ cache' = [cache EXCEPT ![kind[c]] = [checks |-> build, epoch |-> began]]
          /\ writer = c
      BY <1>3 DEF FinishBuild, Built, LockInv
    <2>2. began = epoch
      BY <2>1, SnapshotAssumption DEF EpochInv, Building
    <2> QED
      BY <1>1, <2>1, <2>2
  <1>4. CASE Lookup(c) \/ DoubleCheck(c)
    <2>1. Fresh(kind[c]) /\ cache' = cache
      BY <1>1, <1>4 DEF Lookup, DoubleCheck, cacheVars
    <2>2. cache[kind[c]].epoch = epoch
      BY <1>1, <2>1 DEF EpochInv, Fresh
    <2> QED
      BY <1>1, <2>1, <2>2
  <1> QED
    BY <1>1, <1>2, <1>3, <1>4 DEF Step, StartBuild, RunCheck, callVars

\* Invalidate holds against a build that was under way when it was called.
THEOREM InvalidationHolds == Spec => InvalidateHolds
  <1>1. IInv /\ [Next]_vars =>
          [\A c \in Callers : pc[c] # "idle" /\ pc'[c] = "idle" =>
             cache'[kind[c]].epoch >= asked[c]]_vars
    BY ReturnedEpoch
  <1> QED
    BY InitIInv, NextInductive, <1>1, PTL DEF Spec, InvalidateHolds

-----------------------------------------------------------------------------
(***************************************************************************)
(* SnapshotCache implements AbstractSnapshots: a call takes its one step   *)
(* when it finds a fresh snapshot, or when its build is stored; all its    *)
(* other steps are stutters.                                               *)
(***************************************************************************)

Held  == [k \in Kinds |-> IF cache[k] = NoSnapshot THEN -1 ELSE cache[k].epoch]
Waits == [c \in Callers |-> IF pc[c] = "idle" THEN "nothing" ELSE kind[c]]

\* The abstract cache is fresh when this one is.
LEMMA FreshMaps ==
  ASSUME IInv, NEW k \in Kinds PROVE Promise!Fresh(k) <=> Fresh(k)
  <1>1. cache[k] # NoSnapshot => cache[k].epoch \in Nat
    BY CallTypes DEF IInv, EpochInv
  <1> QED
    BY <1>1 DEF Promise!Fresh, Promise!None, Fresh

\* While the cache is left alone, so is the abstract one.
LEMMA HeldKept == cache' = cache => Held' = Held
  BY DEF Held

\* A call that returns waits for nothing; the others wait for what they did.
LEMMA ReturnMaps ==
  ASSUME IInv, NEW c \in Callers, pc[c] # "idle", Return(c)
  PROVE  /\ Promise!Returns(c)
         /\ kind[c] \in Kinds /\ Waits[c] = kind[c]
  <1>1. /\ pc'[c] = "idle"
        /\ \A d \in Callers : d # c => pc'[d] = pc[d] /\ kind'[d] = kind[d]
    BY ReturnKeeps DEF IInv
  <1> QED
    BY <1>1, CallTypes DEF IInv, Promise!Returns, Waits

\* A step of a call that neither begins nor ends it.
LEMMA MidCallMaps ==
  ASSUME IInv, NEW c \in Callers, NEW next,
         pc[c] # "idle", next # "idle", pc' = [pc EXCEPT ![c] = next] \/ pc' = pc, kind' = kind
  PROVE  Waits' = Waits
  BY CallTypes DEF IInv, Waits

LEMMA InitMaps == Init => Promise!Init
  <1> SUFFICES ASSUME Init PROVE Promise!Init
    OBVIOUS
  <1>1. age \in [Kinds -> Nat] /\ ttl \in Nat
    BY MaxAgeIsMax, SnapshotAssumption DEF Init
  <1> QED
    BY <1>1 DEF Init, Promise!Init, Promise!None

\* A look that finds a fresh snapshot is the abstract hit.
LEMMA LookMaps ==
  ASSUME IInv, NEW c \in Callers, Lookup(c) \/ DoubleCheck(c)
  PROVE  [Promise!Next]_(Promise!vars)
  <1>1. UNCHANGED <<cache, age, ttl, epoch>> /\ pc[c] \in {"lookup", "miss"}
    BY DEF Lookup, DoubleCheck, cacheVars
  <1>2. CASE Fresh(kind[c]) /\ Return(c)
    <2>1. /\ Promise!Returns(c) /\ kind[c] \in Kinds /\ Waits[c] = kind[c]
      BY <1>1, <1>2, ReturnMaps
    <2>2. Promise!Hit(c, kind[c])
      BY <1>1, <1>2, <2>1, FreshMaps, HeldKept DEF Promise!Hit, Held, Waits
    <2> QED
      BY <2>1, <2>2 DEF Promise!Next, Promise!Answer
  <1>3. CASE pc' = [pc EXCEPT ![c] = "miss"] /\ UNCHANGED kind
    <2>1. Waits' = Waits
      BY <1>1, <1>3, MidCallMaps
    <2> QED
      BY <1>1, <2>1, HeldKept DEF Promise!vars, Held, Waits
  <1> QED
    BY <1>2, <1>3 DEF Lookup, DoubleCheck

\* The build that is stored is the abstract build: the lock has kept the
\* snapshot stale and the epoch unchanged since it began.
LEMMA FinishBuildMaps ==
  ASSUME IInv, NEW c \in Callers, FinishBuild(c)
  PROVE  [Promise!Next]_(Promise!vars)
  <1>1. /\ pc[c] = "build" /\ writer = c /\ Return(c)
        /\ cache' = [cache EXCEPT ![kind[c]] = [checks |-> build, epoch |-> began]]
        /\ age' = [age EXCEPT ![kind[c]] = 0]
        /\ UNCHANGED <<ttl, epoch>>
    BY DEF IInv, LockInv, FinishBuild, Built
  <1>2. began = epoch /\ ~Fresh(kind[c])
    BY <1>1, SnapshotAssumption DEF IInv, EpochInv, LockInv, Building
  <1>3. Promise!Returns(c) /\ kind[c] \in Kinds /\ Waits[c] = kind[c]
    BY <1>1, ReturnMaps
  <1>4. Held' = [Held EXCEPT ![kind[c]] = epoch]
    <2>1. /\ cache'[kind[c]] # NoSnapshot /\ cache'[kind[c]].epoch = epoch
          /\ \A k \in Kinds : k # kind[c] => cache'[k] = cache[k]
      BY <1>1, <1>2, <1>3, SnapshotExists DEF IInv
    <2> QED
      BY <1>3, <2>1 DEF Held
  <1>5. PICK k \in Kinds : k = kind[c]
    BY <1>3
  <1>6. Promise!Build(c, k)
    BY <1>1, <1>2, <1>3, <1>4, <1>5, FreshMaps DEF Promise!Build, Held, Waits
  <1> QED
    BY <1>6 DEF Promise!Next, Promise!Answer

\* Every step of the cache is a step of the interface, or none.
LEMMA StepSimulation ==
  ASSUME IInv, [Next]_vars PROVE [Promise!Next]_(Promise!vars)
  <1>1. ASSUME NEW c \in Callers, NEW k \in Kinds, Call(c, k) PROVE Promise!Ask(c, k)
    <2>1. Waits[c] = "nothing" /\ Waits' = [Waits EXCEPT ![c] = k]
      BY <1>1, CallTypes DEF IInv, Call, Waits
    <2> QED
      BY <1>1, <2>1, HeldKept DEF Call, cacheVars, Promise!Ask, Held, Waits
  <1>2. ASSUME NEW c \in Callers, StartBuild(c) PROVE UNCHANGED Promise!vars
    <2>1. Waits' = Waits
      BY <1>2, MidCallMaps DEF StartBuild
    <2> QED
      BY <1>2, <2>1, HeldKept DEF StartBuild, cacheVars, Promise!vars, Held, Waits
  <1>3. ASSUME NEW c \in Callers, NEW k \in Checks, RunCheck(c, k)
        PROVE  UNCHANGED Promise!vars
    BY <1>3, HeldKept DEF RunCheck, cacheVars, callVars, Promise!vars, Held, Waits
  <1>4. ASSUME NEW c \in Callers, Step(c) PROVE [Promise!Next]_(Promise!vars)
    BY <1>2, <1>3, <1>4, LookMaps, FinishBuildMaps DEF Step
  <1>5. CASE Invalidate
    <2>1. Held' = [k \in Kinds |-> -1]
      BY <1>5 DEF Invalidate, Held
    <2>2. age' \in [Kinds -> Nat]
      BY <1>5, MaxAgeIsMax DEF Invalidate
    <2> QED
      BY <1>5, <2>1, <2>2
      DEF Invalidate, callVars, Promise!Next, Promise!Invalidate, Promise!None, Held, Waits
  <1>6. ASSUME NEW t \in TTLs, SetTTL(t) PROVE Promise!SetTTL
    BY <1>6, SnapshotAssumption, HeldKept
    DEF SetTTL, callVars, Promise!SetTTL, Held, Waits
  <1>7. CASE Tick
    <2>1. \A k \in Kinds : age'[k] \in {age[k], age[k] + 1}
      BY <1>7 DEF Tick
    <2> QED
      BY <1>7, <2>1, HeldKept
      DEF Tick, callVars, Promise!Next, Promise!Tick, Held, Waits
  <1>8. ASSUME NEW c \in Callers, Cancel(c) PROVE UNCHANGED Promise!vars
    BY <1>8, HeldKept DEF Cancel, cacheVars, Promise!vars, Held, Waits
  <1>9. ASSUME NEW k \in Checks, NEW s \in Behaviour, HealthChanges(k, s)
        PROVE  UNCHANGED Promise!vars
    BY <1>9, HeldKept DEF HealthChanges, cacheVars, callVars, Promise!vars, Held, Waits
  <1>10. CASE UNCHANGED vars
    BY <1>10 DEF vars, cacheVars, callVars, Promise!vars
  <1> QED
    BY <1>1, <1>4, <1>5, <1>6, <1>7, <1>8, <1>9, <1>10
    DEF Next, World, Promise!Next

\* Get, GetReadiness, Invalidate and SetTTL act as one step each, whatever calls,
\* builds and cancellations overlap: nothing stale is served, nothing is built
\* twice, and no snapshot outlives an Invalidate (the safety part of ActsAtOnce).
THEOREM ImplementsInterface == Spec => Promise!Spec
  <1>1. IInv /\ [Next]_vars => [Promise!Next]_(Promise!vars)
    BY StepSimulation
  <1> QED
    BY InitIInv, NextInductive, InitMaps, <1>1, PTL DEF Spec, Promise!Spec
=============================================================================
