--------------------------- MODULE SnapshotCache ---------------------------
(***************************************************************************)
(* snapshotCache: two cached snapshots, of all checks (Get) and of the     *)
(* readiness checks (GetReadiness), behind one RWMutex, and the callers    *)
(* that share them (/ready, /status and the dependency gate).              *)
(*                                                                         *)
(* A call looks under the read lock, and if it finds nothing fresh takes   *)
(* the write lock, looks again and builds, holding the lock while every    *)
(* check runs.  A reader's section is one step, so the readers need no     *)
(* count; writer is the call that holds the write lock across steps.       *)
(*                                                                         *)
(* The world moves on meanwhile: checks change health, callers' contexts   *)
(* are cancelled, time passes.  A snapshot's results are those its checks  *)
(* had when they ran, or DOWN, "check timed out": of a check that does not *)
(* answer within its own timeout, and of any check when the context of the *)
(* call that builds is done first.  The states of the dependencies and the *)
(* overall status are module HealthExtension's.                            *)
(*                                                                         *)
(* A call returns what the cache holds when it returns, its own build or   *)
(* another's, and leaves nothing behind.                                   *)
(*                                                                         *)
(* epoch, began, asked and during are history: the Invalidate calls so     *)
(* far, their number when the build under way and when a call began, and   *)
(* the statuses a check has had since that build began.                    *)
(***************************************************************************)
EXTENDS HealthTypes

CONSTANTS Callers,
          Checks, ReadinessChecks,   \* registered checks; those with IsReadiness()
          CheckStatuses,             \* what a check that returns in time may answer
          TTLs, InitialTTL,          \* arguments of SetTTL; the constructor's
          DefaultTTL,                \* what the constructor takes for 0 (5 s)
          MaxEpoch                   \* bound: calls of Invalidate

NoCaller == "nobody"

ASSUME SnapshotAssumption ==
  /\ NoCaller \notin Callers
  /\ ReadinessChecks \subseteq Checks
  /\ CheckStatuses \subseteq Status /\ CheckStatuses # {}
  /\ {InitialTTL, DefaultTTL} \subseteq TTLs /\ TTLs \subseteq Nat
  /\ \E t \in TTLs : \A u \in TTLs : u <= t
  /\ MaxEpoch \in Nat

Kinds == {"full", "ready"}
ChecksOf(k) == IF k = "ready" THEN ReadinessChecks ELSE Checks

MaxAge == CHOOSE t \in TTLs : \A u \in TTLs : u <= t

\* The behaviour of a check that outlives its timeout.
Hanging   == 5
Behaviour == CheckStatuses \cup {Hanging}

VARIABLES cache,     \* snapshot and readinessSnapshot
          age,       \* time since lastRefresh and lastReadiness
          ttl,
          writer,    \* the call that holds mu.Lock, building
          build,     \* the results it has so far
          pc, kind, cancelled,
          health,
          epoch, began, asked, during

cacheVars == <<cache, age, ttl>>
callVars  == <<pc, kind, cancelled, asked>>
vars == <<cacheVars, writer, build, callVars, health, epoch, began, during>>

NoSnapshot == [none |-> TRUE]
NoBuild    == [k \in {} |-> StatusUp]

Snapshot(k) ==
  [checks : [ChecksOf(k) -> Status], epoch : 0..MaxEpoch]

TypeOK ==
  /\ \A k \in Kinds : cache[k] \in Snapshot(k) \cup {NoSnapshot}
  /\ age \in [Kinds -> 0..MaxAge]
  /\ ttl \in TTLs
  /\ writer \in Callers \cup {NoCaller}
  /\ \E S \in SUBSET Checks : build \in [S -> Status]
  /\ pc \in [Callers -> {"idle", "lookup", "miss", "build"}]
  /\ kind \in [Callers -> Kinds]
  /\ cancelled \in [Callers -> BOOLEAN]
  /\ health \in [Checks -> Behaviour]
  /\ epoch \in 0..MaxEpoch /\ began \in 0..MaxEpoch /\ asked \in [Callers -> 0..MaxEpoch]
  /\ during \in [Checks -> SUBSET Status]

\* What Execute makes of check k under a context that lasts.
Answer(k) == IF health[k] = Hanging THEN StatusDown ELSE health[k]

Init ==
  /\ cache = [k \in Kinds |-> NoSnapshot]
  /\ age = [k \in Kinds |-> MaxAge]
  /\ ttl = IF InitialTTL = 0 THEN DefaultTTL ELSE InitialTTL
  /\ writer = NoCaller /\ build = NoBuild
  /\ pc = [c \in Callers |-> "idle"]
  /\ kind = [c \in Callers |-> "full"]
  /\ cancelled = [c \in Callers |-> FALSE]
  /\ health \in [Checks -> Behaviour]
  /\ epoch = 0 /\ began = 0 /\ asked = [c \in Callers |-> 0]
  /\ during = [k \in Checks |-> {}]

-----------------------------------------------------------------------------
\* Get and GetReadiness.

Call(c, k) ==
  /\ pc[c] = "idle"
  /\ pc' = [pc EXCEPT ![c] = "lookup"]
  /\ kind' = [kind EXCEPT ![c] = k]
  /\ cancelled' = [cancelled EXCEPT ![c] = FALSE]
  /\ asked' = [asked EXCEPT ![c] = epoch]
  /\ UNCHANGED <<cacheVars, writer, build, health, epoch, began, during>>

Fresh(k) == cache[k] # NoSnapshot /\ age[k] < ttl

Return(c) ==
  /\ pc' = [pc EXCEPT ![c] = "idle"]
  /\ kind' = [kind EXCEPT ![c] = "full"]
  /\ cancelled' = [cancelled EXCEPT ![c] = FALSE]
  /\ asked' = [asked EXCEPT ![c] = 0]

\* Variant: a hit counts as a refresh, so what is asked for stays fresh.
RefreshingLookup(c) ==
  /\ pc[c] = "lookup" /\ writer = NoCaller
  /\ IF Fresh(kind[c])
       THEN Return(c) /\ age' = [age EXCEPT ![kind[c]] = 0]
       ELSE /\ pc' = [pc EXCEPT ![c] = "miss"]
            /\ UNCHANGED <<kind, cancelled, asked, age>>
  /\ UNCHANGED <<cache, ttl, writer, build, health, epoch, began, during>>

\* Under the read lock.
Lookup(c) ==
  /\ pc[c] = "lookup" /\ writer = NoCaller
  /\ IF Fresh(kind[c])
       THEN Return(c)
       ELSE /\ pc' = [pc EXCEPT ![c] = "miss"]
            /\ UNCHANGED <<kind, cancelled, asked>>
  /\ UNCHANGED <<cacheVars, writer, build, health, epoch, began, during>>

\* Another caller built one while this one waited for the write lock.
DoubleCheck(c) ==
  /\ pc[c] = "miss" /\ writer = NoCaller
  /\ Fresh(kind[c])
  /\ Return(c)
  /\ UNCHANGED <<cacheVars, writer, build, health, epoch, began, during>>

\* Variant: no second look under the write lock.
EagerStartBuild(c) ==
  /\ pc[c] = "miss" /\ writer = NoCaller
  /\ writer' = c
  /\ build' = NoBuild /\ began' = epoch
  /\ during' = [k \in Checks |-> {Answer(k)}]
  /\ pc' = [pc EXCEPT ![c] = "build"]
  /\ UNCHANGED <<cacheVars, kind, cancelled, health, epoch, asked>>

StartBuild(c) ==
  /\ pc[c] = "miss" /\ writer = NoCaller
  /\ ~Fresh(kind[c])
  /\ writer' = c
  /\ build' = NoBuild /\ began' = epoch
  /\ during' = [k \in Checks |-> {Answer(k)}]
  /\ pc' = [pc EXCEPT ![c] = "build"]
  /\ UNCHANGED <<cacheVars, kind, cancelled, health, epoch, asked>>

\* Variant: each build runs every registered check.
EveryCheckChecksToRun(c) == Checks \ DOMAIN build

ChecksToRun(c) == ChecksOf(kind[c]) \ DOMAIN build

\* The build with the answer s of check k.
Answered(k, s) ==
  [d \in DOMAIN build \cup {k} |-> IF d = k THEN s ELSE build[d]]

\* executeChecks: the checks run concurrently under the context of the call, and
\* Execute waits for the answer, for the check's own timeout or for that context.
\* A cancelled one makes it choose between the two ready channels.
RunCheck(c, k) ==
  /\ pc[c] = "build" /\ k \in ChecksToRun(c)
  /\ \E s \in {Answer(k)} \cup (IF cancelled[c] THEN {StatusDown} ELSE {}) :
       build' = Answered(k, s)
  /\ UNCHANGED <<cacheVars, writer, callVars, health, epoch, began, during>>

Built(c) ==
  /\ cache' = [cache EXCEPT ![kind[c]] = [checks |-> build, epoch |-> began]]
  /\ age' = [age EXCEPT ![kind[c]] = 0]

\* The snapshot is complete, lastRefresh = now, and the unlock.
FinishBuild(c) ==
  /\ pc[c] = "build" /\ ChecksToRun(c) = {}
  /\ Built(c) /\ Return(c)
  /\ writer' = NoCaller /\ build' = NoBuild
  /\ during' = [k \in Checks |-> {}]
  /\ UNCHANGED <<ttl, health, epoch, began>>

-----------------------------------------------------------------------------
\* Invalidate and SetTTL wait for the lock.

\* Variant: the lock is not taken.
UnlockedInvalidate ==
  /\ epoch < MaxEpoch /\ epoch' = epoch + 1
  /\ cache' = [k \in Kinds |-> NoSnapshot]
  /\ age' = [k \in Kinds |-> MaxAge]
  /\ UNCHANGED <<ttl, writer, build, callVars, health, began, during>>

Invalidate ==
  /\ writer = NoCaller
  /\ epoch < MaxEpoch /\ epoch' = epoch + 1
  /\ cache' = [k \in Kinds |-> NoSnapshot]
  /\ age' = [k \in Kinds |-> MaxAge]
  /\ UNCHANGED <<ttl, writer, build, callVars, health, began, during>>

SetTTL(t) ==
  /\ writer = NoCaller
  /\ ttl' = t
  /\ UNCHANGED <<cache, age, writer, build, callVars, health, epoch, began, during>>

-----------------------------------------------------------------------------
\* The world.

Cancel(c) ==
  /\ pc[c] # "idle" /\ ~cancelled[c]
  /\ cancelled' = [cancelled EXCEPT ![c] = TRUE]
  /\ UNCHANGED <<cacheVars, writer, build, pc, kind, health, epoch, began, asked, during>>

HealthChanges(k, s) ==
  /\ health' = [health EXCEPT ![k] = s]
  /\ during' = IF writer = NoCaller THEN during ELSE [during EXCEPT ![k] = @ \cup {Answer(k)'}]
  /\ UNCHANGED <<cacheVars, writer, build, callVars, epoch, began>>

\* MaxAge bounds the clock: no ttl tells later ages apart.
Tick ==
  /\ \E k \in Kinds : age[k] < MaxAge
  /\ age' = [k \in Kinds |-> IF age[k] < MaxAge THEN age[k] + 1 ELSE age[k]]
  /\ UNCHANGED <<cache, ttl, writer, build, callVars, health, epoch, began, during>>

Step(c) ==
  \/ Lookup(c) \/ DoubleCheck(c) \/ StartBuild(c)
  \/ \E k \in Checks : RunCheck(c, k)
  \/ FinishBuild(c)

World ==
  \/ \E c \in Callers : Cancel(c)
  \/ \E k \in Checks, s \in Behaviour : HealthChanges(k, s)
  \/ Tick

Next ==
  \/ \E c \in Callers, k \in Kinds : Call(c, k)
  \/ \E c \in Callers : Step(c)
  \/ Invalidate
  \/ \E t \in TTLs : SetTTL(t)
  \/ World

Spec == Init /\ [][Next]_vars

\* Checks return within their timeout, a goroutine that waits for mu gets it in
\* the end (RWMutex lets neither side starve), and time passes.
FairSpec == Spec /\ WF_vars(Tick) /\ \A c \in Callers : SF_vars(Step(c))

-----------------------------------------------------------------------------
\* Once Invalidate has returned, no later call gets a snapshot whose build
\* began before it, although a build may have been under way when it was called.
InvalidateHolds ==
  [][\A c \in Callers : pc[c] # "idle" /\ pc'[c] = "idle" =>
       cache'[kind[c]].epoch >= asked[c]]_vars

\* No wrong snapshot lasts.  Once the checks have settled and no caller goes
\* away any more, every call is answered with what the checks answer from some
\* time on: a snapshot of older answers, of a check that hung or of a caller that
\* had gone ages out, however often it is hit, whether or not anybody calls
\* Invalidate, and the build that replaces it runs the checks anew.
SnapshotsCatchUp ==
  <>[][UNCHANGED health /\ \A c \in Callers : ~Cancel(c)]_vars
    => <>[][\A c \in Callers : pc[c] # "idle" /\ pc'[c] = "idle" =>
              cache'[kind[c]].checks = [k \in ChecksOf(kind[c]) |-> Answer(k)]]_vars

Promise == INSTANCE AbstractSnapshots WITH
  held  <- [k \in Kinds |-> IF cache[k] = NoSnapshot THEN -1 ELSE cache[k].epoch],
  waits <- [c \in Callers |-> IF pc[c] = "idle" THEN "nothing" ELSE kind[c]]

\* With two lookups under two locks and a build of many steps, Get and
\* GetReadiness still act as one step each: callers that miss together build
\* once, nothing older than the TTL is served, and everyone is answered, with
\* invalidations and changes of the TTL going on.
ActsAtOnce == Promise!FairSpec

\* snapshot_cache.go:12, "a point-in-time view of all health check results":
\* a status in a snapshot is one the check had while the snapshot was built.  It
\* grants that a check which outlives its timeout has the status DOWN.
PointInTimeView ==
  \A c \in Callers : \A k \in DOMAIN build :
    writer = c => build[k] \in during[k]
=============================================================================
