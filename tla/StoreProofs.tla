---------------------------- MODULE StoreProofs ----------------------------
(***************************************************************************)
(* Proofs about the dependency state store: alone under reports            *)
(* (DepReports), for all thresholds, 0 and less included, ids and bounds,  *)
(* and under the check cache (CheckCache), for every set of callers and    *)
(* every TTL.                                                              *)
(*                                                                         *)
(* StatusFollowsFailures is not inductive: the next verdict is computed    *)
(* from the entry's own saturating counter, which therefore has to be tied *)
(* to the failures there really were.                                      *)
(*                                                                         *)
(* What the cache and the store show once the calls have returned says     *)
(* nothing about a call under way.  The inductive invariant follows the    *)
(* one call that runs alone: that nothing valid is cached until it caches  *)
(* its own result, and that what it reports in two steps is one result.    *)
(***************************************************************************)
EXTENDS DepReports, CheckCache, TLAPS

-----------------------------------------------------------------------------
\* The store's operations.

LEMMA EntryExists == \A e \in Entry : e # NoEntry
  <1> SUFFICES ASSUME NEW e \in Entry PROVE e # NoEntry
    OBVIOUS
  <1>1. "Status" \in DOMAIN e /\ "Status" \notin DOMAIN NoEntry
    BY DEF Entry, NoEntry
  <1> QED
    BY <1>1

\* A report counts a failure unless the status is UP, whatever was counted before.
LEMMA ReportedResult ==
  ASSUME NEW e \in Entry \cup {NoEntry}, NEW s \in Status
  PROVE  /\ ReportResult(e, s) \in Entry
         /\ ReportResult(e, s).FailureCount = 0 <=> s = StatusUp
  <1>1. FailureCountCap \in Nat \ {0}
    BY StoreConfigAssumption DEF FailureCountCap, Larger
  <1>2. Ensure(e) \in Entry
    BY <1>1 DEF Ensure, Entry, NewDepState, Status, CircuitState
  <1>3. /\ CountFailure(Ensure(e).FailureCount) \in 0..FailureCountCap
        /\ CountFailure(Ensure(e).FailureCount) # 0
    BY <1>1, <1>2 DEF CountFailure, Entry
  <1>4. ReportSuccess(e) \in Entry /\ ReportSuccess(e).FailureCount = 0
    BY <1>1 DEF ReportSuccess, Entry, Status, CircuitState
  <1>5. ReportFailure(e) \in Entry /\ ReportFailure(e).FailureCount # 0
    BY <1>2, <1>3 DEF ReportFailure, Entry, Status, CircuitState
  <1> QED
    BY <1>4, <1>5 DEF ReportResult

LEMMA StatusSet ==
  ASSUME NEW e \in Entry, NEW s \in Status
  PROVE  /\ SetStatus(e, s) \in Entry /\ SetStatus(e, s).Status = s
         /\ SetStatus(e, s).FailureCount = e.FailureCount
  BY EntryExists DEF SetStatus, Ensure, Entry

LEMMA InitialStatusSet ==
  ASSUME NEW s \in Status PROVE SetStatus(NoEntry, s) \in Entry
  BY StoreConfigAssumption
  DEF SetStatus, Ensure, Entry, NewDepState, FailureCountCap, Larger, Status, CircuitState

-----------------------------------------------------------------------------
\* The store under reports alone.

Least(m, n) == IF m < n THEN m ELSE n

\* The entry a dependency has after n consecutive failures.
EntryAfter(n) ==
  [Status       |-> Verdict(n),
   FailureCount |-> Least(n, FailureCountCap),
   CircuitState |-> IF Verdict(n) = StatusDown THEN CircuitOpen ELSE CircuitClosed]

EntriesFollow ==
  /\ states \in [Deps -> {NoEntry} \cup {EntryAfter(n) : n \in Nat}]
  /\ fails \in [Deps -> Nat]
  /\ \A d \in Deps :
       \/ states[d] = NoEntry /\ fails[d] = 0
       \/ states[d] = EntryAfter(fails[d])

\* An entry is not the absence of one.
LEMMA CountedEntryExists == \A n \in Nat : EntryAfter(n) # NoEntry
  <1> SUFFICES ASSUME NEW n \in Nat PROVE EntryAfter(n) # NoEntry
    OBVIOUS
  <1>1. "Status" \in DOMAIN EntryAfter(n) /\ "Status" \notin DOMAIN NoEntry
    BY DEF EntryAfter, NoEntry
  <1> QED BY <1>1

\* A new entry is the one after no failure, and so is one after a success.
LEMMA FreshEntry ==
  /\ NewDepState = EntryAfter(0)
  /\ \A e : ReportSuccess(e) = EntryAfter(0)
  BY StoreConfigAssumption
  DEF NewDepState, ReportSuccess, EntryAfter, Verdict, Least, FailureCountCap, Larger,
      StatusUp, StatusDown

\* One more failure on an entry after n failures makes the one after n + 1.
LEMMA OneMoreFailure ==
  ASSUME NEW n \in Nat, NEW e, e = EntryAfter(n) \/ (e = NoEntry /\ n = 0)
  PROVE  ReportFailure(e) = EntryAfter(n + 1)
  <1>1. Ensure(e) = EntryAfter(n)
    BY FreshEntry, CountedEntryExists DEF Ensure
  <1>2. CountFailure(Least(n, FailureCountCap)) = Least(n + 1, FailureCountCap)
    BY StoreConfigAssumption DEF CountFailure, Least, FailureCountCap, Larger
  <1> DEFINE m == Least(n + 1, FailureCountCap)
  <1>3. /\ m >= StoreFailureThreshold <=> n + 1 >= StoreFailureThreshold
        /\ m >= DegradedThreshold <=> n + 1 >= DegradedThreshold
        /\ m \in Nat
    BY StoreConfigAssumption DEF Least, FailureCountCap, Larger
  <1>4. Ensure(e).FailureCount = Least(n, FailureCountCap)
    BY <1>1 DEF EntryAfter
  <1>5. Ensure(e).Status = Verdict(n)
    BY <1>1 DEF EntryAfter
  <1>6. Ensure(e).CircuitState =
          IF Verdict(n) = StatusDown THEN CircuitOpen ELSE CircuitClosed
    BY <1>1 DEF EntryAfter
  <1>7. n + 1 < DegradedThreshold /\ n + 1 < StoreFailureThreshold
          => Verdict(n) = Verdict(n + 1)
    BY StoreConfigAssumption DEF Verdict
  <1> HIDE DEF m
  <1>8. ReportFailure(e) =
          [Status |-> IF m >= StoreFailureThreshold THEN StatusDown
                      ELSE IF m >= DegradedThreshold THEN StatusDegraded
                      ELSE Verdict(n),
           FailureCount |-> m,
           CircuitState |-> IF m >= StoreFailureThreshold THEN CircuitOpen
                            ELSE IF Verdict(n) = StatusDown THEN CircuitOpen
                            ELSE CircuitClosed]
    BY <1>2, <1>4, <1>5, <1>6 DEF ReportFailure, m
  <1>9. Verdict(n + 1) = IF m >= StoreFailureThreshold THEN StatusDown
                         ELSE IF m >= DegradedThreshold THEN StatusDegraded
                         ELSE Verdict(n)
    <2>1. n + 1 # 0
      OBVIOUS
    <2> QED
      BY <1>3, <1>7, <2>1, StoreConfigAssumption DEF Verdict, m
  <1>10. Verdict(n) = StatusDown => m >= StoreFailureThreshold
    BY <1>3, StoreConfigAssumption
    DEF Verdict, m, StatusUp, StatusDegraded, StatusDown
  <1>11. Verdict(n + 1) = StatusDown <=> m >= StoreFailureThreshold
    BY <1>3, StoreConfigAssumption
    DEF Verdict, m, StatusUp, StatusDegraded, StatusDown
  <1> QED
    BY <1>8, <1>9, <1>10, <1>11 DEF EntryAfter, m

LEMMA InitFollows == ReportsInit => EntriesFollow
  BY DEF ReportsInit, EntriesFollow

\* A call on d that leaves the entry n failures make, and n, keeps EntriesFollow.
LEMMA OneEntry ==
  ASSUME EntriesFollow, NEW d \in Deps, NEW n \in Nat, NEW e,
         e = EntryAfter(n) \/ (e = NoEntry /\ n = 0),
         states' = [states EXCEPT ![d] = e],
         fails' = [fails EXCEPT ![d] = n]
  PROVE  EntriesFollow'
  <1>1. states' \in [Deps -> {NoEntry} \cup {EntryAfter(k) : k \in Nat}]
    BY DEF EntriesFollow
  <1>2. fails' \in [Deps -> Nat]
    BY DEF EntriesFollow
  <1>3. ASSUME NEW x \in Deps
        PROVE  \/ states'[x] = NoEntry /\ fails'[x] = 0
               \/ states'[x] = EntryAfter(fails'[x])
    BY DEF EntriesFollow
  <1> QED BY <1>1, <1>2, <1>3 DEF EntriesFollow, EntryAfter, Verdict

LEMMA NextFollows == EntriesFollow /\ [ReportsNext]_reportsVars => EntriesFollow'
  <1> SUFFICES ASSUME EntriesFollow, [ReportsNext]_reportsVars PROVE EntriesFollow'
    OBVIOUS
  <1>1. ASSUME NEW d \in Deps, RegisterDep(d) PROVE EntriesFollow'
    <2>1. /\ Register(states[d]) = EntryAfter(fails[d])
          /\ fails' = [fails EXCEPT ![d] = fails[d]] /\ fails[d] \in Nat
      BY <1>1, FreshEntry, CountedEntryExists DEF RegisterDep, Register, Ensure, EntriesFollow
    <2> QED BY <1>1, <2>1, OneEntry DEF RegisterDep
  <1>2. ASSUME NEW d \in Deps, ReporterSuccess(d) PROVE EntriesFollow'
    <2>1. ReportSuccess(states[d]) = EntryAfter(0)
      BY FreshEntry
    <2> QED BY <1>2, <2>1, OneEntry DEF ReporterSuccess
  <1>3. ASSUME NEW d \in Deps, ReporterFailure(d) PROVE EntriesFollow'
    <2>1. ReportFailure(states[d]) = EntryAfter(fails[d] + 1) /\ fails[d] + 1 \in Nat
      BY OneMoreFailure DEF EntriesFollow
    <2> QED BY <1>3, <2>1, OneEntry DEF ReporterFailure
  <1>4. ASSUME NEW d \in Deps, RemoveDep(d) PROVE EntriesFollow'
    <2>1. Remove(states[d]) = NoEntry
      BY DEF Remove
    <2> QED BY <1>4, <2>1, OneEntry DEF RemoveDep
  <1>5. CASE UNCHANGED reportsVars
    BY <1>5 DEF reportsVars, EntriesFollow, EntryAfter, Verdict
  <1> QED BY <1>1, <1>2, <1>3, <1>4, <1>5 DEF ReportsNext

LEMMA FollowingSuffices == EntriesFollow => StatusFollowsFailures
  BY DEF EntriesFollow, StatusFollowsFailures, EntryAfter

\* Whatever the thresholds, in either order and 0 or less included, the status
\* and circuit of a dependency that is only reported on are a function of its
\* failures in a row (ReportSuccess and ReportFailure of the store).
THEOREM VerdictHolds == ReportsSpec => []StatusFollowsFailures
  BY InitFollows, NextFollows, FollowingSuffices, PTL DEF ReportsSpec

-----------------------------------------------------------------------------
\* The store under the check cache.

\* Results are kept for the callers, and only a passive check's are cached.
ResultInv ==
  /\ result \in [Callers -> Status \cup {Nil}]
  /\ \A c \in Callers : pc[c] = "put" => ttl > 0

\* A call that has begun beside no other is still alone.
AloneInv ==
  ~overlapped => \A c, d \in Callers : pc[c] # "idle" /\ pc[d] # "idle" => c = d

\* Such a call found nothing valid, and nothing is until it has cached its result.
CachedInv ==
  ~overlapped => \A c \in Callers :
    /\ pc[c] \in {"exec", "answered", "put"} => ~Valid
    /\ pc[c] \in {"report", "set"} => (Valid => cached.status = result[c])

\* The report it has made is about the status it will set.
ReportInv ==
  /\ ran => entry # NoEntry
  /\ ~overlapped => \A c \in Callers :
       pc[c] = "set" =>
         entry # NoEntry /\ (result[c] = StatusUp <=> entry.FailureCount = 0)

IInv ==
  /\ TypeOK /\ ResultInv /\ AloneInv /\ CachedInv /\ ReportInv
  /\ CacheAndStoreAgree /\ CountsMatchStatus

\* A result is not the absence of one.
LEMMA ResultExists ==
  ASSUME NEW s, NEW n PROVE [status |-> s, left |-> n] # NoResult
  <1> DEFINE r == [status |-> s, left |-> n]
  <1>1. "left" \in DOMAIN r /\ "left" \notin DOMAIN NoResult
    BY DEF NoResult
  <1> QED
    BY <1>1

-----------------------------------------------------------------------------
LEMMA InitIInv == Init => IInv
  <1> SUFFICES ASSUME Init PROVE IInv
    OBVIOUS
  <1>1. entry \in Entry \cup {NoEntry}
    BY InitialStatusSet, CheckCacheAssumption DEF Init
  <1>2. ~Valid /\ ~ran
    BY DEF Init, Valid
  <1>3. TypeOK /\ ResultInv
    BY <1>1, CheckCacheAssumption DEF Init, TypeOK, ResultInv, Behaviour, Status, StatusUnknown
  <1> QED
    BY <1>2, <1>3
    DEF Init, IInv, AloneInv, CachedInv, ReportInv, CacheAndStoreAgree, CountsMatchStatus

\* The invariant of a step that begins no call, caches nothing and reports nothing.
LEMMA QuietStep ==
  ASSUME IInv, TypeOK', ResultInv',
         entry' = entry, cached' = cached, ran' = ran,
         \A c \in Callers : pc'[c] # "idle" => pc[c] # "idle",
         overlapped' \/ (overlapped' = overlapped /\ \A c \in Callers :
           /\ pc'[c] = "idle" => pc[c] = "idle"
           /\ pc'[c] \in {"exec", "answered", "put"} => pc[c] \in {"exec", "answered", "put"}
           /\ pc'[c] \in {"report", "set"} =>
                \/ pc'[c] = pc[c] /\ result'[c] = result[c]
                \/ pc'[c] = "report" /\ ~Valid)
  PROVE  IInv'
  <1>1. Valid' = Valid
    BY DEF Valid
  <1>2. AloneInv' /\ CachedInv' /\ ReportInv'
    BY <1>1 DEF IInv, AloneInv, CachedInv, ReportInv
  <1>3. AtRest' /\ ~overlapped' => AtRest /\ ~overlapped
    BY DEF AtRest
  <1> QED
    BY <1>1, <1>2, <1>3 DEF IInv, CacheAndStoreAgree, CountsMatchStatus

LEMMA MissInductive ==
  ASSUME IInv, NEW c \in Callers, Miss(c) PROVE IInv'
  <1>1. /\ pc[c] = "idle" /\ ~Valid /\ pc' = [pc EXCEPT ![c] = "exec"]
        /\ overlapped' = ~AtRest
        /\ UNCHANGED <<ttl, health, cached, entry, result, abandoned, ran>>
    BY DEF Miss
  <1>2. ~Valid' /\ ~AtRest'
    BY <1>1 DEF Valid, AtRest, IInv, TypeOK
  <1>3. TypeOK' /\ ResultInv'
    BY <1>1 DEF IInv, TypeOK, ResultInv, AtRest
  <1>4. ~overlapped' => \A d \in Callers : pc'[d] # "idle" => d = c
    BY <1>1 DEF AtRest, IInv, TypeOK
  <1>5. AloneInv' /\ CachedInv' /\ ReportInv'
    BY <1>1, <1>2, <1>4 DEF IInv, TypeOK, AloneInv, CachedInv, ReportInv
  <1> QED
    BY <1>2, <1>3, <1>5 DEF IInv, CacheAndStoreAgree, CountsMatchStatus

LEMMA FnAnswersInductive ==
  ASSUME IInv, NEW c \in Callers, FnAnswers(c) PROVE IInv'
  <1>1. /\ pc[c] = "exec" /\ pc' = [pc EXCEPT ![c] = "answered"]
        /\ health # Hanging
        /\ result' = [result EXCEPT ![c] = IF health = Panicking THEN StatusDown ELSE health]
        /\ UNCHANGED <<ttl, health, cached, entry, abandoned, ran, overlapped>>
    BY DEF FnAnswers
  <1>2. (IF health = Panicking THEN StatusDown ELSE health) \in Status \cup {Nil}
    BY <1>1, CheckCacheAssumption DEF IInv, TypeOK, Behaviour, Status
  <1>3. TypeOK' /\ ResultInv'
    BY <1>1, <1>2 DEF IInv, TypeOK, ResultInv
  <1> QED
    BY <1>1, <1>3, QuietStep DEF IInv, TypeOK, ResultInv

\* Execute has its result, the function's or the timeout's.
LEMMA ObtainedInductive ==
  ASSUME IInv, NEW c \in Callers, ReceiveResult(c) \/ TimeOut(c) PROVE IInv'
  <1>1. PICK s \in Status : Obtained(c, s)
    BY DEF ReceiveResult, TimeOut, Status, IInv, TypeOK
  <1>2. /\ pc[c] \in {"exec", "answered"} /\ abandoned' \in BOOLEAN
        /\ UNCHANGED <<ttl, health, cached, entry, ran, overlapped>>
    BY DEF ReceiveResult, TimeOut, IInv, TypeOK
  <1>3. /\ result' = [result EXCEPT ![c] = s]
        /\ pc' = [pc EXCEPT ![c] = IF ttl > 0 THEN "put" ELSE "report"]
    BY <1>1 DEF Obtained
  <1>4. TypeOK' /\ ResultInv'
    BY <1>2, <1>3 DEF IInv, TypeOK, ResultInv
  <1>5. overlapped \/ ~Valid
    BY <1>2 DEF IInv, CachedInv
  <1> QED
    BY <1>2, <1>3, <1>4, <1>5, QuietStep DEF IInv, TypeOK, ResultInv

LEMMA ReceiveNilInductive ==
  ASSUME IInv, NEW c \in Callers, ReceiveNil(c) PROVE IInv'
  <1>1. /\ pc' = [pc EXCEPT ![c] = "idle"]
        /\ result' = [result EXCEPT ![c] = StatusUnknown]
        /\ overlapped' = TRUE
        /\ UNCHANGED <<ttl, health, cached, entry, abandoned, ran>>
    BY DEF ReceiveNil
  <1>2. TypeOK' /\ ResultInv'
    BY <1>1 DEF IInv, TypeOK, ResultInv, Status
  <1> QED
    BY <1>1, <1>2, QuietStep DEF IInv, TypeOK

LEMMA PutInductive ==
  ASSUME IInv, NEW c \in Callers, Put(c) PROVE IInv'
  <1>1. /\ pc[c] = "put" /\ pc' = [pc EXCEPT ![c] = "report"]
        /\ cached' = [status |-> result[c], left |-> ttl]
        /\ UNCHANGED <<ttl, health, entry, result, abandoned, ran, overlapped>>
    BY DEF Put
  <1>2. ttl > 0 /\ result[c] \in Status
    BY <1>1 DEF IInv, TypeOK, ResultInv
  <1>3. TypeOK' /\ ResultInv'
    <2>1. ttl \in 0..ttl
      BY CheckCacheAssumption DEF IInv, TypeOK
    <2> QED
      BY <1>1, <1>2, <2>1 DEF IInv, TypeOK, ResultInv
  <1>4. ~AtRest'
    BY <1>1 DEF AtRest, IInv, TypeOK
  <1>5. ~overlapped' => \A d \in Callers : pc'[d] # "idle" => d = c
    BY <1>1 DEF IInv, TypeOK, AloneInv
  <1>6. AloneInv' /\ CachedInv' /\ ReportInv'
    BY <1>1, <1>5 DEF IInv, TypeOK, AloneInv, CachedInv, ReportInv
  <1> QED
    BY <1>3, <1>4, <1>6 DEF IInv, CacheAndStoreAgree, CountsMatchStatus

LEMMA ReportInductive ==
  ASSUME IInv, NEW c \in Callers, Report(c) PROVE IInv'
  <1>1. /\ pc[c] = "report" /\ pc' = [pc EXCEPT ![c] = "set"]
        /\ entry' = ReportResult(entry, result[c])
        /\ UNCHANGED <<ttl, health, cached, result, abandoned, ran, overlapped>>
    BY DEF Report
  <1>2. result[c] \in Status
    BY <1>1 DEF IInv, TypeOK
  <1>3. /\ entry' \in Entry /\ entry' # NoEntry
        /\ entry'.FailureCount = 0 <=> result[c] = StatusUp
    BY <1>1, <1>2, ReportedResult, EntryExists DEF IInv, TypeOK
  <1>4. TypeOK' /\ ResultInv'
    BY <1>1, <1>3 DEF IInv, TypeOK, ResultInv
  <1>5. ~AtRest' /\ (Valid' <=> Valid)
    BY <1>1 DEF AtRest, Valid, IInv, TypeOK
  <1>6. ~overlapped' => \A d \in Callers : pc'[d] # "idle" => d = c
    BY <1>1 DEF IInv, TypeOK, AloneInv
  <1>7. AloneInv' /\ CachedInv' /\ ReportInv'
    BY <1>1, <1>3, <1>5, <1>6 DEF IInv, TypeOK, AloneInv, CachedInv, ReportInv
  <1> QED
    BY <1>4, <1>5, <1>7 DEF IInv, CacheAndStoreAgree, CountsMatchStatus

\* The call ends, and if it was alone cache and store show its result.
LEMMA SetInductive ==
  ASSUME IInv, NEW c \in Callers, Set(c) PROVE IInv'
  <1>1. /\ pc[c] = "set" /\ pc' = [pc EXCEPT ![c] = "idle"]
        /\ entry' = SetStatus(entry, result[c]) /\ ran' = TRUE
        /\ result' = [result EXCEPT ![c] = StatusUnknown]
        /\ UNCHANGED <<ttl, health, cached, abandoned, overlapped>>
    BY DEF Set
  <1>2. result[c] \in Status
    BY <1>1 DEF IInv, TypeOK
  <1>3. entry' \in Entry /\ entry' # NoEntry /\ entry'.Status = result[c]
    BY <1>1, <1>2, StatusSet, InitialStatusSet, EntryExists DEF IInv, TypeOK, SetStatus
  <1>4. TypeOK' /\ ResultInv'
    BY <1>1, <1>3 DEF IInv, TypeOK, ResultInv, Status
  <1>5. Valid' <=> Valid
    BY <1>1 DEF Valid
  <1>6. ~overlapped' => \A d \in Callers : pc'[d] = "idle"
    BY <1>1 DEF IInv, TypeOK, AloneInv
  <1>7. AloneInv' /\ CachedInv' /\ ReportInv'
    BY <1>3, <1>6 DEF AloneInv, CachedInv, ReportInv
  <1>8. CacheAndStoreAgree'
    BY <1>1, <1>3, <1>5 DEF IInv, CachedInv, CacheAndStoreAgree
  <1>9. CountsMatchStatus'
    BY <1>1, <1>2, <1>3, StatusSet DEF IInv, TypeOK, ReportInv, CountsMatchStatus
  <1> QED
    BY <1>4, <1>7, <1>8, <1>9 DEF IInv

\* What is cached is dropped, or grows older: nothing becomes valid.
LEMMA ForgetInductive ==
  ASSUME IInv, Invalidate \/ Tick PROVE IInv'
  <1>1. UNCHANGED <<ttl, health, entry, calls, abandoned, ran, overlapped>>
    BY DEF Invalidate, Tick
  <1>2. /\ Valid' => (Valid /\ cached'.status = cached.status)
        /\ cached' \in [status : Status, left : 0..ttl] \cup {NoResult}
        /\ cached' # NoResult => ttl > 0
    BY CheckCacheAssumption DEF Invalidate, Tick, Valid, IInv, TypeOK
  <1>3. TypeOK' /\ ResultInv'
    BY <1>1, <1>2 DEF IInv, TypeOK, ResultInv, calls
  <1> QED
    BY <1>1, <1>2, <1>3
    DEF IInv, AloneInv, CachedInv, ReportInv, CacheAndStoreAgree, CountsMatchStatus, AtRest, calls

LEMMA NextInductive == IInv /\ [Next]_vars => IInv'
  <1> SUFFICES ASSUME IInv, [Next]_vars PROVE IInv'
    OBVIOUS
  <1>1. CASE FnAnswersNobody \/ (\E h \in Behaviour : HealthChanges(h)) \/ UNCHANGED vars
    <2>1. TypeOK' /\ ResultInv' /\ UNCHANGED <<cached, entry, calls, ran, overlapped>>
      BY <1>1 DEF FnAnswersNobody, HealthChanges, vars, IInv, TypeOK, ResultInv, calls
    <2> QED
      BY <2>1, QuietStep DEF calls
  <1> QED
    BY <1>1, MissInductive, FnAnswersInductive, ObtainedInductive, ReceiveNilInductive,
       PutInductive, ReportInductive, SetInductive, ForgetInductive
    DEF Next, Execute

-----------------------------------------------------------------------------
\* The cached result, the entry and the results on their way keep their types;
\* a nil result gets no further than the channel.
THEOREM TypeCorrect == Spec => []TypeOK
  <1>1. IInv => TypeOK
    BY DEF IInv
  <1> QED
    BY InitIInv, NextInductive, <1>1, PTL DEF Spec

\* Once calls that overlapped nobody have returned, cache and store tell the
\* same story.
THEOREM CacheAgreesWithStore == Spec => []CacheAndStoreAgree
  <1>1. IInv => CacheAndStoreAgree
    BY DEF IInv
  <1> QED
    BY InitIInv, NextInductive, <1>1, PTL DEF Spec

\* And the entry's count is about the status it shows.
THEOREM CountsAreOfTheStatus == Spec => []CountsMatchStatus
  <1>1. IInv => CountsMatchStatus
    BY DEF IInv
  <1> QED
    BY InitIInv, NextInductive, <1>1, PTL DEF Spec
=============================================================================
