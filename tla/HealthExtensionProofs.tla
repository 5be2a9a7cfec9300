------------------------ MODULE HealthExtensionProofs ------------------------
(***************************************************************************)
(* Proofs about the extension, for any checks, declared or late, active or *)
(* passive, whatever they answer, and any TTL and thresholds.              *)
(*                                                                         *)
(* DeclaredAreKnown speaks of the time after OnStart, so that it is not    *)
(* inductive: the invariant follows a declared check through the phases    *)
(* before, from its registration to the result of the initial pass and to  *)
(* its entry.                                                              *)
(***************************************************************************)
EXTENDS HealthExtension, TLAPS

\* The registry's proofs, about the registry the extension has.
RP == INSTANCE RegistryProofs WITH
  Names     <- Checks,
  NameOf    <- [c \in Checks |-> c],
  IsActive  <- [c \in Checks |-> c \in ActiveChecks],
  MaxStarts <- 1

Booting == phase \in {"new", "declaring", "initialized", "initial"}

\* Nothing is served and no goroutine runs before StartTicker; /live, /ready
\* and /status are what is left to do in "routes".
BootInv ==
  /\ Booting => routes = 0 /\ pc[Ticker] = "none"
  /\ phase = "routes" => routes < 3

\* Only a pass has a result between its two store calls.
HalfInv == half # NoHalf => pc[Ticker] = "report"

\* A declared check is registered by OnInitialize or not at all.  When OnStart
\* has executed the checks its result is in the store or on its way there, and
\* from the registration of the routes on it is there.
KnownInv ==
  \A c \in Declared \cap R!Registered :
    /\ phase = "initial" => entries[c] # NoEntry \/ c \in DOMAIN results
    /\ phase = "routes" \/ routes > 0 => entries[c] # NoEntry

IInv == TypeOK /\ BootInv /\ HalfInv /\ KnownInv

-----------------------------------------------------------------------------
\* The extension's ticker is the registry's.

\* Whatever the extension does, the registry takes a step of its own or none.
LEMMA RegistryStep == Next => [R!Next]_R!vars
  <1> SUFFICES ASSUME Next PROVE [R!Next]_R!vars
    OBVIOUS
  <1> USE DEF R!Next
  <1>1. CASE UNCHANGED registryVars
    BY <1>1 DEF registryVars, R!vars, R!registryVars, R!tickerVars
  <1>2. CASE BeginInitialize
    BY <1>2 DEF BeginInitialize
  <1>3. ASSUME NEW c \in Checks, RegisterDeclared(c) \/ RegisterCheck(c) PROVE R!Next
    BY <1>3 DEF RegisterDeclared, RegisterCheck
  <1>4. ASSUME NEW c \in Checks, UnregisterCheck(c) PROVE R!Next
    BY <1>4 DEF UnregisterCheck
  <1>5. CASE StartTicker
    BY <1>1, <1>5 DEF StartTicker
  <1>6. CASE OnStop
    BY <1>1, <1>6 DEF OnStop
  <1>7. CASE BeginPass \/ TickerLoop \/ TickerStops \/ Fire \/ \E c \in Checks : SetCheck(c)
    <2>1. Ticker \in R!Goroutines
      BY DEF Ticker, R!Goroutines
    <2> QED
      BY <1>7, <2>1 DEF BeginPass, TickerLoop, TickerStops, Fire, SetCheck, R!Work
  <1> QED
    BY <1>1, <1>2, <1>3, <1>4, <1>5, <1>6, <1>7
    DEF Next, OnStart, Polling, FinishInitialize, ExecuteInitial, RecordInitial,
        RegisterRoute, ReportCheck, RemoveDep, Request, GatedRequest, HealthChanges, Tick

LEMMA RegistryInit == Init => R!Init
  BY DEF Init

\* R and RP are two instances of the same definitions.
LEMMA SameRegistry ==
  /\ R!Init <=> RP!Init
  /\ [R!Next]_R!vars <=> [RP!Next]_RP!vars
  /\ R!TypeOK <=> RP!TypeOK
  /\ R!TickerAlive <=> RP!TickerAlive
  /\ R!ChannelsRetired <=> RP!ChannelsRetired
  <1> USE DEF R!NoCheck, RP!NoCheck, R!Goroutines, RP!Goroutines, R!Channels, RP!Channels,
              R!registryVars, RP!registryVars, R!tickerVars, RP!tickerVars
  <1>1. R!Init <=> RP!Init
    BY DEF R!Init, RP!Init
  <1>2. R!TypeOK <=> RP!TypeOK
    BY DEF R!TypeOK, RP!TypeOK
  <1>3. R!TickerAlive <=> RP!TickerAlive
    BY DEF R!TickerAlive, RP!TickerAlive, R!Alive, RP!Alive
  <1>4. R!ChannelsRetired <=> RP!ChannelsRetired
    BY DEF R!ChannelsRetired, RP!ChannelsRetired
  <1>5. R!Next <=> RP!Next
    <2>1. \A c \in Checks : /\ R!Register(c) <=> RP!Register(c)
                            /\ R!Unregister(c) <=> RP!Unregister(c)
      BY DEF R!Register, RP!Register, R!Unregister, RP!Unregister
    <2>2. /\ R!SetResolver <=> RP!SetResolver
          /\ R!Start <=> RP!Start
          /\ R!Stop <=> RP!Stop
      BY DEF R!SetResolver, RP!SetResolver, R!Registered, RP!Registered,
             R!Start, RP!Start, R!Stop, RP!Stop
    <2>3. \A g \in 1..1 : /\ R!Work(g) <=> RP!Work(g)
                          /\ R!StopBranch(g) <=> RP!StopBranch(g)
                          /\ R!Fire(g) <=> RP!Fire(g)
      BY DEF R!Work, RP!Work, R!BeginPass, RP!BeginPass, R!Report, RP!Report,
             R!GetActiveChecks, RP!GetActiveChecks,
             R!FinishPass, RP!FinishPass, R!EnterSelect, RP!EnterSelect,
             R!TickBranch, RP!TickBranch, R!StopBranch, RP!StopBranch, R!Fire, RP!Fire
    <2> QED
      BY <2>1, <2>2, <2>3 DEF R!Next, RP!Next
  <1>6. R!vars = RP!vars /\ R!vars' = RP!vars'
    BY DEF R!vars, RP!vars
  <1> QED
    BY <1>1, <1>2, <1>3, <1>4, <1>5, <1>6

LEMMA RegistryAssumed == RP!RegistryAssumption /\ RP!NoCheckAssumption
  <1>1. RP!RegistryAssumption
    BY DEF RP!RegistryAssumption
  <1>2. RP!NoCheckAssumption
    BY NoCheckAssumption DEF RP!NoCheckAssumption, RP!NoCheck, R!NoCheck
  <1> QED
    BY <1>1, <1>2

\* The registry inside the extension is one that is started and stopped as the
\* registry's module allows (extension.go: OnInitialize, OnStart, OnStop).
THEOREM IsRegistry == Spec => R!Spec
  <1>1. [Next]_vars => [R!Next]_R!vars
    BY RegistryStep DEF vars, registryVars, R!vars, R!registryVars, R!tickerVars
  <1> QED
    BY RegistryInit, <1>1, PTL DEF Spec, R!Spec

LEMMA RegistryInvariants == Spec => [](R!TypeOK /\ R!TickerAlive /\ R!ChannelsRetired)
  <1>1. R!Spec => RP!Spec
    BY SameRegistry, PTL DEF R!Spec, RP!Spec
  <1>2. RP!Spec => []RP!TypeOK
    BY RP!TypeCorrect, RegistryAssumed
  <1>3. RP!Spec => []RP!TickerAlive
    BY RP!AlwaysTicking, RegistryAssumed
  <1>4. RP!Spec => []RP!ChannelsRetired
    BY RP!OldChannelsClosed, RegistryAssumed
  <1> QED
    BY IsRegistry, SameRegistry, <1>1, <1>2, <1>3, <1>4, PTL

-----------------------------------------------------------------------------
\* The operators the extension is built from.

LEMMA EntryExists == \A e \in Entry : e # NoEntry
  <1> SUFFICES ASSUME NEW e \in Entry PROVE e # NoEntry
    OBVIOUS
  <1>1. "Status" \in DOMAIN e /\ "Status" \notin DOMAIN NoEntry
    BY DEF Entry, NoEntry
  <1> QED
    BY <1>1

\* Whatever is reported or set makes an entry, be there one before or not.
LEMMA EntryMade ==
  ASSUME NEW e \in Entry \cup {NoEntry}, NEW s \in Status
  PROVE  ReportResult(e, s) \in Entry /\ SetStatus(e, s) \in Entry
  <1>1. FailureCountCap \in Nat \ {0}
    BY StoreConfigAssumption DEF FailureCountCap, Larger
  <1>2. Ensure(e) \in Entry
    BY <1>1 DEF Ensure, Entry, NewDepState, Status, CircuitState
  <1>3. CountFailure(Ensure(e).FailureCount) \in 0..FailureCountCap
    BY <1>1, <1>2 DEF CountFailure, Entry
  <1>4. ReportSuccess(e) \in Entry
    BY <1>1 DEF ReportSuccess, Entry, Status, CircuitState
  <1>5. ReportFailure(e) \in Entry
    BY <1>2, <1>3 DEF ReportFailure, Entry, Status, CircuitState
  <1>6. SetStatus(e, s) \in Entry
    BY <1>2 DEF SetStatus, Entry
  <1> QED
    BY <1>4, <1>5, <1>6 DEF ReportResult

\* The worst of some statuses is one of them, or UP.
LEMMA OverallIsStatus ==
  ASSUME NEW S \in SUBSET Status
  PROVE  ComputeOverallStatus(S) \in Status
  <1> DEFINE T == {StatusUp} \cup S
  <1>1. T \subseteq 0..3 /\ 0 \in T
    BY DEF Status, StatusUp, StatusDegraded, StatusDown, StatusUnknown
  <1>2. \E x \in T : \A y \in T : x >= y
    <2>1. CASE 3 \in T
      BY <1>1, <2>1
    <2>2. CASE 3 \notin T /\ 2 \in T
      BY <1>1, <2>2
    <2>3. CASE 3 \notin T /\ 2 \notin T /\ 1 \in T
      BY <1>1, <2>3
    <2>4. CASE 3 \notin T /\ 2 \notin T /\ 1 \notin T
      BY <1>1, <2>4
    <2> QED
      BY <2>1, <2>2, <2>3, <2>4
  <1>3. Max(T) \in T
    BY <1>2 DEF Max
  <1> QED
    BY <1>1, <1>3 DEF ComputeOverallStatus, Status

\* A snapshot is built of what the checks answer and of entries.
LEMMA BuiltStatuses == TypeOK => \A k \in Kinds : Built(k) \subseteq Status
  <1> SUFFICES ASSUME TypeOK, NEW k \in Kinds PROVE Built(k) \subseteq Status
    OBVIOUS
  <1>1. \A c \in ChecksOf(k) : c \in Checks
    BY DEF ChecksOf, R!Registered, TypeOK, R!TypeOK
  <1>2. \A c \in Checks : health[c] \in Status
    BY ExtensionAssumption DEF TypeOK
  <1>3. \A d \in Checks : entries[d] # NoEntry => entries[d].Status \in Status
    BY DEF TypeOK, Entry
  <1> QED
    BY <1>1, <1>2, <1>3 DEF Built

LEMMA RegisteredChecks == R!TypeOK => R!Registered \subseteq Checks /\ R!GetActiveChecks \subseteq Checks
  BY DEF R!TypeOK, R!Registered, R!GetActiveChecks

-----------------------------------------------------------------------------
LEMMA InitIInv == Init /\ R!TypeOK => IInv
  <1> SUFFICES ASSUME Init, R!TypeOK PROVE IInv
    OBVIOUS
  <1>1. DOMAIN results = {}
    BY DEF Init
  <1>2. pc[Ticker] = "none"
    BY DEF Init, R!Init, Ticker, R!Goroutines
  <1>3. NoSnapshot \in [overall : Status, left : 0..SnapshotTTL]
    BY ExtensionAssumption DEF NoSnapshot, Status, StatusUp
  <1>4. R!Registered = {}
    BY DEF Init, R!Init, R!Registered
  <1>5. TypeOK
    BY <1>1, <1>2, <1>3 DEF Init, TypeOK
  <1> QED
    BY <1>2, <1>4, <1>5 DEF IInv, BootInv, HalfInv, KnownInv, Init

-----------------------------------------------------------------------------
\* The steps, given what is known of the registry after each.

\* A step that leaves results, entries and the life cycle alone, registers no
\* declared check and begins no pass.
LEMMA QuietStep ==
  ASSUME IInv, R!TypeOK',
         UNCHANGED <<phase, routes, results, half, health, entries, snaps>>,
         Declared \cap R!Registered' \subseteq R!Registered,
         pc'[Ticker] = "report" => pc[Ticker] = "report" /\ todo'[Ticker] = todo[Ticker],
         half # NoHalf => pc'[Ticker] = pc[Ticker],
         Booting => pc'[Ticker] = pc[Ticker]
  PROVE  IInv'
  <1>1. TypeOK'
    BY DEF IInv, TypeOK
  <1>2. BootInv' /\ HalfInv'
    BY DEF IInv, BootInv, HalfInv, Booting
  <1>3. KnownInv'
    BY DEF IInv, KnownInv
  <1> QED
    BY <1>1, <1>2, <1>3 DEF IInv

\* Steps that change the store, the snapshots or the checks' answers only; an
\* entry may go when its check is not registered.
LEMMA DataStep ==
  ASSUME IInv, UNCHANGED <<registryVars, lifeVars, results>>,
         half' \in DOMAIN results \cup {NoHalf},
         half' # NoHalf => pc[Ticker] = "report",
         \A c \in Checks : health'[c] \in Answers[c],
         entries' \in [Checks -> Entry \cup {NoEntry}],
         \A c \in R!Registered : entries[c] # NoEntry => entries'[c] # NoEntry,
         snaps' \in [Kinds -> [overall : Status, left : 0..SnapshotTTL]]
  PROVE  IInv'
  <1>1. R!TypeOK' /\ R!Registered' = R!Registered
    BY DEF IInv, TypeOK, R!TypeOK, R!Registered, registryVars
  <1>2. TypeOK'
    BY <1>1 DEF IInv, TypeOK, registryVars, lifeVars
  <1>3. BootInv' /\ HalfInv'
    BY DEF IInv, BootInv, HalfInv, Booting, registryVars, lifeVars
  <1>4. KnownInv'
    BY <1>1 DEF IInv, KnownInv, lifeVars
  <1> QED
    BY <1>2, <1>3, <1>4 DEF IInv

\* OnInitialize.
LEMMA OnInitializeInductive ==
  ASSUME IInv, R!TypeOK',
         BeginInitialize \/ FinishInitialize \/ \E c \in Checks : RegisterDeclared(c)
  PROVE  IInv'
  <1>1. /\ Booting /\ phase # "initial" /\ phase' \in {"declaring", "initialized", "failed"}
        /\ UNCHANGED <<routes, results, half, health, entries, snaps, pc, todo>>
    BY DEF BeginInitialize, FinishInitialize, RegisterDeclared, R!SetResolver, R!Register,
           R!tickerVars, Booting, passVars, lifeVars, registryVars
  <1>2. TypeOK'
    BY <1>1 DEF IInv, TypeOK
  <1>3. BootInv' /\ HalfInv' /\ KnownInv'
    BY <1>1 DEF IInv, BootInv, HalfInv, KnownInv, Booting
  <1> QED
    BY <1>2, <1>3 DEF IInv

\* OnStart executes every check that is registered ...
LEMMA ExecuteInitialInductive ==
  ASSUME IInv, ExecuteInitial PROVE IInv'
  <1>1. /\ phase = "initialized" /\ phase' = "initial"
        /\ results' = [c \in R!Registered |-> health[c]]
        /\ UNCHANGED <<routes, half, health, entries, snaps, pc, todo>>
        /\ R!TypeOK' /\ R!Registered' = R!Registered
    BY DEF ExecuteInitial, Restrict, registryVars, R!Registered, R!TypeOK, IInv, TypeOK
  <1>2. pc[Ticker] = "none" /\ half = NoHalf /\ routes = 0
    BY <1>1 DEF IInv, BootInv, HalfInv, Booting
  <1>3. R!Registered \subseteq Checks
    BY RegisteredChecks DEF IInv, TypeOK
  <1>4. TypeOK'
    BY <1>1, <1>2, <1>3 DEF IInv, TypeOK
  <1>5. BootInv' /\ HalfInv' /\ KnownInv'
    BY <1>1, <1>2 DEF BootInv, HalfInv, KnownInv, Booting
  <1> QED
    BY <1>4, <1>5 DEF IInv

\* ... and takes each result to the store.
LEMMA RecordInitialInductive ==
  ASSUME IInv, NEW c \in Checks, RecordInitial(c) PROVE IInv'
  <1>1. /\ phase = "initial" /\ c \in DOMAIN results
        /\ entries' = [entries EXCEPT ![c] = SetStatus(@, results[c])]
        /\ results' = [d \in DOMAIN results \ {c} |-> results[d]]
        /\ UNCHANGED <<phase, routes, half, health, snaps, pc, todo>>
        /\ R!TypeOK' /\ R!Registered' = R!Registered
    BY DEF RecordInitial, Recorded, Restrict, registryVars, lifeVars, R!Registered, R!TypeOK,
           IInv, TypeOK
  <1>2. pc[Ticker] = "none" /\ half = NoHalf /\ routes = 0
    BY <1>1 DEF IInv, BootInv, HalfInv, Booting
  <1>3. entries[c] \in Entry \cup {NoEntry} /\ results[c] \in Status
    BY <1>1, ExtensionAssumption DEF IInv, TypeOK
  <1>4. SetStatus(entries[c], results[c]) \in Entry
    BY <1>3, EntryMade
  <1>5. TypeOK'
    BY <1>1, <1>2, <1>4 DEF IInv, TypeOK
  <1>6. BootInv' /\ HalfInv'
    BY <1>1, <1>2 DEF BootInv, HalfInv, Booting
  <1>7. KnownInv'
    <2> SUFFICES ASSUME NEW d \in Declared \cap R!Registered
                 PROVE  entries'[d] # NoEntry \/ d \in DOMAIN results'
      BY <1>1, <1>2 DEF KnownInv
    <2>1. d \in Checks
      BY DEF Checks
    <2>2. CASE d = c
      BY <1>1, <1>4, <2>1, <2>2, EntryExists DEF IInv, TypeOK
    <2>3. CASE d # c
      BY <1>1, <2>1, <2>3 DEF IInv, TypeOK, KnownInv
    <2> QED
      BY <2>2, <2>3
  <1> QED
    BY <1>5, <1>6, <1>7 DEF IInv

\* The ticker starts when no result is left on its way.
LEMMA StartTickerInductive ==
  ASSUME IInv, R!TypeOK', StartTicker PROVE IInv'
  <1>1. /\ phase = "initial" /\ results = <<>> /\ phase' = "routes"
        /\ UNCHANGED <<routes, results, half, health, entries, snaps, checks>>
    BY DEF StartTicker, R!Start, R!registryVars, registryVars, passVars
  <1>2. DOMAIN results = {}
    BY <1>1
  <1>3. pc[Ticker] = "none" /\ half = NoHalf /\ routes = 0
    BY <1>1 DEF IInv, BootInv, HalfInv, Booting
  <1>4. pc'[Ticker] # "report"
    <2>1. CASE R!Start
      BY <1>3, <2>1 DEF R!Start, IInv, TypeOK, R!TypeOK, R!Goroutines, Ticker
    <2>2. CASE UNCHANGED registryVars
      BY <1>3, <2>2 DEF registryVars
    <2> QED
      BY <2>1, <2>2 DEF StartTicker
  <1>5. TypeOK'
    BY <1>1, <1>4 DEF IInv, TypeOK
  <1>6. BootInv' /\ HalfInv'
    BY <1>1, <1>3 DEF BootInv, HalfInv, Booting
  <1>7. KnownInv'
    BY <1>1, <1>2 DEF IInv, KnownInv, R!Registered
  <1> QED
    BY <1>5, <1>6, <1>7 DEF IInv

\* The routes, and OnStop, find the store complete and leave it alone.
LEMMA RegisterRouteInductive ==
  ASSUME IInv, R!TypeOK', RegisterRoute PROVE IInv'
  <1>1. /\ phase = "routes" /\ phase' \in {"routes", "serving", "failed"}
        /\ routes' \in {routes, routes + 1}
        /\ phase' = "routes" => routes # 2 /\ routes' = routes + 1
        /\ UNCHANGED <<results, half, health, entries, snaps, pc, todo, checks>>
    BY DEF RegisterRoute, registryVars, passVars
  <1>2. routes \in 0..2
    BY <1>1 DEF IInv, TypeOK, BootInv
  <1>3. TypeOK'
    BY <1>1, <1>2 DEF IInv, TypeOK
  <1>4. BootInv' /\ HalfInv' /\ KnownInv'
    BY <1>1, <1>2 DEF IInv, BootInv, HalfInv, KnownInv, Booting, R!Registered
  <1> QED
    BY <1>3, <1>4 DEF IInv

LEMMA OnStopInductive ==
  ASSUME IInv, R!TypeOK', OnStop PROVE IInv'
  <1>1. /\ phase' = "stopped"
        /\ UNCHANGED <<routes, results, half, health, entries, snaps, pc, todo, checks>>
    BY DEF OnStop, R!Stop, R!registryVars, R!tickerVars, registryVars, passVars
  <1>2. TypeOK'
    BY <1>1 DEF IInv, TypeOK
  <1>3. BootInv' /\ HalfInv' /\ KnownInv'
    BY <1>1 DEF IInv, BootInv, HalfInv, KnownInv, Booting, R!Registered
  <1> QED
    BY <1>2, <1>3 DEF IInv

\* A pass executes the active checks; nothing is between two calls yet.
LEMMA BeginPassInductive ==
  ASSUME IInv, R!TypeOK', BeginPass PROVE IInv'
  <1>1. /\ pc[Ticker] = "pass" /\ pc'[Ticker] = "report"
        /\ todo'[Ticker] = R!GetActiveChecks
        /\ results' = [c \in R!GetActiveChecks |-> health[c]]
        /\ UNCHANGED <<phase, routes, half, health, entries, snaps, checks>>
    BY DEF BeginPass, R!BeginPass, R!registryVars, Restrict, lifeVars, IInv, TypeOK, R!TypeOK,
           R!Goroutines, Ticker
  <1>2. half = NoHalf /\ ~Booting
    BY <1>1 DEF IInv, BootInv, HalfInv
  <1>3. R!GetActiveChecks \subseteq Checks
    BY RegisteredChecks DEF IInv, TypeOK
  <1>4. TypeOK'
    BY <1>1, <1>2, <1>3 DEF IInv, TypeOK
  <1>5. BootInv' /\ HalfInv' /\ KnownInv'
    BY <1>1, <1>2 DEF IInv, BootInv, HalfInv, KnownInv, Booting, R!Registered
  <1> QED
    BY <1>4, <1>5 DEF IInv

\* The first store call for a result ...
LEMMA ReportCheckInductive ==
  ASSUME IInv, NEW c \in Checks, ReportCheck(c) PROVE IInv'
  <1>1. /\ pc[Ticker] = "report" /\ c \in DOMAIN results /\ half' = c
        /\ entries' = [entries EXCEPT ![c] = ReportResult(@, results[c])]
        /\ UNCHANGED <<registryVars, lifeVars, results, health, snaps>>
    BY DEF ReportCheck
  <1>2. entries[c] \in Entry \cup {NoEntry} /\ results[c] \in Status
    BY <1>1, ExtensionAssumption DEF IInv, TypeOK
  <1>3. ReportResult(entries[c], results[c]) \in Entry
    BY <1>2, EntryMade
  <1>4. /\ entries' \in [Checks -> Entry \cup {NoEntry}]
        /\ \A d \in Checks : entries[d] # NoEntry => entries'[d] # NoEntry
    BY <1>1, <1>3, EntryExists DEF IInv, TypeOK
  <1>5. R!Registered \subseteq Checks
    BY RegisteredChecks DEF IInv, TypeOK
  <1> QED
    BY <1>1, <1>4, <1>5, DataStep DEF IInv, TypeOK

\* ... and the second, with which the ticker is done with it.
LEMMA SetCheckInductive ==
  ASSUME IInv, R!TypeOK', NEW c \in Checks, SetCheck(c) PROVE IInv'
  <1>1. /\ half = c /\ half' = NoHalf /\ pc[Ticker] = "report"
        /\ todo' = [todo EXCEPT ![Ticker] = @ \ {c}]
        /\ entries' = [entries EXCEPT ![c] = SetStatus(@, results[c])]
        /\ results' = [d \in DOMAIN results \ {c} |-> results[d]]
        /\ UNCHANGED <<phase, routes, health, snaps, checks, pc>>
    BY DEF SetCheck, R!Report, Recorded, Restrict, R!registryVars, lifeVars
  <1>2. c \in DOMAIN results /\ ~Booting
    BY <1>1, NoCheckAssumption DEF IInv, TypeOK, BootInv
  <1>3. entries[c] \in Entry \cup {NoEntry} /\ results[c] \in Status
    BY <1>2, ExtensionAssumption DEF IInv, TypeOK
  <1>4. SetStatus(entries[c], results[c]) \in Entry
    BY <1>3, EntryMade
  <1>5. todo'[Ticker] = DOMAIN results'
    BY <1>1 DEF IInv, TypeOK, R!TypeOK, R!Goroutines, Ticker
  <1>6. TypeOK'
    BY <1>1, <1>4, <1>5 DEF IInv, TypeOK
  <1>7. \A d \in Checks : entries[d] # NoEntry => entries'[d] # NoEntry
    BY <1>1, <1>4, EntryExists DEF IInv, TypeOK
  <1>8. BootInv' /\ HalfInv'
    BY <1>1, <1>2 DEF IInv, BootInv, HalfInv, Booting
  <1>9. KnownInv'
    BY <1>1, <1>2, <1>7 DEF IInv, KnownInv, Booting, R!Registered, Checks
  <1> QED
    BY <1>6, <1>8, <1>9 DEF IInv

\* What else the ticker does, between its passes.
LEMMA TickerInductive ==
  ASSUME IInv, R!TypeOK', TickerLoop \/ TickerStops \/ Fire PROVE IInv'
  <1>1. UNCHANGED <<phase, routes, results, half, health, entries, snaps, checks, todo>>
    BY DEF TickerLoop, TickerStops, Fire, R!FinishPass, R!EnterSelect, R!TickBranch,
           R!StopBranch, R!Fire, R!registryVars, lifeVars, passVars
  <1>2. CASE Fire
    BY <1>1, <1>2, QuietStep DEF Fire, R!Fire, R!Registered
  <1>3. CASE R!FinishPass(Ticker)
    <2>1. half = NoHalf /\ pc'[Ticker] = "loop" /\ pc[Ticker] = "report"
      BY <1>3 DEF R!FinishPass, IInv, TypeOK, R!TypeOK, R!Goroutines, Ticker
    <2>2. ~Booting
      BY <2>1 DEF IInv, BootInv
    <2> QED
      BY <1>1, <2>1, <2>2, QuietStep DEF R!Registered
  <1>4. CASE R!EnterSelect(Ticker) \/ R!TickBranch(Ticker) \/ R!StopBranch(Ticker)
    <2>1. pc[Ticker] \in {"loop", "select"} /\ pc'[Ticker] \in {"select", "pass", "done"}
      BY <1>4 DEF R!EnterSelect, R!TickBranch, R!StopBranch, IInv, TypeOK, R!TypeOK,
                  R!Goroutines, Ticker
    <2>2. half = NoHalf /\ ~Booting
      BY <2>1 DEF IInv, BootInv, HalfInv
    <2> QED
      BY <1>1, <2>1, <2>2, QuietStep DEF R!Registered
  <1> QED
    BY <1>2, <1>3, <1>4 DEF TickerLoop, TickerStops

\* The application registers no declared check, and the ticker does not mind.
LEMMA RegistrationInductive ==
  ASSUME IInv, R!TypeOK', NEW c \in Checks, RegisterCheck(c) \/ UnregisterCheck(c)
  PROVE  IInv'
  <1>1. UNCHANGED <<phase, routes, results, half, health, entries, snaps, pc, todo>>
    BY DEF RegisterCheck, UnregisterCheck, R!Register, R!Unregister, R!tickerVars, lifeVars,
           passVars
  <1>2. Declared \cap R!Registered' \subseteq R!Registered
    <2>1. CASE RegisterCheck(c)
      <3>1. c \notin Declared /\ checks' = [checks EXCEPT ![c] = c]
        BY <2>1, ExtensionAssumption DEF RegisterCheck, R!Register
      <3> QED
        BY <3>1 DEF R!Registered, IInv, TypeOK, R!TypeOK
    <2>2. CASE UnregisterCheck(c)
      BY <2>2 DEF UnregisterCheck, R!Unregister, R!Registered, IInv, TypeOK, R!TypeOK
    <2> QED
      BY <2>1, <2>2
  <1> QED
    BY <1>1, <1>2, QuietStep

\* An entry is removed once its check is not registered any more.
LEMMA RemoveDepInductive ==
  ASSUME IInv, NEW c \in Checks, RemoveDep(c) PROVE IInv'
  <1>1. /\ c \notin R!Registered /\ entries' = [entries EXCEPT ![c] = NoEntry]
        /\ UNCHANGED <<registryVars, lifeVars, passVars, health, snaps>>
    BY DEF RemoveDep, Remove
  <1>2. /\ entries' \in [Checks -> Entry \cup {NoEntry}]
        /\ \A d \in R!Registered : entries[d] # NoEntry => entries'[d] # NoEntry
    BY <1>1, RegisteredChecks DEF IInv, TypeOK
  <1> QED
    BY <1>1, <1>2, DataStep DEF passVars, IInv, TypeOK, HalfInv

\* Requests build snapshots and report passive checks.
LEMMA RequestInductive ==
  ASSUME IInv, NEW k \in Kinds, Request(k) PROVE IInv'
  <1>1. /\ snaps' = [snaps EXCEPT ![k] = [overall |-> ComputeOverallStatus(Built(k)),
                                          left    |-> SnapshotTTL]]
        /\ UNCHANGED <<registryVars, lifeVars, passVars, health, entries>>
    BY DEF Request
  <1>2. ComputeOverallStatus(Built(k)) \in Status
    BY BuiltStatuses, OverallIsStatus DEF IInv
  <1>3. snaps' \in [Kinds -> [overall : Status, left : 0..SnapshotTTL]]
    BY <1>1, <1>2, ExtensionAssumption DEF IInv, TypeOK
  <1> QED
    BY <1>1, <1>3, DataStep DEF passVars, IInv, TypeOK, HalfInv

LEMMA GatedRequestInductive ==
  ASSUME IInv, NEW c \in Checks, GatedRequest(c) PROVE IInv'
  <1>1. /\ entries' = [entries EXCEPT ![c] = SetStatus(ReportResult(@, health[c]), health[c])]
        /\ UNCHANGED <<registryVars, lifeVars, passVars, health, snaps>>
    BY DEF GatedRequest
  <1>2. entries[c] \in Entry \cup {NoEntry} /\ health[c] \in Status
    BY ExtensionAssumption DEF IInv, TypeOK
  <1>3. SetStatus(ReportResult(entries[c], health[c]), health[c]) \in Entry
    BY <1>2, EntryMade
  <1>4. /\ entries' \in [Checks -> Entry \cup {NoEntry}]
        /\ \A d \in Checks : entries[d] # NoEntry => entries'[d] # NoEntry
    BY <1>1, <1>3, EntryExists DEF IInv, TypeOK
  <1>5. R!Registered \subseteq Checks
    BY RegisteredChecks DEF IInv, TypeOK
  <1> QED
    BY <1>1, <1>4, <1>5, DataStep DEF passVars, IInv, TypeOK, HalfInv

\* The world: a check changes its answer, snapshots age.
LEMMA WorldInductive ==
  ASSUME IInv, Tick \/ \E c \in Checks : \E s \in Answers[c] : HealthChanges(c, s)
  PROVE  IInv'
  <1>1. CASE Tick
    <2>1. \A k \in Kinds : Aged(snaps[k]) \in [overall : Status, left : 0..SnapshotTTL]
      BY ExtensionAssumption DEF Aged, NoSnapshot, Status, StatusUp, IInv, TypeOK
    <2>2. snaps' \in [Kinds -> [overall : Status, left : 0..SnapshotTTL]]
      BY <1>1, <2>1 DEF Tick
    <2> QED
      BY <1>1, <2>2, DataStep DEF Tick, passVars, IInv, TypeOK, HalfInv
  <1>2. ASSUME NEW c \in Checks, NEW s \in Answers[c], HealthChanges(c, s) PROVE IInv'
    <2>1. \A d \in Checks : health'[d] \in Answers[d]
      BY <1>2 DEF HealthChanges, IInv, TypeOK
    <2> QED
      BY <1>2, <2>1, DataStep DEF HealthChanges, passVars, IInv, TypeOK, HalfInv
  <1> QED
    BY <1>1, <1>2

LEMMA NextInductive == IInv /\ R!TypeOK' /\ [Next]_vars => IInv'
  <1> SUFFICES ASSUME IInv, R!TypeOK', [Next]_vars PROVE IInv'
    OBVIOUS
  <1>1. CASE UNCHANGED vars
    <2>1. UNCHANGED <<registryVars, lifeVars, passVars, health, entries, snaps>>
      BY <1>1 DEF vars
    <2> QED
      BY <2>1, DataStep DEF passVars, IInv, TypeOK, HalfInv
  <1>2. ASSUME NEW c \in Checks,
               \/ RegisterCheck(c) \/ UnregisterCheck(c) \/ RemoveDep(c)
               \/ GatedRequest(c) \/ RecordInitial(c) \/ ReportCheck(c) \/ SetCheck(c)
        PROVE  IInv'
    BY <1>2, RegistrationInductive, RemoveDepInductive, GatedRequestInductive,
       RecordInitialInductive, ReportCheckInductive, SetCheckInductive
  <1> QED
    BY <1>1, <1>2, OnInitializeInductive, ExecuteInitialInductive, StartTickerInductive,
       RegisterRouteInductive, OnStopInductive, BeginPassInductive, TickerInductive,
       RequestInductive, WorldInductive
    DEF Next, OnStart, Polling

LEMMA Invariant == Spec => []IInv
  BY InitIInv, NextInductive, RegistryInvariants, PTL DEF Spec

-----------------------------------------------------------------------------
\* The life cycle, the results on their way, the store and the snapshots keep
\* their types, and what the ticker has left to report are the results it holds.
THEOREM TypeCorrect == Spec => []TypeOK
  <1>1. IInv => TypeOK
    BY DEF IInv
  <1> QED
    BY Invariant, <1>1, PTL

\* While the registry runs its only ticker is alive and waits on the channel that
\* OnStop will close: OnStop closes it once.
THEOREM TickerStaysAlive == Spec => []R!TickerAlive
  BY RegistryInvariants, PTL

\* From the first request on every declared check has a state that it answered
\* itself.
THEOREM DeclaredKnown == Spec => []DeclaredAreKnown
  <1>1. IInv => DeclaredAreKnown
    BY DEF IInv, KnownInv, DeclaredAreKnown, Serving
  <1> QED
    BY Invariant, <1>1, PTL

-----------------------------------------------------------------------------
\* OnStop.

\* Once OnStop has returned, a ticker that waits in select has a stop channel that
\* is closed, so that it may return at once, whatever pass it was in before.
StopReady == phase = "stopped" /\ pc[Ticker] = "select" => watch[Ticker] \in closed

THEOREM StopReachesTicker == Spec => []StopReady
  <1> DEFINE Off == phase = "stopped" => ~running
  <1>1. Init => Off
    BY DEF Init
  <1>2. Off /\ [Next]_vars => Off'
    <2> SUFFICES ASSUME Off, [Next]_vars PROVE Off'
      OBVIOUS
    <2>1. CASE OnStop
      BY <2>1 DEF OnStop, R!Stop, registryVars
    <2>2. CASE UNCHANGED <<phase, running>>
      BY <2>2
    <2>3. CASE phase' # "stopped"
      BY <2>3
    <2>4. CASE BeginInitialize \/ FinishInitialize \/ ExecuteInitial \/ StartTicker
               \/ RegisterRoute
      BY <2>4 DEF BeginInitialize, FinishInitialize, ExecuteInitial, StartTicker, RegisterRoute
    <2>5. CASE BeginPass \/ TickerLoop \/ TickerStops \/ Fire
      BY <2>5 DEF BeginPass, R!BeginPass, TickerLoop, R!FinishPass, R!EnterSelect,
                  R!TickBranch, TickerStops, R!StopBranch, Fire, R!Fire, lifeVars
    <2>6. ASSUME NEW c \in Checks,
                 \/ RegisterDeclared(c) \/ RegisterCheck(c) \/ UnregisterCheck(c)
                 \/ SetCheck(c)
          PROVE  UNCHANGED <<phase, running>>
      BY <2>6 DEF RegisterDeclared, RegisterCheck, UnregisterCheck, SetCheck, R!Register,
                  R!Unregister, R!Report, lifeVars
    <2>7. ASSUME NEW c \in Checks,
                 \/ RecordInitial(c) \/ ReportCheck(c) \/ RemoveDep(c) \/ GatedRequest(c)
                 \/ \E s \in Answers[c] : HealthChanges(c, s)
          PROVE  UNCHANGED <<phase, running>>
      BY <2>7 DEF RecordInitial, ReportCheck, RemoveDep, GatedRequest, HealthChanges,
                  lifeVars, registryVars
    <2>8. CASE Tick \/ (\E k \in Kinds : Request(k)) \/ UNCHANGED vars
      BY <2>8 DEF Tick, Request, vars, lifeVars, registryVars
    <2> QED
      BY <2>1, <2>2, <2>4, <2>5, <2>6, <2>7, <2>8 DEF Next, OnStart, Polling
  <1>3. R!TypeOK /\ R!ChannelsRetired /\ Off => StopReady
    BY DEF R!TypeOK, R!ChannelsRetired, R!Goroutines, R!Channels, StopReady, Ticker
  <1> QED
    BY RegistryInvariants, <1>1, <1>2, <1>3, PTL DEF Spec

-----------------------------------------------------------------------------
\* A passive dependency that is DOWN.

NoneUnknown == \A c \in Checks : StatusUnknown \notin Answers[c]

\* The entry of c is DOWN, and no readiness snapshot says anything better.
StuckDown(c) ==
  /\ Serving /\ Shows(c, StatusDown)
  /\ Valid("ready") => snaps["ready"].overall = StatusDown

\* /ready answers 503, and goes on doing so until the entry is removed.
DownForGood(c) == StuckDown(c) => Ready = 503 /\ (StuckDown(c)' \/ RemoveDep(c))

\* A passive check is in no pass.
PassiveUnpolled ==
  /\ \A n \in Checks : checks[n] \in {n, R!NoCheck}
  /\ todo[Ticker] \subseteq ActiveChecks

LEMMA NeverPolled == Spec => []PassiveUnpolled
  <1> USE DEF PassiveUnpolled, R!Goroutines, Ticker
  <1>1. R!Init => PassiveUnpolled
    BY DEF R!Init
  <1>2. PassiveUnpolled /\ R!TypeOK /\ [R!Next]_R!vars => PassiveUnpolled'
    <2> SUFFICES ASSUME PassiveUnpolled, R!TypeOK, [R!Next]_R!vars PROVE PassiveUnpolled'
      OBVIOUS
    <2>1. CASE UNCHANGED <<checks, todo>>
      BY <2>1
    <2>2. ASSUME NEW c \in Checks, R!Register(c) \/ R!Unregister(c) PROVE PassiveUnpolled'
      BY <2>2 DEF R!Register, R!Unregister, R!tickerVars, R!TypeOK
    <2>3. ASSUME NEW g \in R!Goroutines, R!BeginPass(g) PROVE PassiveUnpolled'
      <3>1. R!GetActiveChecks \subseteq ActiveChecks
        BY DEF R!GetActiveChecks
      <3> QED
        BY <2>3, <3>1 DEF R!BeginPass, R!TypeOK, R!registryVars
    <2>4. ASSUME NEW g \in R!Goroutines, NEW n \in Checks, R!Report(g, n)
          PROVE  PassiveUnpolled'
      BY <2>4 DEF R!Report, R!TypeOK, R!registryVars
    <2>5. ASSUME NEW g \in R!Goroutines,
                 \/ R!FinishPass(g) \/ R!EnterSelect(g) \/ R!TickBranch(g)
                 \/ R!StopBranch(g) \/ R!Fire(g)
          PROVE  UNCHANGED <<checks, todo>>
      BY <2>5 DEF R!FinishPass, R!EnterSelect, R!TickBranch, R!StopBranch, R!Fire,
                  R!registryVars
    <2>6. CASE R!SetResolver \/ R!Start \/ R!Stop \/ UNCHANGED R!vars
      BY <2>1, <2>6 DEF R!SetResolver, R!Start, R!Stop, R!vars, R!registryVars, R!tickerVars
    <2> QED
      BY <2>1, <2>2, <2>3, <2>4, <2>5, <2>6 DEF R!Next, R!Work
  <1> QED
    BY IsRegistry, RegistryInvariants, <1>1, <1>2, PTL DEF R!Spec

\* What is not answered is in no entry: the store itself makes DEGRADED and DOWN only.
NoneShown == \A c \in Checks : entries[c] # NoEntry => entries[c].Status # StatusUnknown

LEMMA EntryAnswered ==
  ASSUME NEW e \in Entry \cup {NoEntry}, NEW s \in Status, s # StatusUnknown,
         e # NoEntry => e.Status # StatusUnknown
  PROVE  ReportResult(e, s).Status # StatusUnknown /\ SetStatus(e, s).Status # StatusUnknown
  <1>1. FailureCountCap \in Nat \ {0}
    BY StoreConfigAssumption DEF FailureCountCap, Larger
  <1>2. Ensure(e) \in Entry /\ Ensure(e).Status # StatusUnknown
    BY <1>1 DEF Ensure, Entry, NewDepState, Status, CircuitState, StatusUp, StatusUnknown
  <1>3. ReportFailure(e).Status # StatusUnknown
    BY <1>2 DEF ReportFailure, StatusDown, StatusDegraded, StatusUnknown
  <1>4. ReportSuccess(e).Status # StatusUnknown
    BY DEF ReportSuccess, StatusUp, StatusUnknown
  <1>5. SetStatus(e, s).Status = s
    BY <1>2 DEF SetStatus, Entry
  <1> QED
    BY <1>3, <1>4, <1>5 DEF ReportResult

LEMMA NoneShownInductive ==
  ASSUME NoneUnknown, IInv, NoneShown, [Next]_vars PROVE NoneShown'
  <1>1. CASE UNCHANGED entries
    BY <1>1 DEF NoneShown
  <1>2. ASSUME NEW c \in Checks, NEW e \in Entry, e.Status # StatusUnknown,
               entries' = [entries EXCEPT ![c] = e]
        PROVE  NoneShown'
    BY <1>2 DEF NoneShown, IInv, TypeOK
  <1>3. \A c \in Checks : /\ entries[c] \in Entry \cup {NoEntry}
                          /\ health[c] \in Status /\ health[c] # StatusUnknown
    BY ExtensionAssumption DEF NoneUnknown, IInv, TypeOK
  <1>4. \A c \in DOMAIN results : results[c] \in Status /\ results[c] # StatusUnknown
    BY ExtensionAssumption DEF NoneUnknown, IInv, TypeOK
  <1>5. ASSUME NEW c \in Checks, RecordInitial(c) \/ SetCheck(c) PROVE NoneShown'
    <2>1. entries' = [entries EXCEPT ![c] = SetStatus(@, results[c])] /\ c \in DOMAIN results
      BY <1>5, NoCheckAssumption DEF RecordInitial, SetCheck, IInv, TypeOK
    <2>2. SetStatus(entries[c], results[c]) \in Entry
      BY <1>3, <1>4, <2>1, EntryMade
    <2>3. SetStatus(entries[c], results[c]).Status # StatusUnknown
      BY <1>3, <1>4, <2>1, EntryAnswered DEF NoneShown
    <2> QED
      BY <1>2, <2>1, <2>2, <2>3
  <1>6. ASSUME NEW c \in Checks, ReportCheck(c) PROVE NoneShown'
    <2>1. entries' = [entries EXCEPT ![c] = ReportResult(@, results[c])] /\ c \in DOMAIN results
      BY <1>6 DEF ReportCheck
    <2>2. ReportResult(entries[c], results[c]) \in Entry
      BY <1>3, <1>4, <2>1, EntryMade
    <2>3. ReportResult(entries[c], results[c]).Status # StatusUnknown
      BY <1>3, <1>4, <2>1, EntryAnswered DEF NoneShown
    <2> QED
      BY <1>2, <2>1, <2>2, <2>3
  <1>7. ASSUME NEW c \in Checks, GatedRequest(c) PROVE NoneShown'
    <2> DEFINE r == ReportResult(entries[c], health[c])
    <2>1. entries' = [entries EXCEPT ![c] = SetStatus(r, health[c])]
      BY <1>7 DEF GatedRequest
    <2>2. r \in Entry /\ r.Status # StatusUnknown
      BY <1>3, EntryMade, EntryAnswered DEF NoneShown
    <2>3. SetStatus(r, health[c]) \in Entry /\ SetStatus(r, health[c]).Status # StatusUnknown
      BY <1>3, <2>2, EntryMade, EntryAnswered
    <2> QED
      BY <1>2, <2>1, <2>3
  <1>8. ASSUME NEW c \in Checks, RemoveDep(c) PROVE NoneShown'
    BY <1>8 DEF RemoveDep, Remove, NoneShown, IInv, TypeOK
  <1>9. CASE \/ BeginInitialize \/ FinishInitialize \/ ExecuteInitial \/ StartTicker
             \/ RegisterRoute \/ OnStop \/ BeginPass \/ TickerLoop \/ TickerStops \/ Fire
             \/ Tick \/ UNCHANGED vars
    BY <1>1, <1>9
    DEF BeginInitialize, FinishInitialize, ExecuteInitial, StartTicker, RegisterRoute, OnStop,
        BeginPass, TickerLoop, TickerStops, Fire, Tick, vars
  <1>10. ASSUME NEW c \in Checks,
                \/ RegisterDeclared(c) \/ RegisterCheck(c) \/ UnregisterCheck(c)
                \/ \E s \in Answers[c] : HealthChanges(c, s)
         PROVE  NoneShown'
    BY <1>1, <1>10 DEF RegisterDeclared, RegisterCheck, UnregisterCheck, HealthChanges
  <1>11. ASSUME NEW k \in Kinds, Request(k) PROVE NoneShown'
    BY <1>1, <1>11 DEF Request
  <1> QED
    BY <1>5, <1>6, <1>7, <1>8, <1>9, <1>10, <1>11 DEF Next, OnStart, Polling

\* While nothing answers UNKNOWN, one entry that is DOWN decides every status.
LEMMA DownDecides ==
  ASSUME NoneUnknown, IInv, NoneShown, NEW c \in Checks, Shows(c, StatusDown), NEW k \in Kinds
  PROVE  ComputeOverallStatus(Built(k)) = StatusDown
  <1> DEFINE T == {StatusUp} \cup Built(k)
  <1>1. StatusDown \in T
    BY DEF Shows, Built
  <1>2. T \subseteq {0, 1, 2}
    <2>1. \A d \in ChecksOf(k) : d \in Checks
      BY DEF ChecksOf, R!Registered, IInv, TypeOK, R!TypeOK
    <2>2. \A d \in Checks : health[d] \in {0, 1, 2}
      BY ExtensionAssumption
      DEF NoneUnknown, IInv, TypeOK, Status, StatusUp, StatusDegraded, StatusDown, StatusUnknown
    <2>3. \A d \in Checks : entries[d] # NoEntry => entries[d].Status \in {0, 1, 2}
      BY DEF NoneShown, IInv, TypeOK, Entry, Status, StatusUp, StatusDegraded, StatusDown,
             StatusUnknown
    <2> QED
      BY <2>1, <2>2, <2>3 DEF Built, StatusUp
  <1>3. \A x \in T : (\A y \in T : x >= y) <=> x = 2
    BY <1>1, <1>2 DEF StatusDown
  <1> HIDE DEF T
  <1>4. Max(T) = 2
    BY <1>1, <1>3 DEF Max, StatusDown
  <1> QED
    BY <1>4 DEF ComputeOverallStatus, T, StatusDown

LEMMA StuckAnswers ==
  ASSUME NoneUnknown, IInv, NoneShown, NEW c \in Checks, StuckDown(c)
  PROVE  Ready = 503
  <1>1. Returned("ready") = StatusDown
    BY DownDecides DEF StuckDown, Returned, Kinds
  <1> QED
    BY <1>1 DEF Ready, StatusCode

\* What can change the entry of a passive check is kept from it: the initial pass
\* is over, the ticker does not run it, and no gated request is let through.
LEMMA StuckStays ==
  ASSUME NoneUnknown, IInv, NoneShown, PassiveUnpolled, [Next]_vars,
         NEW c \in Checks \ ActiveChecks, StuckDown(c), ~RemoveDep(c)
  PROVE  StuckDown(c)'
  <1>1. /\ routes = 3 /\ ~Booting /\ phase # "routes"
        /\ Shows(c, StatusDown) /\ entries[c] # NoEntry
        /\ Valid("ready") => snaps["ready"].overall = StatusDown
    BY DEF StuckDown, Serving, Shows, IInv, BootInv
  <1>2. c \notin todo[Ticker]
    BY DEF PassiveUnpolled
  <1>3. ASSUME UNCHANGED <<routes, entries, snaps>> PROVE StuckDown(c)'
    BY <1>1, <1>3 DEF StuckDown, Serving, Shows, Valid
  <1>4. ASSUME entries'[c] = entries[c], UNCHANGED <<routes, snaps>> PROVE StuckDown(c)'
    BY <1>1, <1>4 DEF StuckDown, Serving, Shows, Valid
  <1>5. ASSUME NEW d \in Checks, RecordInitial(d) PROVE FALSE
    BY <1>1, <1>5 DEF RecordInitial, Booting
  <1>6. ASSUME NEW d \in Checks, ReportCheck(d) \/ SetCheck(d) PROVE StuckDown(c)'
    <2>1. pc[Ticker] = "report" /\ d \in DOMAIN results
      BY <1>6, NoCheckAssumption DEF ReportCheck, SetCheck, R!Report, IInv, TypeOK
    <2>2. d # c
      BY <1>2, <2>1 DEF IInv, TypeOK
    <2>3. entries'[c] = entries[c] /\ UNCHANGED <<routes, snaps>>
      BY <1>6, <2>2 DEF ReportCheck, SetCheck, lifeVars, IInv, TypeOK
    <2> QED
      BY <1>4, <2>3
  <1>7. ASSUME NEW d \in Checks, GatedRequest(d) PROVE FALSE
    BY <1>7, StuckAnswers DEF GatedRequest
  <1>8. ASSUME NEW d \in Checks, RemoveDep(d) PROVE StuckDown(c)'
    <2>1. entries'[c] = entries[c] /\ UNCHANGED <<routes, snaps>>
      BY <1>8 DEF RemoveDep, lifeVars, IInv, TypeOK
    <2> QED
      BY <1>4, <2>1
  <1>9. ASSUME NEW k \in Kinds, Request(k) PROVE StuckDown(c)'
    <2>1. /\ snaps' = [snaps EXCEPT ![k] = [overall |-> StatusDown, left |-> SnapshotTTL]]
          /\ UNCHANGED <<routes, entries>>
      BY <1>1, <1>9, DownDecides DEF Request, lifeVars
    <2>2. snaps'["ready"] = snaps["ready"] \/ snaps'["ready"].overall = StatusDown
      BY <2>1 DEF IInv, TypeOK, Kinds
    <2> QED
      BY <1>1, <2>1, <2>2 DEF StuckDown, Serving, Shows, Valid
  <1>10. CASE Tick
    <2>1. snaps'["ready"] = Aged(snaps["ready"]) /\ UNCHANGED <<routes, entries>>
      BY <1>10 DEF Tick, Kinds, lifeVars
    <2>2. Valid("ready")' => Valid("ready") /\ snaps'["ready"].overall = snaps["ready"].overall
      BY <2>1 DEF Aged, NoSnapshot, Valid, IInv, TypeOK, Kinds
    <2> QED
      BY <1>1, <2>1, <2>2 DEF StuckDown, Serving, Shows
  <1>11. CASE \/ BeginInitialize \/ FinishInitialize \/ ExecuteInitial \/ StartTicker
              \/ RegisterRoute
    BY <1>1, <1>11 DEF BeginInitialize, FinishInitialize, ExecuteInitial, StartTicker,
                       RegisterRoute, Booting
  <1>12. CASE OnStop \/ BeginPass \/ TickerLoop \/ TickerStops \/ Fire \/ UNCHANGED vars
    BY <1>3, <1>12 DEF OnStop, BeginPass, TickerLoop, TickerStops, Fire, vars, lifeVars
  <1>13. ASSUME NEW d \in Checks,
                \/ RegisterDeclared(d) \/ RegisterCheck(d) \/ UnregisterCheck(d)
                \/ \E s \in Answers[d] : HealthChanges(d, s)
         PROVE  StuckDown(c)'
    BY <1>3, <1>13 DEF RegisterDeclared, RegisterCheck, UnregisterCheck, HealthChanges,
                       lifeVars
  <1> QED
    BY <1>5, <1>6, <1>7, <1>8, <1>9, <1>10, <1>11, <1>12, <1>13 DEF Next, OnStart, Polling

\* As long as no check answers UNKNOWN, a passive dependency whose entry is DOWN,
\* with no better readiness snapshot left, keeps /ready at 503 for good: neither
\* its recovery nor that of all others, only the removal of the entry helps
\* (extension.go, snapshot_cache.go, route_ready.go; the run ready_stuck reaches
\* such a state).
THEOREM PassiveStaysDown ==
  ASSUME NoneUnknown
  PROVE  Spec => [][\A c \in Checks \ ActiveChecks : DownForGood(c)]_vars
  <1>1. Init => NoneShown
    BY DEF Init, NoneShown
  <1>2. IInv /\ NoneShown /\ [Next]_vars => NoneShown'
    BY NoneShownInductive
  <1>3. IInv /\ NoneShown /\ PassiveUnpolled /\ [Next]_vars =>
          [\A c \in Checks \ ActiveChecks : DownForGood(c)]_vars
    BY StuckAnswers, StuckStays DEF DownForGood
  <1> QED
    BY Invariant, NeverPolled, <1>1, <1>2, <1>3, PTL DEF Spec

-----------------------------------------------------------------------------
\* What StoreLeftAlone rests on.

\* Nothing of c is on its way to the store and nothing will put it there: no pass
\* that runs has a result of c, and c is not registered or the ticker is gone.
Unfed(c) ==
  /\ c \notin DOMAIN results
  /\ c \notin R!Registered \/ (phase = "stopped" /\ ~R!Alive(Ticker))

\* The entry of c changes by what the application and the traffic do only, and
\* only a registration of c ends that.
LeftAlone(c) ==
  Unfed(c) =>
    /\ entries'[c] = entries[c] \/ RemoveDep(c) \/ GatedRequest(c)
    /\ Unfed(c)' \/ RegisterDeclared(c) \/ RegisterCheck(c)

LEMMA EntryLeftAlone ==
  ASSUME IInv, [Next]_vars, NEW c \in Checks, Unfed(c)
  PROVE  entries'[c] = entries[c] \/ RemoveDep(c) \/ GatedRequest(c)
  <1>1. ASSUME NEW d \in Checks, RecordInitial(d) \/ ReportCheck(d) \/ SetCheck(d)
        PROVE  entries'[c] = entries[c]
    <2>1. d \in DOMAIN results
      BY <1>1, NoCheckAssumption DEF RecordInitial, ReportCheck, SetCheck, IInv, TypeOK
    <2> QED
      BY <1>1, <2>1 DEF RecordInitial, ReportCheck, SetCheck, Unfed, IInv, TypeOK
  <1>2. ASSUME NEW d \in Checks, d # c, RemoveDep(d) \/ GatedRequest(d)
        PROVE  entries'[c] = entries[c]
    BY <1>2 DEF RemoveDep, GatedRequest, IInv, TypeOK
  <1>3. CASE \/ BeginInitialize \/ FinishInitialize \/ ExecuteInitial \/ StartTicker
             \/ RegisterRoute \/ OnStop \/ BeginPass \/ TickerLoop \/ TickerStops \/ Fire
             \/ Tick \/ UNCHANGED vars
    BY <1>3
    DEF BeginInitialize, FinishInitialize, ExecuteInitial, StartTicker, RegisterRoute, OnStop,
        BeginPass, TickerLoop, TickerStops, Fire, Tick, vars
  <1>4. ASSUME NEW d \in Checks,
               \/ RegisterDeclared(d) \/ RegisterCheck(d) \/ UnregisterCheck(d)
               \/ \E s \in Answers[d] : HealthChanges(d, s)
        PROVE  entries'[c] = entries[c]
    BY <1>4 DEF RegisterDeclared, RegisterCheck, UnregisterCheck, HealthChanges
  <1>5. ASSUME NEW k \in Kinds, Request(k) PROVE entries'[c] = entries[c]
    BY <1>5 DEF Request
  <1> QED
    BY <1>1, <1>2, <1>3, <1>4, <1>5 DEF Next, OnStart, Polling

\* While c is in the map only under its own name, it is registered as a name.
LEMMA OwnName ==
  ASSUME PassiveUnpolled, NEW c \in Checks
  PROVE  c \in R!Registered <=> checks[c] = c
  BY NoCheckAssumption DEF PassiveUnpolled, R!Registered

LEMMA StaysUnfed ==
  ASSUME IInv, PassiveUnpolled, PassiveUnpolled', [Next]_vars, NEW c \in Checks, Unfed(c),
         ~RegisterDeclared(c), ~RegisterCheck(c)
  PROVE  Unfed(c)'
  <1>1. (c \in R!Registered <=> checks[c] = c) /\ (c \in R!Registered' <=> checks'[c] = c)
    BY OwnName, NoCheckAssumption DEF PassiveUnpolled, R!Registered
  <1>2. ASSUME DOMAIN results' \subseteq DOMAIN results, UNCHANGED <<checks, phase>>,
               R!Alive(Ticker)' => R!Alive(Ticker)
        PROVE  Unfed(c)'
    BY <1>1, <1>2 DEF Unfed
  <1>3. ASSUME UNCHANGED <<results, checks, phase, pc>> PROVE Unfed(c)'
    BY <1>2, <1>3 DEF R!Alive
  <1>4. ASSUME phase # "stopped", UNCHANGED <<results, checks>> PROVE Unfed(c)'
    BY <1>1, <1>4 DEF Unfed
  <1>5. CASE BeginInitialize
    BY <1>4, <1>5 DEF BeginInitialize, R!SetResolver, passVars
  <1>6. CASE FinishInitialize \/ RegisterRoute \/ StartTicker \/ OnStop
    BY <1>4, <1>6 DEF FinishInitialize, RegisterRoute, StartTicker, OnStop, R!Start, R!Stop,
                      R!registryVars, passVars, registryVars
  <1>7. ASSUME NEW d \in Checks, RegisterDeclared(d) \/ RegisterCheck(d) \/ UnregisterCheck(d)
        PROVE  Unfed(c)'
    <2>1. /\ UNCHANGED <<results, phase, pc>>
          /\ checks' \in {[checks EXCEPT ![d] = d], [checks EXCEPT ![d] = R!NoCheck]}
          /\ d = c => checks'[c] = R!NoCheck
      BY <1>7 DEF RegisterDeclared, RegisterCheck, UnregisterCheck, R!Register, R!Unregister,
                  R!tickerVars, passVars, lifeVars, IInv, TypeOK, R!TypeOK
    <2>2. checks'[c] = c => checks[c] = c
      BY <2>1, NoCheckAssumption DEF IInv, TypeOK, R!TypeOK
    <2> QED
      BY <1>1, <2>1, <2>2 DEF Unfed, R!Alive
  <1>8. CASE ExecuteInitial
    <2>1. /\ phase = "initialized" /\ checks' = checks
          /\ results' = [d \in R!Registered |-> health[d]]
      BY <1>8 DEF ExecuteInitial, Restrict, registryVars, R!Registered, IInv, TypeOK
    <2> QED
      BY <1>1, <2>1 DEF Unfed
  <1>9. ASSUME NEW d \in Checks, RecordInitial(d) \/ ReportCheck(d) PROVE Unfed(c)'
    BY <1>2, <1>9 DEF RecordInitial, ReportCheck, Recorded, Restrict, registryVars, lifeVars,
                      R!Alive
  <1>10. ASSUME NEW d \in Checks, SetCheck(d) PROVE Unfed(c)'
    BY <1>2, <1>10 DEF SetCheck, Recorded, Restrict, lifeVars, R!Report, R!registryVars, R!Alive
  <1>11. CASE BeginPass
    <2>1. /\ R!Alive(Ticker) /\ checks' = checks
          /\ results' = [d \in R!GetActiveChecks |-> health[d]]
      BY <1>11 DEF BeginPass, R!BeginPass, R!registryVars, R!Alive, Restrict
    <2>2. c \notin R!Registered => c \notin R!GetActiveChecks
      BY <1>1 DEF PassiveUnpolled, R!GetActiveChecks
    <2> QED
      BY <1>1, <2>1, <2>2 DEF Unfed
  <1>12. CASE TickerLoop \/ TickerStops \/ Fire
    <2>1. /\ UNCHANGED <<results, checks, phase>>
          /\ R!Alive(Ticker) \/ pc' = pc
      BY <1>12 DEF TickerLoop, TickerStops, Fire, R!FinishPass, R!EnterSelect, R!TickBranch,
                   R!StopBranch, R!Fire, R!registryVars, R!Alive, passVars, lifeVars
    <2> QED
      BY <1>1, <2>1 DEF Unfed, R!Alive
  <1>13. ASSUME NEW d \in Checks,
                \/ RemoveDep(d) \/ GatedRequest(d)
                \/ \E s \in Answers[d] : HealthChanges(d, s)
         PROVE  Unfed(c)'
    BY <1>3, <1>13 DEF RemoveDep, GatedRequest, HealthChanges, registryVars, lifeVars, passVars
  <1>14. ASSUME NEW k \in Kinds, Request(k) PROVE Unfed(c)'
    BY <1>3, <1>14 DEF Request, registryVars, lifeVars, passVars
  <1>15. CASE Tick \/ UNCHANGED vars
    BY <1>3, <1>15 DEF Tick, vars, registryVars, lifeVars, passVars
  <1> QED
    BY <1>5, <1>6, <1>7, <1>8, <1>9, <1>10, <1>11, <1>12, <1>13, <1>14, <1>15
    DEF Next, OnStart, Polling

\* Once a check is unregistered and the pass that had it is over, or the ticker
\* has ended after OnStop, no pass reports it any more, and the entry of one that
\* stays unregistered does not come back once it is removed, however often other
\* checks come, go or are polled.  The pass that runs meanwhile is the only
\* exception there is (Unregister, Stop and executeAndReport together).
THEOREM EntryIsLeftAlone == Spec => [][\A c \in Checks : LeftAlone(c)]_vars
  <1>1. IInv /\ PassiveUnpolled /\ PassiveUnpolled' /\ [Next]_vars =>
          [\A c \in Checks : LeftAlone(c)]_vars
    BY EntryLeftAlone, StaysUnfed DEF LeftAlone
  <1> QED
    BY Invariant, NeverPolled, <1>1, PTL DEF Spec
=============================================================================
