--------------------------- MODULE HealthExtension ---------------------------
(***************************************************************************)
(* HealthExtension: the life of the extension under the framework, and the *)
(* components it puts together: the registry and its ticker (an instance   *)
(* of module Registry, one Start), the dependency state store (module      *)
(* DepStateStore, an entry per check), the snapshot cache and the          *)
(* endpoints and gated requests that read it.                              *)
(*                                                                         *)
(* phase follows the calls of the framework:                               *)
(*                                                                         *)
(*   "new" -> "declaring" -> "initialized"          OnInitialize           *)
(*         -> "initial" -> "routes" -> "serving"    OnStart                *)
(*         -> "stopped"                             OnStop                 *)
(*                                                                         *)
(* and "failed" when one of the first two returned an error.  The listener *)
(* binds once OnStart has returned without one.                            *)
(*                                                                         *)
(* results are the results of the initial pass, or of the ticker's, that   *)
(* are not in the store yet, and half the check whose result is between    *)
(* its two store calls.  Get and GetReadiness are one step here, as are    *)
(* the checks of a pass; SnapshotCache and CheckCache take them apart.     *)
(***************************************************************************)
EXTENDS DepStateStore, FiniteSetsExt, Functions

CONSTANTS Declared,          \* Config.Checks
          Late,              \* the checks given to RegisterCheck
          ActiveChecks,      \* those with Mode() == CheckModeActive
          ReadinessChecks,   \* those with IsReadiness()
          Answers,           \* what each check may answer
          SnapshotTTL,       \* Config.SnapshotTTL
          Polls              \* Config.CheckInterval > 0

Checks == Declared \cup Late

ASSUME ExtensionAssumption ==
  /\ Declared \cap Late = {}
  /\ ActiveChecks \subseteq Checks /\ ReadinessChecks \subseteq Checks
  /\ Answers \in [Checks -> SUBSET Status]
  /\ SnapshotTTL \in Nat
  /\ Polls \in BOOLEAN

VARIABLES checks, resolver, resolved, running, stopChan, closed,
          pc, todo, seen, watch, tick,      \* the registry
          phase, routes,
          results, half,
          health,                           \* what each check would answer now
          entries,                          \* the store
          snaps                             \* what is left of the two snapshots

registryVars == <<checks, resolver, resolved, running, stopChan, closed,
                  pc, todo, seen, watch, tick>>
lifeVars     == <<phase, routes>>
passVars     == <<results, half>>
vars == <<registryVars, lifeVars, passVars, health, entries, snaps>>

R == INSTANCE Registry WITH
  Names     <- Checks,
  NameOf    <- [c \in Checks |-> c],
  IsActive  <- [c \in Checks |-> c \in ActiveChecks],
  MaxStarts <- 1

Ticker == 1
Kinds  == {"full", "ready"}
NoHalf == "none"

\* What stands for no check is none.
ASSUME NoCheckAssumption == R!NoCheck \notin Checks /\ NoHalf \notin Checks

NoSnapshot == [overall |-> StatusUp, left |-> 0]

ChecksOf(k) == R!Registered \cap (IF k = "ready" THEN ReadinessChecks ELSE Checks)

Serving == routes = 3

TypeOK ==
  /\ R!TypeOK
  /\ phase \in {"new", "declaring", "initialized", "initial", "routes",
                "serving", "failed", "stopped"}
  /\ routes \in 0..3
  /\ DOMAIN results \subseteq Checks
  /\ \A c \in DOMAIN results : results[c] \in Answers[c]
  /\ half \in DOMAIN results \cup {NoHalf}
  /\ pc[Ticker] = "report" => DOMAIN results = todo[Ticker]
  /\ \A c \in Checks : health[c] \in Answers[c]
  /\ entries \in [Checks -> Entry \cup {NoEntry}]
  /\ snaps \in [Kinds -> [overall : Status, left : 0..SnapshotTTL]]

Init ==
  /\ R!Init
  /\ phase = "new" /\ routes = 0
  /\ results = <<>> /\ half = NoHalf
  /\ health \in {h \in [Checks -> Status] : \A c \in Checks : h[c] \in Answers[c]}
  /\ entries = [c \in Checks |-> NoEntry]
  /\ snaps = [k \in Kinds |-> NoSnapshot]

-----------------------------------------------------------------------------
\* OnInitialize.

BeginInitialize ==
  /\ phase = "new" /\ phase' = "declaring"
  /\ R!SetResolver
  /\ UNCHANGED <<routes, passVars, health, entries, snaps>>

RegisterDeclared(c) ==
  /\ phase = "declaring" /\ c \in Declared \ resolved
  /\ R!Register(c)
  /\ UNCHANGED <<lifeVars, passVars, health, entries, snaps>>

\* The dedicated router may fail to be created.
FinishInitialize ==
  /\ phase = "declaring" /\ Declared \subseteq resolved
  /\ phase' \in {"initialized", "failed"}
  /\ UNCHANGED <<registryVars, routes, passVars, health, entries, snaps>>

-----------------------------------------------------------------------------
\* OnStart.

\* Variant: only the checks the ticker runs later are waited for.
ActiveExecuteInitial ==
  /\ phase = "initialized" /\ phase' = "initial"
  /\ results' = Restrict(health, R!GetActiveChecks)
  /\ UNCHANGED <<registryVars, routes, half, health, entries, snaps>>

\* ExecuteAll, under a context that is not cancelled.
ExecuteInitial ==
  /\ phase = "initialized" /\ phase' = "initial"
  /\ results' = Restrict(health, R!Registered)
  /\ UNCHANGED <<registryVars, routes, half, health, entries, snaps>>

Recorded(c) == results' = Restrict(results, DOMAIN results \ {c})

RecordInitial(c) ==
  /\ phase = "initial" /\ c \in DOMAIN results
  /\ entries' = [entries EXCEPT ![c] = SetStatus(@, results[c])]
  /\ Recorded(c)
  /\ UNCHANGED <<registryVars, lifeVars, half, health, snaps>>

StartTicker ==
  /\ phase = "initial" /\ results = <<>>
  /\ phase' = "routes"
  /\ IF Polls THEN R!Start ELSE UNCHANGED registryVars
  /\ UNCHANGED <<routes, passVars, health, entries, snaps>>

\* /live, /ready and /status in this order; the first error ends OnStart.
RegisterRoute ==
  /\ phase = "routes"
  /\ \/ /\ routes' = routes + 1
        /\ phase' = IF routes = 2 THEN "serving" ELSE "routes"
     \/ phase' = "failed" /\ UNCHANGED routes
  /\ UNCHANGED <<registryVars, passVars, health, entries, snaps>>

OnStop ==
  /\ phase \in {"serving", "failed"} /\ phase' = "stopped"
  /\ IF running THEN R!Stop ELSE UNCHANGED registryVars
  /\ UNCHANGED <<routes, passVars, health, entries, snaps>>

-----------------------------------------------------------------------------
\* The ticker: executeAndReport reads and executes the active checks, and
\* takes each result to the store in two calls.

\* Variant: the passive checks run too.
EveryBeginPass ==
  /\ R!BeginPass(Ticker)
  /\ results' = Restrict(health, R!Registered)
  /\ UNCHANGED <<lifeVars, half, health, entries, snaps>>

BeginPass ==
  /\ R!BeginPass(Ticker)
  /\ results' = Restrict(health, R!GetActiveChecks)
  /\ UNCHANGED <<lifeVars, half, health, entries, snaps>>

ReportCheck(c) ==
  /\ pc[Ticker] = "report" /\ c \in DOMAIN results /\ half = NoHalf
  /\ half' = c
  /\ entries' = [entries EXCEPT ![c] = ReportResult(@, results[c])]
  /\ UNCHANGED <<registryVars, lifeVars, results, health, snaps>>

\* Variant: the direct SetStatus is missing.
UnsetSetCheck(c) ==
  /\ half = c
  /\ half' = NoHalf
  /\ R!Report(Ticker, c)
  /\ Recorded(c)
  /\ UNCHANGED <<lifeVars, health, entries, snaps>>

SetCheck(c) ==
  /\ half = c
  /\ half' = NoHalf
  /\ R!Report(Ticker, c)
  /\ entries' = [entries EXCEPT ![c] = SetStatus(@, results[c])]
  /\ Recorded(c)
  /\ UNCHANGED <<lifeVars, health, snaps>>

TickerLoop ==
  /\ \/ R!FinishPass(Ticker) \/ R!EnterSelect(Ticker)
     \/ R!TickBranch(Ticker)
  /\ UNCHANGED <<lifeVars, passVars, health, entries, snaps>>

TickerStops ==
  /\ R!StopBranch(Ticker)
  /\ UNCHANGED <<lifeVars, passVars, health, entries, snaps>>

Fire ==
  /\ R!Fire(Ticker)
  /\ UNCHANGED <<lifeVars, passVars, health, entries, snaps>>

-----------------------------------------------------------------------------
\* The application registers, unregisters and removes; each check comes once.

Initialized == phase \notin {"new", "declaring"}

RegisterCheck(c) ==
  /\ Initialized /\ c \in Late \ resolved
  /\ R!Register(c)
  /\ UNCHANGED <<lifeVars, passVars, health, entries, snaps>>

UnregisterCheck(c) ==
  /\ Initialized /\ c \in R!Registered
  /\ R!Unregister(c)
  /\ UNCHANGED <<lifeVars, passVars, health, entries, snaps>>

RemoveDep(c) ==
  /\ Initialized /\ c \notin R!Registered /\ entries[c] # NoEntry
  /\ entries' = [entries EXCEPT ![c] = Remove(@)]
  /\ UNCHANGED <<registryVars, lifeVars, passVars, health, snaps>>

-----------------------------------------------------------------------------
\* Requests: /ready takes the readiness snapshot, /status and gated routes the
\* full one.

\* The statuses in a snapshot built now: cached and passive checks run too, and
\* the entries of all checks are in it.
Built(k) ==
  {health[c] : c \in ChecksOf(k)} \cup
  {entries[c].Status : c \in {d \in Checks : entries[d] # NoEntry}}

ComputeOverallStatus(statuses) == Max({StatusUp} \cup statuses)

Valid(k) == snaps[k].left > 0

\* What Get or GetReadiness returns now.
Returned(k) == IF Valid(k) THEN snaps[k].overall ELSE ComputeOverallStatus(Built(k))

Request(k) ==
  /\ Serving /\ ~Valid(k)
  /\ snaps' = [snaps EXCEPT ![k] = [overall |-> ComputeOverallStatus(Built(k)), left |-> SnapshotTTL]]
  /\ UNCHANGED <<registryVars, lifeVars, passVars, health, entries>>

StatusCode(overall) == IF overall = StatusDown THEN 503 ELSE 200

\* What the two endpoints answer now.
Ready      == StatusCode(Returned("ready"))
StatusPage == StatusCode(Returned("full"))

\* A gated request runs the check of a passive dependency and reports it.  The
\* traffic is sent to instances that are ready (the readiness probe of the README).
GatedRequest(c) ==
  /\ Serving /\ Ready = 200
  /\ c \in R!Registered \ ActiveChecks
  /\ entries' = [entries EXCEPT ![c] = SetStatus(ReportResult(@, health[c]), health[c])]
  /\ UNCHANGED <<registryVars, lifeVars, passVars, health, snaps>>

-----------------------------------------------------------------------------
HealthChanges(c, s) ==
  /\ health[c] # s
  /\ health' = [health EXCEPT ![c] = s]
  /\ UNCHANGED <<registryVars, lifeVars, passVars, entries, snaps>>

\* Variant: a snapshot does not expire.
EternalAged(s) == s

\* A snapshot that has expired is as good as none.
Aged(s) == IF s.left > 1 THEN [s EXCEPT !.left = @ - 1] ELSE NoSnapshot

Tick ==
  /\ \E k \in Kinds : Valid(k)
  /\ snaps' = [k \in Kinds |-> Aged(snaps[k])]
  /\ UNCHANGED <<registryVars, lifeVars, passVars, health, entries>>

OnStart ==
  \/ ExecuteInitial \/ StartTicker \/ RegisterRoute
  \/ \E c \in Checks : RecordInitial(c)

Polling ==
  \/ BeginPass \/ TickerLoop
  \/ \E c \in Checks : ReportCheck(c) \/ SetCheck(c)

Next ==
  \/ BeginInitialize \/ FinishInitialize
  \/ \E c \in Checks : RegisterDeclared(c)
  \/ OnStart \/ OnStop
  \/ Polling \/ TickerStops \/ Fire
  \/ \E c \in Checks : RegisterCheck(c) \/ UnregisterCheck(c) \/ RemoveDep(c)
  \/ \E k \in Kinds : Request(k)
  \/ \E c \in Checks : GatedRequest(c)
  \/ \E c \in Checks : \E s \in Answers[c] : HealthChanges(c, s)
  \/ Tick

Spec == Init /\ [][Next]_vars

\* OnStart and the ticker's goroutine run, the interval elapses, select takes a
\* branch that is ready again and again, snapshots age, and there is traffic.
Fairness ==
  /\ WF_vars(OnStart) /\ WF_vars(Polling) /\ WF_vars(Fire)
  /\ SF_vars(TickerStops) /\ WF_vars(Tick)
  /\ \A c \in Checks : SF_vars(GatedRequest(c))

FairSpec == Spec /\ Fairness

-----------------------------------------------------------------------------
\* From the first request on every declared check has a state that it answered
\* itself: none is gated as TreatUnknownAs because it has not run yet, active or
\* passive, whatever is registered, unregistered or polled meanwhile (OnStart:
\* runInitialChecks is done before the routes and the listener are there).
DeclaredAreKnown ==
  Serving => \A c \in Declared \cap R!Registered : entries[c] # NoEntry

\* After OnStop, or once a check is unregistered for good, its entry is left
\* alone: a pass that was running may still report it, even bring a removed
\* entry back, but no later one does (Stop and Unregister wait for no pass).
StoreLeftAlone ==
  \A c \in Checks :
    <>[](phase = "stopped" \/ c \notin R!Registered) =>
      <>[][entries'[c] = entries[c] \/ RemoveDep(c) \/ GatedRequest(c)]_vars

Polled(c) == phase = "serving" /\ c \in R!GetActiveChecks /\ Polls

Shows(c, s) == entries[c] # NoEntry /\ entries[c].Status = s

\* UNKNOWN sorts after DOWN and is not answered with 503.
Masked == \E c \in Checks : health[c] = StatusUnknown \/ Shows(c, StatusUnknown)

\* A polled check that keeps its answer shows it in its entry again and again: a
\* DEGRADED one too, whose failures make the entry DOWN between the two calls of
\* each pass.  One that stays DOWN is DOWN there for good in the end, and then
\* both endpoints answer 503, whatever the snapshots held.
AnswersShow ==
  \A c \in ActiveChecks :
    /\ \A s \in Answers[c] :
         <>[](Polled(c) /\ health[c] = s) => []<>Shows(c, s)
    /\ <>[](Polled(c) /\ health[c] = StatusDown /\ ~Masked) =>
         <>[](Shows(c, StatusDown) /\ Ready = 503 /\ StatusPage = 503)

\* If every check that is registered or has left an entry is polled and stays
\* UP, both endpoints answer 200 in the end and every entry is UP.
RecoveryShows ==
  <>[](\A c \in Checks : c \in R!Registered \/ entries[c] # NoEntry =>
         Polled(c) /\ health[c] = StatusUp) =>
    <>[](/\ Ready = 200 /\ StatusPage = 200
         /\ \A c \in Checks : entries[c] # NoEntry => Shows(c, StatusUp))

\* README.md:110, a dependency that is UP is "Ready": once every check is
\* registered to stay and answers UP for good, /ready comes to answer 200.
ReadyRecovers ==
  <>[](Serving /\ R!Registered = Checks /\ \A c \in Checks : health[c] = StatusUp) =>
    <>[](Ready = 200)
=============================================================================
