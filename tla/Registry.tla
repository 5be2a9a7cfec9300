------------------------------ MODULE Registry ------------------------------
(***************************************************************************)
(* The health check registry: the map of checks, and the goroutines that   *)
(* Start spawns and Stop is meant to end.                                  *)
(*                                                                         *)
(* The k-th effective Start makes channel k and spawns goroutine k.        *)
(* stopChan is the field r.stopChan (0 before the first Start) and closed  *)
(* the set of closed channels.  A goroutine g runs runTicker:              *)
(*                                                                         *)
(*   "pass"    about to call executeAndReport                              *)
(*   "report"  has read the active checks (GetActiveChecks, under r.mu)    *)
(*             and executed them; todo[g] are the results left to report   *)
(*   "loop"    about to evaluate the channels of select                    *)
(*   "select"  waiting on ticker.C and on channel watch[g]                 *)
(*   "done"    returned                                                    *)
(*                                                                         *)
(* select reads r.stopChan without r.mu, while a Start may be writing it:  *)
(* the read may return any value written since the goroutine last          *)
(* synchronised through r.mu, which is what seen[g]..stopChan stands for   *)
(* (channels are numbered in the order they were written).                 *)
(***************************************************************************)
EXTENDS Integers, FiniteSets

CONSTANTS Checks,      \* check instances
          Names,       \* check names
          NameOf,      \* check.Name()
          IsActive,    \* check.Mode() == CheckModeActive
          MaxStarts    \* bound: effective calls of Start

ASSUME RegistryAssumption ==
  /\ NameOf \in [Checks -> Names]
  /\ IsActive \in [Checks -> BOOLEAN]
  /\ MaxStarts \in Nat \ {0}

NoCheck == "no check"

ASSUME NoCheckAssumption == NoCheck \notin Checks

VARIABLES checks,      \* r.checks
          resolver,    \* r.resolver # nil
          resolved,    \* the checks whose resolver has been set
          running,     \* r.running
          stopChan, closed,
          pc, todo, seen, watch, tick

registryVars == <<checks, resolver, resolved>>
tickerVars   == <<pc, todo, seen, watch, tick>>
vars == <<registryVars, running, stopChan, closed, tickerVars>>

Goroutines == 1..MaxStarts
Channels   == 0..MaxStarts
Registered == {checks[n] : n \in Names} \ {NoCheck}

TypeOK ==
  /\ checks \in [Names -> Checks \cup {NoCheck}]
  /\ resolver \in BOOLEAN /\ resolved \subseteq Checks
  /\ running \in BOOLEAN
  /\ stopChan \in Channels /\ closed \subseteq Goroutines
  /\ pc \in [Goroutines -> {"none", "pass", "report", "loop", "select", "done"}]
  /\ todo \in [Goroutines -> SUBSET Names]
  /\ seen \in [Goroutines -> Channels] /\ watch \in [Goroutines -> Channels]
  /\ tick \in [Goroutines -> BOOLEAN]

Init ==
  /\ checks = [n \in Names |-> NoCheck]
  /\ resolver = FALSE /\ resolved = {}
  /\ running = FALSE
  /\ stopChan = 0 /\ closed = {}
  /\ pc = [g \in Goroutines |-> "none"]
  /\ todo = [g \in Goroutines |-> {}]
  /\ seen = [g \in Goroutines |-> 0] /\ watch = [g \in Goroutines |-> 0]
  /\ tick = [g \in Goroutines |-> FALSE]

-----------------------------------------------------------------------------
\* The map of checks, under r.mu.

\* Register overwrites an earlier check of the same name.
Register(c) ==
  /\ checks' = [checks EXCEPT ![NameOf[c]] = c]
  /\ resolved' = IF resolver THEN resolved \cup {c} ELSE resolved
  /\ UNCHANGED <<resolver, running, stopChan, closed, tickerVars>>

Unregister(n) ==
  /\ checks' = [checks EXCEPT ![n] = NoCheck]
  /\ UNCHANGED <<resolver, resolved, running, stopChan, closed, tickerVars>>

\* Variant: existing checks are not given the resolver.
ForgetfulSetResolver ==
  /\ resolver' = TRUE
  /\ UNCHANGED <<checks, resolved, running, stopChan, closed, tickerVars>>

SetResolver ==
  /\ resolver' = TRUE
  /\ resolved' = resolved \cup Registered
  /\ UNCHANGED <<checks, running, stopChan, closed, tickerVars>>

GetActiveChecks == {n \in Names : checks[n] # NoCheck /\ IsActive[checks[n]]}

-----------------------------------------------------------------------------
\* Start and Stop, under r.mu.

\* Variant: Start hands the goroutine a channel it never stores.
UnstoredStart ==
  /\ ~running /\ stopChan < MaxStarts
  /\ running' = TRUE
  /\ pc' = [pc EXCEPT ![stopChan + 1] = "pass"]
  /\ seen' = [seen EXCEPT ![stopChan + 1] = stopChan + 1]
  /\ UNCHANGED <<registryVars, stopChan, closed, todo, watch, tick>>

Start ==
  /\ ~running /\ stopChan < MaxStarts
  /\ running' = TRUE
  /\ stopChan' = stopChan + 1
  /\ pc' = [pc EXCEPT ![stopChan + 1] = "pass"]
  /\ seen' = [seen EXCEPT ![stopChan + 1] = stopChan + 1]
  /\ UNCHANGED <<registryVars, closed, todo, watch, tick>>

\* Variants: the running flag is not checked; it is cleared but nothing is closed.
UnguardedStop ==
  /\ running' = FALSE
  /\ closed' = closed \cup {stopChan}
  /\ UNCHANGED <<registryVars, stopChan, tickerVars>>

SilentStop ==
  /\ running
  /\ running' = FALSE
  /\ UNCHANGED <<registryVars, stopChan, closed, tickerVars>>

StickyStop ==
  /\ running
  /\ closed' = closed \cup {stopChan}
  /\ UNCHANGED <<registryVars, running, stopChan, tickerVars>>

Stop ==
  /\ running
  /\ running' = FALSE
  /\ closed' = closed \cup {stopChan}
  /\ UNCHANGED <<registryVars, stopChan, tickerVars>>

-----------------------------------------------------------------------------
\* runTicker.

\* executeAndReport reads the active checks and executes them concurrently;
\* each returns within its timeout.
BeginPass(g) ==
  /\ pc[g] = "pass"
  /\ pc' = [pc EXCEPT ![g] = "report"]
  /\ todo' = [todo EXCEPT ![g] = GetActiveChecks]
  /\ seen' = [seen EXCEPT ![g] = stopChan]
  /\ UNCHANGED <<registryVars, running, stopChan, closed, watch, tick>>

\* One result goes to the store, in the order of the map iteration: any.
Report(g, n) ==
  /\ pc[g] = "report" /\ n \in todo[g]
  /\ todo' = [todo EXCEPT ![g] = @ \ {n}]
  /\ UNCHANGED <<registryVars, running, stopChan, closed, pc, seen, watch, tick>>

FinishPass(g) ==
  /\ pc[g] = "report" /\ todo[g] = {}
  /\ pc' = [pc EXCEPT ![g] = "loop"]
  /\ UNCHANGED <<registryVars, running, stopChan, closed, todo, seen, watch, tick>>

\* The unsynchronised read of r.stopChan.
EnterSelect(g) ==
  /\ pc[g] = "loop"
  /\ pc' = [pc EXCEPT ![g] = "select"]
  /\ \E ch \in seen[g]..stopChan : watch' = [watch EXCEPT ![g] = ch]
  /\ UNCHANGED <<registryVars, running, stopChan, closed, todo, seen, tick>>

\* Variant: a tick is served without another look at the channels.
FinalTickBranch(g) ==
  /\ pc[g] = "select" /\ tick[g]
  /\ pc' = [pc EXCEPT ![g] = "done"]
  /\ tick' = [tick EXCEPT ![g] = FALSE]
  /\ UNCHANGED <<registryVars, running, stopChan, closed, todo, seen, watch>>

TickBranch(g) ==
  /\ pc[g] = "select" /\ tick[g]
  /\ pc' = [pc EXCEPT ![g] = "pass"]
  /\ tick' = [tick EXCEPT ![g] = FALSE]
  /\ UNCHANGED <<registryVars, running, stopChan, closed, todo, seen, watch>>

StopBranch(g) ==
  /\ pc[g] = "select" /\ watch[g] \in closed
  /\ pc' = [pc EXCEPT ![g] = "done"]
  /\ tick' = [tick EXCEPT ![g] = FALSE]
  /\ UNCHANGED <<registryVars, running, stopChan, closed, todo, seen, watch>>

\* The interval elapses; ticker.C holds one tick.
Fire(g) ==
  /\ pc[g] \notin {"none", "done"} /\ ~tick[g]
  /\ tick' = [tick EXCEPT ![g] = TRUE]
  /\ UNCHANGED <<registryVars, running, stopChan, closed, pc, todo, seen, watch>>

Work(g) ==
  \/ BeginPass(g)
  \/ \E n \in Names : Report(g, n)
  \/ FinishPass(g)
  \/ EnterSelect(g)
  \/ TickBranch(g)

Next ==
  \/ \E c \in Checks : Register(c)
  \/ \E n \in Names : Unregister(n)
  \/ SetResolver
  \/ Start \/ Stop
  \/ \E g \in Goroutines : Work(g) \/ StopBranch(g) \/ Fire(g)

Spec == Init /\ [][Next]_vars

\* Goroutines are scheduled and time passes.  select chooses at random among
\* the branches that are ready, so one that is ready again and again is taken.
Fairness ==
  \A g \in Goroutines : WF_vars(Work(g)) /\ WF_vars(Fire(g)) /\ SF_vars(StopBranch(g))

FairSpec == Spec /\ Fairness

-----------------------------------------------------------------------------
Alive(g) == pc[g] \notin {"none", "done"}

\* While the registry runs, the channel Stop will close is open, so that Stop
\* never closes a channel twice (which would panic), and a goroutine that only
\* that channel can stop is alive: a late reader of an older channel never
\* takes the current ticker down with it.
TickerAlive ==
  running =>
    /\ stopChan \in Goroutines /\ stopChan \notin closed
    /\ Alive(stopChan)
    /\ pc[stopChan] = "select" => watch[stopChan] = stopChan

\* A goroutine only ever waits on a channel at least as recent as its own, and
\* every channel but the one in use by a running registry is closed.
ChannelsRetired ==
  /\ closed = (1..stopChan) \ (IF running THEN {stopChan} ELSE {})
  /\ \A g \in Goroutines : pc[g] = "select" => watch[g] \in g..stopChan

\* Every registered check has the resolver once the registry has it, whichever
\* of Register and SetResolver came first (lines 36-39 and 251-257).  The comment
\* of SetResolver, "Must be called before registering checks, or existing checks
\* won't have the resolver", says otherwise; its code updates the existing ones.
ResolverEverywhere == resolver => Registered \subseteq resolved

\* After the last Stop every goroutine returns, even one that was in the
\* middle of a pass, or that read a channel already replaced.
Quiesces == <>[]~running => <>[](\A g \in Goroutines : ~Alive(g))

\* While the registry keeps running, every name with an active check keeps
\* being reported (Start, runTicker and executeAndReport together).
KeepsChecking ==
  \A n \in Names :
    <>[](running /\ n \in GetActiveChecks) =>
      []<><<\E g \in Goroutines : Report(g, n)>>_vars

\* registry.go:42, "Stop halts automatic health check execution": a goroutine
\* whose channel Stop has closed returns.
StopHalts == \A g \in Goroutines : g \in closed ~> ~Alive(g)
=============================================================================
