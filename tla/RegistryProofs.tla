--------------------------- MODULE RegistryProofs ---------------------------
(***************************************************************************)
(* Proofs about Start, Stop and runTicker, for every set of checks and any *)
(* number of starts.  TickerAlive alone is not inductive: that the current *)
(* goroutine cannot return needs the bounds on what it may have read from  *)
(* r.stopChan (seen, watch) and which channels are closed.                 *)
(***************************************************************************)
EXTENDS Registry, TLAPS

\* Goroutines are spawned in order, and read no channel older than their own.
ReadsForward ==
  \A g \in Goroutines :
    /\ pc[g] = "none" <=> g > stopChan
    /\ pc[g] # "none" => seen[g] \in g..stopChan

IInv == TypeOK /\ ChannelsRetired /\ ReadsForward /\ TickerAlive

LEMMA InitIInv == Init => IInv
  <1> SUFFICES ASSUME Init PROVE IInv
    OBVIOUS
  <1>1. TypeOK
    <2>1. 0 \in Channels
      BY RegistryAssumption DEF Channels
    <2> QED
      BY <2>1 DEF Init, TypeOK, Goroutines
  <1>2. ChannelsRetired /\ ReadsForward /\ TickerAlive
    BY RegistryAssumption DEF Init, ChannelsRetired, ReadsForward, TickerAlive, Goroutines
  <1> QED
    BY <1>1, <1>2 DEF IInv

\* Start spawns goroutine stopChan + 1 on an open channel of the same number.
LEMMA StartInductive == ASSUME IInv, Start PROVE IInv'
  <1> DEFINE k == stopChan + 1
  <1> USE RegistryAssumption DEF Goroutines, Channels
  <1>1. /\ TypeOK /\ ChannelsRetired /\ ReadsForward /\ ~running
        /\ stopChan \in Channels /\ stopChan < MaxStarts
        /\ running' = TRUE /\ stopChan' = k
        /\ pc' = [pc EXCEPT ![k] = "pass"] /\ seen' = [seen EXCEPT ![k] = k]
        /\ UNCHANGED <<registryVars, closed, todo, watch, tick>>
    BY DEF IInv, TypeOK, Start
  <1>2. k \in Goroutines
    BY <1>1
  <1>3. TypeOK'
    BY <1>1, <1>2 DEF TypeOK, registryVars
  <1>4. closed = 1..stopChan
    BY <1>1 DEF ChannelsRetired
  <1>5. pc[k] = "none"
    BY <1>1, <1>2 DEF ReadsForward
  <1>6. pc'[k] = "pass" /\ \A g \in Goroutines \ {k} : pc'[g] = pc[g] /\ seen'[g] = seen[g]
    BY <1>1, <1>2 DEF TypeOK
  <1>7. seen'[k] = k
    BY <1>1, <1>2 DEF TypeOK
  <1>8. ChannelsRetired'
    <2>1. closed' = (1..k) \ {k}
      BY <1>1, <1>4
    <2>2. ASSUME NEW g \in Goroutines, pc'[g] = "select" PROVE watch'[g] \in g..k
      <3>1. g # k /\ pc[g] = "select"
        BY <1>6, <2>2
      <3>2. watch[g] \in g..stopChan
        BY <1>1, <3>1 DEF ChannelsRetired
      <3> QED
        BY <1>1, <3>2
    <2> QED
      BY <1>1, <2>1, <2>2 DEF ChannelsRetired
  <1>9. ReadsForward'
    <2> SUFFICES ASSUME NEW g \in Goroutines
                 PROVE  /\ pc'[g] = "none" <=> g > k
                        /\ pc'[g] # "none" => seen'[g] \in g..k
      BY <1>1 DEF ReadsForward
    <2>1. CASE g = k
      BY <1>1, <1>6, <1>7, <2>1
    <2>2. CASE g # k
      <3>1. /\ pc[g] = "none" <=> g > stopChan
            /\ pc[g] # "none" => seen[g] \in g..stopChan
        BY <1>1 DEF ReadsForward
      <3> QED
        BY <1>1, <1>6, <2>2, <3>1
    <2> QED
      BY <2>1, <2>2
  <1>10. TickerAlive'
    BY <1>1, <1>2, <1>4, <1>6 DEF TickerAlive, Alive
  <1> QED
    BY <1>3, <1>8, <1>9, <1>10 DEF IInv

\* Stop closes the one open channel.
LEMMA StopInductive == ASSUME IInv, Stop PROVE IInv'
  <1> USE RegistryAssumption DEF Goroutines, Channels
  <1>1. stopChan \in Goroutines /\ closed' = 1..stopChan
    BY DEF IInv, ChannelsRetired, TickerAlive, TypeOK, Stop
  <1>2. TypeOK'
    BY <1>1 DEF IInv, TypeOK, Stop, registryVars, tickerVars
  <1>3. ChannelsRetired' /\ ReadsForward' /\ TickerAlive'
    BY <1>1 DEF IInv, Stop, ChannelsRetired, ReadsForward, TickerAlive, tickerVars
  <1> QED
    BY <1>2, <1>3 DEF IInv

\* The steps of a goroutine, and of its ticker, leave the channels alone.
LEMMA TickerInductive ==
  ASSUME IInv, NEW g \in Goroutines, Work(g) \/ StopBranch(g) \/ Fire(g)
  PROVE  IInv'
  <1> USE RegistryAssumption DEF Goroutines, Channels
  <1>1. /\ UNCHANGED <<registryVars, running, stopChan, closed>>
        /\ TypeOK /\ ChannelsRetired /\ ReadsForward /\ TickerAlive
    BY DEF IInv, Work, BeginPass, Report, FinishPass, EnterSelect, TickBranch,
           StopBranch, Fire
  <1>2. pc[g] # "none"
    BY DEF Work, BeginPass, Report, FinishPass, EnterSelect, TickBranch,
           StopBranch, Fire
  <1>3. g <= stopChan /\ seen[g] \in g..stopChan
    BY <1>1, <1>2 DEF ReadsForward, TypeOK
  <1>4. TypeOK'
    <2>1. GetActiveChecks \subseteq Names
      BY DEF GetActiveChecks
    <2>2. g..stopChan \subseteq Channels /\ seen[g]..stopChan \subseteq Channels
      BY <1>1, <1>3 DEF TypeOK
    <2>3. CASE BeginPass(g)
      BY <1>1, <2>1, <2>3 DEF TypeOK, BeginPass, registryVars
    <2>4. ASSUME NEW n \in Names, Report(g, n) PROVE TypeOK'
      BY <1>1, <2>4 DEF TypeOK, Report, registryVars
    <2>5. CASE FinishPass(g)
      BY <1>1, <2>5 DEF TypeOK, FinishPass, registryVars
    <2>6. CASE EnterSelect(g)
      BY <1>1, <2>2, <2>6 DEF TypeOK, EnterSelect, registryVars
    <2>7. CASE TickBranch(g)
      BY <1>1, <2>7 DEF TypeOK, TickBranch, registryVars
    <2>8. CASE StopBranch(g)
      BY <1>1, <2>8 DEF TypeOK, StopBranch, registryVars
    <2>9. CASE Fire(g)
      BY <1>1, <2>9 DEF TypeOK, Fire, registryVars
    <2> QED
      BY <2>3, <2>4, <2>5, <2>6, <2>7, <2>8, <2>9 DEF Work
  <1>5. ReadsForward'
    <2>1. pc'[g] # "none" /\ \A h \in Goroutines \ {g} : pc'[h] = pc[h] /\ seen'[h] = seen[h]
      BY <1>1, <1>2
      DEF TypeOK, Work, BeginPass, Report, FinishPass, EnterSelect, TickBranch,
          StopBranch, Fire
    <2>2. seen'[g] \in {seen[g], stopChan}
      BY <1>1
      DEF TypeOK, Work, BeginPass, Report, FinishPass, EnterSelect, TickBranch,
          StopBranch, Fire
    <2>3. seen'[g] \in g..stopChan /\ ~(g > stopChan)
      BY <1>1, <1>3, <2>2 DEF TypeOK
    <2>4. ASSUME NEW h \in Goroutines
          PROVE  /\ pc'[h] = "none" <=> h > stopChan
                 /\ pc'[h] # "none" => seen'[h] \in h..stopChan
      <3>1. CASE h = g
        BY <2>1, <2>3, <3>1
      <3>2. CASE h # g
        BY <1>1, <2>1, <3>2 DEF ReadsForward
      <3> QED
        BY <3>1, <3>2
    <2> QED
      BY <1>1, <2>4 DEF ReadsForward
  <1>6. ChannelsRetired'
    <2>1. /\ pc'[g] = "select" => watch'[g] \in g..stopChan
          /\ \A h \in Goroutines \ {g} : pc'[h] = pc[h] /\ watch'[h] = watch[h]
      <3>1. CASE EnterSelect(g)
        BY <1>1, <1>3, <3>1 DEF TypeOK, EnterSelect
      <3>2. CASE Fire(g) \/ \E n \in Names : Report(g, n)
        BY <1>1, <3>2 DEF Fire, Report, ChannelsRetired
      <3>3. CASE BeginPass(g) \/ FinishPass(g) \/ TickBranch(g) \/ StopBranch(g)
        BY <1>1, <3>3 DEF TypeOK, BeginPass, FinishPass, TickBranch, StopBranch
      <3> QED
        BY <3>1, <3>2, <3>3 DEF Work
    <2> QED
      BY <1>1, <2>1 DEF ChannelsRetired
  <1>7. TickerAlive'
    <2> SUFFICES ASSUME running
                 PROVE  /\ pc'[stopChan] \notin {"none", "done"}
                        /\ pc'[stopChan] = "select" => watch'[stopChan] = stopChan
      BY <1>1 DEF TickerAlive, Alive
    <2>1. /\ stopChan \in Goroutines /\ stopChan \notin closed
          /\ pc[stopChan] \notin {"none", "done"}
          /\ pc[stopChan] = "select" => watch[stopChan] = stopChan
      BY <1>1 DEF TickerAlive, Alive
    <2>2. pc'[stopChan] = "select" => watch'[stopChan] = stopChan
      BY <1>1, <1>6, <2>1 DEF ChannelsRetired
    <2>3. CASE g # stopChan
      <3>1. pc'[stopChan] = pc[stopChan]
        BY <1>1, <2>1, <2>3
        DEF TypeOK, Work, BeginPass, Report, FinishPass, EnterSelect, TickBranch,
            StopBranch, Fire
      <3> QED
        BY <2>1, <2>2, <3>1
    <2>4. CASE g = stopChan
      <3>1. ~StopBranch(g)
        BY <2>1, <2>4 DEF StopBranch
      <3>2. pc'[g] \notin {"none", "done"}
        BY <1>1, <2>1, <2>4, <3>1
        DEF TypeOK, Work, BeginPass, Report, FinishPass, EnterSelect, TickBranch, Fire
      <3> QED
        BY <2>2, <2>4, <3>2
    <2> QED
      BY <2>3, <2>4
  <1> QED
    BY <1>4, <1>5, <1>6, <1>7 DEF IInv

LEMMA NextInductive == IInv /\ [Next]_vars => IInv'
  <1> SUFFICES ASSUME IInv, [Next]_vars PROVE IInv'
    OBVIOUS
  <1>1. ASSUME UNCHANGED <<running, stopChan, closed, tickerVars>>, TypeOK'
        PROVE  IInv'
    BY <1>1 DEF IInv, ChannelsRetired, ReadsForward, TickerAlive, Alive, tickerVars
  <1>2. ASSUME NEW c \in Checks, Register(c) PROVE IInv'
    <2>1. NameOf[c] \in Names
      BY RegistryAssumption
    <2>2. TypeOK'
      BY <1>2, <2>1 DEF IInv, TypeOK, Register, tickerVars
    <2> QED
      BY <1>1, <1>2, <2>2 DEF Register
  <1>3. ASSUME NEW n \in Names, Unregister(n) PROVE IInv'
    <2>1. TypeOK'
      BY <1>3 DEF IInv, TypeOK, Unregister, tickerVars
    <2> QED
      BY <1>1, <1>3, <2>1 DEF Unregister
  <1>4. CASE SetResolver
    <2>1. Registered \subseteq Checks
      BY DEF Registered, IInv, TypeOK
    <2>2. TypeOK'
      BY <1>4, <2>1 DEF IInv, TypeOK, SetResolver, tickerVars
    <2> QED
      BY <1>1, <1>4, <2>2 DEF SetResolver
  <1>5. CASE Start
    BY <1>5, StartInductive
  <1>6. CASE Stop
    BY <1>6, StopInductive
  <1>7. ASSUME NEW g \in Goroutines, Work(g) \/ StopBranch(g) \/ Fire(g) PROVE IInv'
    BY <1>7, TickerInductive
  <1>8. CASE UNCHANGED vars
    <2>1. TypeOK'
      BY <1>8 DEF IInv, TypeOK, vars, registryVars, tickerVars
    <2> QED
      BY <1>1, <1>8, <2>1 DEF vars
  <1> QED
    BY <1>2, <1>3, <1>4, <1>5, <1>6, <1>7, <1>8 DEF Next

-----------------------------------------------------------------------------
\* The registry's fields and its goroutines keep their types.
THEOREM TypeCorrect == Spec => []TypeOK
  <1>1. IInv => TypeOK
    BY DEF IInv
  <1> QED
    BY InitIInv, NextInductive, <1>1, PTL DEF Spec

\* A running registry has a live ticker on an open channel, for any number of
\* starts and stops and whatever the racing reads of r.stopChan return.
THEOREM AlwaysTicking == Spec => []TickerAlive
  <1>1. IInv => TickerAlive
    BY DEF IInv
  <1> QED
    BY InitIInv, NextInductive, <1>1, PTL DEF Spec

\* Every channel but the current one of a running registry is closed, and no
\* goroutine waits on a channel older than its own.
THEOREM OldChannelsClosed == Spec => []ChannelsRetired
  <1>1. IInv => ChannelsRetired
    BY DEF IInv
  <1> QED
    BY InitIInv, NextInductive, <1>1, PTL DEF Spec

-----------------------------------------------------------------------------
\* Register gives a check the resolver the registry already has, SetResolver
\* gives it to the checks already there: no order of the two misses one.
THEOREM ResolverReaches == Spec => []ResolverEverywhere
  <1>1. Init => ResolverEverywhere
    BY DEF Init, ResolverEverywhere
  <1>2. TypeOK /\ ResolverEverywhere /\ [Next]_vars => ResolverEverywhere'
    <2> SUFFICES ASSUME TypeOK, ResolverEverywhere, [Next]_vars
                 PROVE  ResolverEverywhere'
      OBVIOUS
    <2>1. CASE UNCHANGED registryVars
      BY <2>1 DEF registryVars, ResolverEverywhere, Registered
    <2>2. ASSUME NEW c \in Checks, Register(c) PROVE ResolverEverywhere'
      <3>1. Registered' \subseteq Registered \cup {c}
        BY <2>2 DEF TypeOK, Register, Registered
      <3> QED
        BY <2>2, <3>1 DEF Register, ResolverEverywhere
    <2>3. ASSUME NEW n \in Names, Unregister(n) PROVE ResolverEverywhere'
      <3>1. Registered' \subseteq Registered
        BY <2>3 DEF TypeOK, Unregister, Registered
      <3> QED
        BY <2>3, <3>1 DEF Unregister, ResolverEverywhere
    <2>4. CASE SetResolver
      BY <2>4 DEF SetResolver, ResolverEverywhere, Registered
    <2>5. CASE Start \/ Stop
      BY <2>1, <2>5 DEF Start, Stop
    <2>6. ASSUME NEW g \in Goroutines, Work(g) \/ StopBranch(g) \/ Fire(g)
          PROVE  UNCHANGED registryVars
      BY <2>6
      DEF Work, BeginPass, Report, FinishPass, EnterSelect, TickBranch, StopBranch, Fire
    <2>7. CASE UNCHANGED vars
      BY <2>1, <2>7 DEF vars
    <2> QED
      BY <2>1, <2>2, <2>3, <2>4, <2>5, <2>6, <2>7 DEF Next
  <1> QED
    BY TypeCorrect, <1>1, <1>2, PTL DEF Spec
=============================================================================
