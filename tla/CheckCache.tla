----------------------------- MODULE CheckCache -----------------------------
(***************************************************************************)
(* checkCache for one check: the goroutines in GetOrExecute, the cached    *)
(* result they share, the store entry they report to, and Execute, which   *)
(* runs the check's function in a goroutine of its own.                    *)
(*                                                                         *)
(* GetOrExecute holds no lock while the check runs, and between running    *)
(* it, caching the result, reporting it and setting the status any other   *)
(* goroutine may take any number of steps:                                 *)
(*                                                                         *)
(*   "idle" -> "exec" -> "answered" -> "put" -> "report" -> "set" -> "idle"*)
(*                                                                         *)
(* In "exec" the function runs; in "answered" what it returned, result[c], *)
(* is in resultCh.  Execute waits for that or for its context, whose       *)
(* deadline passes, or whose request is cancelled, at any time; a function *)
(* it has given up on goes on (abandoned).                                 *)
(*                                                                         *)
(* health is what the function would do now: answer a status, panic,       *)
(* return nil, or not return.  The cached result keeps the time left until *)
(* expiresAt (0 once expired).                                             *)
(*                                                                         *)
(* ran and overlapped are history: whether a call has run the check and    *)
(* returned, and whether the last call to start did so beside another, or  *)
(* came to nothing.                                                        *)
(***************************************************************************)
EXTENDS DepStateStore

CONSTANTS Callers,
          MaxCacheTTL,     \* bound: of check.CacheTTL()
          CheckStatuses    \* what the check may answer

ASSUME CheckCacheAssumption ==
  /\ MaxCacheTTL \in Nat
  /\ CheckStatuses \subseteq Status /\ CheckStatuses # {}

VARIABLES ttl,        \* check.CacheTTL(): 0 for an on-demand check
          health,
          cached,     \* c.cache[name]
          entry,      \* the store's DepState of the same name
          pc, result,
          abandoned,  \* whether a function still runs that Execute gave up on
          ran, overlapped

calls == <<pc, result>>
vars  == <<ttl, health, cached, entry, calls, abandoned, ran, overlapped>>

NoResult == [none |-> TRUE]

\* What a function may do instead of answering a status.
Nil       == 4
Panicking == 5
Hanging   == 6
Behaviour == CheckStatuses \cup {Nil, Panicking, Hanging}

TypeOK ==
  /\ ttl \in 0..MaxCacheTTL
  /\ health \in Behaviour
  /\ cached \in [status : Status, left : 0..ttl] \cup {NoResult}
  /\ cached # NoResult => ttl > 0
  /\ entry \in Entry \cup {NoEntry}
  /\ pc \in [Callers -> {"idle", "exec", "answered", "put", "report", "set"}]
  /\ \A c \in Callers : result[c] \in Status \/ (pc[c] = "answered" /\ result[c] = Nil)
  /\ abandoned \in BOOLEAN /\ ran \in BOOLEAN /\ overlapped \in BOOLEAN

\* The entry may already hold what the initial check pass found.
Init ==
  /\ ttl \in 0..MaxCacheTTL
  /\ health \in CheckStatuses
  /\ cached = NoResult
  /\ entry \in {NoEntry} \cup {SetStatus(NoEntry, s) : s \in CheckStatuses}
  /\ pc = [c \in Callers |-> "idle"]
  /\ result = [c \in Callers |-> StatusUnknown]
  /\ abandoned = FALSE
  /\ ran = FALSE /\ overlapped = FALSE

-----------------------------------------------------------------------------
\* Variant: expiresAt is not looked at.
EverValid == cached # NoResult

Valid == cached # NoResult /\ cached.left > 0

AtRest == \A c \in Callers : pc[c] = "idle"

\* A call that finds a valid result returns it and changes nothing.
Miss(c) ==
  /\ pc[c] = "idle" /\ ~Valid
  /\ pc' = [pc EXCEPT ![c] = "exec"]
  /\ overlapped' = ~AtRest
  /\ UNCHANGED <<ttl, health, cached, entry, result, abandoned, ran>>

-----------------------------------------------------------------------------
\* Execute.

\* Variant: the channel has no room for an answer nobody waits for.
UnbufferedChannel == 0

ResultChCap == 1

\* A goroutine can send: somebody receives, or the channel is still empty.
CanSend(awaited) == awaited \/ ResultChCap > 0

\* The function returns, or panics and is recovered from.
FnAnswers(c) ==
  /\ pc[c] = "exec" /\ health # Hanging /\ CanSend(TRUE)
  /\ result' = [result EXCEPT ![c] = IF health = Panicking THEN StatusDown ELSE health]
  /\ pc' = [pc EXCEPT ![c] = "answered"]
  /\ UNCHANGED <<ttl, health, cached, entry, abandoned, ran, overlapped>>

\* The functions left behind return, to a channel nobody reads.
FnAnswersNobody ==
  /\ abandoned /\ health # Hanging /\ CanSend(FALSE)
  /\ abandoned' = FALSE
  /\ UNCHANGED <<ttl, health, cached, entry, calls, ran, overlapped>>

\* Variant: a result is cached whatever the ttl.
CachingObtained(c, s) ==
  /\ result' = [result EXCEPT ![c] = s]
  /\ pc' = [pc EXCEPT ![c] = "put"]

Obtained(c, s) ==
  /\ result' = [result EXCEPT ![c] = s]
  /\ pc' = [pc EXCEPT ![c] = IF ttl > 0 THEN "put" ELSE "report"]

ReceiveResult(c) ==
  /\ pc[c] = "answered" /\ result[c] # Nil
  /\ Obtained(c, result[c])
  /\ UNCHANGED <<ttl, health, cached, entry, abandoned, ran, overlapped>>

\* result.Duration of a nil result: the request panics out of GetOrExecute.
ReceiveNil(c) ==
  /\ pc[c] = "answered" /\ result[c] = Nil
  /\ pc' = [pc EXCEPT ![c] = "idle"]
  /\ result' = [result EXCEPT ![c] = StatusUnknown]
  /\ overlapped' = TRUE
  /\ UNCHANGED <<ttl, health, cached, entry, abandoned, ran>>

\* The context is done; when an answer is there too, select takes either.
TimeOut(c) ==
  /\ pc[c] \in {"exec", "answered"}
  /\ Obtained(c, StatusDown)
  /\ abandoned' = (abandoned \/ pc[c] = "exec")
  /\ UNCHANGED <<ttl, health, cached, entry, ran, overlapped>>

-----------------------------------------------------------------------------
\* What GetOrExecute does with the result.

Put(c) ==
  /\ pc[c] = "put"
  /\ cached' = [status |-> result[c], left |-> ttl]
  /\ pc' = [pc EXCEPT ![c] = "report"]
  /\ UNCHANGED <<ttl, health, entry, result, abandoned, ran, overlapped>>

\* Variant: every result is reported as a success.
RosyReport(c) ==
  /\ pc[c] = "report"
  /\ entry' = ReportSuccess(entry)
  /\ pc' = [pc EXCEPT ![c] = "set"]
  /\ UNCHANGED <<ttl, health, cached, result, abandoned, ran, overlapped>>

Report(c) ==
  /\ pc[c] = "report"
  /\ entry' = ReportResult(entry, result[c])
  /\ pc' = [pc EXCEPT ![c] = "set"]
  /\ UNCHANGED <<ttl, health, cached, result, abandoned, ran, overlapped>>

\* Variant: the call of SetStatus is missing.
UnsetSet(c) ==
  /\ pc[c] = "set"
  /\ pc' = [pc EXCEPT ![c] = "idle"]
  /\ result' = [result EXCEPT ![c] = StatusUnknown]
  /\ ran' = TRUE
  /\ UNCHANGED <<ttl, health, cached, entry, abandoned, overlapped>>

Set(c) ==
  /\ pc[c] = "set"
  /\ entry' = SetStatus(entry, result[c])
  /\ pc' = [pc EXCEPT ![c] = "idle"]
  /\ result' = [result EXCEPT ![c] = StatusUnknown]
  /\ ran' = TRUE
  /\ UNCHANGED <<ttl, health, cached, abandoned, overlapped>>

\* Invalidate(name), and Clear.
Invalidate ==
  /\ cached' = NoResult
  /\ UNCHANGED <<ttl, health, entry, calls, abandoned, ran, overlapped>>

HealthChanges(s) ==
  /\ health' = s
  /\ UNCHANGED <<ttl, cached, entry, calls, abandoned, ran, overlapped>>

Tick ==
  /\ cached # NoResult /\ cached.left > 0
  /\ cached' = [cached EXCEPT !.left = @ - 1]
  /\ UNCHANGED <<ttl, health, entry, calls, abandoned, ran, overlapped>>

Execute(c) == FnAnswers(c) \/ ReceiveResult(c) \/ ReceiveNil(c) \/ TimeOut(c)

Next ==
  \/ \E c \in Callers : Miss(c) \/ Execute(c) \/ Put(c) \/ Report(c) \/ Set(c)
  \/ FnAnswersNobody
  \/ Invalidate
  \/ \E h \in Behaviour : HealthChanges(h)
  \/ Tick

Spec == Init /\ [][Next]_vars

\* Goroutines run, functions that do not hang return, contexts have a deadline,
\* time passes and requests that need the check keep coming.
FairSpec ==
  /\ Spec
  /\ WF_vars(Tick) /\ WF_vars(FnAnswersNobody)
  /\ \A c \in Callers :
       /\ SF_vars(Miss(c))
       /\ WF_vars(FnAnswers(c))
       /\ WF_vars(ReceiveResult(c) \/ ReceiveNil(c) \/ TimeOut(c))
       /\ WF_vars(Put(c) \/ Report(c) \/ Set(c))

-----------------------------------------------------------------------------
\* With no call under way and the last one not begun beside another, a result
\* that is still served from the cache is the status the entry shows
\* (GetOrExecute, lines 84-99): the gate, which reads the cache, and /status,
\* which reads the store, tell the same story, whatever earlier overlapping
\* calls made of either.
CacheAndStoreAgree ==
  (AtRest /\ ~overlapped /\ Valid) => (entry # NoEntry /\ entry.Status = cached.status)

\* Likewise, once the check has run, the entry counts failures exactly when it
\* does not show UP (lines 94-99): ReportSuccess or ReportFailure and the
\* SetStatus after it are about the same result.
CountsMatchStatus ==
  (AtRest /\ ~overlapped /\ ran) =>
    (entry.Status = StatusUp <=> entry.FailureCount = 0)

\* If the check keeps answering UP and does not time out any more, or keeps
\* failing in whatever way, the entry and the cache show that for good, whatever
\* slower calls obtained before: an old result is cached and reported at most
\* once more, and then expires (line 66).
Converges ==
  LET Settles(s) == <>[](/\ entry # NoEntry /\ entry.Status = s
                         /\ Valid => cached.status = s)
  IN  /\ (<>[](health = StatusUp) /\ <>[][\A c \in Callers : ~TimeOut(c)]_vars)
           => Settles(StatusUp)
      /\ <>[](health \in {StatusDown, Panicking, Hanging}) => Settles(StatusDown)

\* Every GetOrExecute returns, even while the function hangs, and a goroutine
\* Execute gave up on is not left behind: it ends once the function returns
\* (resultCh has room for one answer that nobody waits for).
CallsEnd ==
  /\ \A c \in Callers : pc[c] # "idle" ~> pc[c] = "idle"
  /\ (<>[](health # Hanging) /\ <>[][\A c \in Callers : ~TimeOut(c)]_vars)
       => <>[]~abandoned
=============================================================================
