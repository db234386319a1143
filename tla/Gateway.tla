------------------------------- MODULE Gateway -------------------------------
(***************************************************************************)
(* One request through internal/gateway/gateway.go: Respond checks, waits    *)
(* for its provider's scheduler, and the work function it passed there       *)
(* prepares a runtime, builds, executes and parses.  Shutdown stores closing  *)
(* and then closes every scheduler.                                          *)
(*                                                                         *)
(* A scheduler is what Scheduler.tla is shown to implement (WorkPool): open   *)
(* or closed, a bounded set of active calls, one outcome per call.  A         *)
(* supervisor is the outcome of its calls (Supervisor.tla): Prepare, Discard  *)
(* and Execute succeed or fail, and each Execute or Discard gives the lease   *)
(* back.  Provider failures that differ only in their code are one cause.     *)
(***************************************************************************)
EXTENDS Naturals, FiniteSets

CONSTANTS Requests, Providers,
          Serves,   \* the provider of each request's model
          Width     \* concurrency of every provider

ASSUME GatewayAssumption ==
  IsFiniteSet(Requests) /\ Serves \in [Requests -> Providers] /\ Width \in Nat \ {0}

Working == {"recheck", "prepare", "build", "execute", "classify", "parse", "discard", "worked"}

VARIABLES
  at,         \* where a request is
  gone,       \* the requests whose context is done
  closing,    \* Gateway.closing
  closed,     \* the schedulers that are closed
  ready,      \* the providers whose health is ready
  lease,      \* the lease a request's work holds
  executed,   \* the kind Execute answered
  cause,      \* attempt.cause
  invariant,  \* attempt.invariant
  workErr,    \* what the work function returned
  doErr,      \* what Scheduler.Do returned
  answer,     \* what Respond returned
  sd,         \* where Shutdown is
  dirty       \* history: the providers for which a cleanup failed

attempt == <<lease, executed, cause, invariant, workErr>>
vars == <<at, gone, closing, closed, ready, attempt, doErr, answer, sd, dirty>>

Causes == {"none", "shutting_down", "canceled", "not_ready", "cleanup_failed", "timeout",
           "output_limit", "provider"}
Answers == Causes \cup {"ok", "rejected", "queue_full", "queue_timeout", "internal"}

TypeOK ==
  /\ at \in [Requests -> {"idle", "entered", "do", "queued", "after", "answered"} \cup Working]
  /\ gone \subseteq Requests
  /\ closing \in BOOLEAN
  /\ closed \subseteq Providers /\ ready \subseteq Providers /\ dirty \subseteq Providers
  /\ lease \in [Requests -> {"none", "held", "back"}]
  /\ executed \in [Requests -> {"none", "ok", "nonzero", "killed", "canceled", "timeout",
                                "output_limit", "cleanup", "start", "missing"}]
  /\ cause \in [Requests -> Causes]
  /\ invariant \subseteq Requests
  /\ workErr \in [Requests -> {"none", "nil", "response", "abnormal"}]
  /\ doErr \in [Requests -> {"none", "nil", "response", "abnormal", "shuttingDown", "canceled",
                             "queueFull", "queueTimeout"}]
  /\ answer \in [Requests -> Answers]
  /\ sd \in {"idle", "waiting", "nil", "error"}

Init ==
  /\ at = [r \in Requests |-> "idle"]
  /\ gone = {} /\ closing = FALSE /\ closed = {} /\ ready = Providers
  /\ lease = [r \in Requests |-> "none"]
  /\ executed = [r \in Requests |-> "none"]
  /\ cause = [r \in Requests |-> "none"]
  /\ invariant = {}
  /\ workErr = [r \in Requests |-> "none"]
  /\ doErr = [r \in Requests |-> "none"]
  /\ answer = [r \in Requests |-> "none"]
  /\ sd = "idle"
  /\ dirty = {}

Go(r, where) == at' = [at EXCEPT ![r] = where]
Active(p) == {r \in Requests : Serves[r] = p /\ at[r] \in Working}

-----------------------------------------------------------------------------
(* Respond up to the scheduler.                                             *)

Answered(r, a) ==
  /\ answer' = [answer EXCEPT ![r] = a]
  /\ Go(r, "answered")
  /\ UNCHANGED <<gone, closing, closed, ready, attempt, doErr, sd, dirty>>

Moves(r, where) ==
  Go(r, where) /\ UNCHANGED <<gone, closing, closed, ready, attempt, doErr, answer, sd, dirty>>

RefusedClosing(r) == at[r] = "idle" /\ closing /\ Answered(r, "shutting_down")

\* The model is unknown or the schema does not compile.
Rejected(r) == at[r] = "idle" /\ ~closing /\ Answered(r, "rejected")

Enters(r) == at[r] = "idle" /\ ~closing /\ Moves(r, "entered")

FindsNotReady(r) == at[r] = "entered" /\ Serves[r] \notin ready /\ Answered(r, "not_ready")

FindsReady(r) == at[r] = "entered" /\ Serves[r] \in ready /\ Moves(r, "do")

-----------------------------------------------------------------------------
(* The scheduler.                                                           *)

DoReturns(r, err) ==
  /\ doErr' = [doErr EXCEPT ![r] = err]
  /\ Go(r, "after")
  /\ UNCHANGED <<gone, closing, closed, ready, attempt, answer, sd, dirty>>

\* Slip: a call that waits in the queue does not hear of the close.
TurnedAwayWhileOpen(r) ==
  /\ at[r] \in {"do", "queued"}
  /\ at[r] = "queued" => Serves[r] \notin closed
  /\ \E err \in {"shuttingDown", "canceled", "queueFull", "queueTimeout"} :
       /\ err = "shuttingDown" <=> Serves[r] \in closed
       /\ err = "canceled" <=> Serves[r] \notin closed /\ r \in gone
       /\ err = "queueFull" => at[r] = "do"
       /\ DoReturns(r, err)

\* Refused, or given up in the queue.
TurnedAway(r) ==
  /\ at[r] \in {"do", "queued"}
  /\ \E err \in {"shuttingDown", "canceled", "queueFull", "queueTimeout"} :
       /\ err = "shuttingDown" <=> Serves[r] \in closed
       /\ err = "canceled" <=> Serves[r] \notin closed /\ r \in gone
       /\ err = "queueFull" => at[r] = "do"
       /\ DoReturns(r, err)

Accepted(r) == at[r] = "do" /\ Serves[r] \notin closed /\ r \notin gone /\ Moves(r, "queued")

Activated(r) ==
  /\ at[r] = "queued" /\ Serves[r] \notin closed /\ r \notin gone
  /\ Cardinality(Active(Serves[r])) < Width
  /\ Moves(r, "recheck")

\* The work has returned; closing the scheduler or a gone caller overrides it.
Finishes(r) ==
  /\ at[r] = "worked"
  /\ DoReturns(r, IF Serves[r] \in closed THEN "shuttingDown"
                  ELSE IF r \in gone THEN "canceled" ELSE workErr[r])

-----------------------------------------------------------------------------
(* The work function.                                                       *)

Degrade(p) == ready' = ready \ {p}
FailsCleanup(r) ==
  /\ cause' = [cause EXCEPT ![r] = "cleanup_failed"]
  /\ dirty' = dirty \cup {Serves[r]}
  /\ Degrade(Serves[r])

\* The work function returns errResponseWork, nil or a panic.
Ends(r, err) == Go(r, "worked") /\ workErr' = [workErr EXCEPT ![r] = err]

HealthHasChanged(r) ==
  /\ at[r] = "recheck" /\ Serves[r] \notin ready
  /\ cause' = [cause EXCEPT ![r] = "not_ready"]
  /\ Ends(r, "response")
  /\ UNCHANGED <<gone, closing, closed, ready, lease, executed, invariant, doErr, answer, sd, dirty>>

\* Slip: the health read before the wait in the queue is good enough.
HealthHeld(r) == at[r] = "recheck" /\ Moves(r, "prepare")

HealthHolds(r) == at[r] = "recheck" /\ Serves[r] \in ready /\ Moves(r, "prepare")

\* No id can be made.
NoID(r) ==
  /\ at[r] = "prepare"
  /\ invariant' = invariant \cup {r}
  /\ Ends(r, "response")
  /\ UNCHANGED <<gone, closing, closed, ready, lease, executed, cause, doErr, answer, sd, dirty>>

PrepareFails(r) ==
  /\ at[r] = "prepare"
  /\ FailsCleanup(r)
  /\ Ends(r, "response")
  /\ UNCHANGED <<gone, closing, closed, lease, executed, invariant, doErr, answer, sd>>

Prepares(r) ==
  /\ at[r] = "prepare"
  /\ lease' = [lease EXCEPT ![r] = "held"]
  /\ Go(r, "build")
  /\ UNCHANGED <<gone, closing, closed, ready, executed, cause, invariant, workErr, doErr, answer,
                 sd, dirty>>

Builds(r) == at[r] = "build" /\ Moves(r, "execute")

\* Slip: the Discard is a statement after Build and not deferred.
BuildPanicsLeaking(r) ==
  /\ at[r] = "build"
  /\ Ends(r, "abnormal")
  /\ UNCHANGED <<gone, closing, closed, ready, lease, executed, cause, invariant, doErr, answer,
                 sd, dirty>>

\* Build panics: the deferred Discard still runs.
BuildPanics(r) ==
  /\ at[r] = "build"
  /\ workErr' = [workErr EXCEPT ![r] = "abnormal"]
  /\ Go(r, "discard")
  /\ UNCHANGED <<gone, closing, closed, ready, lease, executed, cause, invariant, doErr, answer,
                 sd, dirty>>

BuildFails(r) ==
  /\ at[r] = "build"
  /\ workErr' = [workErr EXCEPT ![r] = "response"]
  /\ invariant' = invariant \cup {r}
  /\ Go(r, "discard")
  /\ UNCHANGED <<gone, closing, closed, ready, lease, executed, cause, doErr, answer, sd, dirty>>

Discards(r) ==
  /\ at[r] = "discard"
  /\ lease' = [lease EXCEPT ![r] = "back"]
  /\ Go(r, "worked")
  /\ UNCHANGED <<gone, closing, closed, ready, executed, cause, invariant, workErr, doErr, answer,
                 sd, dirty>>

\* Slip: a failed Discard leaves the provider ready.
DiscardFailsReady(r) ==
  /\ at[r] = "discard"
  /\ lease' = [lease EXCEPT ![r] = "back"]
  /\ cause' = [cause EXCEPT ![r] = "cleanup_failed"]
  /\ dirty' = dirty \cup {Serves[r]}
  /\ invariant' = invariant \ {r}
  /\ Go(r, "worked")
  /\ UNCHANGED <<gone, closing, closed, ready, executed, workErr, doErr, answer, sd>>

DiscardFails(r) ==
  /\ at[r] = "discard"
  /\ lease' = [lease EXCEPT ![r] = "back"]
  /\ FailsCleanup(r)
  /\ invariant' = invariant \ {r}
  /\ Go(r, "worked")
  /\ UNCHANGED <<gone, closing, closed, executed, workErr, doErr, answer, sd>>

\* The run context is done with the caller's or when the scheduler closes.
Executes(r) ==
  /\ at[r] = "execute"
  /\ \E kind \in {"ok", "nonzero", "killed", "canceled", "timeout", "output_limit", "cleanup",
                  "start", "missing"} :
       /\ kind = "canceled" => r \in gone \/ Serves[r] \in closed
       /\ executed' = [executed EXCEPT ![r] = kind]
       /\ dirty' = IF kind = "cleanup" THEN dirty \cup {Serves[r]} ELSE dirty
  /\ lease' = [lease EXCEPT ![r] = "back"]
  /\ Go(r, "classify")
  /\ UNCHANGED <<gone, closing, closed, ready, cause, invariant, workErr, doErr, answer, sd>>

\* A result without an error and with no exit code (the provider was killed by
\* a signal from outside), or a cancellation nobody asked for.
Unclassifiable(r) ==
  \/ executed[r] = "killed"
  \/ executed[r] = "canceled" /\ ~closing /\ r \notin gone

\* Slip: a failure to start has no public code.
CauseOfRaw(r) ==
  CASE executed[r] = "canceled" -> IF closing THEN "shutting_down" ELSE "canceled"
    [] executed[r] = "cleanup" -> "cleanup_failed"
    [] executed[r] = "missing" -> "not_ready"
    [] OTHER -> executed[r]

\* classifyExecutionError.
CauseOf(r) ==
  CASE executed[r] = "canceled" -> IF closing THEN "shutting_down" ELSE "canceled"
    [] executed[r] = "cleanup" -> "cleanup_failed"
    [] executed[r] = "missing" -> "not_ready"
    [] executed[r] = "start" -> "provider"
    [] OTHER -> executed[r]

Classifies(r) ==
  /\ at[r] = "classify" /\ executed[r] \notin {"ok", "nonzero"}
  /\ Ends(r, "response")
  /\ IF Unclassifiable(r)
     THEN invariant' = invariant \cup {r} /\ UNCHANGED <<cause, ready>>
     ELSE /\ cause' = [cause EXCEPT ![r] = CauseOf(r)]
          /\ ready' = IF executed[r] \in {"cleanup", "missing"} THEN ready \ {Serves[r]} ELSE ready
          /\ UNCHANGED invariant
  /\ UNCHANGED <<gone, closing, closed, lease, executed, doErr, answer, sd, dirty>>

\* Parse and the checks of its result: all well, a provider failure, or a panic.
Parses(r) ==
  /\ at[r] = "classify" /\ executed[r] \in {"ok", "nonzero"}
  /\ \/ executed[r] = "ok" /\ Ends(r, "nil") /\ UNCHANGED cause
     \/ Ends(r, "response") /\ cause' \in {[cause EXCEPT ![r] = c] : c \in {"provider", "output_limit"}}
     \/ Ends(r, "abnormal") /\ UNCHANGED cause
  /\ UNCHANGED <<gone, closing, closed, ready, lease, executed, invariant, doErr, answer, sd, dirty>>

-----------------------------------------------------------------------------
(* The answer.                                                              *)

\* The error of the scheduler comes before the cause of the attempt, but for
\* the cleanup failure of a work function that panicked.
AnswerOf(r) ==
  IF r \in invariant THEN "internal"
  ELSE CASE doErr[r] = "nil" -> "ok"
         [] doErr[r] = "shuttingDown" -> "shutting_down"
         [] doErr[r] = "canceled" -> IF closing THEN "shutting_down"
                                     ELSE IF r \in gone THEN "canceled" ELSE "internal"
         [] doErr[r] = "queueFull" -> "queue_full"
         [] doErr[r] = "queueTimeout" -> "queue_timeout"
         [] OTHER -> IF cause[r] = "cleanup_failed" THEN "cleanup_failed"
                     ELSE IF doErr[r] = "response" /\ cause[r] # "none" THEN cause[r]
                     ELSE "internal"

Responds(r) == at[r] = "after" /\ Answered(r, AnswerOf(r))

-----------------------------------------------------------------------------
(* The caller and Shutdown.                                                 *)

CallerLeaves(r) ==
  /\ r \notin gone /\ at[r] # "answered"
  /\ gone' = gone \cup {r}
  /\ UNCHANGED <<at, closing, closed, ready, attempt, doErr, answer, sd, dirty>>

\* Slip: closing is stored only when the schedulers have been drained.
ShutdownBeginsOpen ==
  /\ sd \in {"idle", "error"}
  /\ sd' = "waiting"
  /\ UNCHANGED <<at, gone, closing, closed, ready, attempt, doErr, answer, dirty>>

\* closing is stored before any scheduler is told.
ShutdownBegins ==
  /\ sd \in {"idle", "error"}
  /\ closing' = TRUE
  /\ sd' = "waiting"
  /\ UNCHANGED <<at, gone, closed, ready, attempt, doErr, answer, dirty>>

\* One goroutine per distinct scheduler; it goes on when Shutdown has returned.
SchedulerCloses(p) ==
  /\ sd # "idle" /\ p \notin closed
  /\ closed' = closed \cup {p}
  /\ UNCHANGED <<at, gone, closing, ready, attempt, doErr, answer, sd, dirty>>

Drained(p) == p \in closed /\ Active(p) = {}

\* Slip: the first result is taken for all.
ShutdownReturnsFirst ==
  /\ sd = "waiting"
  /\ \E p \in Providers : Drained(p)
  /\ sd' = "nil"
  /\ UNCHANGED <<at, gone, closing, closed, ready, attempt, doErr, answer, dirty>>

\* Every scheduler has answered nil.
ShutdownReturns ==
  /\ sd = "waiting"
  /\ \A p \in Providers : Drained(p)
  /\ sd' = "nil"
  /\ UNCHANGED <<at, gone, closing, closed, ready, attempt, doErr, answer, dirty>>

\* The context of Shutdown ends, or a scheduler answers with an error.
ShutdownExpires ==
  /\ sd = "waiting"
  /\ sd' = "error"
  /\ UNCHANGED <<at, gone, closing, closed, ready, attempt, doErr, answer, dirty>>

Step(r) ==
  \/ RefusedClosing(r) \/ Rejected(r) \/ Enters(r) \/ FindsNotReady(r) \/ FindsReady(r)
  \/ TurnedAway(r) \/ Accepted(r) \/ Activated(r) \/ Finishes(r)
  \/ HealthHasChanged(r) \/ HealthHolds(r) \/ NoID(r) \/ PrepareFails(r) \/ Prepares(r)
  \/ Builds(r) \/ BuildPanics(r) \/ BuildFails(r) \/ Discards(r) \/ DiscardFails(r)
  \/ Executes(r) \/ Classifies(r) \/ Parses(r) \/ Responds(r)

ShutdownStep == ShutdownReturns \/ \E p \in Providers : SchedulerCloses(p)

Next ==
  \/ \E r \in Requests : Step(r) \/ CallerLeaves(r)
  \/ ShutdownBegins \/ ShutdownStep \/ ShutdownExpires

Spec == Init /\ [][Next]_vars

\* Calls of the scheduler and the supervisor return: queue waits end
\* (Scheduler, QueueWaitEnds), the runner has its limits (UnixRunner, Returns).
Fairness ==
  /\ \A r \in Requests : WF_vars(Step(r) /\ at[r] # "idle")
  /\ WF_vars(ShutdownStep)

FairSpec == Spec /\ Fairness

-----------------------------------------------------------------------------
(* What must hold.                                                          *)

\* "A cleanup invariant failure ... makes the provider unavailable", whatever
\* the client is told (docs/reference.md, Shutdown and containment): from the
\* end of the work on the provider is not ready.
CleanupFailureDegrades ==
  \A p \in dirty : p \in ready => \E r \in Active(p) : at[r] = "classify" /\ executed[r] = "cleanup"

\* A request that waited behind a failed cleanup does not start on the provider:
\* health read before the queue is read again (the recheck in Respond's work).
\* Where several requests run at once, one that had its recheck before a
\* neighbour failed still takes its lease; nothing in the code prevents it.
NoLeaseOnDegraded ==
  [][\A r \in Requests :
       lease[r] = "none" /\ lease'[r] = "held" => Serves[r] \in ready \/ Width > 1]_vars

\* When Shutdown has answered nil nothing runs, nothing holds a lease, and
\* nothing will: the supervisors can be shut down (Gateway.Shutdown).
DrainedAfterShutdown ==
  sd = "nil" =>
    /\ closed = Providers
    /\ \A r \in Requests : at[r] \notin Working /\ lease[r] # "held"

\* A stop is blamed on the one who caused it: the client only if its context
\* is done, the shutdown only if there is one; and it never surfaces as an
\* internal error, because closing is visible to whoever sees the effect of a
\* closed scheduler (classifyExecutionError, classifySchedulerError).
StopsAreHonest ==
  \A r \in Requests :
    /\ answer[r] = "canceled" => r \in gone
    /\ answer[r] = "shutting_down" => closing
    /\ answer[r] = "internal" =>
         workErr[r] = "abnormal" \/ (r \in invariant /\ executed[r] # "canceled")

\* Every Respond returns, however its provider, its caller and Shutdown order
\* their events: no path waits for a scheduler that forgot it.
AllAnswered == \A r \in Requests : (at[r] = "entered") ~> (at[r] = "answered")
=============================================================================
