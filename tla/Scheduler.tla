------------------------------ MODULE Scheduler ------------------------------
(***************************************************************************)
(* The bounded FIFO scheduler of internal/scheduler/scheduler.go: callers   *)
(* of Do, a fixed pool of workers sharing one mutex and one condition       *)
(* variable, the context callbacks that cancel running work, and callers of *)
(* Shutdown.  Each action is one critical section of scheduler.mu, one      *)
(* channel operation, or one event of the environment (a caller that gives  *)
(* up, a queue timer that fires, a work function that returns).             *)
(***************************************************************************)
EXTENDS Integers, Sequences, FiniteSets, SequencesExt

CONSTANTS Requests,     \* the calls of Do, one item each
          Workers,      \* the goroutines New starts: Limits.Concurrency many
          Stoppers,     \* the calls of Shutdown
          QueueSize,    \* Limits.QueueSize
          QueueBytes,   \* Limits.QueueBytes
          Weight,       \* the weight each call passes to Do
          WorkResults,  \* what a work function may report (nil, an error, a panic)
          None          \* no value: an empty channel, an unset result

Terminals == {"shuttingDown", "canceled", "queueTimeout", "queueFull"}
Results == WorkResults \cup Terminals

ASSUME ConstantAssumption ==
  /\ IsFiniteSet(Workers) /\ Workers # {}
  /\ QueueSize \in Nat \ {0}
  /\ QueueBytes \in Nat \ {0}
  /\ Weight \in [Requests -> Nat \ {0}]
  /\ None \notin Results
  /\ None \notin Requests
  /\ WorkResults \cap Terminals = {}

VARIABLES
  state,        \* item.state of each call; "none" before the item is pushed
  queue,        \* scheduler.queue
  queuedBytes,  \* scheduler.queuedBytes
  running,      \* scheduler.running
  closed,       \* scheduler.closed; scheduler.stop is canceled in the same section
  canceled,     \* the calls whose caller context is done
  expired,      \* the calls whose queueCtx deadline has passed
  do,           \* where each Do is
  done,         \* item.done, a channel of capacity 1
  ret,          \* what each Do returned
  worker,       \* where each worker is
  item,         \* the item a worker has popped
  result,       \* the result a worker is about to send
  armed,        \* the items whose two context.AfterFunc registrations are live
  runCtx,       \* the cause of each work function's context
  workersDone,  \* scheduler.workersDone is closed
  stopper       \* where each Shutdown is

itemVars == <<state, queue, queuedBytes, running>>
envVars == <<canceled, expired>>
doVars == <<do, done, ret>>
workerVars == <<worker, item, result>>
ctxVars == <<armed, runCtx>>
stopVars == <<closed, workersDone, stopper>>
vars == <<itemVars, envVars, doVars, workerVars, ctxVars, stopVars>>

TypeOK ==
  /\ state \in [Requests -> {"none", "Queued", "Starting", "Running", "Done"}]
  /\ queue \in Seq(Requests)
  /\ queuedBytes \in Int
  /\ running \in Int
  /\ closed \in BOOLEAN
  /\ canceled \in SUBSET Requests
  /\ expired \in SUBSET Requests
  /\ do \in [Requests -> {"idle", "enter", "wait", "await", "returned"}]
  /\ done \in [Requests -> Results \cup {None}]
  /\ ret \in [Requests -> Results \cup {None}]
  /\ worker \in [Workers -> {"idle", "waiting", "popped", "arming", "ready",
                             "working", "finishing", "delivering", "exited"}]
  /\ item \in [Workers -> Requests \cup {None}]
  /\ result \in [Workers -> Results \cup {None}]
  /\ armed \in SUBSET Requests
  /\ runCtx \in [Requests -> {"none", "open", "canceled", "shuttingDown", "released"}]
  /\ workersDone \in BOOLEAN
  /\ stopper \in [Stoppers -> {"idle", "waiting", "nil", "ctxErr"}]

Init ==
  /\ state = [r \in Requests |-> "none"]
  /\ queue = <<>>
  /\ queuedBytes = 0
  /\ running = 0
  /\ closed = FALSE
  /\ canceled = {}
  /\ expired = {}
  /\ do = [r \in Requests |-> "idle"]
  /\ done = [r \in Requests |-> None]
  /\ ret = [r \in Requests |-> None]
  /\ worker = [w \in Workers |-> "idle"]
  /\ item = [w \in Workers |-> None]
  /\ result = [w \in Workers |-> None]
  /\ armed = {}
  /\ runCtx = [r \in Requests |-> "none"]
  /\ workersDone = FALSE
  /\ stopper = [s \in Stoppers |-> "idle"]

-----------------------------------------------------------------------------
(* The causes, in the order the switch statements test them.               *)

\* Slip: only the caller is consulted.
ActiveCauseIgnoresClose(r) == IF r \in canceled THEN "canceled" ELSE None

\* activeCancellationCauseLocked, and terminalFromCause of what it answers.
ActiveCause(r) ==
  CASE closed -> "shuttingDown"
    [] ~closed /\ r \in canceled -> "canceled"
    [] OTHER -> None

\* Slip: the deadline of a queued item is not consulted.
QueuedTerminalNoDeadline(r) == ActiveCause(r)

\* queuedTerminalLocked: the queue deadline counts only while an item waits.
QueuedTerminal(r) ==
  CASE ActiveCause(r) # None -> ActiveCause(r)
    [] ActiveCause(r) = None /\ r \in expired -> "queueTimeout"
    [] OTHER -> None

\* Slip: the front leaves, whichever item gave up.
UnlinkFront(q, r) == Tail(q)

\* list.Remove of the element of r.
Unlink(q, r) == RemoveAt(q, CHOOSE i \in DOMAIN q : q[i] = r)

\* The bytes a set of items weighs, as the number of its (item, byte) pairs.
BytePairs(S) == UNION {{r} \X (1..Weight[r]) : r \in S}
BytesIn(S) == Cardinality(BytePairs(S))

\* Slip: the byte bound is not tested.
FullBySizeOnly(r) == Len(queue) >= QueueSize

\* Do's two bounds: the number of items and the bytes that are left.
Full(r) == Len(queue) >= QueueSize \/ Weight[r] > QueueBytes - queuedBytes

\* Slip: nobody is woken while another worker is busy: it is trusted to find
\* the item when it comes back.
SignalIfAllSleep ==
  IF \A w \in Workers : worker[w] = "waiting"
  THEN \E w \in Workers : worker' = [worker EXCEPT ![w] = "idle"]
  ELSE UNCHANGED worker

\* cond.Signal wakes one waiting worker if there is one; Broadcast wakes all.
Signal ==
  IF \E w \in Workers : worker[w] = "waiting"
  THEN \E w \in Workers : /\ worker[w] = "waiting"
                          /\ worker' = [worker EXCEPT ![w] = "idle"]
  ELSE UNCHANGED worker

\* Slip: Shutdown wakes nobody.
BroadcastNone == UNCHANGED worker

Broadcast ==
  worker' = [w \in Workers |-> IF worker[w] = "waiting" THEN "idle" ELSE worker[w]]

-----------------------------------------------------------------------------
(* Do.                                                                      *)

\* A caller enters Do: the item and its queueCtx exist, the deadline runs.
Enter(r) ==
  /\ do[r] = "idle"
  /\ do' = [do EXCEPT ![r] = "enter"]
  /\ UNCHANGED <<itemVars, envVars, done, ret, workerVars, ctxVars, stopVars>>

\* The admission section answers at once: a terminal cause, or a full queue.
Refuse(r) ==
  /\ do[r] = "enter"
  /\ QueuedTerminal(r) # None \/ Full(r)
  /\ ret' = [ret EXCEPT ![r] = IF QueuedTerminal(r) # None THEN QueuedTerminal(r)
                                                           ELSE "queueFull"]
  /\ do' = [do EXCEPT ![r] = "returned"]
  /\ UNCHANGED <<itemVars, envVars, done, workerVars, ctxVars, stopVars>>

\* The admission section pushes the item and signals one worker.
Admit(r) ==
  /\ do[r] = "enter"
  /\ QueuedTerminal(r) = None
  /\ ~Full(r)
  /\ state' = [state EXCEPT ![r] = "Queued"]
  /\ queue' = Append(queue, r)
  /\ queuedBytes' = queuedBytes + Weight[r]
  /\ Signal
  /\ do' = [do EXCEPT ![r] = "wait"]
  /\ UNCHANGED <<running, envVars, done, ret, item, result, ctxVars, stopVars>>

\* Do's select saw a finished context and the item is still queued:
\* completeQueuedLocked removes it and leaves its terminal in item.done.
GiveUp(r) ==
  /\ do[r] = "wait"
  /\ r \in canceled \cup expired
  /\ state[r] = "Queued"
  /\ QueuedTerminal(r) # None
  /\ done[r] = None
  /\ queue' = Unlink(queue, r)
  /\ queuedBytes' = queuedBytes - Weight[r]
  /\ state' = [state EXCEPT ![r] = "Done"]
  /\ done' = [done EXCEPT ![r] = QueuedTerminal(r)]
  /\ do' = [do EXCEPT ![r] = "await"]
  /\ UNCHANGED <<running, envVars, ret, workerVars, ctxVars, stopVars>>

\* Do's select saw a finished context (queueCancel finishes queueCtx as soon
\* as the item leaves the queue) but the item is no longer queued: from here
\* on Do waits for item.done alone.
CommitToWait(r) ==
  /\ do[r] = "wait"
  /\ state[r] # "Queued"
  /\ do' = [do EXCEPT ![r] = "await"]
  /\ UNCHANGED <<itemVars, envVars, done, ret, workerVars, ctxVars, stopVars>>

\* Do receives from item.done and returns.
Receive(r) ==
  /\ do[r] \in {"wait", "await"}
  /\ done[r] # None
  /\ ret' = [ret EXCEPT ![r] = done[r]]
  /\ done' = [done EXCEPT ![r] = None]
  /\ do' = [do EXCEPT ![r] = "returned"]
  /\ UNCHANGED <<itemVars, envVars, workerVars, ctxVars, stopVars>>

-----------------------------------------------------------------------------
(* The worker loop and execute.                                             *)

\* cond.Wait: nothing queued and not closed.
Sleep(w) ==
  /\ worker[w] = "idle"
  /\ queue = <<>>
  /\ ~closed
  /\ worker' = [worker EXCEPT ![w] = "waiting"]
  /\ UNCHANGED <<itemVars, envVars, doVars, item, result, ctxVars, stopVars>>

\* The worker returns: nothing queued and the scheduler is closed.
Exit(w) ==
  /\ worker[w] = "idle"
  /\ queue = <<>>
  /\ closed
  /\ worker' = [worker EXCEPT ![w] = "exited"]
  /\ UNCHANGED <<itemVars, envVars, doVars, item, result, ctxVars, stopVars>>

\* The worker pops the front item whatever its contexts say by now.
Pop(w) ==
  /\ worker[w] = "idle"
  /\ queue # <<>>
  /\ LET r == Head(queue) IN
       /\ state' = [state EXCEPT ![r] = "Starting"]
       /\ queuedBytes' = queuedBytes - Weight[r]
       /\ item' = [item EXCEPT ![w] = r]
  /\ queue' = Tail(queue)
  /\ worker' = [worker EXCEPT ![w] = "popped"]
  /\ UNCHANGED <<running, envVars, doVars, result, ctxVars, stopVars>>

\* newRunContext, first section: an item that already has a cause gets a
\* canceled context and no callback.
NewRunContext(w) ==
  /\ worker[w] = "popped"
  /\ LET r == item[w] IN
       IF ActiveCause(r) # None
       THEN /\ runCtx' = [runCtx EXCEPT ![r] = ActiveCause(r)]
            /\ worker' = [worker EXCEPT ![w] = "ready"]
       ELSE /\ runCtx' = [runCtx EXCEPT ![r] = "open"]
            /\ worker' = [worker EXCEPT ![w] = "arming"]
  /\ UNCHANGED <<itemVars, envVars, doVars, item, result, armed, stopVars>>

\* Slip: the signals are looked at once and no callback is registered.
ArmOnce(w) ==
  /\ worker[w] = "arming"
  /\ runCtx' = IF ActiveCause(item[w]) # None
               THEN [runCtx EXCEPT ![item[w]] = ActiveCause(item[w])]
               ELSE runCtx
  /\ worker' = [worker EXCEPT ![w] = "ready"]
  /\ UNCHANGED <<itemVars, envVars, doVars, item, result, armed, stopVars>>

\* newRunContext: both AfterFunc registrations and the cancelFromSignals call
\* after them, for a signal that came before the registration.
Arm(w) ==
  /\ worker[w] = "arming"
  /\ LET r == item[w] IN
       /\ armed' = armed \cup {r}
       /\ runCtx' = IF ActiveCause(r) # None
                    THEN [runCtx EXCEPT ![r] = ActiveCause(r)]
                    ELSE runCtx
  /\ worker' = [worker EXCEPT ![w] = "ready"]
  /\ UNCHANGED <<itemVars, envVars, doVars, item, result, stopVars>>

\* A registered callback (cancelFromSignals) runs in a goroutine of its own:
\* the caller context or scheduler.stop is done.
SignalFires(r) ==
  /\ r \in armed
  /\ runCtx[r] = "open"
  /\ ActiveCause(r) # None
  /\ runCtx' = [runCtx EXCEPT ![r] = ActiveCause(r)]
  /\ UNCHANGED <<itemVars, envVars, doVars, workerVars, armed, stopVars>>

\* execute, first section: a cause found here means the work never starts.
AbandonStart(w) ==
  /\ worker[w] = "ready"
  /\ LET r == item[w] IN
       /\ ActiveCause(r) # None
       /\ state' = [state EXCEPT ![r] = "Done"]
       /\ result' = [result EXCEPT ![w] = ActiveCause(r)]
       /\ armed' = armed \ {r}
       /\ runCtx' = [runCtx EXCEPT ![r] = IF @ = "open" THEN "released" ELSE @]
  /\ worker' = [worker EXCEPT ![w] = "delivering"]
  /\ UNCHANGED <<queue, queuedBytes, running, envVars, doVars, item, stopVars>>

\* execute, first section: the item becomes Running and invokeWork starts it.
StartWork(w) ==
  /\ worker[w] = "ready"
  /\ ActiveCause(item[w]) = None
  /\ state' = [state EXCEPT ![item[w]] = "Running"]
  /\ running' = running + 1
  /\ worker' = [worker EXCEPT ![w] = "working"]
  /\ UNCHANGED <<queue, queuedBytes, envVars, doVars, item, result, ctxVars, stopVars>>

\* The work function returns or panics; invokeWork hands its result over.
WorkReturns(w) ==
  /\ worker[w] = "working"
  /\ \E x \in WorkResults : result' = [result EXCEPT ![w] = x]
  /\ worker' = [worker EXCEPT ![w] = "finishing"]
  /\ UNCHANGED <<itemVars, envVars, doVars, item, ctxVars, stopVars>>

\* cleanup, then execute's second section: a cause overrides what work said.
Finish(w) ==
  /\ worker[w] = "finishing"
  /\ LET r == item[w] IN
       /\ state' = [state EXCEPT ![r] = "Done"]
       /\ result' = [result EXCEPT ![w] = IF ActiveCause(r) # None THEN ActiveCause(r) ELSE @]
       /\ armed' = armed \ {r}
       /\ runCtx' = [runCtx EXCEPT ![r] = IF @ = "open" THEN "released" ELSE @]
  /\ running' = running - 1
  /\ worker' = [worker EXCEPT ![w] = "delivering"]
  /\ UNCHANGED <<queue, queuedBytes, envVars, doVars, item, stopVars>>

\* current.done <- result, outside the mutex; then back to the loop.
Deliver(w) ==
  /\ worker[w] = "delivering"
  /\ done[item[w]] = None
  /\ done' = [done EXCEPT ![item[w]] = result[w]]
  /\ item' = [item EXCEPT ![w] = None]
  /\ result' = [result EXCEPT ![w] = None]
  /\ worker' = [worker EXCEPT ![w] = "idle"]
  /\ UNCHANGED <<itemVars, envVars, do, ret, ctxVars, stopVars>>

-----------------------------------------------------------------------------
(* Shutdown.                                                                *)

\* The section of Shutdown.  The first caller closes the scheduler, completes
\* every queued item, cancels scheduler.stop and wakes every worker.
BeginShutdown(s) ==
  /\ stopper[s] = "idle"
  /\ stopper' = [stopper EXCEPT ![s] = "waiting"]
  /\ IF closed
     THEN UNCHANGED <<itemVars, done, worker, closed>>
     ELSE /\ closed' = TRUE
          /\ \A r \in ToSet(queue) : done[r] = None
          /\ state' = [r \in Requests |-> IF r \in ToSet(queue) THEN "Done" ELSE state[r]]
          /\ done' = [r \in Requests |->
                        IF r \in ToSet(queue) THEN "shuttingDown" ELSE done[r]]
          /\ queue' = <<>>
          /\ queuedBytes' = queuedBytes - BytesIn(ToSet(queue))
          /\ Broadcast
          /\ UNCHANGED running
  /\ UNCHANGED <<envVars, do, ret, item, result, ctxVars, workersDone>>

\* Slip: workersDone follows the close flag, not the workers.
CloseWorkersDoneEarly ==
  /\ ~workersDone
  /\ closed
  /\ workersDone' = TRUE
  /\ UNCHANGED <<itemVars, envVars, doVars, workerVars, ctxVars, closed, stopper>>

\* The goroutine New starts closes workersDone after workers.Wait.
CloseWorkersDone ==
  /\ ~workersDone
  /\ \A w \in Workers : worker[w] = "exited"
  /\ workersDone' = TRUE
  /\ UNCHANGED <<itemVars, envVars, doVars, workerVars, ctxVars, closed, stopper>>

\* Shutdown returns nil: every worker has returned.
ShutdownDone(s) ==
  /\ stopper[s] = "waiting"
  /\ workersDone
  /\ stopper' = [stopper EXCEPT ![s] = "nil"]
  /\ UNCHANGED <<itemVars, envVars, doVars, workerVars, ctxVars, closed, workersDone>>

\* Shutdown returns ctx.Err(): its own context ended before the workers did.
ShutdownExpires(s) ==
  /\ stopper[s] = "waiting"
  /\ ~workersDone
  /\ stopper' = [stopper EXCEPT ![s] = "ctxErr"]
  /\ UNCHANGED <<itemVars, envVars, doVars, workerVars, ctxVars, closed, workersDone>>

-----------------------------------------------------------------------------
(* The environment.                                                         *)

\* The caller's context ends at any time from the call to its return (one that
\* ended before the call is the case where nothing happens in between).
CallerCancels(r) ==
  /\ r \notin canceled
  /\ do[r] \notin {"idle", "returned"}
  /\ canceled' = canceled \cup {r}
  /\ UNCHANGED <<itemVars, expired, doVars, workerVars, ctxVars, stopVars>>

\* The queue timer fires; it is stopped when the item leaves the queue.
QueueTimerFires(r) ==
  /\ r \notin expired
  /\ \/ do[r] = "enter"
     \/ do[r] = "wait" /\ state[r] = "Queued"
  /\ expired' = expired \cup {r}
  /\ UNCHANGED <<itemVars, canceled, doVars, workerVars, ctxVars, stopVars>>

\* Every call has returned and every goroutine sleeps or is gone.
Quiescent ==
  /\ \A r \in Requests : do[r] = "returned"
  /\ \A w \in Workers : worker[w] \in {"waiting", "exited"}
  /\ \A s \in Stoppers : stopper[s] \in {"nil", "ctxErr"}
  /\ UNCHANGED vars

DoStep(r) ==
  Enter(r) \/ Refuse(r) \/ Admit(r) \/ GiveUp(r) \/ CommitToWait(r) \/ Receive(r)

WorkerStep(w) ==
  \/ Sleep(w) \/ Exit(w) \/ Pop(w) \/ NewRunContext(w) \/ Arm(w)
  \/ AbandonStart(w) \/ StartWork(w) \/ Finish(w) \/ Deliver(w)

StopStep(s) == BeginShutdown(s) \/ ShutdownDone(s) \/ ShutdownExpires(s)

Next ==
  \/ \E r \in Requests : DoStep(r) \/ SignalFires(r) \/ CallerCancels(r) \/ QueueTimerFires(r)
  \/ \E w \in Workers : WorkerStep(w) \/ WorkReturns(w)
  \/ \E s \in Stoppers : StopStep(s)
  \/ CloseWorkersDone
  \/ Quiescent

Spec == Init /\ [][Next]_vars

-----------------------------------------------------------------------------
(* Fairness: every goroutine that can run does, every timer fires, and a    *)
(* work function whose context has been canceled returns.  A work function   *)
(* nobody cancels may run for ever, and no caller is obliged to call Do,     *)
(* to give up, or to shut down.                                             *)

Fairness ==
  /\ \A r \in Requests :
       /\ WF_vars(Refuse(r) \/ Admit(r) \/ GiveUp(r) \/ CommitToWait(r) \/ Receive(r))
       /\ WF_vars(SignalFires(r))
       /\ WF_vars(QueueTimerFires(r))
  /\ \A w \in Workers :
       /\ WF_vars(WorkerStep(w))
       /\ WF_vars(WorkReturns(w) /\ runCtx[item[w]] # "open")
  /\ WF_vars(CloseWorkersDone)

FairSpec == Spec /\ Fairness

-----------------------------------------------------------------------------
(* What must hold.                                                          *)

Held(r) == {w \in Workers : item[w] = r}

\* Every accepted call is in exactly one place: in the queue, with one worker,
\* in item.done, or back with its caller.  A second push, pop or send, or an
\* item nobody owns, breaks this (Do, worker, execute, completeQueuedLocked).
OneOwner ==
  \A r \in Requests :
    /\ state[r] = "Queued" <=> r \in ToSet(queue)
    /\ Cardinality({i \in DOMAIN queue : queue[i] = r}) <= 1
    /\ Cardinality(Held(r)) <= 1
    /\ state[r] \in {"Starting", "Running"} => Held(r) # {}
    /\ state[r] \in {"none", "Queued"} => Held(r) = {} /\ done[r] = None
    /\ state[r] = "Done" =>
         Cardinality(Held(r)) + (IF done[r] # None THEN 1 ELSE 0)
                              + (IF ret[r] # None THEN 1 ELSE 0) = 1

\* queuedBytes is what the queued items weigh, and neither queue bound is ever
\* exceeded, although items leave the queue from its middle (Do, worker,
\* completeQueuedLocked, Shutdown).
QueueBounded ==
  /\ queuedBytes = BytesIn(ToSet(queue))
  /\ queuedBytes <= QueueBytes
  /\ Len(queue) <= QueueSize

\* The workers without an item that are awake: each is on its way to the queue.
Idle == {w \in Workers : worker[w] = "idle"}

\* No wakeup is lost: while any worker sleeps in cond.Wait there is an idle one
\* for every item that waits, so that no item depends on a busy worker, whose
\* work may last for ever; and once the scheduler is closed none sleeps
\* (cond.Signal in Do, cond.Broadcast in Shutdown, cond.Wait in worker).
NoLostWakeup ==
  /\ (\E w \in Workers : worker[w] = "waiting") => Len(queue) <= Cardinality(Idle)
  /\ closed => \A w \in Workers : worker[w] # "waiting"

\* A work function never runs with a context that no signal can cancel any
\* more: its callbacks are live or the context is canceled already, however a
\* cancellation interleaves with the sections of newRunContext and execute.
Cancelable ==
  \A w \in Workers :
    worker[w] = "working" => item[w] \in armed \/ runCtx[item[w]] # "open"

\* Once any Shutdown has returned nil nothing is queued, starting or running,
\* and every item has its result: Do can no longer block (Shutdown).
ShutdownIsFinal ==
  (\E s \in Stoppers : stopper[s] = "nil") =>
    /\ running = 0 /\ queue = <<>> /\ armed = {}
    /\ \A r \in Requests : state[r] # "none" => done[r] # None \/ ret[r] # None

\* What WorkPool sees: the calls with a worker, and the result of a call from
\* the section that decides it (execute, completeQueuedLocked, Shutdown, Do) on.
Active == {r \in Requests : state[r] \in {"Starting", "Running"}}
Delivering(r) == {w \in Held(r) : worker[w] = "delivering"}

Outcome ==
  [r \in Requests |->
     CASE ret[r] # None -> ret[r]
       [] ret[r] = None /\ done[r] # None -> done[r]
       [] ret[r] = None /\ done[r] = None /\ Delivering(r) # {}
            -> result[CHOOSE w \in Delivering(r) : TRUE]
       [] OTHER -> None]

Pool == INSTANCE WorkPool WITH
  Calls <- Requests,
  Width <- Cardinality(Workers),
  Depth <- QueueSize,
  Reports <- WorkResults,
  Unset <- None,
  open <- ~closed,
  pending <- queue,
  active <- Active,
  gone <- canceled,
  outcome <- Outcome

\* The promise of WorkPool: bounded, first in first out, one outcome per call,
\* and neither a closed pool nor a caller who left before the call ended gets the
\* result of the work (Do, worker, execute, Shutdown).
ImplementsWorkPool == Pool!PoolSpec

\* The queue empties again and again: every wait in it ends by a worker, the
\* caller, its deadline or a shutdown, even when every worker is stuck in a work
\* function that never returns (Do's select loop, Shutdown).  A call is
\* queued at most once, so a wait without end would keep the queue from emptying.
QueueWaitEnds == []<>(queue = <<>>)

\* Once closed, every worker returns and workersDone is closed (Shutdown).
WorkersDrain == closed ~> workersDone

=============================================================================
