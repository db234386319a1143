----------------------------- MODULE Supervisor ------------------------------
(***************************************************************************)
(* One process supervisor: internal/process/supervisor.go.  A runtime is    *)
(* prepared under a lease, which exactly one Execute or Discard consumes;    *)
(* the lease counts in lifecycle.active until that call has returned.  A     *)
(* process that outlives its runner leaves its cmd.Wait to completionOwner,  *)
(* which every Execute drains, whoever's the waits are.  Shutdown refuses    *)
(* new leases and waits for the others; the root may be closed only then.    *)
(*                                                                         *)
(* A sleeper holds the channel that the next notifyLocked closes, taken      *)
(* under the mutex it gives up: so a notification wakes all that sleep.      *)
(* The runner and the root are their outcomes here (UnixRunner, RuntimeRoot).*)
(***************************************************************************)
EXTENDS Naturals, FiniteSets

CONSTANTS Requests,   \* runtimes that are asked for
          Shutters    \* callers of Shutdown

ASSUME SupervisorAssumption == IsFiniteSet(Requests)

VARIABLES
  shuttingDown, active,  \* supervisorLifecycle
  lease,     \* the lease of a runtime
  use,       \* the Execute or Discard that consumed it
  answer,    \* the kind of its error so far
  wait,      \* its entry in completionOwner.pending
  dir,       \* its directory
  sh,        \* where a caller of Shutdown is
  rootClosed

life == <<shuttingDown, active>>
vars == <<life, lease, use, answer, wait, dir, sh, rootClosed>>

Held == {r \in Requests : lease[r] \in {"preparing", "prepared", "consuming"}}
Pending == {r \in Requests : wait[r] \in {"waiting", "completed", "broken"}}
Uncompleted == {r \in Requests : wait[r] = "waiting"}

TypeOK ==
  /\ shuttingDown \in BOOLEAN /\ rootClosed \in BOOLEAN
  /\ active \in 0..Cardinality(Requests)
  /\ lease \in [Requests -> {"none", "refused", "preparing", "prepared", "consuming", "consumed"}]
  /\ use \in [Requests -> {"off", "checks", "running", "drain", "asleep", "cleanup", "finish",
                           "done"}]
  /\ answer \in [Requests -> {"none", "ok", "failed", "cleanup"}]
  /\ \A r \in Requests : use[r] \in {"drain", "asleep", "cleanup", "finish", "done"}
                           => answer[r] # "none"
  /\ wait \in [Requests -> {"none", "waiting", "completed", "broken", "reaped"}]
  /\ dir \in [Requests -> {"none", "there", "gone"}]
  /\ sh \in [Shutters -> {"idle", "lifecycle", "asleep", "drain", "drainAsleep", "nil", "error"}]

Init ==
  /\ shuttingDown = FALSE /\ active = 0
  /\ lease = [r \in Requests |-> "none"]
  /\ use = [r \in Requests |-> "off"]
  /\ answer = [r \in Requests |-> "none"]
  /\ wait = [r \in Requests |-> "none"]
  /\ dir = [r \in Requests |-> "none"]
  /\ sh = [s \in Shutters |-> "idle"]
  /\ rootClosed = FALSE

-----------------------------------------------------------------------------
(* Notifications: those who sleep look again.                               *)

WakeShutters == [s \in Shutters |-> IF sh[s] = "asleep" THEN "lifecycle" ELSE sh[s]]
DrainersAwake ==
  /\ use' = [r \in Requests |-> IF use[r] = "asleep" THEN "drain" ELSE use[r]]
  /\ sh' = [s \in Shutters |-> IF sh[s] = "drainAsleep" THEN "drain" ELSE sh[s]]

\* Slip: end() does not notify.
EndQuiet == active' = active - 1 /\ UNCHANGED <<shuttingDown, sh>>

\* supervisorLifecycle.end.
End == active' = active - 1 /\ sh' = WakeShutters /\ UNCHANGED shuttingDown

-----------------------------------------------------------------------------
(* Prepare.                                                                 *)

\* Slip: begin does not look at shuttingDown.
BeginAlways(r) ==
  /\ lease[r] = "none"
  /\ active' = active + 1
  /\ lease' = [lease EXCEPT ![r] = "preparing"]
  /\ UNCHANGED <<shuttingDown, use, answer, wait, dir, sh, rootClosed>>

Begin(r) ==
  /\ lease[r] = "none" /\ ~shuttingDown
  /\ active' = active + 1
  /\ lease' = [lease EXCEPT ![r] = "preparing"]
  /\ UNCHANGED <<shuttingDown, use, answer, wait, dir, sh, rootClosed>>

BeginRefused(r) ==
  /\ lease[r] = "none" /\ shuttingDown
  /\ lease' = [lease EXCEPT ![r] = "refused"]
  /\ UNCHANGED <<life, use, answer, wait, dir, sh, rootClosed>>

\* Root.Prepare made the directory.
PrepareOk(r) ==
  /\ lease[r] = "preparing"
  /\ lease' = [lease EXCEPT ![r] = "prepared"]
  /\ dir' = [dir EXCEPT ![r] = "there"]
  /\ UNCHANGED <<life, use, answer, wait, sh, rootClosed>>

\* It failed: the lease is released at once.
PrepareFails(r) ==
  /\ lease[r] = "preparing"
  /\ lease' = [lease EXCEPT ![r] = "refused"]
  /\ End
  /\ UNCHANGED <<use, answer, wait, dir, rootClosed>>

-----------------------------------------------------------------------------
(* Execute and Discard.                                                     *)

\* Slip: a lease can be consumed again.
ConsumeAgain(r, first) ==
  /\ lease[r] \in {"prepared", "consumed"}
  /\ lease' = [lease EXCEPT ![r] = "consuming"]
  /\ use' = [use EXCEPT ![r] = first]
  /\ answer' = [answer EXCEPT ![r] = IF first = "cleanup" THEN "ok" ELSE "none"]
  /\ UNCHANGED <<life, wait, dir, sh, rootClosed>>

\* consumeRuntimeLease for Execute (first = "checks") or Discard ("cleanup").
\* A call that finds the lease consumed is refused and changes nothing.
Consume(r, first) ==
  /\ lease[r] = "prepared"
  /\ lease' = [lease EXCEPT ![r] = "consuming"]
  /\ use' = [use EXCEPT ![r] = first]
  /\ answer' = [answer EXCEPT ![r] = IF first = "cleanup" THEN "ok" ELSE "none"]
  /\ UNCHANGED <<life, wait, dir, sh, rootClosed>>

\* Slip: Execute gives up without an error.
CheckFailsSilent(r) ==
  /\ use[r] = "checks"
  /\ use' = [use EXCEPT ![r] = "drain"]
  /\ UNCHANGED <<life, lease, answer, wait, dir, sh, rootClosed>>

\* The command's directory, the runtime or the context is refused, or
\* Materialize fails.
CheckFails(r) ==
  /\ use[r] = "checks"
  /\ use' = [use EXCEPT ![r] = "drain"]
  /\ answer' = [answer EXCEPT ![r] = "failed"]
  /\ UNCHANGED <<life, lease, wait, dir, sh, rootClosed>>

RunStarts(r) ==
  /\ use[r] = "checks"
  /\ use' = [use EXCEPT ![r] = "running"]
  /\ UNCHANGED <<life, lease, answer, wait, dir, sh, rootClosed>>

\* The runner returns and owes nothing.
RunEnds(r) ==
  /\ use[r] = "running"
  /\ use' = [use EXCEPT ![r] = "drain"]
  /\ answer' \in {[answer EXCEPT ![r] = a] : a \in {"ok", "failed", "cleanup"}}
  /\ UNCHANGED <<life, lease, wait, dir, sh, rootClosed>>

\* The runner hands its unfinished wait over (deferWait) and, still cleaning
\* up, returns a cleanup error.
RunDefers(r) ==
  /\ use[r] = "running" /\ wait[r] = "none"
  /\ wait' = [wait EXCEPT ![r] = "waiting"]
  /\ DrainersAwake
  /\ UNCHANGED <<life, lease, answer, dir, rootClosed>>

RunEndsDeferred(r) ==
  /\ use[r] = "running" /\ wait[r] # "none"
  /\ use' = [use EXCEPT ![r] = "drain"]
  /\ answer' = [answer EXCEPT ![r] = "cleanup"]
  /\ UNCHANGED <<life, lease, wait, dir, sh, rootClosed>>

\* The goroutine of deferWait receives the result, good or unexpected.
WaitCompletes(r, how) ==
  /\ wait[r] = "waiting"
  /\ wait' = [wait EXCEPT ![r] = how]
  /\ DrainersAwake
  /\ UNCHANGED <<life, lease, answer, dir, rootClosed>>

\* One round of completionOwner.drain removes every completed wait.
Reaped == [r \in Requests |-> IF wait[r] \in {"completed", "broken"} THEN "reaped" ELSE wait[r]]
Broken == \E r \in Requests : wait[r] = "broken"

\* Slip: Execute does not wait for what is not completed.
ExecuteDrainsOnce(r) ==
  /\ use[r] = "drain"
  /\ wait' = Reaped
  /\ use' = [use EXCEPT ![r] = "cleanup"]
  /\ answer' = [answer EXCEPT ![r] = IF Broken THEN "cleanup" ELSE @]
  /\ UNCHANGED <<life, lease, dir, sh, rootClosed>>

\* Execute's drain has no deadline, and waits for every pending wait.
ExecuteDrains(r) ==
  /\ use[r] = "drain"
  /\ wait' = Reaped
  /\ use' = [use EXCEPT ![r] = IF Uncompleted = {} THEN "cleanup" ELSE "asleep"]
  /\ answer' = [answer EXCEPT ![r] = IF Broken THEN "cleanup" ELSE @]
  /\ UNCHANGED <<life, lease, dir, sh, rootClosed>>

\* Slip: the answer of a failed cleanup is that of the command.
CleanupRuntimeQuiet(r) ==
  /\ use[r] = "cleanup"
  /\ use' = [use EXCEPT ![r] = "finish"]
  /\ dir' \in {[dir EXCEPT ![r] = "gone"], dir}
  /\ UNCHANGED <<life, lease, answer, wait, sh, rootClosed>>

\* cleanupRuntime: Root.Cleanup under a context of its own.
CleanupRuntime(r) ==
  /\ use[r] = "cleanup"
  /\ use' = [use EXCEPT ![r] = "finish"]
  /\ \/ dir' = [dir EXCEPT ![r] = "gone"] /\ UNCHANGED answer
     \/ answer' = [answer EXCEPT ![r] = "cleanup"] /\ UNCHANGED dir
  /\ UNCHANGED <<life, lease, wait, sh, rootClosed>>

\* runtimeLease.finish, deferred to the end of the call.
Finish(r) ==
  /\ use[r] = "finish"
  /\ use' = [use EXCEPT ![r] = "done"]
  /\ lease' = [lease EXCEPT ![r] = "consumed"]
  /\ End
  /\ UNCHANGED <<answer, wait, dir, rootClosed>>

-----------------------------------------------------------------------------
(* Shutdown.                                                                *)

\* The first call, or another after one that expired.
ShutdownBegins(s) ==
  /\ sh[s] \in {"idle", "error"}
  /\ shuttingDown' = TRUE
  /\ sh' = [IF shuttingDown THEN sh ELSE WakeShutters EXCEPT ![s] = "lifecycle"]
  /\ UNCHANGED <<active, lease, use, answer, wait, dir, rootClosed>>

ShutdownLooks(s) ==
  /\ sh[s] = "lifecycle"
  /\ sh' = [sh EXCEPT ![s] = IF active = 0 THEN "drain" ELSE "asleep"]
  /\ UNCHANGED <<life, lease, use, answer, wait, dir, rootClosed>>

ShutdownDrains(s) ==
  /\ sh[s] = "drain"
  /\ wait' = Reaped
  /\ sh' = [sh EXCEPT ![s] = IF Uncompleted # {} THEN "drainAsleep"
                             ELSE IF Broken THEN "error" ELSE "nil"]
  /\ UNCHANGED <<life, lease, use, answer, dir, rootClosed>>

\* The context of the call ends while it sleeps.
ShutdownExpires(s) ==
  /\ sh[s] \in {"asleep", "drainAsleep"}
  /\ sh' = [sh EXCEPT ![s] = "error"]
  /\ UNCHANGED <<life, lease, use, answer, wait, dir, rootClosed>>

\* "Callers must complete Shutdown before closing the Root."
CloseRoot ==
  /\ \E s \in Shutters : sh[s] = "nil"
  /\ ~rootClosed
  /\ rootClosed' = TRUE
  /\ UNCHANGED <<life, lease, use, answer, wait, dir, sh>>

Step(r) ==
  \/ Begin(r) \/ BeginRefused(r) \/ PrepareOk(r) \/ PrepareFails(r)
  \/ \E first \in {"checks", "cleanup"} : Consume(r, first)
  \/ CheckFails(r) \/ RunStarts(r) \/ RunEnds(r) \/ RunDefers(r) \/ RunEndsDeferred(r)
  \/ ExecuteDrains(r) \/ CleanupRuntime(r) \/ Finish(r)

ShutterStep(s) == ShutdownLooks(s) \/ ShutdownDrains(s)

Next ==
  \/ \E r \in Requests : Step(r) \/ \E how \in {"completed", "broken"} : WaitCompletes(r, how)
  \/ \E s \in Shutters : ShutdownBegins(s) \/ ShutterStep(s) \/ ShutdownExpires(s)
  \/ CloseRoot

Spec == Init /\ [][Next]_vars

\* A caller uses what it prepared (the gateway defers a Discard), the runner
\* returns (UnixRunner, Returns) and a killed process is reaped in the end
\* (ExitedIsReaped).  A Shutdown that has begun runs on and is tried again.
Fairness ==
  /\ \A r \in Requests :
       /\ WF_vars(Step(r) /\ lease[r] \in {"preparing", "prepared", "consuming"})
       /\ WF_vars(\E how \in {"completed", "broken"} : WaitCompletes(r, how))
  /\ \A s \in Shutters :
       /\ WF_vars(ShutterStep(s))
       /\ WF_vars(ShutdownBegins(s) /\ shuttingDown)

FairSpec == Spec /\ Fairness

-----------------------------------------------------------------------------
(* What must hold.                                                          *)

\* The lifecycle counts every lease that is not given back, and no lease twice
\* (begin, runtimeLease.finish).
LeasesCounted == active = Cardinality(Held)

\* Whatever still runs, waits to be reaped or was not even tried to clean up
\* is under a lease (Execute drains and cleans up before it releases).
OwnedByLease ==
  \A r \in Requests :
    r \in Pending \/ use[r] \notin {"off", "done"} \/ (dir[r] = "there" /\ answer[r] # "cleanup")
      => r \in Held

\* After Shutdown has answered nil nothing uses the root any more, so closing
\* it is safe (Shutdown's contract).
ShutdownIsFinal ==
  (\E s \in Shutters : sh[s] = "nil") => Held = {} /\ Pending = {} /\ shuttingDown

\* A call that does not answer with a cleanup error has left no directory.
AnswersHonestly ==
  \A r \in Requests : use[r] = "done" /\ answer[r] # "cleanup" => dir[r] = "gone"

\* No wakeup of a drain or of a waiting Shutdown is lost (the changed channels):
\* a shutdown that is tried again and again succeeds.
ShutdownSucceeds == shuttingDown ~> (\E s \in Shutters : sh[s] = "nil")
=============================================================================
