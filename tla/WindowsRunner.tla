---------------------------- MODULE WindowsRunner ----------------------------
(***************************************************************************)
(* One provider process on Windows: internal/process/runner_windows.go.     *)
(* The root is created suspended, put into a Job Object and resumed; the    *)
(* runner watches for the first terminal event, empties and closes the Job, *)
(* and joins its three I/O workers and the wait for the root within two     *)
(* deadlines.  What is not done by then goes to goroutines of the           *)
(* completion owner, which go on terminating, waiting and closing.          *)
(*                                                                         *)
(* Every call of the Windows API may fail.  The kernel ends what it has     *)
(* terminated; the provider owes nothing, and a process outside the Job may *)
(* hold a duplicate of its output handles for ever.                         *)
(***************************************************************************)
EXTENDS Naturals, FiniteSets

CONSTANTS Kids,            \* processes the provider may bring about
          Streams,         \* the captured streams
          Limit,           \* StdoutBytes and StderrBytes, in chunks
          MaxWritten       \* bound: chunks the provider writes to a stream

ASSUME WindowsAssumption ==
  Limit \in Nat /\ MaxWritten \in Nat /\ "stdin" \notin Streams /\ "root" \notin Kids

Workers == Streams \cup {"stdin"}

VARIABLES
  pc,           \* where runWindowsOwned, startWindowsProcess or abortStart is
  root, handle, \* the root process; is its handle open
  assigned, job,\* is the root in the Job; the Job's handle
  kid,          \* each descendant
  killed,       \* living processes that were terminated
  inPipe, total,\* chunks written and not yet read; capture.total
  worker,       \* the I/O workers
  cancelIO,     \* CancelSynchronousIo is requested of them
  ctxDone, expired,        \* the context; executionExpired
  primaryOver, overdue,    \* primaryContext and hardContext are done
  wait,         \* the goroutine of startRootWait
  terminated,   \* a TerminateJobObject or TerminateProcess succeeded
  owed,         \* what the completion owner's goroutines still have to do
  kind, failed  \* kind of the RunError; cleanupErrors is not empty

procVars == <<root, kid, killed>>
pipeVars == <<inPipe, total, worker>>
eventVars == <<ctxDone, expired, primaryOver, overdue>>
endVars == <<owed, kind, failed>>
vars == <<pc, procVars, handle, assigned, job, pipeVars, cancelIO, eventVars, wait, terminated,
          endVars>>

TypeOK ==
  /\ pc \in {"init", "suspended", "assigned", "resumed", "abort", "abortWait", "abortJob",
             "watch", "stop", "finish", "unfinished", "join", "returned"}
  /\ root \in {"none", "suspended", "running", "exited"}
  /\ job \in {"none", "open", "closed"}
  /\ kid \in [Kids -> {"none", "member", "quiet", "outside", "dead"}]
  /\ killed \subseteq Kids \cup {"root"}
  /\ inPipe \in [Streams -> 0..MaxWritten] /\ total \in [Streams -> 0..MaxWritten]
  /\ worker \in [Workers -> {"off", "busy", "done", "failed"}]
  /\ wait \in {"off", "waiting", "done", "error"}
  /\ owed \subseteq {"process", "kill", "job", "io"}
  /\ kind \in {"none", "start", "canceled", "timeout", "output_limit", "cleanup"}
  /\ {handle, assigned, cancelIO, ctxDone, expired, primaryOver, overdue, terminated, failed}
       \subseteq BOOLEAN

Init ==
  /\ pc = "init"
  /\ root = "none" /\ handle = FALSE /\ assigned = FALSE /\ job = "none"
  /\ kid = [k \in Kids |-> "none"] /\ killed = {}
  /\ inPipe = [s \in Streams |-> 0] /\ total = [s \in Streams |-> 0]
  /\ worker = [w \in Workers |-> "off"] /\ cancelIO = FALSE
  /\ ctxDone = FALSE /\ expired = FALSE /\ primaryOver = FALSE /\ overdue = FALSE
  /\ wait = "off" /\ terminated = FALSE
  /\ owed = {} /\ kind = "none" /\ failed = FALSE

-----------------------------------------------------------------------------
Live == root \in {"suspended", "running"}
Members == {k \in Kids : kid[k] \in {"member", "quiet"}}

\* Job accounting: somebody was assigned, and nobody is active.
JobEmpty == assigned /\ ~Live /\ Members = {}

\* Whoever still holds the write ends of the output pipes.
PipesHeld == Live \/ \E k \in Kids : kid[k] \in {"member", "outside"}

Overflowed == \E s \in Streams : total[s] > Limit
Idle == \A w \in Workers : worker[w] # "busy"

Terminates(victims) == killed' = killed \cup victims /\ terminated' = TRUE
Everyone == Members \cup {p \in {"root"} : Live}
Refused == UNCHANGED <<killed, terminated>>

\* What a step of the main goroutine never touches.
Main == UNCHANGED <<kid, pipeVars, eventVars>>

-----------------------------------------------------------------------------
(* startWindowsProcess and abortStart.                                       *)

\* Before there is a process; the handles may refuse to be closed.
StartFails ==
  /\ pc = "init"
  /\ kind' \in {"start", "cleanup"} \cup IF ctxDone THEN {"canceled"} ELSE {}
  /\ pc' = "returned"
  /\ Main /\ UNCHANGED <<root, killed, handle, assigned, job, cancelIO, wait, terminated, owed, failed>>

Create ==
  /\ pc = "init" /\ ~ctxDone
  /\ root' = "suspended" /\ handle' = TRUE
  /\ pc' = "suspended"
  /\ Main /\ UNCHANGED <<killed, assigned, job, cancelIO, wait, terminated, endVars>>

Assign ==
  /\ pc = "suspended"
  /\ job' = "open" /\ assigned' = TRUE
  /\ pc' = "assigned"
  /\ Main /\ UNCHANGED <<root, killed, handle, cancelIO, wait, terminated, endVars>>

Resume ==
  /\ pc = "assigned"
  /\ root' = "running"
  /\ pc' = "resumed"
  /\ Main /\ UNCHANGED <<killed, handle, assigned, job, cancelIO, wait, terminated, endVars>>

\* A handle cannot be closed; the Job cannot be made, configured or joined; the root
\* cannot be resumed.
LaunchFails ==
  /\ pc \in {"suspended", "assigned", "resumed"}
  /\ job' \in IF pc = "suspended" THEN {"none", "open"} ELSE {job}
  /\ kind' = "cleanup"
  /\ pc' = "abort"
  /\ Main /\ UNCHANGED <<root, killed, handle, assigned, cancelIO, wait, terminated, owed, failed>>

Abort ==
  /\ pc = "abort"
  /\ Terminates(Everyone) \/ Refused
  /\ pc' = "abortWait"
  /\ Main /\ UNCHANGED <<root, handle, assigned, job, cancelIO, wait, endVars>>

AbortWaited ==
  /\ pc = "abortWait" /\ root = "exited"
  /\ handle' = FALSE
  /\ pc' = "abortJob"
  /\ Main /\ UNCHANGED <<root, killed, assigned, job, cancelIO, wait, terminated, endVars>>

\* The wait expires: it is handed on, with the termination if no Job can do it.
AbortUnwaited ==
  /\ pc = "abortWait" /\ overdue
  /\ owed' = owed \cup {IF assigned \/ terminated THEN "process" ELSE "kill"}
  /\ pc' = "abortJob"
  /\ Main /\ UNCHANGED <<root, killed, handle, assigned, job, cancelIO, wait, terminated, kind, failed>>

\* A Job that holds nobody is closed, the other one as soon as it is empty.
AbortJobClosed ==
  /\ pc = "abortJob" /\ (assigned => JobEmpty)
  /\ job' = IF job = "open" THEN "closed" ELSE job
  /\ pc' = "returned"
  /\ Main /\ UNCHANGED <<root, killed, handle, assigned, cancelIO, wait, terminated, endVars>>

AbortJobOwed ==
  /\ pc = "abortJob" /\ assigned /\ overdue /\ ~JobEmpty
  /\ owed' = owed \cup {"job"}
  /\ pc' = "returned"
  /\ Main /\ UNCHANGED <<root, killed, handle, assigned, job, cancelIO, wait, terminated, kind, failed>>

\* The wait, the exit code or the accounting cannot be had at all.
AbortFails ==
  /\ \/ /\ pc = "abortWait" /\ pc' = "abortJob"
        /\ owed' = owed \cup {IF assigned \/ terminated THEN "process" ELSE "kill"}
     \/ pc = "abortJob" /\ assigned /\ owed' = owed \cup {"job"} /\ pc' = "returned"
  /\ Main /\ UNCHANGED <<root, killed, handle, assigned, job, cancelIO, wait, terminated, kind, failed>>

-----------------------------------------------------------------------------
(* runWindowsOwned.                                                          *)

Watch ==
  /\ pc = "resumed"
  /\ worker' = [w \in Workers |-> "busy"] /\ wait' = "waiting"
  /\ pc' = "watch"
  /\ UNCHANGED <<procVars, handle, assigned, job, inPipe, total, cancelIO, eventVars, terminated, endVars>>

\* terminalState.commit: whichever event woke the runner, all are looked at in order.
Commit ==
  /\ pc = "watch"
  /\ Overflowed \/ ctxDone \/ expired \/ wait # "waiting"
  /\ kind' = IF Overflowed THEN "output_limit" ELSE IF ctxDone THEN "canceled"
             ELSE IF expired THEN "timeout" ELSE "none"
  /\ pc' = "stop"
  /\ Main /\ UNCHANGED <<root, killed, handle, assigned, job, cancelIO, wait, terminated, owed, failed>>

-----------------------------------------------------------------------------
(* terminateWindows.                                                         *)

\* A forced stop terminates the Job at once.
Stop ==
  /\ pc = "stop"
  /\ \/ kind = "none" /\ Refused /\ UNCHANGED failed
     \/ kind # "none" /\ Terminates(Everyone) /\ UNCHANGED failed
     \/ kind # "none" /\ Refused /\ failed' = TRUE
  /\ pc' = "finish"
  /\ Main /\ UNCHANGED <<root, handle, assigned, job, cancelIO, wait, owed, kind>>

\* finishWindowsJob: nobody is active; the Job is closed.
FinishEmpty ==
  /\ pc = "finish" /\ JobEmpty
  /\ job' = "closed"
  /\ failed' \in {failed, TRUE}
  /\ pc' = "join"
  /\ Main /\ UNCHANGED <<root, killed, handle, assigned, cancelIO, wait, terminated, owed, kind>>

\* After an exit the descendants that remain are terminated, once.
FinishTerminates ==
  /\ pc = "finish" /\ ~JobEmpty
  /\ kind = "none" /\ ~terminated
  /\ \/ Terminates(Everyone) /\ pc' = "finish"
     \/ Refused /\ pc' = "unfinished"
  /\ Main /\ UNCHANGED <<root, handle, assigned, job, cancelIO, wait, endVars>>

FinishExpires ==
  /\ pc = "finish" /\ primaryOver /\ ~JobEmpty
  /\ pc' = "unfinished"
  /\ Main /\ UNCHANGED <<root, killed, handle, assigned, job, cancelIO, wait, terminated, endVars>>

\* The accounting cannot be queried.
FinishFails ==
  /\ pc = "finish"
  /\ pc' = "unfinished"
  /\ Main /\ UNCHANGED <<root, killed, handle, assigned, job, cancelIO, wait, terminated, endVars>>

\* Terminate, unless that is under way, cancel the I/O, and hand the Job on.
Unfinished ==
  /\ pc = "unfinished"
  /\ IF terminated THEN Refused ELSE Terminates(Everyone) \/ Refused
  /\ failed' = TRUE /\ cancelIO' = TRUE
  /\ owed' = owed \cup {"job"}
  /\ pc' = "join"
  /\ Main /\ UNCHANGED <<root, handle, assigned, job, wait, kind>>

Joined == wait # "waiting" /\ Idle

\* joinWindowsCompletions: the primary deadline cancels the I/O that goes on.
JoinForced ==
  /\ pc = "join" /\ primaryOver /\ ~Joined /\ ~cancelIO
  /\ cancelIO' = TRUE /\ failed' = TRUE
  /\ Main /\ UNCHANGED <<pc, root, killed, handle, assigned, job, wait, terminated, owed, kind>>

\* Slip: output that overflowed while it was drained is not looked at.
ReturnsEarlyKind(err) ==
  /\ failed' = err
  /\ kind' = IF err THEN "cleanup" ELSE kind
  /\ pc' = "returned"

\* A cleanup error wins; an overflow seen while draining wins over the exit.
ReturnsKind(err) ==
  /\ failed' = err
  /\ kind' = IF err THEN "cleanup" ELSE IF Overflowed THEN "output_limit" ELSE kind
  /\ pc' = "returned"

\* acceptWindowsRootWait: a wait that failed before the handle was closed is handed on.
JoinComplete ==
  /\ pc = "join" /\ Joined
  /\ owed' = owed \cup IF wait = "error" /\ handle THEN {"process"} ELSE {}
  /\ ReturnsKind(failed \/ wait = "error" \/ \E w \in Workers : worker[w] = "failed")
  /\ Main /\ UNCHANGED <<root, killed, handle, assigned, job, cancelIO, wait, terminated>>

\* Slip: a wait that is pending at the deadline is nobody's.
JoinOverdueDrops ==
  /\ pc = "join" /\ overdue /\ ~Joined
  /\ cancelIO' = TRUE
  /\ owed' = owed \cup IF Idle THEN {} ELSE {"io"}
  /\ ReturnsKind(TRUE)
  /\ Main /\ UNCHANGED <<root, killed, handle, assigned, job, wait, terminated>>

\* The hard deadline: deferIOCompletions and settleWindowsRootWaitAtDeadline.
JoinOverdue ==
  /\ pc = "join" /\ overdue /\ ~Joined
  /\ cancelIO' = TRUE
  /\ owed' = owed \cup (IF Idle THEN {} ELSE {"io"})
                  \cup (IF wait # "done" /\ handle THEN {"process"} ELSE {})
  /\ ReturnsKind(TRUE)
  /\ Main /\ UNCHANGED <<root, killed, handle, assigned, job, wait, terminated>>

-----------------------------------------------------------------------------
(* The runner's other goroutines.                                           *)

Aside == UNCHANGED <<pc, kid, assigned, cancelIO, eventVars, kind, failed>>

\* waitWindowsProcess: the exit code may be unreadable, or the handle refuse to close.
RootWaited ==
  /\ wait = "waiting" /\ root = "exited"
  /\ \/ wait' = "done" /\ handle' = FALSE
     \/ wait' = "error" /\ handle' \in BOOLEAN
  /\ Aside /\ UNCHANGED <<root, killed, job, pipeVars, terminated, owed>>

RootWaitFails ==
  /\ wait = "waiting"
  /\ wait' = "error"
  /\ Aside /\ UNCHANGED <<root, killed, handle, job, pipeVars, terminated, owed>>

Read(s) ==
  /\ worker[s] = "busy" /\ inPipe[s] > 0
  /\ inPipe' = [inPipe EXCEPT ![s] = @ - 1]
  /\ total' = [total EXCEPT ![s] = @ + 1]
  /\ Aside /\ UNCHANGED <<root, killed, handle, job, worker, wait, terminated, owed>>

\* At the end of the pipe, canceled, or because its own end failed; closing up may fail.
WorkerEnds(w) ==
  /\ worker[w] = "busy"
  /\ worker' \in {[worker EXCEPT ![w] = e] : e \in
       {"failed"} \cup IF cancelIO \/ w = "stdin" \/ (inPipe[w] = 0 /\ ~PipesHeld)
                       THEN {"done"} ELSE {}}
  /\ Aside /\ UNCHANGED <<root, killed, handle, job, inPipe, total, wait, terminated, owed>>

\* retryProcessTermination.
OwedKill ==
  /\ "kill" \in owed
  /\ Terminates({p \in {"root"} : Live})
  /\ owed' = (owed \ {"kill"}) \cup {"process"}
  /\ Aside /\ UNCHANGED <<root, handle, job, pipeVars, wait>>

\* deferProcessWait: until the handle is closed.
OwedProcess ==
  /\ "process" \in owed /\ wait # "waiting"
  /\ handle => root = "exited"
  /\ handle' = FALSE
  /\ owed' = owed \ {"process"}
  /\ Aside /\ UNCHANGED <<root, killed, job, pipeVars, wait, terminated>>

\* Slip: a Job that was handed on is not terminated again.
OwedJobWaits ==
  /\ "job" \in owed
  /\ JobEmpty
  /\ job' = "closed" /\ owed' = owed \ {"job"}
  /\ Refused
  /\ Aside /\ UNCHANGED <<root, handle, pipeVars, wait>>

\* deferJobContainment: terminate until that succeeds, close once it is empty.
OwedJob ==
  /\ "job" \in owed
  /\ IF JobEmpty THEN job' = "closed" /\ owed' = owed \ {"job"} /\ Refused
                 ELSE ~terminated /\ Terminates(Everyone) /\ UNCHANGED <<job, owed>>
  /\ Aside /\ UNCHANGED <<root, handle, pipeVars, wait>>

OwedIO ==
  /\ "io" \in owed /\ Idle
  /\ owed' = owed \ {"io"}
  /\ Aside /\ UNCHANGED <<root, killed, handle, job, pipeVars, wait, terminated>>

-----------------------------------------------------------------------------
(* The environment.                                                         *)

Outside == UNCHANGED <<pc, handle, assigned, job, total, worker, cancelIO, wait, terminated, endVars>>

CallerCancels ==
  /\ ~ctxDone /\ pc \in {"init", "suspended", "assigned", "resumed", "watch"}
  /\ ctxDone' = TRUE
  /\ Outside /\ UNCHANGED <<procVars, inPipe, expired, primaryOver, overdue>>

ExecutionTimerFires ==
  /\ ~expired /\ pc = "watch"
  /\ expired' = TRUE
  /\ Outside /\ UNCHANGED <<procVars, inPipe, ctxDone, primaryOver, overdue>>

\* The primary deadline is the earlier one; a failed launch has only the other.
CleanupTimerFires ==
  /\ \/ /\ pc \in {"finish", "join"} /\ ~primaryOver
        /\ primaryOver' = TRUE /\ UNCHANGED overdue
     \/ /\ pc \in {"abortWait", "abortJob"} \/ (pc = "join" /\ primaryOver)
        /\ ~overdue
        /\ overdue' = TRUE /\ UNCHANGED primaryOver
  /\ Outside /\ UNCHANGED <<procVars, inPipe, ctxDone, expired>>

Writes(s) ==
  /\ PipesHeld /\ root # "suspended"
  /\ pc = "resumed" \/ worker[s] = "busy"
  /\ inPipe[s] + total[s] < MaxWritten
  /\ inPipe' = [inPipe EXCEPT ![s] = @ + 1]
  /\ Outside /\ UNCHANGED <<procVars, eventVars>>

\* Whoever was not terminated makes a process of the Job, or gives its handles away.
Forks(k) ==
  /\ kid[k] = "none"
  /\ (Members \cup {p \in {"root"} : root = "running"}) \ killed # {}
  /\ kid' \in {[kid EXCEPT ![k] = x] : x \in {"member", "quiet", "outside"}}
  /\ Outside /\ UNCHANGED <<root, killed, inPipe, eventVars>>

RootExits ==
  /\ root = "running" \/ "root" \in killed
  /\ root' = "exited" /\ killed' = killed \ {"root"}
  /\ Outside /\ UNCHANGED <<kid, inPipe, eventVars>>

KidExits(k) ==
  /\ kid[k] \in {"member", "quiet", "outside"}
  /\ kid' = [kid EXCEPT ![k] = "dead"] /\ killed' = killed \ {k}
  /\ Outside /\ UNCHANGED <<root, inPipe, eventVars>>

-----------------------------------------------------------------------------
Runner ==
  \/ StartFails \/ Create \/ Assign \/ Resume \/ LaunchFails
  \/ Abort \/ AbortWaited \/ AbortUnwaited \/ AbortJobClosed \/ AbortJobOwed
  \/ Watch \/ Commit \/ Stop \/ FinishEmpty \/ FinishTerminates \/ FinishExpires
  \/ Unfinished \/ JoinForced \/ JoinComplete \/ JoinOverdue

Faults == AbortFails \/ FinishFails \/ RootWaitFails

Next ==
  \/ Runner \/ Faults
  \/ RootWaited \/ OwedKill \/ OwedProcess \/ OwedJob \/ OwedIO
  \/ \E s \in Streams : Read(s) \/ Writes(s)
  \/ \E w \in Workers : WorkerEnds(w)
  \/ CallerCancels \/ ExecutionTimerFires \/ CleanupTimerFires
  \/ \E k \in Kids : Forks(k) \/ KidExits(k)
  \/ RootExits

Spec == Init /\ [][Next]_vars

\* Goroutines and timers run, a termination that is tried again and again succeeds in
\* the end, and so does a cancellation; the kernel ends what was terminated.
Fairness ==
  /\ WF_vars(Runner) /\ WF_vars(RootWaited)
  /\ WF_vars(OwedKill) /\ WF_vars(OwedProcess) /\ WF_vars(OwedJob) /\ WF_vars(OwedIO)
  /\ \A s \in Streams : WF_vars(Read(s))
  /\ \A w \in Workers : WF_vars((cancelIO \/ ~PipesHeld) /\ WorkerEnds(w))
  /\ WF_vars(ExecutionTimerFires) /\ WF_vars(CleanupTimerFires)
  /\ WF_vars("root" \in killed /\ RootExits)
  /\ \A k \in Kids : WF_vars(k \in killed /\ KidExits(k))

FairSpec == Spec /\ Fairness

-----------------------------------------------------------------------------
(* What must hold.                                                          *)

(* A return leaves nothing behind that is not owed: no open handle, no busy worker, no  *)
(* living process of the Job without somebody who will close, join or terminate it; and *)
(* only a cleanup failure leaves anything at all (terminateWindows, abortStart).        *)
NothingLost ==
  pc = "returned" =>
    /\ job = "open" => "job" \in owed
    /\ handle => owed \cap {"process", "kill"} # {}
    /\ ~Idle => "io" \in owed
    /\ Members # {} \/ (assigned /\ Live) => job = "open"
    /\ Live /\ ~assigned => "kill" \in owed \/ "root" \in killed
    /\ kind # "cleanup" => owed = {} /\ Idle /\ ~handle /\ job # "open" /\ ~Live /\ Members = {}

(* Output beyond its bound is never returned as a success, also when the root exits       *)
(* before the overflow is read (runWindowsOwned, after terminateWindows).                 *)
OverflowIsReported == pc = "returned" /\ Overflowed => kind \in {"output_limit", "cleanup"}

(* A run that begins returns, and whatever failed in it, in the end its processes are     *)
(* gone, its Job and handles closed, its workers ended, and nothing is owed any more.     *)
EndsForGood ==
  pc # "init" ~> /\ pc = "returned" /\ owed = {} /\ Idle /\ ~handle /\ job # "open"
                 /\ ~Live /\ Members = {}
=============================================================================
