------------------------------ MODULE UnixRunner ------------------------------
(***************************************************************************)
(* One provider process on Unix: internal/process/runner_unix.go with       *)
(* capture.go and the Linux root_exit_observer.  runUnixOwned starts the    *)
(* root of a new process group, watches for the first terminal event,       *)
(* signals the group while its leader is still unreaped, and joins every    *)
(* goroutine and descriptor within limits.Cleanup.                          *)
(*                                                                         *)
(* The kernel, the provider and its descendants are the environment.  A     *)
(* descendant is a member of the group that holds the output pipes, a quiet *)
(* member that closed them, or escaped: it left the group with the pipes.   *)
(* A process may ignore SIGTERM for ever.                                   *)
(***************************************************************************)
EXTENDS Naturals, FiniteSets

CONSTANTS Kids,            \* descendants the provider may fork
          Streams,         \* the captured streams, stdout and stderr
          Limit,           \* StdoutBytes and StderrBytes, in chunks
          MaxWritten       \* bound: chunks the provider writes to a stream

ASSUME RunnerAssumption == Limit \in Nat /\ MaxWritten \in Nat

KidKinds == {"member", "quiet", "escaped"}
Kinds == {"none", "start", "canceled", "timeout", "output_limit", "cleanup"}

VARIABLES
  darwin,     \* the build: a group of only a zombie refuses signals with EPERM
  pc,         \* where runUnixOwned is
  root,       \* the root process
  kid,        \* each descendant
  killed,     \* living processes with SIGKILL pending; "root" is the root
  inPipe,     \* chunks written to a stream and not read yet
  total,      \* capture.total
  reader,     \* copyPipe of each stream
  writer,     \* writeStdinAndClose
  stdinOpen,  \* the parent end of the stdin pipe is open
  outOpen,    \* the parent ends of the output pipes are open
  ctxDone,    \* the context of Execute is done
  expired,    \* executionExpired is closed
  observer,   \* rootExit: what the WNOWAIT observer has published
  wait,       \* the cmd.Wait goroutine
  deferred,   \* completionOwner holds the wait
  overdue,    \* cleanupCtx is done
  recycled,   \* the kernel gave the group's number to strangers
  harmed,     \* a signal went to strangers
  kind,       \* terminalState.kind, and at the end the kind of the RunError
  action,     \* result.StopAction
  failed      \* cleanupErrors is not empty

procVars == <<root, kid, killed, recycled>>
pipeVars == <<inPipe, total, reader, writer, stdinOpen, outOpen>>
eventVars == <<ctxDone, expired, observer, overdue>>
waitVars == <<wait, deferred>>
outVars == <<harmed, kind, action, failed>>
vars == <<darwin, pc, procVars, pipeVars, eventVars, waitVars, outVars>>

TypeOK ==
  /\ darwin \in BOOLEAN
  /\ pc \in {"init", "verify", "unverified", "watch", "term", "grace", "kill",
             "release", "join", "owners", "probe", "close", "returned"}
  /\ root \in {"none", "running", "zombie", "reaped"}
  /\ kid \in [Kids -> KidKinds \cup {"none", "dead"}]
  /\ killed \subseteq Kids \cup {"root"}
  /\ inPipe \in [Streams -> 0..MaxWritten]
  /\ total \in [Streams -> 0..MaxWritten]
  /\ \A s \in Streams : inPipe[s] + total[s] \in 0..MaxWritten
  /\ reader \in [Streams -> {"off", "copying", "eof", "failed"}]
  /\ writer \in {"off", "writing", "done"}
  /\ observer \in {"off", "watching", "exited", "error", "closed"}
  /\ wait \in {"off", "waiting", "done"}
  /\ kind \in Kinds
  /\ action \in {"none", "term", "kill"}
  /\ {stdinOpen, outOpen, ctxDone, expired, deferred, overdue, recycled, harmed, failed}
       \subseteq BOOLEAN

Init ==
  /\ darwin \in BOOLEAN
  /\ pc = "init"
  /\ root = "none"
  /\ kid = [k \in Kids |-> "none"]
  /\ killed = {}
  /\ inPipe = [s \in Streams |-> 0]
  /\ total = [s \in Streams |-> 0]
  /\ reader = [s \in Streams |-> "off"]
  /\ writer = "off"
  /\ observer = "off"
  /\ wait = "off"
  /\ kind = "none"
  /\ action = "none"
  /\ stdinOpen = FALSE /\ outOpen = FALSE
  /\ ctxDone = FALSE /\ expired = FALSE /\ overdue = FALSE
  /\ deferred = FALSE /\ recycled = FALSE /\ harmed = FALSE /\ failed = FALSE

-----------------------------------------------------------------------------
(* Processes and pipes.                                                     *)

Running == root = "running"
Members == {k \in Kids : kid[k] \in {"member", "quiet"}}

\* processGroupExists: kill(-pgid, 0) finds somebody in the group.  While the
\* leader is retained as a zombie, Darwin's EPERM is read as an empty group.
GroupExists(retainedLeader) ==
  \/ Running \/ Members # {} \/ recycled
  \/ root = "zombie" /\ ~(darwin /\ retainedLeader)

\* Whoever still holds the write ends of the output pipes.
PipesHeld == Running \/ \E k \in Kids : kid[k] \in {"member", "escaped"}

Overflowed == \E s \in Streams : total[s] > Limit

Joined == writer # "writing" /\ \A s \in Streams : reader[s] # "copying"

-----------------------------------------------------------------------------
(* Starting.                                                                *)

\* validateUnixCommand, openUnixPipes, validateRuntimePath or cmd.Start fails.
StartFails ==
  /\ pc = "init"
  /\ kind' = "start"
  /\ pc' = "returned"
  /\ UNCHANGED <<darwin, procVars, pipeVars, eventVars, waitVars, harmed, action, failed>>

\* The context is done before anything is started.
StartCanceled ==
  /\ pc = "init"
  /\ ctxDone
  /\ kind' = "canceled"
  /\ pc' = "returned"
  /\ UNCHANGED <<darwin, procVars, pipeVars, eventVars, waitVars, harmed, action, failed>>

\* The pipes are open and cmd.Start made the leader of a new group.
Start ==
  /\ pc = "init"
  /\ ~ctxDone
  /\ root' = "running"
  /\ stdinOpen' = TRUE /\ outOpen' = TRUE
  /\ pc' = "verify"
  /\ UNCHANGED <<darwin, kid, killed, recycled, inPipe, total, reader, writer, eventVars, waitVars, outVars>>

\* Slip: cmd.Wait runs from the start and may reap the leader early.
VerifyWaiting ==
  /\ pc = "verify"
  /\ observer' = "watching"
  /\ reader' = [s \in Streams |-> "copying"]
  /\ writer' = "writing"
  /\ wait' = "waiting"
  /\ pc' = "watch"
  /\ UNCHANGED <<darwin, procVars, inPipe, total, stdinOpen, outOpen, ctxDone, expired, overdue,
                 deferred, outVars>>

\* expectedUnixProcessGroup agrees; the observer, the two readers, the writer
\* and the execution timer start.
Verify ==
  /\ pc = "verify"
  /\ observer' = "watching"
  /\ reader' = [s \in Streams |-> "copying"]
  /\ writer' = "writing"
  /\ pc' = "watch"
  /\ UNCHANGED <<darwin, procVars, inPipe, total, stdinOpen, outOpen, ctxDone, expired, overdue,
                 waitVars, outVars>>

\* The group cannot be verified: close the pipes, kill the leader alone and
\* wait for it within limits.Cleanup (boundedUnverifiedStartCleanup).
VerifyFails ==
  /\ pc = "verify"
  /\ kind' = "cleanup"
  /\ stdinOpen' = FALSE /\ outOpen' = FALSE
  /\ killed' = killed \cup {"root"}
  /\ wait' = "waiting"
  /\ pc' = "unverified"
  /\ UNCHANGED <<darwin, root, kid, recycled, inPipe, total, reader, writer, eventVars, deferred,
                 harmed, action, failed>>

\* boundedUnverifiedStartCleanup returns: the leader is reaped, or its wait is
\* handed to the completion owner.
UnverifiedDone ==
  /\ pc = "unverified"
  /\ wait = "done" \/ overdue
  /\ deferred' = (wait # "done")
  /\ failed' = TRUE
  /\ pc' = "returned"
  /\ UNCHANGED <<darwin, procVars, pipeVars, eventVars, wait, harmed, kind, action>>

-----------------------------------------------------------------------------
(* The terminal event.                                                      *)

\* terminalState.commit: overflow over cancellation over timeout over exit.
Commit(canceled, timedOut) ==
  /\ kind' = IF Overflowed THEN "output_limit"
             ELSE IF canceled THEN "canceled"
             ELSE IF timedOut THEN "timeout" ELSE "none"
  /\ pc' = "term"
  /\ UNCHANGED <<darwin, procVars, pipeVars, eventVars, waitVars, harmed, action, failed>>

\* One arm per select case; the exit arm also looks at the other events.
CommitOverflow == pc = "watch" /\ Overflowed /\ Commit(FALSE, FALSE)
CommitCanceled == pc = "watch" /\ ctxDone /\ Commit(TRUE, FALSE)
CommitTimeout == pc = "watch" /\ expired /\ Commit(FALSE, TRUE)
CommitExit == pc = "watch" /\ observer = "exited" /\ Commit(ctxDone, expired)

\* The observer itself failed.
CommitObserverError ==
  /\ pc = "watch"
  /\ observer = "error"
  /\ kind' = "cleanup"
  /\ pc' = "term"
  /\ UNCHANGED <<darwin, procVars, pipeVars, eventVars, waitVars, harmed, action, failed>>

-----------------------------------------------------------------------------
(* terminateUnix.                                                           *)

\* signalUnixProcessGroup answers true: the signal reached the group.  If the
\* number has gone to strangers in the meantime, they are harmed.
Signaled(name) ==
  /\ GroupExists(TRUE)
  /\ action' = name
  /\ killed' = IF name = "kill" THEN Members \cup {p \in {"root"} : Running} \cup killed
               ELSE killed
  /\ harmed' = (harmed \/ recycled)
  /\ UNCHANGED failed

\* It answers an error: the kernel refused, and not for a retained zombie.
Refused ==
  /\ GroupExists(TRUE) /\ ~darwin
  /\ failed' = TRUE
  /\ UNCHANGED <<killed, action, harmed>>

\* It answers false: no such group, or what Darwin says of a retained zombie.
Absent ==
  /\ ~GroupExists(TRUE) \/ darwin
  /\ UNCHANGED <<killed, action, harmed, failed>>

\* Stdin is closed and SIGTERM sent, whatever the terminal event was.
Term ==
  /\ pc = "term"
  /\ stdinOpen' = FALSE
  /\ \/ (Signaled("term") \/ Refused) /\ pc' = "grace"
     \/ Absent /\ pc' = "release"
  /\ UNCHANGED <<darwin, root, kid, recycled, inPipe, total, reader, writer, outOpen, eventVars,
                 waitVars, kind>>

\* waitForProcessGroupGone sees the group gone within TermGrace.
GraceEnough ==
  /\ pc = "grace"
  /\ ~GroupExists(TRUE)
  /\ pc' = "release"
  /\ UNCHANGED <<darwin, procVars, pipeVars, eventVars, waitVars, outVars>>

\* TermGrace is over and the group still exists.
GraceOver ==
  /\ pc = "grace"
  /\ GroupExists(TRUE)
  /\ pc' = "kill"
  /\ UNCHANGED <<darwin, procVars, pipeVars, eventVars, waitVars, outVars>>

\* SIGKILL to the group, unless it has gone in the meantime.
Kill ==
  /\ pc = "kill"
  /\ Signaled("kill") \/ Refused \/ Absent
  /\ pc' = "release"
  /\ UNCHANGED <<darwin, root, kid, recycled, pipeVars, eventVars, waitVars, kind>>

\* Slip: cmd.Wait is never started.
ReleaseOnly ==
  /\ pc = "release"
  /\ observer' = "closed"
  /\ pc' = "join"
  /\ UNCHANGED <<darwin, procVars, pipeVars, ctxDone, expired, overdue, waitVars, outVars>>

\* Only now, with every signal sent, is the observer closed and cmd.Wait
\* started: before it the leader holds the group's number as a zombie.
Release ==
  /\ pc = "release"
  /\ observer' = "closed"
  /\ wait' = IF wait = "off" THEN "waiting" ELSE wait
  /\ pc' = "join"
  /\ UNCHANGED <<darwin, procVars, pipeVars, ctxDone, expired, overdue, deferred, outVars>>

\* joinProcessCompletions has all four completions.
JoinComplete ==
  /\ pc = "join"
  /\ wait = "done"
  /\ Joined
  /\ failed' = (failed \/ \E s \in Streams : reader[s] = "failed")
  /\ pc' = "probe"
  /\ UNCHANGED <<darwin, procVars, pipeVars, eventVars, waitVars, harmed, kind, action>>

\* Slip: the overdue join waits for the pipe owners with the pipes open.
JoinOverdueOpen ==
  /\ pc = "join"
  /\ overdue
  /\ failed' = TRUE
  /\ pc' = "owners"
  /\ UNCHANGED <<darwin, procVars, pipeVars, eventVars, waitVars, harmed, kind, action>>

\* The cleanup limit passed first: closeParentEnds.
JoinOverdue ==
  /\ pc = "join"
  /\ overdue
  /\ stdinOpen' = FALSE /\ outOpen' = FALSE
  /\ failed' = TRUE
  /\ pc' = "owners"
  /\ UNCHANGED <<darwin, procVars, inPipe, total, reader, writer, eventVars, waitVars, harmed, kind, action>>

\* joinPipeOwners returned; an unfinished cmd.Wait goes to the completion owner.
OwnersJoined ==
  /\ pc = "owners"
  /\ Joined
  /\ deferred' = (wait # "done")
  /\ pc' = "probe"
  /\ UNCHANGED <<darwin, procVars, pipeVars, eventVars, wait, outVars>>

\* The second waitForProcessGroupGone sees no group.
ProbeGone ==
  /\ pc = "probe"
  /\ ~GroupExists(FALSE)
  /\ pc' = "close"
  /\ UNCHANGED <<darwin, procVars, pipeVars, eventVars, waitVars, outVars>>

\* Slip: a group that remains is not an error.
ProbeRemainsIgnored ==
  /\ pc = "probe"
  /\ GroupExists(FALSE)
  /\ overdue
  /\ pc' = "close"
  /\ UNCHANGED <<darwin, procVars, pipeVars, eventVars, waitVars, outVars>>

\* The group remains when the cleanup limit is used up.
ProbeRemains ==
  /\ pc = "probe"
  /\ GroupExists(FALSE)
  /\ overdue
  /\ failed' = TRUE
  /\ pc' = "close"
  /\ UNCHANGED <<darwin, procVars, pipeVars, eventVars, waitVars, harmed, kind, action>>

\* The output pipes are closed and runUnixOwned returns; any cleanup error
\* overrides the kind of the terminal event.
Return ==
  /\ pc = "close"
  /\ outOpen' = FALSE
  /\ kind' = IF failed THEN "cleanup" ELSE kind
  /\ pc' = "returned"
  /\ UNCHANGED <<darwin, procVars, inPipe, total, reader, writer, stdinOpen, eventVars, waitVars,
                 harmed, action, failed>>

-----------------------------------------------------------------------------
(* The runner's other goroutines.                                           *)

\* waitid(WNOWAIT) sees the leader exited.
ObserveExit ==
  /\ observer = "watching"
  /\ root \in {"zombie", "reaped"}
  /\ observer' = IF root = "zombie" THEN "exited" ELSE "error"
  /\ UNCHANGED <<darwin, pc, procVars, pipeVars, ctxDone, expired, overdue, waitVars, outVars>>

\* cmd.Wait reaps the leader.
Reap ==
  /\ wait = "waiting"
  /\ root = "zombie"
  /\ root' = "reaped"
  /\ wait' = "done"
  /\ UNCHANGED <<darwin, pc, kid, killed, recycled, pipeVars, eventVars, deferred, outVars>>

\* copyPipe moves one chunk into the capture, which counts and discards what
\* exceeds its limit (capture.Write).
Read(s) ==
  /\ reader[s] = "copying"
  /\ outOpen
  /\ inPipe[s] > 0
  /\ inPipe' = [inPipe EXCEPT ![s] = @ - 1]
  /\ total' = [total EXCEPT ![s] = @ + 1]
  /\ UNCHANGED <<darwin, pc, procVars, reader, writer, stdinOpen, outOpen, eventVars, waitVars, outVars>>

\* copyPipe ends: at end of file, or because the parent end was closed.
ReaderEnds(s) ==
  /\ reader[s] = "copying"
  /\ \/ outOpen /\ inPipe[s] = 0 /\ ~PipesHeld /\ reader' = [reader EXCEPT ![s] = "eof"]
     \/ ~outOpen /\ reader' = [reader EXCEPT ![s] = "failed"]
  /\ UNCHANGED <<darwin, pc, procVars, inPipe, total, writer, stdinOpen, outOpen, eventVars,
                 waitVars, outVars>>

\* writeStdinAndClose ends: all written, or the pipe broke or was closed.
WriterEnds ==
  /\ writer = "writing"
  /\ writer' = "done"
  /\ stdinOpen' = FALSE
  /\ UNCHANGED <<darwin, pc, procVars, inPipe, total, reader, outOpen, eventVars, waitVars, outVars>>

-----------------------------------------------------------------------------
(* The environment.                                                         *)

CallerCancels ==
  /\ ~ctxDone /\ pc # "returned"
  /\ ctxDone' = TRUE
  /\ UNCHANGED <<darwin, pc, procVars, pipeVars, expired, observer, overdue, waitVars, outVars>>

ExecutionTimerFires ==
  /\ ~expired /\ pc = "watch"
  /\ expired' = TRUE
  /\ UNCHANGED <<darwin, pc, procVars, pipeVars, ctxDone, observer, overdue, waitVars, outVars>>

CleanupTimerFires ==
  /\ ~overdue /\ pc \in {"unverified", "join", "probe"}
  /\ overdue' = TRUE
  /\ UNCHANGED <<darwin, pc, procVars, pipeVars, ctxDone, expired, observer, waitVars, outVars>>

ObserverFails ==
  /\ observer = "watching" /\ pc = "watch"
  /\ observer' = "error"
  /\ UNCHANGED <<darwin, pc, procVars, pipeVars, ctxDone, expired, overdue, waitVars, outVars>>

\* Whoever holds the pipe writes a chunk.
Writes(s) ==
  /\ PipesHeld /\ outOpen
  /\ inPipe[s] + total[s] < MaxWritten
  /\ inPipe' = [inPipe EXCEPT ![s] = @ + 1]
  /\ UNCHANGED <<darwin, pc, procVars, total, reader, writer, stdinOpen, outOpen, eventVars,
                 waitVars, outVars>>

\* A process of the group that SIGKILL has not reached forks.
Forks(k) ==
  /\ ((Members \cup {p \in {"root"} : Running}) \ killed) # {}
  /\ kid[k] = "none"
  /\ kid' \in {[kid EXCEPT ![k] = x] : x \in KidKinds}
  /\ UNCHANGED <<darwin, pc, root, killed, recycled, pipeVars, eventVars, waitVars, outVars>>

\* By itself or of a signal.
RootExits ==
  /\ Running
  /\ root' = "zombie"
  /\ killed' = killed \ {"root"}
  /\ UNCHANGED <<darwin, pc, kid, recycled, pipeVars, eventVars, waitVars, outVars>>

KidExits(k) ==
  /\ kid[k] \in KidKinds
  /\ kid' = [kid EXCEPT ![k] = "dead"]
  /\ killed' = killed \ {k}
  /\ UNCHANGED <<darwin, pc, root, recycled, pipeVars, eventVars, waitVars, outVars>>

\* The number of a group without members is free once its leader is reaped.
NumberRecycled ==
  /\ root = "reaped" /\ Members = {} /\ ~recycled
  /\ recycled' = TRUE
  /\ UNCHANGED <<darwin, pc, root, kid, killed, pipeVars, eventVars, waitVars, outVars>>

RunnerStep ==
  \/ StartFails \/ StartCanceled \/ Start \/ Verify \/ VerifyFails \/ UnverifiedDone
  \/ CommitOverflow \/ CommitCanceled \/ CommitTimeout \/ CommitExit \/ CommitObserverError
  \/ Term \/ GraceEnough \/ GraceOver \/ Kill \/ Release
  \/ JoinComplete \/ JoinOverdue \/ OwnersJoined \/ ProbeGone \/ ProbeRemains \/ Return

Environment ==
  \/ CallerCancels \/ ExecutionTimerFires \/ CleanupTimerFires \/ ObserverFails
  \/ \E s \in Streams : Writes(s)
  \/ \E k \in Kids : Forks(k) \/ KidExits(k)
  \/ RootExits \/ NumberRecycled

Next ==
  \/ RunnerStep
  \/ ObserveExit \/ Reap \/ WriterEnds
  \/ \E s \in Streams : Read(s) \/ ReaderEnds(s)
  \/ Environment

Spec == Init /\ [][Next]_vars

\* The runner, its goroutines and its timers run.  The provider owes nothing,
\* and not even a killed process must ever exit (an uninterruptible sleep).
Fairness ==
  /\ WF_vars(RunnerStep)
  /\ WF_vars(ObserveExit) /\ WF_vars(Reap)
  /\ WF_vars(WriterEnds /\ ~stdinOpen)
  /\ \A s \in Streams : WF_vars(Read(s)) /\ WF_vars(ReaderEnds(s))
  /\ WF_vars(ExecutionTimerFires) /\ WF_vars(CleanupTimerFires)

FairSpec == Spec /\ Fairness

-----------------------------------------------------------------------------
(* What must hold.                                                          *)

\* No signal ever reaches a process group that took over the number: every
\* group signal is sent while the leader is unreaped (terminateUnix starts
\* cmd.Wait only after the last signal decision).
NoForeignSignal == ~harmed

\* Whatever the descendants did, a return leaves no goroutine and no pipe behind
\* (joinPipeOwners, closeParentEnds); any return other than a cleanup failure leaves
\* nothing at all: the leader is reaped, the group empty, no wait owed (terminateUnix).
ContainedOnReturn ==
  pc = "returned" =>
    /\ Joined /\ ~stdinOpen /\ ~outOpen
    /\ kind # "cleanup" => root \in {"none", "reaped"} /\ Members = {} /\ ~deferred

\* Output that exceeded its bound is never returned as a normal exit
\* (internal/process/types.go, StopReasonOutputOverflow; terminalState.commit).
OverflowIsReported == pc = "returned" /\ Overflowed => kind # "none"

\* The runner returns within its limits whatever the provider, its descendants
\* or the kernel do (joinProcessCompletions, waitForProcessGroupGone).
Returns == (pc # "init") ~> (pc = "returned")

\* A leader that exits is reaped in the end, even after the runner has
\* returned (startCommandWait, deferWait).
ExitedIsReaped == (root = "zombie") ~> (root = "reaped")
=============================================================================
