# Verification of ai-cli-gateway

TLA+ models of the gateway's own logic, TLC runs that check them on small
instances, and TLAPS proofs of what matters most for every instance.
`PROJECT.json` maps every definition that models code to its lines, lists the
runs, the mutants that show each property can fail, the hazards and the theorems.
Paths below are relative to the repository.

    tlc -config Scheduler.cfg MCScheduler.tla       a run
    tlapm SchedulerProofs.tla                       the proofs of one module

## The system

One process answers OpenAI-style requests by running a provider's command line
tool (codex, claude, gemini), once per request, without retry or fallback.

    signal -> app ---------------------------- start, order of shutdown
               |
    client -> httpapi -> gateway -> scheduler (one per provider) -> work
                            |                                        |
                         health                                 supervisor -> runner -> provider
                                                                     |
                                                                runtime root (one, shared)

| Part | State it keeps | Operations | What is hard | What makes it correct |
|---|---|---|---|---|
| `internal/scheduler` | queue, bytes, running, closed; per item its state and result channel; worker goroutines | Do, worker loop, run contexts, Shutdown, Stats | two contexts and a timer race the worker's pop; callbacks registered outside the mutex; one Signal per item | one outcome per call; bounds; FIFO; no lost wakeup; every running work can be canceled; nil of Shutdown is final |
| `internal/gateway` | `closing`; per provider its health | Respond, Shutdown, Health, Models | health is read before and after a wait; deferred Discard with panics; three sources of one error | a failed cleanup makes the provider unavailable; nothing is left after Shutdown; a stop is blamed on its cause |
| `internal/process/supervisor.go` | lifecycle (shuttingDown, active), leases, completionOwner.pending | Prepare, Execute, Discard, Shutdown | handles that are used twice; waits that outlive their runner; two condition channels | a lease is given back once; Shutdown waits for all of it; no error is hidden |
| `internal/process/runner_unix.go`, `capture.go`, `root_exit_observer_*` | one process group, its pipes, goroutines, terminal state | runUnixOwned, terminateUnix | the kernel reuses group numbers; descendants that ignore signals or leave with the pipes; several terminal events at once | no signal to strangers; nothing left without a cleanup failure; always returns |
| `internal/process/root.go` | records, generations, one directory entry per runtime, lock file | OpenRoot, Prepare, Cleanup, Janitor, Close, Materialize | a listing that is stale when used; two mutexes; crashes between rename and removal | a live directory is never removed; nil means gone; leftovers are found |
| `internal/app`, `diagnose.go` | nothing of its own; owns source, listener, server, gateway, supervisors, root | serve, doctor, diagnose, unwind | a start that fails anywhere; shutdown steps that expire and are tried again, beside running handlers | order: listener, HTTP, gateway, supervisors, janitor, root; all is given back; the process ends |
| `internal/app/init.go`, `internal/initconfig` | the answers of a dialogue, authorities to replace, the key plan | Init, PlanInteractive, PlanNonInteractive | Back and forth in the dialogue, a commit that ends in doubt, a diagnosis after it | nothing is written that nobody agreed to; the outcome tells what happened |
| `initconfig/resolve.go`, `merge.go`, `interactive.go` | none | ResolveNonInteractive, PlanMerge, buildMergeEdits, validFinalPlanningResult | one plan is edited into four ways to write a table, and computed a second time before the commit | what is written is what was planned; the rest is left alone; twice is once |
| `internal/httpapi` | handler gate, body reader gate, counters | ServeHTTP | gates on every early return; clients that leave | slots are given back; a client that stays is answered |
| `internal/configstore`, `gatewaykey` | configuration, backup, key and temporary files; writer lock | Load, Preflight, Commit | crash and failed sync between publications; an editor without the lock | the reported state is what is durable; no configuration without its key |
| `internal/configsource` | a pinned file | Load, Revalidate, Close | the file changes during the start | the server runs on what was checked |
| `internal/doctor` | checks, a row per provider, the root until it hands it over | Run, the report | who owns the root after each of its exits; rules for a row in three packages | no report is refused that Run builds; the gateway refuses a row for nothing but the length of a version |
| `internal/process/runner_windows.go` | a Job Object, handles, I/O workers, what is owed after the return | runWindowsOwned, startWindowsProcess, abortStart, terminateWindows | every call may fail; two deadlines; what is left goes to goroutines | nothing is lost that is not owed; overflow is reported |
| `internal/config` | none | Decode: normalize, validate | each package bounds the same numbers again | what is accepted can be served |
| `core`, `safejson`, `observability` | none or immutable | decode, Error, NewOutcomeError, LogRequest | lists of codes, parameters and values that each package keeps of its own | what one package says the next lets through |
| `provider/*` | immutable | Build, Parse, Probe | three adapters that agree in most; what a client sends stands beside tags; what a probe asks for is another list than what a run is given | prompts are unambiguous; the environment is closed; no error passes for an answer |
| `schema` | none | validate | limits | a pure function |
| `root_windows.go`, file primitives, `trustedpath` | handles within one call | open, validate | I/O | each call succeeds or fails |
| `cli`, `selftest`, `releasepack`, `npm` | none that is shared | | | |

Interactions. `app` builds one scheduler and one supervisor per ready provider
over one root and hands them to `gateway`. `httpapi` calls `Gateway.Respond` with
the request's context. `Respond` calls `Scheduler.Do`, which runs a closure on a
worker with a context of its own, canceled by the caller's context or by the
scheduler's Shutdown. The closure calls Prepare, then Execute or Discard, of the
supervisor. Execute calls the runner, which hands a `cmd.Wait` it could not join
to the supervisor's completionOwner; the supervisor then calls Cleanup of the
root. On a signal `app` closes the listener, shuts down the HTTP server, the
gateway (which shuts down every scheduler), the supervisors in reverse order, and
calls Janitor and Close of the root.

## Modules

Each component has one module; a `MC` module and `.cfg` files instantiate it for TLC, a
`...Proofs` module holds its theorems.

| Component | Model | Instance | Proofs |
|---|---|---|---|
| scheduler | `Scheduler`, `WorkPool` (abstract) | `MCScheduler` | `SchedulerProofs` |
| Unix runner | `UnixRunner` | `MCUnixRunner` | `UnixRunnerProofs` |
| Windows runner | `WindowsRunner` | `MCWindowsRunner` | `WindowsRunnerProofs` |
| runtime root | `RuntimeRoot` | `MCRuntimeRoot` | `RuntimeRootProofs` |
| supervisor, configuration, init's plans | `Supervisor`, `Settings`, `Merge` | `MCSupervisor`, `MCMerge` | `SupervisorProofs` |
| gateway, replies, adapters | `Gateway`, `Replies`, `Adapters` | `MCGateway`, `MCAdapters` | `GatewayProofs` |
| configuration store | `ConfigCommit` | `MCConfigCommit` | `ConfigCommitProofs` |
| process, HTTP, source, doctor, probes, init | `App`, `Http`, `PinnedFile`, `Doctor`, `InitCommand` | `MCApp` | `AppProofs` |

How they fit together: `Gateway` takes the scheduler as `WorkPool` promises it, which
`Scheduler` is shown to implement. `Supervisor` takes the runner and the root as outcomes
that `UnixRunner`, `WindowsRunner` and `RuntimeRoot` are shown to have. `App` extends
`Http` and `PinnedFile`, shares their state, and takes gateway and supervisors as what
`Gateway` and `Supervisor` prove of them. `InitCommand` extends `App`, because init
ends in App's diagnosis, and takes Commit as `ConfigCommit` shows it. `Merge` is the content
of the plan whose course `InitCommand` follows, and extends `Settings`.

### Scheduler and WorkPool

`Scheduler` has one action per critical section of `scheduler.mu`, per channel
operation and per event of the environment. `Do` is Enter, Refuse, Admit, then
GiveUp, CommitToWait or Receive; a worker is Sleep, Pop, NewRunContext, Arm,
AbandonStart or StartWork, Finish, Deliver; Shutdown is BeginShutdown and its
three ways to return. `NewRunContext` and `Arm` are apart because
`newRunContext` gives up the mutex between its look at the causes and the
registration of the callbacks. `Signal` picks any sleeper, as `sync.Cond` may.
A queue timer may fire whenever it is running, and a caller may cancel at any time.

`WorkPool` is the promise: a pool that is open or closed, a FIFO of pending
calls, a bounded set of active ones, the callers who left, one outcome per call, and the rules that a
closed pool answers `shuttingDown` and an open one never, and that an open one answers
`canceled` to a caller who left, and to nobody else, even when its work succeeded. `Scheduler` implements
it (`ImplementsWorkPool`), the outcome of a call being what is on its way to the
caller: with the worker that delivers it, in `item.done`, or returned.

### UnixRunner

One `runUnixOwned` with the kernel, the provider and its descendants as
environment. A descendant is a member of the group that holds the pipes, a quiet
member, or escaped (it called setsid and kept the pipes). A process may ignore
SIGTERM and even outlive SIGKILL (uninterruptible sleep), may fork until SIGKILL
reaches it, and the kernel may give a free group number to strangers at once. The
runner's `select` is one action per arm, so any ready arm may be taken. `darwin`
is chosen at the start: there EPERM for a group that holds only a zombie reads as
an empty group. The Darwin kqueue observer is represented by the Linux one.

### WindowsRunner

One `runWindowsOwned` with `startWindowsProcess`, `abortStart`, `terminateWindows` and the
goroutines of the completion owner. The root is created suspended, assigned to the
Job and resumed; each of these calls, and every later termination, wait and close,
may fail, and each failure has the exit the code gives it. `owed` holds what those
goroutines still have to do after the return (terminate, wait for the process, close the
Job, join the I/O workers). A descendant is in the Job with the pipes, in the Job
without them, or outside with duplicated handles. Two deadlines (primary and hard)
may pass between any two steps.

Left out: `StopAction`; CreateProcess returning incomplete handles; the threads' own
handles and the parent's ends of the pipes when a start is aborted. A handle whose
CloseHandle failed counts as closed, as the code treats it, and a worker's completion counts
as seen when it is done.

### RuntimeRoot

The directory of the root, the records and the locks. A directory identity is the
generation it was made for; `Leftover` is one an earlier process made. `idOf`, `state`
and `open` are the record of a generation: its id, its state, its open handle.
Prepare and retireRecord hold `recordsMu` throughout and are one step; Cleanup and Janitor
are cut where another actor or a crash can come between. `Restart` is a crash or a
restart: memory and locks are lost, the directory stays. Initially the directory
holds any set of leftovers.

### Supervisor

Leases, the completion owner and Shutdown. The runner and the root enter as
outcomes: an Execute ends, or ends with its wait deferred; a cleanup works or
not. A sleeper is woken by the next notification after it took its channel.

### Settings

`Load` as an operator from a decoded file to the set of the configurations it gives, one or
none, and the bounds that `NewSupervisor`, `scheduler.New`, `gateway.New` and `httpapi.New`
put on the result when `serve` calls them. Four packages bound the same numbers, with
constants of their own and sums that must not overflow an `int`, whose width is a constant of
the module: a file one of them refuses after `Load` took it would pass `doctor`'s first check
and fail the start. `MCSupervisor` evaluates `Load` and the
constructors on files with every pair of the server's numbers at, below and above a bound.
A string is represented by the checks it passes, a credential by its name.

### Merge

What init writes, as operators: the state the options ask for (`Resolve`, which is
ValidateOptions and ResolveNonInteractive), the plan that merges it into the source there is
(`PlanMerge`, with `Diff`, `Collisions` and `SetKeyPlan`), the edits that carry it out (`Edited` is
buildMergeEdits, `Fresh` is renderFresh), what config.Decode reads in the result (`Decode`), and the
last look at a plan before it is confirmed (`ValidFinal`, which is
validFinalPlanningResult). A source is its groups, each a map of the keys that are written and the
way they are: a table, dotted keys, dotted keys below a header (`nested`), an inline table, or not at all.
The edit depends on that way: a provider's table or inline table is rendered anew, dotted keys are replaced,
added and deleted one by one. `closed` is a source that admits no provider at its end, `decodes`
says that the text is TOML; a key added behind a nested group makes it none, and
the plan is refused.

A value is the list of strings a diff joins. What init never touches is one field more of its
group: `tuning` of a provider, `settings` of the server. A model is rendered whole, so
its representation does not matter. Comments, order, byte ranges and line endings are left out;
the checks on the form of a path are the sets `Paths`, `NodeFiles` and `Modules`; a source that
buildSourceIndex rejects has no plan and is not among the `Sources`.

`MCMerge` assumes, and the run Supervisor evaluates, on 360 command lines and every one of 121 samples of a source that
decodes, in each representation, or none: the configuration of a plan is what is asked for over
what there was; `ValidFinal` agrees with every plan that may be carried out, unless it shows an old value
that cannot be printed; a second plan finds nothing to do. Where an entry is replaced and what a
source may already say are both in the samples, so that each question has both answers.

### Gateway

`Respond` with every early return, the work function with its deferred Discard
(an adapter that panics in Build or Parse included), the translation of errors,
and `Shutdown` with its goroutines that go on after it gave up. Providers are
the ones that were ready at the start: the others have no scheduler and every request
for them is answered `not_ready`. Provider errors that differ only in their code are
one cause, and the clock is taken to be monotonic.

### Replies

What a request comes to, as operators: the checks of `ServeHTTP`, `readAndDecode` and
`DecodeRequest` as sequences of which the first bad one counts (`Unread`, `Reading`,
`Decoding`), the metadata and the causes of `Respond` (`Applied`, `Normalized`, `Outcomes`),
and what is published and logged (`PublicError`, `Event`, `ValidEvent`). Five packages have a
say in it and each keeps closed lists of its own: the catalog and the exits, reasons and actions of
`core`, the parameters of the response, the lists of the logger, the constants of `process` and
the codes the handlers name. A pair that one of them gives and the next does not
know is replaced by `internal_error`, or by a log line without values, in silence. `CausesOf`
joins the module to the answers of `Gateway`. A JSON value is its kind, what a check
compares it with, and its length; a string is the set of strings of its check. That the limit of
the response's buffer is large enough for its six-fold escaping is taken from the code. `MCGateway`
evaluates the decoder on two good bodies with every two fields replaced by every sample
value, and on every way to be turned away before: each is asked about or refused, and every
parameter a table of the response lists is one that some body is refused for.

### Adapters

`internal/provider` and its three adapters as operators: the framing of a prompt (`Framed`), the
environment of the child (`EnvOf`, `Fixed`, `Required`), the credentials (`CredentialSelection`,
`Snapshot`), the arguments, the files, `Build` and the command of a probe, `ParseVersion`, what a
probe concludes of a command's output (`Said`), and `Parse`. Which commands a probe runs and the row
it makes of them are in `Doctor`, which takes the conclusions as any. What an operator may
refuse is a set of one result or none.

An argument list is a sequence of options, each a flag with its value; a path or a value of the
environment is the sequence of its elements; the help of a command is its set of words. The tag of a
section is one symbol, which a client may send too. The document that Gemini's settings make is
the kind of authentication, the one thing in it that varies. An envelope is what
`safejson.Parse` makes of it, a field a kind with what the adapter compares it with.

`MCAdapters` assumes, and the run Gateway evaluates: prompts of up to two bytes a section over the tags,
the digits and the newline, with lengths in base two, so that one is the beginning of another, are framed apart;
every choice of credentials, of a lookup that misses one name, and of a directory builds a command
exactly when it should, with the environment and the flags it should; versions with each of
the faults `findVersionCores` tells apart; a list of features with any one of them
missing; and four good envelopes with every two fields replaced by every sample value, which come
to each end Parse has.

### ConfigCommit

Load, Preflight and Commit by several processes over one configuration, its
backup, its key file, four transaction files with fixed names, and the writer
lock. There are two images: what the names hold now, and what the disk may hold
after a power failure, which is any image since the last sync of the directory
(`confDisk` for the configuration's directory, `keyDisk` for the key's). Between any two
steps a process may be killed (its lock is released, its files stay) or the power
may fail; an editor may rename a file of its own over the configuration without the lock.
Every operation may fail where the code handles a failure. On Windows
directories are not synced. Private directories, which are created on the way
and never removed, are left out.

### App, Http, PinnedFile, Doctor

`App` is serve and doctor from start to exit. One main goroutine loads the
configuration, diagnoses (`internal/doctor`: early checks, root, janitor, the
supervisor's self-test, each provider in turn, and who closes the root), builds one scheduler and
one supervisor per ready provider, revalidates the file, listens, waits, and takes
all of it down again, from wherever the start failed. Beside it run Serve,
Shutdown of the HTTP server, the timer that bounds it, one handler per request, and processes
that outlive their runner. `Http` is a handler with its two gates and its body
deadline; `PinnedFile` is the source with an editor that renames or rewrites in place in
two halves, with or without a change of the metadata.

`Doctor` is what the diagnosis finds: seven checks, and for each provider a row made of
what its adapter's commands answer, any of which may say nothing of use or fail
to clean up. Three packages spell out which rows there are: the adapters that make
them, `internal/doctor` that validates its own report and refuses to print another, and
`NewProviderRuntime` of the gateway, which refuses to start with another.
`DiagnosisHolds` says where they agree, `RowsAgree` for all three providers, Claude included,
which App does not run. They differ in one point: `NewProviderRuntime` bounds the length of a
version (`CanonicalVersion`, 32 bytes), the other two bound each of its components (20 digits). So a version is
unreadable, supported, unsupported, or unsupported and overlong; a row with an overlong one
passes the report and is refused by `RowRefused`, which ends the start. The
capabilities of a provider are proven together or not at all, and why a check failed is not kept.

Abstractions: an edit happens while the file is read, or at the Recheck: in between
nothing looks at it, so that it commutes; the rows are forgotten where the
diagnosis has been used; file and Snapshot are forgotten after the last revalidation, where
nothing reads them any more; the signal is ignored once the shutdown has begun, as
its context is; a client leaves only at steps that read the request's context.

### InitCommand

The command init: flags, prompts with Back, plan, collisions, key preflight,
confirmations, commit, diagnosis, outcome. A configuration is the set of its entries
(provider tables and aliases) and its authentication; of a value only is kept
whether it is new; an alias keeps its provider. Another process may create a key at any time. The plan
is forgotten when the diagnosis begins.

## Runs

| Run | Bounds | States | Shows |
|---|---|---|---|
| Scheduler | 2 calls, 2 workers, 2 Shutdowns (symmetric) that may overlap or follow each other, each of which may expire | 837 000 | one owner per item, no item beside a sleeper without an idle worker of its own, work is cancelable, nil of either Shutdown is final, implements WorkPool, a closed scheduler drains; no deadlock |
| SchedulerQueue | 3 calls of weight 1, 2, 2 for 1 worker; 2 places, 3 bytes; no Shutdown | 586 000 | queue bounds with removal from the middle, a wait in the queue ends though the work may never; no deadlock |
| UnixRunner | 1 descendant, 2 streams, 1 chunk over the limit, Linux and Darwin | 404 000 | no signal to strangers, containment, the run returns, an exited leader is reaped |
| UnixRunnerOverflow | no descendant, 1 stream | - | violated: see Findings |
| WindowsRunner | 1 descendant, 1 stream with room for 1 of 2 chunks | 179 000 | a return leaves nothing that is not owed, overflow is reported, what is owed is done in the end |
| RuntimeRoot | 1 id, 2 runtimes, 2 cleanups, janitor, Close, 1 restart | 1 354 000 | live directories stay, cleaned ones are gone, handles are found, leftovers reclaimed, lock order; no deadlock |
| Supervisor | 2 runtimes, 2 callers of Shutdown | 40 000 | nothing unowned, nil of Shutdown is final, no error hidden, Shutdown succeeds when retried; evaluates what is assumed of settings and plans |
| Gateway | 2 requests that share a provider of concurrency 1, 1 more provider | 507 000 | cleanup failures degrade, nothing left after Shutdown, honest stops, no start on a degraded provider, every request answered; evaluates what is assumed of replies and adapters |
| ConfigCommit | 2 writers (symmetric), 1 power failure, 1 edit, any kills | 1 436 000 | the report is what is durable, no configuration without its key, only the base is replaced |
| ConfigRollback | 1 writer, no crash, no edit | - | violated: see Findings |
| App | Codex and Gemini and a request for each; 2 handler slots of which 1 reads a body; 1 edit; 4 command lines of init over 2 configurations | 417 000 | the diagnosis is consistent, the root outlives its users, all is given back, slots and answers, the served revision, the process ends; init commits only what was agreed and reports what happened |
| AppExit | 1 request, no edit | - | violated: see Findings |

Why this is enough. Two calls and two workers are what every race of the
scheduler needs: two owners for one item, a wakeup that goes to the wrong
sleeper, and one call that is served while another waits; what a third adds is
the middle of the queue, hence SchedulerQueue. There nobody calls Shutdown, which would
multiply its states by ten: that the bytes are right when Shutdown takes all items at once is theorem
`QueueIsBounded`. Two Shutdowns are two at once, or one that is repeated
after it expired. One descendant can be of each kind,
survive or hold the pipes; more of them fail in the same ways one by one, because
the runners only ask whether anyone is left. One id is the hard case of the
root, since every conflict is about a name that is used again; two generations
make the old and the new. Two requests on one provider show what one does to
the other, and a second provider is what Shutdown might forget. Two writers are what the lock
keeps apart, and what one leaves is what the other meets; the proofs of
`ConfigCommit` cover any number of writers, crashes and edits. In App two handlers for
one body slot meet the refusals of that gate; the gate of the handlers is never full with two requests, and
`SlotsAreSettled` covers it for any limits. Two providers leave a start half done. Bounds
on counters (`MaxWritten`, `MaxGen`, `MaxRestarts`, `MaxCrashes`, `MaxEdits`,
`MaxRevisions`) are guards of the actions that count, named in the constants.

Deadlock is checked where an idle system is a state of its own (the scheduler's
`Quiescent`, the root's restarting environment). Elsewhere a finite number of
runs, runtimes, requests, commits or one process comes to its end, so there it is not.

Symmetry is used in ConfigCommit, which has no liveness property, and of the two callers of
Shutdown in Scheduler, where `WorkersDrain` is one. There it is sound: a caller of Shutdown is named in
no fairness condition and not in the property, so a permutation of the two maps fair
behaviours to fair behaviours and violations to violations. The same run without symmetry has
1 318 000 states and ends without an error, too.

Fairness. Goroutines that can run do, timers fire, and mutexes are granted. Further:

- A provider on Unix owes nothing: a process need not exit, not even when it is killed.
  On Windows the kernel ends what was terminated; the owner's goroutines go on
  until their call succeeds, and it does in the end, since they retry for ever.
- A work function runs for ever unless its context is canceled.
- In Supervisor a caller uses what it prepared (the gateway defers the Discard), a killed
  process is reaped in the end and a Shutdown that failed is tried again, as
  `retryShutdownUntilSuccess` in `internal/app/app.go` does.
- In Gateway calls of the scheduler and the supervisor return: that is what
  `QueueWaitEnds`, `WorkersDrain` and `Returns` show.
- In App work ends at its limits, a killed process is reaped, and a prompt returns
  when its context ends. Clients, users and the signal owe nothing.

`NoLeaseOnDegraded` is about providers of concurrency 1: with more workers a lease may be
taken between the failure of one and its classification, and the code intends no more.

Each property has a mutant in `PROJECT.json`: an operator marked `Slip` beside
the definition it replaces, a plausible bug under which TLC finds the property
violated.

## Findings

`UnixRunnerOverflow`: a provider that exceeds its output limit and exits at
once can be reported as a normal exit. The exit arm of the select samples
`Overflowed()` when the root has exited, and a reader may still have bytes of the
dead root in its pipe; they are counted after the terminal state was committed. The
result then has a total above the limit, a truncated output and no error, while
`internal/process/types.go:103` says that `StopReasonOutputOverflow` means stdout or stderr
exceeded its bound. The Windows runner looks again after draining and reports the overflow
(`OverflowIsReported` holds there).

`ConfigRollback`: a failed commit can leave no configuration at all. When the directory sync
after the publication fails, `rollbackPublishedConfig` (`internal/configstore/commit.go:843`)
renames the old configuration back over the new one; if the rename succeeds and the
validation in the same `publish` fails, the file still counts as temporary and the deferred
cleanup removes it, now under the name of the configuration.
`docs/reference.md:317` says "old config retained". The old bytes survive in the backup.

`AppExit`: when serve is told to stop during the diagnosis, `internal/app/app.go:201`
drops the error of `doctor.Run`, whatever it holds besides the cancellation, and the process exits with 0
although a probe's cleanup failed. `docs/reference.md:339` reserves 0 for success or a
clean handled shutdown, and `docs/reference.md:389` says that a cleanup failure
produces a nonzero exit.

Observations met while modelling, which no run claims:

- A CLI that reports an unsupported version of more than 32 bytes, three numbers of up to 20 digits, passes
  the report (`provider/version.go:57`, `doctor/output.go:427`), and `NewProviderRuntime` refuses its row
  (`gateway/gateway.go:572`): `serve` ends as `serve_failed` though another provider is ready, while
  `docs/reference.md:353` says that it "requires the core checks and at least one ready provider".
  `DiagnosisHolds` states exactly this exception (`RowRefused` in `App`).
- `back` at the prompt for gateway authentication ends init as `setup_failed` when that
  prompt was reached by Back from the key confirmation (`initconfig/interactive.go:107`), and so
  does `--gateway-auth none` when a key file is then asked for.
- Leave to replace an entry, once given, stays when the user goes back and types
  another new value for the same entry; the final diff is still confirmed.
- `failBeforeConfig` loses a restored backup in the way of `ConfigRollback`
  (`configstore/commit.go:783`).

## Proofs

Every theorem holds for any values of the constants that satisfy the named assumption of its module
(finite sets of goroutines, positive limits, names that do not collide). Each module
proves one inductive invariant, `IInv`, with a lemma per part and one step per action,
and draws the properties from it. Types alone are never inductive: every invariant says who holds what.

| Module | Theorems | What the invariant adds to the types |
|---|---|---|
| `SchedulerProofs` | `TypeCorrect`, `QueueIsBounded`, `ItemsHaveOneOwner`, `WakeupsArrive`, `WorkIsCancelable`, `NilIsFinal`, `SchedulerImplementsWorkPool` | `Ownership`: list, workers, channels and callers each hold items in a known state. `Accounted`: the list has no duplicates and the bytes are its weights. `Awake`: while any worker sleeps there is an idle one for each queued item; a closed scheduler has an empty queue and no sleeper, a worker leaves only then. `ArmedOrDoomed`: between the halves of newRunContext a context without callbacks has its cause. `Reported`: a work function's own result waits for execute's second section; with it each critical section is one step of the pool or none |
| `UnixRunnerProofs` | `StrangersAreSafe`, `ReturnContains` | `Retained`: while signals are sent nobody waits for the leader, so its number is not free. `PipesUsed`: the goroutines that use the pipes run between verification and the joins. `FailuresKept`: a wait handed on and a group that remains are cleanup failures |
| `WindowsRunnerProofs` | `ReturnLosesNothing`, `OverflowNeverPasses` | `Launched`, `InJob`, `Waited`: who is in the Job, when it is closed, and who has waited for the root, at each step. `Owing`: nothing is owed before the end, and only after a failure |
| `RuntimeRootProofs` | `TheLiveAreKept`, `NilMeansGone`, `NoHandleIsLost`, `JanitorIsThorough`, `LocksAreOrdered` | `Known`, `Files`: records and directory entries agree. `Cleanings`, `Visiting`: what a Cleanup or the janitor holds is what it looked at. `Holds`: who has which lock. `Owing`: leftovers still to be visited |
| `SupervisorProofs` | `CountIsExact`, `WorkIsOwned`, `NilIsFinal`, `AnswersAreHonest`; `AcceptedIsServable`, `DefaultsAreAccepted`; `EditsSayThePlan`, `ReplacesOnlyTheAllowed`, `PlanningSettles`, `PlansAreFinal` | `LeasesCounted`: the counter is the cardinality of the leases held. `InStep`, `WaitsInUse`, `DirsKnown`: lease, use, wait and directory move together. `SeenLasts`: what Shutdown has seen stays so |
| `GatewayProofs` | `NilMeansDrained`, `FailureDegrades`, `BlameIsDue`, `DegradedTakesNoLease`, `StopsAreTold`; `RefusalsReachTheClient`, `DecodedAreEchoed`, `RunsAreReported`, `FailuresAreReported`, `ResultsAreReported`; `FramingIsInjective`, `EnvironmentsAreClosed`, `CredentialsAreChosen`, `RunsAreProbed`, `AnswersAreWhole`, `FaultsAreTold` | `Paths`: lease and work at each step of Respond. `Blames`: a cause has happened. `ClosingFirst`: schedulers close after the gateway. `Alone`: one worker at a time |
| `ConfigCommitProofs` | `CommitReportsTruth`, `KeysComeFirst`, `OnlyTheBaseIsReplaced` | `OnDisk`, `Fresh`: a candidate is nowhere before it is published. `Exclusive`: steps under the lock. `Marked`, `BasesKept`, `Reports`: the marks of the files, the base and the report agree with the directory. `KeyReady`, `KeyKept`, `KeyOwned`, `BaseHasKey`: a key is removed only by who made it, who did so because no configuration needed one |
| `AppProofs` | `TypesHold`, `SlotsAreSettled`, `RootIsLast`, `NothingIsKept`, `DiagnosisIsSound`, `ServedAsRead`, `OnlyTheAgreed`, `OutcomesAreTrue` | `Settled`: a counter is the number of handlers inside its gate, and who leaves has answered. `Owning`, `Sourced`, `Serviced`, `Rooted`: what main owns at each of its steps. `Employed`: work, and a wait it left, has a supervisor that is not down. `Checked`, `Reported`: checks and rows so far, and that only a failed cleanup ends the probes early. `Pinned`: until it is rechecked the Snapshot differs from the path only by an edit. `Agreed`, `Told`: what a plan holds was selected and agreed to, and what was said of the disk is so. `Judged`, `Phased`, `Typed`, `Asked`: types |

Cardinalities are handled without induction: the scheduler's bytes are counted as pairs
(item, byte), the supervisor's leases as a set, so that the facts about finite
sets of the library suffice.

The proofs of the process follow its one thread of control. A step of `CliNext` is one of
fifteen kinds (`Movers`): of main, the server, a request, a reaped process, the
environment, or init; each part of the invariant has a lemma with a step for each
kind. What a step leaves alone is stated once (`InitFrame`, `CheckedFrame`, `ReportedFrame`).
Above the steps stand
the lemmas about the rows: `RowsAreAgreed` goes through every answer of an adapter for every
provider and shows that what resolveProvider builds passes validateReport, and
NewProviderRuntime unless the version is overlong, whichever of the three wrote the rule; `Validated` draws a finished
diagnosis from it. The slots are counted by the cardinality lemmas `Sizes`.

The two theorems about the configuration are about operators: whatever `Load` accepts, of any
numbers, is refused by no constructor, and a file that gives only what has no default is accepted.
They assume an `int` of at least 32 bits and a `time.Duration` that holds four days.

The four about plans hold for every source, whatever its groups say and however they are written, and
every state that may be asked for. `EditsSayThePlan`: the edited source decodes to exactly the planned
configuration or to nothing; each kind of edit has a lemma that its group then says
what the plan has (`ProviderEditSays`, `GatewayEditSays`), where the fields the diff
does not name are those both have in common. `ReplacesOnlyTheAllowed` follows: a provider or a model that
nobody named for replacement is what it was, tuning and times are kept always.
`PlanningSettles` rests on `PlannedTwice`: the plan is a projection, so that running init
again changes nothing and makes no key. `PlansAreFinal` compares the two computations of a plan, check by check:
planning never makes one that the confirmation refuses, except when the diff shows a value that cannot be printed, which
validatedDiffEntries refuses. It is about what `Resolve` gives (`ResolvedAre`): the checks
there are needed for it. The samples show that the hypotheses are met.

The five about replies and the six about adapters are about operators, too. `Public` says of a sequence of checks that
the tables of the response let every error of it through; `PublicJoin` carries it over a
concatenation, so that each helper of the decoder has a short lemma and `DecodingIsPublic` puts them
together. `MetaIsLogged` does the same for the log line. `StopsAreTold` is an
invariant of the gateway: it takes `StopsAreHonest` from the steps and the tables from there.
That a request is asked about unless it is refused needs the least element of a set
of indices, which no installed prover finds; TLC evaluates it on the samples.

A prompt is read from its front: `FramingIsInjective` takes off one section after the other. Two
decimals that are followed by a newline are the same, because a newline is no digit
(`SplitAtMark`), so the two values are equally long and the concatenation splits there
(`SplitAtLength`). The prompt is any sequence of bytes, the tags and lengths among them.
`EnvironmentsAreClosed` compares two gateways whose environments agree on the names an adapter may
look at: the child has the same environment under both. `CredentialsAreChosen` says which
of these names it gets. `RunsAreProbed` goes through the options of a run, whose flags are those the
help had to name or the command that asked for it was given; for Codex it compares the two lists of
features, one in each of two files. `AnswersAreWhole` goes through every return of Parse, and `FaultsAreTold`
joins them to the tables of the reply.

Assumptions about constants are what the code makes sure of: aliases are not empty and every
configured one is of the pattern and names a known provider; the snapshot of adapters is a
sequence of known providers without repetition (`snapshotAdapters`), and the options of a command
line name entries of the providers it selects (`ValidateOptions` of `initconfig`); a gateway's key is no entry of a provider. A length is printed in digits, no two lengths
alike, and neither a newline nor a tag is a digit (`strconv.Itoa`); `401.0` is a number that
`isIntegerNumber` refuses. What a name, an alias or an argument may be is printable (`safeText`),
and node.exe and its module have absolute paths.

Only model-checked: liveness, which is out of the prover's reach (`WorkersDrain`,
`QueueWaitEnds`, `Returns`, `ExitedIsReaped`, `EndsForGood`, `ShutdownSucceeds`,
`AllAnswered`, `ServeEnds`). Every invariant and every action property of a passing run
is a theorem, and so is the refinement of `WorkPool`.

## Not modelled, and why

- `schema`, the tokenizer of `safejson`, `gatewaykey`: parsing, validation, rendering and
  generation, pure functions of one input with tests by table.
  Gateway, Replies, Adapters and App take their outcomes, a panic included.
- `trustedpath`, the file primitives of both platforms and `root_windows.go`: owner, mode,
  identity and ACL checks on one path, each a system call with one result. The
  models let each fail.
- `doctor`: what the checks of paths, launchers and credentials look at, and the rendering of the report.
- `initconfig`: the bytes of the TOML text (the syntax, ranges and line endings of an edit, not what it says),
  discovery of commands and terminal handling; `cli`: flag syntax.
- `selftest`, `releasepack`, `npm`, test support: a probe command, build
  tools, fakes.
- Of modelled parts: `Stats`, `Models`, `Health` and constructors (copies and validation),
  the text of a response and of a log line, `Materialize`'s file contents, `SelfTest` (a Prepare and an Execute),
  the encoding of command line and environment on Windows.

Most of the repository's lines are of these kinds, so the lines the map covers stay
below what the number of modelled components suggests.
