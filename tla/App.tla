--------------------------------- MODULE App ---------------------------------
(***************************************************************************)
(* The process: serve and doctor (internal/app), the diagnosis both begin   *)
(* with (internal/doctor; its report: Doctor), the configuration they read  *)
(* (PinnedFile) and the HTTP server in front of the gateway (Http).         *)
(*                                                                          *)
(* One main goroutine owns what it has built and takes it down again, from  *)
(* wherever the start failed, or after the server stopped or was told to.   *)
(* Beside it run the server's Serve and Shutdown, one handler per request,   *)
(* the timer of the shutdown, and processes that outlive their runner.       *)
(*                                                                          *)
(* The scheduler, a supervisor, the runtime root and the gateway appear as   *)
(* what they promise: a closed gateway starts no work and is drained when    *)
(* its work has ended (Scheduler, Gateway); a supervisor is drained when     *)
(* none of its processes is waited for (Supervisor).                         *)
(***************************************************************************)
EXTENDS PinnedFile, Http, Doctor

CONSTANT Serves  \* the provider of each request's model

ASSUME ServesAssumption == Serves \in [Requests -> Providers]

VARIABLES
  pc, command,         \* the main goroutine; "serve", "doctor" or "init"
  ctxDone,             \* the signal context
  source, raced,       \* the Snapshot; an edit overlaps the current revalidation
  root,                \* the runtime root's lock and handles
  cleanupFailed,       \* a cleanup of the diagnosis failed
  runErr, controller,  \* Run returns ctx.Err(); there is a ProbeController
  probed, ready,       \* how many providers are resolved; those that are ready
  sups, scheds, gw,    \* supervisors and schedulers not yet shut down; the Gateway
  listener, closeResult, srv, http, \* the listener; Serve; Shutdown of the server
  bound,               \* shutdownCtx
  failed, primary,     \* joinShutdown's arguments
  working, wait        \* requests at work; owners of processes still waited for

fileGroup == <<fileVars, pin, source, raced>>
diagVars == <<reportVars, cleanupFailed, runErr, controller, probed, ready>>
ownVars == <<sups, scheds, gw>>
netVars == <<listener, closeResult, srv, http, bound>>
outVars == <<failed, primary>>
workVars == <<working, wait>>
appVars == <<pc, command, ctxDone, fileGroup, root, diagVars, ownVars, netVars, outVars,
             workVars, httpVars>>

To(where) == pc' = where /\ UNCHANGED <<command, ctxDone>>

\* What a step leaves alone that is about the file, the diagnosis, the runtime.
NoFile == UNCHANGED fileGroup
NoDiag == UNCHANGED diagVars
NoServer == UNCHANGED <<netVars, httpVars>>

\* The main goroutine gives up with one of the errors of serve, or stops (nil).
Quits(err, where) == primary' = err /\ UNCHANGED failed /\ To(where)

AppTypeOK ==
  /\ PinnedTypeOK /\ HttpTypeOK /\ DoctorTypeOK
  /\ pc \in {"start", "load", "read", "verify", "verified", "loaded", "auth", "openRoot",
             "janitor", "controller", "selfTest", "probe", "finish", "finishRetry",
             "finishRoot", "complete", "diagnosed", "assemble", "ids", "recheck",
             "rechecked", "boundary", "serving", "await", "gateway", "http", "gatewayRetry",
             "unwind", "supervisors", "lastJanitor", "closeRoot", "serveResult",
             "closeSource", "report", "undiagnosed", "ended"}
  /\ command \in {"serve", "doctor", "init"} /\ ctxDone \in BOOLEAN
  /\ source \in {"none", "open", "closed"} /\ raced \in BOOLEAN
  /\ root \in {"none", "open", "closed"}
  /\ {cleanupFailed, runErr, controller} \subseteq BOOLEAN
  /\ probed \in 0..Len(Sorted) /\ ready \subseteq Providers
  /\ sups \subseteq Providers /\ scheds \subseteq Providers
  /\ gw \in {"none", "up", "closing", "drained"}
  /\ listener \in {"none", "open", "closed"} /\ closeResult \in {"empty", "ok", "failed"}
  /\ srv \in {"none", "starting", "accepting", "closed", "failed"}
  /\ http \in {"none", "started", "polling", "nil", "error"}
  /\ bound \in {"none", "running", "expired"}
  /\ failed \in BOOLEAN
  /\ primary \in {"nil", "config", "startup", "notReady", "serve"}
  /\ working \subseteq Requests /\ wait \subseteq Requests \cup {"probe"}

AppStarts(c, where) ==
  /\ PinnedInit /\ HttpInit /\ DoctorInit
  /\ command = c /\ pc = where /\ ctxDone = FALSE
  /\ source = "none" /\ raced = FALSE /\ root = "none"
  /\ cleanupFailed = FALSE /\ runErr = FALSE /\ controller = FALSE
  /\ probed = 0 /\ ready = {}
  /\ sups = {} /\ scheds = {} /\ gw = "none"
  /\ listener = "none" /\ closeResult = "empty" /\ srv = "none" /\ http = "none"
  /\ bound = "none"
  /\ failed = FALSE /\ primary = "nil"
  /\ working = {} /\ wait = {}

AppInit == \E c \in {"serve", "doctor"} : AppStarts(c, "start")

-----------------------------------------------------------------------------
(* The configuration: configsource.Load, and the checks that need nothing.   *)

Loading == {"load", "read", "verify", "verified"}

Load ==
  /\ \/ pc = "start" /\ To("load") /\ UNCHANGED <<pin, source>>
     \/ pc = "load" /\ Open /\ source' = "open" /\ To("read")
     \/ pc = "read" /\ ReadHalf /\ To(IF pin.raw = <<>> THEN "read" ELSE "verify")
        /\ UNCHANGED source
     \/ pc = "verify" /\ RevalidateBegins /\ To("verified") /\ UNCHANGED <<pin, source>>
     \/ pc = "verified" /\ RevalidateEnds /\ To("loaded") /\ UNCHANGED <<pin, source>>
  /\ UNCHANGED <<fileVars, raced, root, workVars, outVars>> /\ NoDiag /\ UNCHANGED ownVars /\ NoServer

\* It cannot be opened, read or decoded, or changes while it is; the handle is closed.
LoadFails ==
  /\ pc \in Loading
  /\ source' = IF source = "open" THEN "closed" ELSE source
  /\ Quits("config", "closeSource")
  /\ UNCHANGED <<fileVars, pin, raced, root, ownVars, workVars>> /\ NoDiag /\ NoServer

\* A step of main that touches none of file, network and work.
Plain == NoFile /\ NoServer /\ UNCHANGED workVars

\* ctx.Err before the diagnosis: a clean stop of serve, a failure of doctor.
StopsEarly ==
  /\ pc = "loaded" /\ ctxDone
  /\ Quits(IF command = "serve" THEN "nil" ELSE "startup", "closeSource")
  /\ UNCHANGED <<root, ownVars>> /\ NoDiag /\ Plain

\* An adapter or the gateway's executable is missing; Run refuses its dependencies.
DependenciesFail ==
  /\ pc = "loaded" /\ ~ctxDone
  /\ Quits("startup", "closeSource")
  /\ UNCHANGED <<root, ownVars>> /\ NoDiag /\ Plain

-----------------------------------------------------------------------------
(* doctor.Run.                                                               *)

Diagnosing(where) == To(where) /\ UNCHANGED <<ownVars, outVars>> /\ Plain

Diagnose ==
  /\ pc = "loaded" /\ ~ctxDone
  /\ Diagnosing("auth")
  /\ UNCHANGED root /\ NoDiag

Check(i, pass) == checks' = [checks EXCEPT ![i] = IF pass THEN "pass" ELSE "fail"]
NoRows == UNCHANGED <<rows, probed, ready>>

\* Listener, gateway authentication and schedulers are checked first.
CheckEarly(bad) ==
  /\ pc = "auth"
  /\ checks' = [i \in 1..7 |-> IF i \in bad THEN "fail" ELSE checks[i]]
  /\ runErr' = (bad # {} /\ ctxDone)
  /\ Diagnosing(IF bad = {} THEN "openRoot" ELSE "complete")
  /\ UNCHANGED <<root, cleanupFailed, controller>> /\ NoRows

\* The root is another process's, or unsafe.
RootRefused ==
  /\ pc = "openRoot"
  /\ Check(4, FALSE)
  /\ Diagnosing("finishRoot")
  /\ UNCHANGED <<root, cleanupFailed, runErr, controller>> /\ NoRows

OpenRoot ==
  /\ pc = "openRoot"
  /\ root' = "open"
  /\ Check(4, TRUE)
  /\ Diagnosing("janitor")
  /\ UNCHANGED <<cleanupFailed, runErr, controller>> /\ NoRows

Janitor(pass) ==
  /\ pc = "janitor"
  /\ Check(5, pass)
  /\ Diagnosing(IF pass THEN "controller" ELSE "finishRoot")
  /\ UNCHANGED <<root, cleanupFailed, runErr, controller>> /\ NoRows

NewController(made) ==
  /\ pc = "controller"
  /\ controller' = made
  /\ IF made THEN UNCHANGED checks ELSE Check(6, FALSE)
  /\ Diagnosing(IF made THEN "selfTest" ELSE "finishRoot")
  /\ UNCHANGED <<root, cleanupFailed, runErr>> /\ NoRows

\* A self-test or probe.  One whose cleanup fails may leave a process behind that is
\* still waited for.
Runs(dirty) ==
  /\ cleanupFailed' = dirty
  /\ wait' \in {wait} \cup IF dirty THEN {wait \cup {"probe"}} ELSE {}
  /\ NoFile /\ NoServer /\ UNCHANGED <<ownVars, outVars, root, runErr, controller, working>>

SelfTest(pass, dirty) ==
  /\ pc = "selfTest"
  /\ Runs(dirty)
  /\ Check(6, pass /\ ~dirty)
  /\ To(IF pass /\ ~dirty THEN "probe" ELSE "finish")
  /\ NoRows

\* Slip: the loop ends before the row of the failed probe is stored.
ResolveLosesRow ==
  /\ pc = "probe" /\ probed < Len(Sorted)
  /\ \E o \in Outcomes[Sorted[probed + 1]] :
       /\ Runs(o.dirty)
       /\ rows' = IF o.dirty THEN rows ELSE [rows EXCEPT ![probed + 1] = o.row]
       /\ ready' = IF o.row.status = "ready" THEN ready \cup {Sorted[probed + 1]} ELSE ready
       /\ To(IF o.dirty THEN "finish" ELSE "probe")
  /\ probed' = probed + 1
  /\ UNCHANGED checks

\* resolveProvider, for one after the other.  A failed cleanup ends the loop.
Resolve ==
  /\ pc = "probe" /\ probed < Len(Sorted)
  /\ \E o \in Outcomes[Sorted[probed + 1]] :
       /\ Runs(o.dirty)
       /\ rows' = [rows EXCEPT ![probed + 1] = o.row]
       /\ ready' = IF o.row.status = "ready" THEN ready \cup {Sorted[probed + 1]} ELSE ready
       /\ To(IF o.dirty THEN "finish" ELSE "probe")
  /\ probed' = probed + 1
  /\ UNCHANGED checks

Probed ==
  /\ pc = "probe" /\ probed = Len(Sorted)
  /\ Diagnosing("finish")
  /\ UNCHANGED root /\ NoDiag

\* finishRun: the controller is shut down within a second, or without a bound.
ShutdownController(drained) ==
  /\ \/ pc = "finish" /\ (drained <=> wait = {})
     \/ pc = "finishRetry" /\ drained /\ wait = {}
  /\ cleanupFailed' = (cleanupFailed \/ ~drained)
  /\ Diagnosing(IF drained THEN "finishRoot" ELSE "finishRetry")
  /\ UNCHANGED <<root, checks, runErr, controller>> /\ NoRows

\* finishRun: the root is handed over only if all went well and no one asked to stop.
FinishRun(closes) ==
  /\ pc = "finishRoot"
  /\ runErr' = ctxDone
  /\ IF root = "open" /\ All(4, 6, "pass") /\ ~cleanupFailed /\ ~ctxDone
     THEN UNCHANGED <<root, cleanupFailed>>
     ELSE /\ root' = IF root = "open" THEN "closed" ELSE root
          /\ cleanupFailed' = (cleanupFailed \/ (root = "open" /\ ~closes))
  /\ IF root = "open" THEN Check(7, ~cleanupFailed') ELSE UNCHANGED checks
  /\ Diagnosing("complete")
  /\ UNCHANGED controller /\ NoRows

\* The rows are done with.
DropRows ==
  /\ rows' = SkippedRows /\ probed' = 0
  /\ UNCHANGED <<checks, cleanupFailed, runErr, controller, ready>>

\* The report is built, and validated once more.
FinishDiagnosis ==
  /\ pc = "complete"
  /\ IF ValidReport
     THEN Diagnosing("diagnosed") /\ UNCHANGED root /\ NoDiag
     ELSE /\ root' = IF root = "open" THEN "closed" ELSE root
          /\ Quits("startup", "closeSource")
          /\ DropRows /\ UNCHANGED ownVars /\ Plain

CoreReady == All(1, 7, "pass")

-----------------------------------------------------------------------------
(* doctor prints the report and closes the root; so does init (InitCommand).    *)

DoctorStops ==
  /\ pc = "diagnosed" /\ command # "serve" /\ runErr
  /\ Quits("startup", "closeSource")
  /\ UNCHANGED <<root, ownVars>> /\ DropRows /\ Plain

Report(written, closes) ==
  /\ pc = "report" /\ command = "doctor"
  /\ root' = IF root = "open" THEN "closed" ELSE root
  /\ primary' = IF CoreReady /\ ready # {} THEN "nil" ELSE "notReady"
  /\ failed' = (failed \/ ~written \/ (root = "open" /\ ~closes))
  /\ To("ended")
  /\ UNCHANGED ownVars /\ NoDiag /\ Plain

\* The deferred Close of the Snapshot: last in serve, before the report elsewhere.
CloseSource(closes) ==
  /\ \/ pc = "closeSource" /\ To(IF command = "init" THEN "undiagnosed" ELSE "ended")
     \/ pc = "diagnosed" /\ command # "serve" /\ ~runErr /\ To("report")
  /\ source' = IF source = "open" THEN "closed" ELSE source
  /\ failed' = (failed \/ (source = "open" /\ ~closes))
  /\ UNCHANGED <<fileVars, pin, raced, root, primary, ownVars, workVars>> /\ DropRows /\ NoServer

\* What the process exits with: serveResult and runDoctor.
Exit == IF primary = "config" THEN 2 ELSE IF primary = "nil" /\ ~failed THEN 0 ELSE 1

-----------------------------------------------------------------------------
(* serve builds what it serves with.                                         *)

\* The caller's cancellation is a clean stop; a core check that failed is not.
NotDiagnosed ==
  /\ pc = "diagnosed" /\ command = "serve" /\ (runErr \/ ~CoreReady)
  /\ Quits(IF runErr THEN "nil" ELSE "notReady", "closeSource")
  /\ UNCHANGED <<root, ownVars>> /\ DropRows /\ Plain

NoneReady ==
  /\ pc = "diagnosed" /\ command = "serve" /\ ~runErr /\ CoreReady /\ ready = {}
  /\ Quits("notReady", "lastJanitor")
  /\ UNCHANGED <<root, ownVars>> /\ DropRows /\ Plain

Building(where) ==
  To(where) /\ UNCHANGED <<root, outVars>> /\ NoDiag /\ Plain

Assemble ==
  /\ pc = "diagnosed" /\ command = "serve" /\ ~runErr /\ CoreReady /\ ready # {}
  /\ \A i \in DOMAIN Sorted : Accepts(Sorted[i], rows[i])
  /\ To("assemble")
  /\ UNCHANGED <<root, ownVars, outVars>> /\ DropRows /\ Plain

\* assembleProviderRuntimes makes a runtime of every row, ready or not, in their order:
\* NewProviderRuntime refuses one, and what the ready providers before it were given
\* (or a part of it, if that failed first) is handed to the unwinding.
RowRefused ==
  /\ pc = "diagnosed" /\ command = "serve" /\ ~runErr /\ CoreReady /\ ready # {}
  /\ \E i \in DOMAIN Sorted :
       /\ ~Accepts(Sorted[i], rows[i])
       /\ \A j \in 1..(i-1) : Accepts(Sorted[j], rows[j])
       /\ sups' \in SUBSET (ready \cap {Sorted[j] : j \in 1..(i-1)})
  /\ scheds' \in SUBSET sups'
  /\ Quits("startup", "unwind")
  /\ UNCHANGED <<root, gw>> /\ DropRows /\ Plain

\* Every row is accepted: supervisor, scheduler and runtime of a ready provider.
BuildProvider(p) ==
  /\ pc = "assemble" /\ p \in ready \ sups
  /\ sups' = sups \cup {p} /\ scheds' = scheds \cup {p}
  /\ Building("assemble")
  /\ UNCHANGED gw

\* One of them is refused, and those before it are handed to the unwinding.
BuildFails(p) ==
  /\ pc = "assemble" /\ p \in ready \ sups
  /\ \/ UNCHANGED <<sups, scheds>>
     \/ sups' = sups \cup {p} /\ UNCHANGED scheds
     \/ sups' = sups \cup {p} /\ scheds' = scheds \cup {p}
  /\ Quits("startup", "unwind")
  /\ UNCHANGED <<root, gw>> /\ NoDiag /\ Plain

NewGateway ==
  /\ pc = "assemble" /\ ready \subseteq sups
  /\ gw' = "up"
  /\ Building("ids")
  /\ UNCHANGED <<sups, scheds>>

NewIDs ==
  /\ pc = "ids"
  /\ Building("recheck")
  /\ UNCHANGED ownVars

\* Limits, Gateway, HTTP identifiers or HTTP boundary are refused.
StartFails ==
  /\ \/ pc = "assemble" /\ ready \subseteq sups
     \/ pc \in {"ids", "boundary"}
  /\ Quits("startup", "unwind")
  /\ UNCHANGED <<root, ownVars>> /\ NoDiag /\ Plain

\* source.Revalidate, right before the listener.  Nothing reads the file or the
\* Snapshot after it: they are forgotten here.
Recheck ==
  /\ \/ pc = "recheck" /\ RevalidateBegins /\ To("rechecked")
        /\ raced' = FALSE /\ UNCHANGED <<fileVars, pin>>
     \/ pc = "rechecked" /\ RevalidateEnds /\ To("boundary")
        /\ raced' = FALSE /\ name' = 0 /\ revision' = 0 /\ pin' = NoPin
        /\ body' = [f \in Files |-> <<0, 0>>] /\ stamp' = [f \in Files |-> 0]
  /\ UNCHANGED <<source, root, ownVars, outVars, workVars>> /\ NoDiag /\ NoServer

RecheckFails ==
  /\ \/ pc = "recheck" /\ ~RevalidateBegins
     \/ pc = "rechecked" /\ ~RevalidateEnds
  /\ Quits("notReady", "unwind")
  /\ UNCHANGED <<root, ownVars>> /\ NoDiag /\ Plain

Listen ==
  /\ pc = "boundary"
  /\ listener' = "open" /\ srv' = "starting"
  /\ To("serving")
  /\ NoFile /\ UNCHANGED <<closeResult, http, bound, httpVars, root, outVars, workVars>>
  /\ NoDiag /\ UNCHANGED ownVars

-----------------------------------------------------------------------------
(* The server's goroutines: Serve, Shutdown, the handlers.                   *)

Up == pc # "ended"  \* the process runs

\* shutdownAwareListener.Close: once, and its result is there for whoever waits.
CloseListener ==
  IF listener = "open"
  THEN listener' = "closed" /\ closeResult' \in {"ok", "failed"}
  ELSE UNCHANGED <<listener, closeResult>>

Aside == UNCHANGED <<pc, command, ctxDone, fileGroup, root, diagVars, ownVars, outVars>>

\* Serve registers the listener, unless Shutdown came first.
ServeBegins ==
  /\ Up /\ srv = "starting"
  /\ IF http \in {"none", "started"}
     THEN srv' = "accepting" /\ UNCHANGED <<listener, closeResult>>
     ELSE srv' = "closed" /\ CloseListener
  /\ UNCHANGED <<http, bound, workVars, httpVars>> /\ Aside

\* Accept fails: of itself, or since the listener was closed.
ServeReturns ==
  /\ Up /\ srv = "accepting"
  /\ srv' = IF http \in {"none", "started"} THEN "failed" ELSE "closed"
  /\ CloseListener
  /\ UNCHANGED <<http, bound, workVars, httpVars>> /\ Aside

\* http.Server.Shutdown closes the listener Serve registered, and waits until no
\* connection is at work, or for shutdownCtx.
HttpCloses ==
  /\ Up /\ http = "started"
  /\ http' = "polling"
  /\ IF srv = "accepting" THEN CloseListener ELSE UNCHANGED <<listener, closeResult>>
  /\ UNCHANGED <<srv, bound, workVars, httpVars>> /\ Aside

HttpReturns ==
  /\ Up /\ http = "polling"
  /\ \/ Active = {} /\ http' = IF closeResult = "failed" THEN "error" ELSE "nil"
     \/ bound = "expired" /\ http' = "error"
  /\ UNCHANGED <<listener, closeResult, srv, bound, workVars, httpVars>> /\ Aside

\* The shutdown timeout.
BoundExpires ==
  /\ Up /\ bound = "running"
  /\ bound' = "expired"
  /\ UNCHANGED <<listener, closeResult, srv, http, workVars, httpVars>> /\ Aside

OfHandler == UNCHANGED netVars /\ Aside

Connect(r) ==
  /\ Up /\ srv = "accepting" /\ listener = "open"
  /\ Accept(r) /\ UNCHANGED workVars /\ OfHandler

Handles(r) == Up /\ Handler(r) /\ UNCHANGED workVars /\ OfHandler

Leaves(r) == Up /\ ClientLeaves(r) /\ UNCHANGED workVars /\ OfHandler

\* Gateway.Respond is refused by the gateway or the scheduler, or given up in its queue.
Refused(r) == Up /\ r \notin working /\ Responded(r) /\ UNCHANGED workVars /\ OfHandler

\* A worker executes it under a lease of its provider's supervisor.
WorkStarts(r) ==
  /\ Up /\ gw = "up" /\ Serves[r] \in ready
  /\ step[r] = "responding" /\ r \notin working /\ r \notin left
  /\ working' = working \cup {r}
  /\ UNCHANGED <<wait, httpVars>> /\ OfHandler

\* It ends: of itself, at its limit or canceled.  Its process may outlive the runner.
WorkEnds(r) ==
  /\ Up /\ r \in working
  /\ working' = working \ {r}
  /\ wait' \in {wait, wait \cup {r}}
  /\ Responded(r) /\ OfHandler

\* The process dies, and its cmd.Wait returns.
Reaped(o) ==
  /\ Up /\ o \in wait
  /\ wait' = wait \ {o}
  /\ UNCHANGED <<working, httpVars>> /\ OfHandler

-----------------------------------------------------------------------------
(* serveOwnedRuntime and shutdownServingRuntime.                              *)

\* A step of main among the server's goroutines.
Main(where) == To(where) /\ NoFile /\ NoDiag /\ UNCHANGED workVars

\* Serve returned or the signal came: ErrServe is told from srv in AwaitServe.
Serving ==
  /\ pc = "serving"
  /\ srv \in {"closed", "failed"} \/ ctxDone
  /\ http' = "started" /\ bound' = "running"
  /\ Main("await")
  /\ UNCHANGED <<listener, closeResult, srv, httpVars, outVars, root, ownVars>>

\* Slip: the result that was taken from httpResults is waited for again.
AwaitForgets ==
  /\ pc = "await"
  /\ \/ closeResult # "empty" /\ UNCHANGED <<http, listener, closeResult>>
     \/ http \in {"nil", "error"} /\ CloseListener /\ http' = "none"
  /\ gw' = "closing"
  /\ Main("gateway")
  /\ UNCHANGED <<srv, bound, httpVars, outVars, root, sups, scheds>>

\* The listener is closed, or Shutdown returned and main closes it; then the gateway
\* is.  closeFailed is read off closeResult, httpErr off http.
Await ==
  /\ pc = "await"
  /\ \/ closeResult # "empty" /\ UNCHANGED <<listener, closeResult>>
     \/ http \in {"nil", "error"} /\ CloseListener
  /\ gw' = "closing"
  /\ Main("gateway")
  /\ UNCHANGED <<srv, http, bound, httpVars, outVars, root, sups, scheds>>

\* Gateway.Shutdown(shutdownCtx).
ShutdownGateway(drained) ==
  /\ pc = "gateway"
  /\ IF drained THEN working = {} /\ gw' = "drained" /\ scheds' = {}
                ELSE bound = "expired" /\ UNCHANGED <<gw, scheds>>
  /\ failed' = (failed \/ ~drained)
  /\ Main("http")
  /\ NoServer /\ UNCHANGED <<primary, root, sups>>

\* The result of Shutdown; an error closes the server, its connections with it.
AwaitHttp ==
  /\ pc = "http" /\ http \in {"nil", "error"}
  /\ failed' = (failed \/ http = "error" \/ closeResult = "failed")
  /\ IF http = "error" THEN ConnectionsClose ELSE UNCHANGED httpVars
  /\ Main(IF gw = "drained" THEN "supervisors" ELSE "gatewayRetry")
  /\ UNCHANGED <<netVars, primary, root, ownVars>>

\* Slip: the gateway that was not drained in time is not waited for.
RetryGatewayNot ==
  /\ pc = "gatewayRetry"
  /\ gw' = "drained" /\ scheds' = {}
  /\ Main("supervisors")
  /\ NoServer /\ UNCHANGED <<outVars, root, sups>>

\* retryShutdownUntilSuccess.
RetryGateway ==
  /\ pc = "gatewayRetry" /\ working = {}
  /\ gw' = "drained" /\ scheds' = {}
  /\ Main("supervisors")
  /\ NoServer /\ UNCHANGED <<outVars, root, sups>>

\* Slip: a start that failed before the gateway leaves its schedulers running.
UnwindForgets ==
  /\ pc = "unwind"
  /\ scheds' = IF gw = "none" THEN scheds ELSE {}
  /\ gw' = IF gw = "up" THEN "drained" ELSE gw
  /\ UNCHANGED <<root, outVars, sups>>
  /\ To("supervisors") /\ NoDiag /\ Plain

\* unwindRuntime: no work was ever started, and gateway or schedulers end at once.
Unwind ==
  /\ pc = "unwind"
  /\ scheds' = {}
  /\ gw' = IF gw = "up" THEN "drained" ELSE gw
  /\ UNCHANGED <<root, outVars, sups>>
  /\ To("supervisors") /\ NoDiag /\ Plain

Waits(p) == {r \in wait \cap Requests : Serves[r] = p}

\* drainRetryable: a supervisor, within the bound or beyond it.
ShutdownSupervisor(p, inTime) ==
  /\ pc = "supervisors" /\ p \in sups
  /\ Waits(p) = {}
  /\ inTime \/ bound = "expired"
  /\ sups' = sups \ {p}
  /\ failed' = (failed \/ ~inTime)
  /\ Main("supervisors")
  /\ NoServer /\ UNCHANGED <<primary, root, scheds, gw>>

SupervisorsDown ==
  /\ pc = "supervisors" /\ sups = {}
  /\ bound' = "none"
  /\ Main("lastJanitor")
  /\ UNCHANGED <<listener, closeResult, srv, http, httpVars, root, outVars, ownVars>>

LastJanitor(clean) ==
  /\ pc = "lastJanitor"
  /\ failed' = (failed \/ ~clean)
  /\ Main("closeRoot")
  /\ NoServer /\ UNCHANGED <<primary, root, ownVars>>

CloseRoot(closes) ==
  /\ pc = "closeRoot"
  /\ root' = "closed"
  /\ failed' = (failed \/ ~closes)
  /\ Main(IF srv = "none" THEN "closeSource" ELSE "serveResult")
  /\ NoServer /\ UNCHANGED <<primary, ownVars>>

AwaitServe ==
  /\ pc = "serveResult" /\ srv \in {"closed", "failed"}
  /\ primary' = IF srv = "failed" THEN "serve" ELSE primary
  /\ Main("closeSource")
  /\ NoServer /\ UNCHANGED <<failed, root, ownVars>>

-----------------------------------------------------------------------------
(* The environment, and the whole.                                           *)

\* Once the shutdown has begun nobody looks at the context.
Signal ==
  /\ Up /\ ~ctxDone /\ http = "none"
  /\ ctxDone' = TRUE
  /\ UNCHANGED <<pc, command, fileGroup, root, diagVars, ownVars, netVars, outVars,
                 workVars, httpVars>>

\* Nothing looks at the file before it is opened, nor between the load and the Recheck:
\* an edit in between is as good as one right before the Recheck.
Edits ==
  /\ pc \in (Loading \ {"load"}) \cup {"recheck", "rechecked"}
  /\ Edit
  /\ raced' = (pc = "rechecked")
  /\ UNCHANGED <<pc, command, ctxDone, source, root, diagVars, ownVars, netVars, outVars,
                 workVars, httpVars>>

AppStart ==
  \/ Load \/ LoadFails \/ StopsEarly \/ DependenciesFail \/ Diagnose
  \/ RootRefused \/ OpenRoot \/ Resolve \/ Probed \/ FinishDiagnosis \/ DoctorStops
  \/ \E bad \in SUBSET (1..3) : CheckEarly(bad)
  \/ \E b \in BOOLEAN : Janitor(b) \/ NewController(b) \/ (\E d \in BOOLEAN : SelfTest(b, d))
                        \/ ShutdownController(b) \/ FinishRun(b) \/ CloseSource(b)
                        \/ \E c \in BOOLEAN : Report(b, c)
  \/ \E p \in Providers : BuildProvider(p) \/ BuildFails(p)
  \/ NotDiagnosed \/ NoneReady \/ Assemble \/ RowRefused \/ NewGateway \/ NewIDs \/ StartFails
  \/ Recheck \/ RecheckFails \/ Listen

AppStop ==
  \/ Serving \/ Await \/ AwaitHttp \/ RetryGateway \/ Unwind \/ SupervisorsDown \/ AwaitServe
  \/ \E b \in BOOLEAN : ShutdownGateway(b) \/ LastJanitor(b) \/ CloseRoot(b)
                        \/ \E p \in Providers : ShutdownSupervisor(p, b)

AppMain == AppStart \/ AppStop

AppNext ==
  \/ AppMain \/ ServeBegins \/ ServeReturns \/ HttpCloses \/ HttpReturns \/ BoundExpires
  \/ Signal \/ Edits
  \/ \E r \in Requests : \/ Connect(r) \/ Handles(r) \/ Leaves(r) \/ Refused(r)
                         \/ WorkStarts(r) \/ WorkEnds(r)
  \/ \E o \in Requests \cup {"probe"} : Reaped(o)

AppSpec == AppInit /\ [][AppNext]_appVars

\* The runtime runs every goroutine, the timer fires, work ends at its limits, and
\* the kernel reaps what was killed.
OthersRun ==
  /\ WF_appVars(ServeBegins) /\ WF_appVars(listener = "closed" /\ ServeReturns)
  /\ WF_appVars(HttpCloses) /\ WF_appVars(HttpReturns) /\ WF_appVars(BoundExpires)
  /\ \A r \in Requests : WF_appVars(WorkEnds(r))
  /\ \A o \in Requests \cup {"probe"} : WF_appVars(Reaped(o))

AppFair == WF_appVars(AppMain) /\ OthersRun

AppFairSpec == AppSpec /\ AppFair

-----------------------------------------------------------------------------
(* Properties.                                                               *)

(* The janitor sweeps and the root is closed only when nothing uses it: no     *)
(* request is at work, no process is waited for, and no supervisor or           *)
(* scheduler could start one - however far the start came, and although the     *)
(* bounded shutdowns may all have expired.                                      *)
RootOutlivesUsers ==
  pc \in {"lastJanitor", "closeRoot"} \/ root = "closed"
    => working = {} /\ wait = {} /\ sups = {} /\ scheds = {} /\ gw # "up"

(* Run never refuses the report it builds itself, wherever the diagnosis failed and  *)
(* a cleanup did; what an adapter says is never discarded as malformed; and when     *)
(* serve goes on, NewProviderRuntime refuses a row only for a version longer than     *)
(* core.IsCanonicalProviderVersion allows.  Adapters, report and gateway each have    *)
(* rules of their own for a row: in all else they agree.                              *)
DiagnosisHolds ==
  /\ pc = "complete" => ValidReport /\ RowsAgree
  /\ pc = "diagnosed" /\ CoreReady =>
       \A i \in DOMAIN Sorted : Accepts(Sorted[i], rows[i]) <=> CanonicalVersion(rows[i].version)

(* Whatever way the process ends, all it took is given back: root, source,       *)
(* listener, the goroutine of Serve, supervisors and schedulers.                 *)
AllGivenBack ==
  pc = "ended" => /\ root # "open" /\ source # "open" /\ listener # "open"
                  /\ srv \in {"none", "closed", "failed"}
                  /\ sups = {} /\ scheds = {} /\ gw \in {"none", "drained"}

(* The revision that is served is the revision the path names when the last        *)
(* look before the listener ends, unless an edit overlaps that look.               *)
ServesWhatItRead ==
  [][pc = "rechecked" /\ pc' = "boundary" => raced \/ pin.raw = body[name]]_appVars

(* A process that is told to stop, or whose server fails, ends: no goroutine of the  *)
(* shutdown waits for another that waits for it, and no result is waited for twice.  *)
ServeEnds == ctxDone \/ srv = "failed" ~> pc = "ended"

(* docs/reference.md: "The exit status is 0 for success or a clean handled           *)
(* shutdown, 1 for readiness, runtime, serve, or cleanup failure".                   *)
CleanupFailureShows == pc = "ended" /\ Exit = 0 => ~failed /\ ~cleanupFailed
=============================================================================
