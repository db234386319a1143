------------------------------ MODULE AppProofs ------------------------------
(* For any requests, slots, providers, edits, flags and configurations: what the   *)
(* process builds is used only while it owns it and is given back on every way out, *)
(* the server serves what it read, and init changes and reports what it should.     *)
EXTENDS InitCommand, FiniteSetTheorems, TLAPS

\* Where nothing has been opened, where the root is being diagnosed, where serve owns
\* what it built, and where a server may have run.
Early == {"start", "load", "read", "verify", "verified", "loaded", "auth", "openRoot"} \cup Planning
Probing == {"janitor", "controller", "selfTest", "probe", "finish", "finishRetry"}
Owns == {"assemble", "ids", "recheck", "rechecked", "boundary", "unwind", "serving", "await",
          "gateway", "http", "gatewayRetry", "supervisors"}
Afterwards == {"serving", "await", "gateway", "http", "gatewayRetry", "supervisors", "lastJanitor",
               "closeRoot", "serveResult", "closeSource", "undiagnosed", "ended"}

\* The runtime: the gateway's state follows main, and nothing is owned beside Owns.
Owning ==
  /\ pc \notin Owns => sups = {} /\ scheds = {} /\ gw \in {"none", "drained"}
  /\ pc \notin (Owns \cup Afterwards) \ {"assemble"} => gw = "none"
  /\ pc \in {"ids", "recheck", "rechecked", "boundary", "serving", "await"} => gw = "up"
  /\ pc \in {"gateway", "gatewayRetry"} => gw = "closing"
  /\ pc = "http" => gw \in {"closing", "drained"}
  /\ pc = "unwind" => gw \in {"none", "up"}
  /\ pc = "supervisors" => gw \in {"none", "drained"} /\ scheds = {}
  /\ gw = "up" => ready \subseteq sups
  /\ gw = "drained" => scheds = {}

\* Work is under a gateway that takes it, and it and what it leaves behind are of a
\* provider whose supervisor is not shut down yet.
Employed ==
  /\ srv = "none" => \A r \in Requests : step[r] = "away"
  /\ working \subseteq {r \in Requests : step[r] = "responding"}
  /\ gw \in {"none", "drained"} => working = {}
  /\ \A r \in working : Serves[r] \in sups
  /\ pc \notin {"finish", "finishRetry"} => \A r \in wait : r \in Requests /\ Serves[r] \in sups

\* The server runs only after Listen, and main has its result in the end.
Serviced ==
  /\ pc \notin Afterwards => srv = "none"
  /\ pc \in {"closeSource", "undiagnosed", "ended"} => srv \in {"none", "closed", "failed"}
  /\ listener = "open" => srv \in {"starting", "accepting"}

\* The root is open while it is used, and handed over only by a diagnosis that passed.
Rooted ==
  /\ pc \in Early => root = "none"
  /\ pc \in Early \ {"openRoot"} => checks = InitialChecks
  /\ pc \in Probing \cup Owns => root = "open"
  /\ pc \in Probing \cup {"openRoot", "finishRoot"} => All(1, 3, "pass")
  /\ pc = "finishRoot" => root = "open" \/ (root = "none" /\ checks[4] = "fail")
  /\ pc \in {"complete", "diagnosed"} => (root = "open" <=> CoreReady /\ ~runErr)
  /\ pc = "report" => (root = "open" <=> CoreReady)
  /\ pc \in {"closeSource", "serveResult", "undiagnosed", "ended"} => root # "open"

Sourced == pc \in {"start", "load", "report", "undiagnosed", "ended"} \cup Planning => source # "open"

\* What init says of the files.
Told ==
  /\ pc # "ended" => outcome = "none"
  /\ pc \in Planning => ~saved /\ disk = "base"
  /\ outcome # "unknown" => (saved <=> disk = "candidate")
  /\ outcome \in {"declined", "dryRun", "usage", "recovery"} => ~saved
  /\ outcome = "ready" => CoreReady /\ root = "closed" /\ ~failed

\* Behind PlanMerge, and behind Preflight.
Planned == {"preflight", "confirmKey", "confirm", "write", "commit", "committing"}
Inspected == Planned \ {"preflight"}

\* The plan stays within what was selected and agreed, whatever way back is taken.
Agreed ==
  /\ asked \subseteq Of(selected)
  /\ replace \subseteq agreed /\ replace \subseteq Entries
  /\ pc \in Planned =>
       /\ Collisions \subseteq replace
       /\ keyAction \in {"none", "inspect", "ensure"}
       /\ keyAction = "none" => PlannedAuth = "none"
       /\ keyAction = "ensure" => "key" \in agreed \/ base.auth # "file"
       /\ allowExisting => "key" \in agreed \/ auth = "explicit"
  /\ pc \in Inspected =>
       /\ keyState = "none" => keyAction = "none"
       /\ keyState = "reusable" => keyAction = "inspect" \/ allowExisting
  /\ pc \in {"commit", "committing"} => ~flags.dryRun /\ keyState # "unconfirmed"

\* From the end of the read to the last look the Snapshot is a whole revision.
Read == {"verify", "verified", "loaded", "auth", "openRoot", "finishRoot", "complete", "diagnosed",
         "assemble", "ids", "recheck", "rechecked"} \cup Probing

Pinned ==
  /\ name \in Files /\ revision \in Revisions
  /\ body \in [Files -> Revisions \X Revisions] /\ stamp \in [Files -> Revisions]
  /\ pin \in [file : Files, meta : Revisions, raw : Seq(Revisions)] /\ Len(pin.raw) <= 2
  /\ pc = "read" => Len(pin.raw) \in 0..1
  /\ pc \in Read => Len(pin.raw) = 2
  /\ pc = "rechecked" /\ ~raced => name = pin.file /\ body[name][1] = pin.raw[1]

\* A diagnosis has a verdict for every check so far.
Phases == {"openRoot", "janitor", "controller", "selfTest", "probe", "finish", "finishRetry",
           "finishRoot", "complete", "diagnosed"}
Checked ==
  /\ pc = "openRoot" => All(1, 3, "pass") /\ All(4, 7, "skipped")
  /\ pc = "janitor" => All(1, 4, "pass") /\ All(5, 7, "skipped")
  /\ pc \in {"controller", "selfTest"} => All(1, 5, "pass") /\ All(6, 7, "skipped")
  /\ pc = "probe" => All(1, 6, "pass") /\ checks[7] = "skipped"
  /\ pc \in {"finish", "finishRetry"} => All(1, 5, "pass") /\ checks[6] # "skipped"
  /\ pc = "finishRoot" =>
       /\ All(1, 3, "pass") /\ checks[4] # "skipped"
       /\ checks[4] = "fail" => root = "none" /\ All(5, 7, "skipped")
       /\ checks[4] = "pass" => /\ root = "open" /\ checks[5] # "skipped"
                                /\ (checks[5] = "fail") <=> (checks[6] = "skipped")
  /\ pc \in {"complete", "diagnosed"} => ValidCore

\* It has a row for every provider that was probed, and those that were not are behind
\* one whose cleanup failed.
Probes == {"finish", "finishRetry", "finishRoot", "complete", "diagnosed"}
Reported ==
  /\ DOMAIN rows = 1..Len(Sorted)
  /\ \A i \in 1..Len(Sorted) :
       IF i <= probed THEN \E o \in OutcomesOf(Sorted[i]) : rows[i] = o.row ELSE rows[i] = Skipped
  /\ pc \notin Probes \cup {"probe"} => probed = 0
  /\ pc \in Probes /\ ~All(1, 6, "pass") => probed = 0
  /\ pc \in Probes /\ All(1, 6, "pass") /\ probed < Len(Sorted) =>
       probed > 0 /\ cleanupFailed /\ ~PreprobeRow(Sorted[probed], rows[probed])
  /\ pc \in {"complete", "diagnosed"} /\ All(1, 6, "pass") /\ cleanupFailed => checks[7] = "fail"

\* What the other parts say nothing of keeps its type: of the process, and of init.
Phased == pc \in Early \cup Probing \cup Owns \cup Afterwards
                   \cup {"finishRoot", "complete", "diagnosed", "report"}
Typed ==
  /\ command \in {"serve", "doctor", "init"}
  /\ source \in {"none", "open", "closed"} /\ raced \in BOOLEAN
  /\ root \in {"none", "open", "closed"} /\ controller \in BOOLEAN
  /\ ready \subseteq Providers /\ sups \subseteq Providers /\ scheds \subseteq Providers
  /\ gw \in {"none", "up", "closing", "drained"}
  /\ listener \in {"none", "open", "closed"} /\ closeResult \in {"empty", "ok", "failed"}
  /\ srv \in {"none", "starting", "accepting", "closed", "failed"}
  /\ http \in {"none", "started", "polling", "nil", "error"}
  /\ bound \in {"none", "running", "expired"}
  /\ primary \in {"nil", "config", "startup", "notReady", "serve"}
  /\ working \subseteq Requests /\ wait \subseteq Requests \cup {"probe"}

Asked ==
  /\ flags \in CommandLines \cup {NoFlags} /\ base \in Bases \cup {NoBase}
  /\ selected \subseteq Names /\ asked \subseteq Entries /\ replace \subseteq Entries
  /\ agreed \subseteq Entries \cup {"key"}
  /\ auth \in {"keep", "none", "file", "explicit"}
  /\ keyAction \in {"none", "inspect", "ensure"}
  /\ keyState \in {"none", "missing", "unconfirmed", "reusable"}
  /\ resumed \in BOOLEAN /\ allowExisting \in BOOLEAN /\ keyFile \in BOOLEAN
  /\ saved \in BOOLEAN /\ disk \in {"base", "candidate"}
  /\ outcome \in {"none", "ready", "notReady", "failed", "recovery", "unknown", "usage",
                   "canceled", "declined", "dryRun"}

\* A handler that leaves has answered, or has nobody to answer.
Settled ==
  /\ HttpTypeOK /\ RequestsSettled
  /\ \A r \in Requests : step[r] = "leaving" /\ r \notin left => r \in answered

-----------------------------------------------------------------------------
(* Who moves, and what that leaves alone.                                   *)

\* The steps of the server's goroutines.
Serve == ServeBegins \/ ServeReturns \/ HttpCloses \/ HttpReturns \/ BoundExpires

\* The steps of a request: its connection, its handler and its work.
Request(r) == Connect(r) \/ Handles(r) \/ Leaves(r) \/ Refused(r) \/ WorkStarts(r) \/ WorkEnds(r)

\* Every step of CliNext is one of these.
LEMMA Movers ==
  ASSUME [CliNext]_cliVars
  PROVE  \/ AppStart /\ UNCHANGED initVars
         \/ AppStop /\ UNCHANGED initVars
         \/ Serve /\ UNCHANGED initVars
         \/ (\E r \in Requests : Request(r)) /\ UNCHANGED initVars
         \/ (\E o \in Requests \cup {"probe"} : Reaped(o)) /\ UNCHANGED initVars
         \/ Signal /\ UNCHANGED initVars
         \/ Edits /\ UNCHANGED initVars
         \/ InitMain
         \/ KeyAppears
         \/ UNCHANGED cliVars
BY DEF CliNext, AppNext, AppMain, Serve, Request

\* Nothing that main does before it listens concerns requests or their work.
LEMMA StartFrame ==
  ASSUME AppStart
  PROVE  UNCHANGED <<httpVars, working>>
<1> USE DEF Plain, NoServer, Building, Diagnosing, workVars
<1>1. ASSUME Load \/ LoadFails \/ StopsEarly \/ DependenciesFail \/ Diagnose
      PROVE  UNCHANGED <<httpVars, working>>
  BY <1>1 DEF Load, LoadFails, StopsEarly, DependenciesFail, Diagnose
<1>2. ASSUME \/ RootRefused \/ OpenRoot \/ Probed \/ FinishDiagnosis \/ DoctorStops
             \/ \E bad \in SUBSET (1..3) : CheckEarly(bad)
      PROVE  UNCHANGED <<httpVars, working>>
  BY <1>2 DEF RootRefused, OpenRoot, Probed, FinishDiagnosis, DoctorStops, CheckEarly
<1>3. ASSUME Resolve PROVE UNCHANGED <<httpVars, working>>
  BY <1>3 DEF Resolve, Runs
<1>4. ASSUME NEW b \in BOOLEAN, NEW d \in BOOLEAN,
             Janitor(b) \/ NewController(b) \/ SelfTest(b, d) \/ ShutdownController(b)
      PROVE  UNCHANGED <<httpVars, working>>
  BY <1>4 DEF Janitor, NewController, SelfTest, Runs, ShutdownController
<1>5. ASSUME NEW b \in BOOLEAN, NEW d \in BOOLEAN, FinishRun(b) \/ CloseSource(b) \/ Report(b, d)
      PROVE  UNCHANGED <<httpVars, working>>
  BY <1>5 DEF FinishRun, CloseSource, Report
<1>6. ASSUME \/ NotDiagnosed \/ NoneReady \/ Assemble \/ RowRefused \/ NewGateway \/ NewIDs \/ StartFails
             \/ \E p \in Providers : BuildProvider(p) \/ BuildFails(p)
      PROVE  UNCHANGED <<httpVars, working>>
  BY <1>6 DEF NotDiagnosed, NoneReady, Assemble, RowRefused, NewGateway, NewIDs, StartFails, BuildProvider, BuildFails
<1>7. ASSUME Recheck \/ RecheckFails \/ Listen PROVE UNCHANGED <<httpVars, working>>
  BY <1>7 DEF Recheck, RecheckFails, Listen
<1> QED BY <1>1, <1>2, <1>3, <1>4, <1>5, <1>6, <1>7 DEF AppStart

\* init goes its own way until it diagnoses, and touches of the process only the root.
LEMMA InitFrame ==
  ASSUME InitMain
  PROVE  /\ UNCHANGED <<command, ctxDone, fileGroup, diagVars, ownVars, netVars, outVars, workVars,
                        httpVars>>
         /\ pc \in Planning \cup {"undiagnosed", "report"}
         /\ pc' \in Planning \cup {"start", "ended"}
         /\ pc' \in Planning \cup {"start"} => pc \in Planning
         /\ IF pc = "report" THEN pc' = "ended" /\ root' = (IF root = "open" THEN "closed" ELSE root)
                             ELSE UNCHANGED root
<1> USE DEF To, Turns, Stops, Ends, Still, Planning, Prompts, Selection, NoFile, NoDiag, NoServer
<1> DEFINE Frame ==
      /\ UNCHANGED <<command, ctxDone, fileGroup, diagVars, ownVars, netVars, outVars, workVars,
                     httpVars>>
      /\ pc \in Planning \cup {"undiagnosed", "report"}
      /\ pc' \in Planning \cup {"start", "ended"}
      /\ pc' \in Planning \cup {"start"} => pc \in Planning
      /\ IF pc = "report" THEN pc' = "ended" /\ root' = (IF root = "open" THEN "closed" ELSE root)
                             ELSE UNCHANGED root
<1>1. ASSUME CancelInit \/ FailInit \/ RefuseInit \/ BeginInit \/ SelectBack \/ CollectBack
      PROVE  Frame
  BY <1>1 DEF CancelInit, FailInit, RefuseInit, BeginInit, SelectBack, CollectBack
<1>2. ASSUME CollectKeyBack \/ Plan \/ PlanRefused \/ PlanCollides \/ ReviewBack \/ Decline
      PROVE  Frame
  BY <1>2 DEF CollectKeyBack, Plan, PlanRefused, PlanCollides, ReviewBack, Decline
<1>3. ASSUME Preflight \/ ConfirmKey \/ PlanAgain \/ Confirm \/ DryRun \/ KeyUnconfirmed
      PROVE  Frame
  BY <1>3 DEF Preflight, ConfirmKey, PlanAgain, Confirm, DryRun, KeyUnconfirmed
<1>4. ASSUME BeginCommit \/ NothingToDo \/ Committed \/ NotCommitted \/ Undiagnosed
      PROVE  Frame
  BY <1>4 DEF BeginCommit, GoesOn, NothingToDo, Committed, NotCommitted, Undiagnosed
<1>5. ASSUME NEW names \in SUBSET Names, Select(names) PROVE Frame
  BY <1>5 DEF Select
<1>6. ASSUME NEW granted \in SUBSET Entries, Review(granted) PROVE Frame
  BY <1>6 DEF Review
<1>7. ASSUME NEW a \in {"none", "file", "explicit"}, NEW new \in SUBSET Entries,
             CollectKey(a) \/ Collect(new, a)
      PROVE  Frame
  BY <1>7 DEF CollectKey, Collect
<1>8. ASSUME NEW w \in BOOLEAN, NEW c \in BOOLEAN, NEW r \in BOOLEAN, InitReport(w, c, r) PROVE Frame
  BY <1>8 DEF InitReport
<1> QED BY <1>1, <1>2, <1>3, <1>4, <1>5, <1>6, <1>7, <1>8 DEF InitMain

-----------------------------------------------------------------------------
(* The slots of the HTTP boundary.                                          *)

HttpMove ==
  \/ UNCHANGED httpVars
  \/ ConnectionsClose
  \/ \E r \in Requests : Accept(r) \/ Handler(r) \/ Responded(r) \/ ClientLeaves(r)

\* The handlers only move as Http says.
LEMMA HttpMoves ==
  ASSUME [CliNext]_cliVars
  PROVE  HttpMove
<1>1. ASSUME AppStart PROVE HttpMove
  BY <1>1, StartFrame DEF HttpMove
<1>2. ASSUME AppStop PROVE HttpMove
  BY <1>2 DEF AppStop, Serving, Await, AwaitHttp, RetryGateway, Unwind, SupervisorsDown, AwaitServe,
              ShutdownGateway, LastJanitor, CloseRoot, ShutdownSupervisor, NoServer, Plain, HttpMove
<1>3. ASSUME Serve PROVE HttpMove
  BY <1>3 DEF Serve, ServeBegins, ServeReturns, HttpCloses, HttpReturns, BoundExpires, HttpMove
<1>4. ASSUME NEW r \in Requests, Request(r) PROVE HttpMove
  BY <1>4 DEF Request, Connect, Handles, Leaves, Refused, WorkStarts, WorkEnds, HttpMove
<1>5. ASSUME NEW o \in Requests \cup {"probe"}, Reaped(o) PROVE HttpMove
  BY <1>5 DEF Reaped, HttpMove
<1>6. ASSUME Signal \/ Edits \/ KeyAppears \/ UNCHANGED cliVars PROVE HttpMove
  BY <1>6 DEF Signal, Edits, KeyAppears, cliVars, appVars, HttpMove
<1>7. ASSUME InitMain PROVE HttpMove
  BY <1>7, InitFrame DEF HttpMove
<1> QED BY Movers, <1>1, <1>2, <1>3, <1>4, <1>5, <1>6, <1>7

\* The handlers inside the gate, and those that read a body.
Admitted == {r \in Requests : step[r] \in Inside}
Readers == {r \in Requests : step[r] = "body"}

\* A slot more or less for the handler that takes it or gives it back.
LEMMA Sizes ==
  /\ IsFiniteSet(Admitted) /\ IsFiniteSet(Readers)
  /\ Cardinality(Admitted) \in Nat /\ Cardinality(Readers) \in Nat
  /\ \A r \in Requests :
       /\ r \notin Admitted => Cardinality(Admitted \cup {r}) = Cardinality(Admitted) + 1
       /\ r \in Admitted => Cardinality(Admitted \ {r}) = Cardinality(Admitted) - 1
       /\ r \in Admitted => Cardinality(Admitted) > 0
       /\ r \notin Readers => Cardinality(Readers \cup {r}) = Cardinality(Readers) + 1
       /\ r \in Readers => Cardinality(Readers \ {r}) = Cardinality(Readers) - 1
       /\ r \in Readers => Cardinality(Readers) > 0
<1>1. IsFiniteSet(Admitted) /\ IsFiniteSet(Readers)
  BY HttpAssumption, FS_Subset, Admitted \subseteq Requests, Readers \subseteq Requests
     DEF Admitted, Readers
<1>2. Cardinality(Admitted) \in Nat /\ Cardinality(Readers) \in Nat
  BY <1>1, FS_CardinalityType
<1>3. ASSUME NEW r \in Requests
      PROVE  /\ r \notin Admitted => Cardinality(Admitted \cup {r}) = Cardinality(Admitted) + 1
             /\ r \notin Readers => Cardinality(Readers \cup {r}) = Cardinality(Readers) + 1
  BY <1>1, FS_AddElement
<1>4. ASSUME NEW r \in Requests
      PROVE  /\ r \in Admitted => Cardinality(Admitted \ {r}) = Cardinality(Admitted) - 1
             /\ r \in Readers => Cardinality(Readers \ {r}) = Cardinality(Readers) - 1
  BY <1>1, FS_RemoveElement
<1>5. ASSUME NEW r \in Requests
      PROVE  /\ r \in Admitted => Cardinality(Admitted) > 0
             /\ r \in Readers => Cardinality(Readers) > 0
  BY <1>1, <1>2, FS_EmptySet
<1> QED BY <1>1, <1>2, <1>3, <1>4, <1>5

\* A slot is counted up and down with the handler that takes and leaves it.
LEMMA SettledStep ==
  ASSUME Settled, HttpMove
  PROVE  Settled'
<1> USE DEF HttpTypeOK, gates
<1>0. /\ HttpTypeOK /\ handlers = Cardinality(Admitted) /\ readers = Cardinality(Readers)
      /\ \A r \in Requests : step[r] \in {"leaving", "gone"} /\ r \notin left => r \in answered
  BY DEF Settled, RequestsSettled, Admitted, Readers
<1>1. ASSUME HttpTypeOK', handlers' = Cardinality(Admitted'), readers' = Cardinality(Readers'),
             \A r \in Requests : step'[r] \in {"leaving", "gone"} /\ r \notin left' => r \in answered'
      PROVE  Settled'
  BY <1>1 DEF Settled, RequestsSettled, Admitted, Readers
<1>2. CASE UNCHANGED httpVars
  BY <1>2 DEF Settled, RequestsSettled, httpVars
<1>3. CASE ConnectionsClose
  BY <1>3 DEF Settled, RequestsSettled, ConnectionsClose, Active
<1>4. ASSUME NEW r \in Requests, Accept(r) \/ NoHandler(r) \/ AnswerUnread(r) \/ Respond(r) \/ Responded(r)
      PROVE  Settled'
  <2>1. HttpTypeOK' /\ Admitted' = Admitted /\ Readers' = Readers
    BY <1>0, <1>4 DEF Accept, NoHandler, AnswerUnread, Respond, Responded, Goes, Admitted, Readers, Inside
  <2>2. \A x \in Requests : step'[x] \in {"leaving", "gone"} /\ x \notin left' => x \in answered'
    BY <1>0, <1>4 DEF Accept, NoHandler, AnswerUnread, Respond, Responded, Goes
  <2> QED BY <1>0, <1>1, <1>4, <2>1, <2>2 DEF Accept, NoHandler, AnswerUnread, Respond, Responded
<1>5. ASSUME NEW r \in Requests, TakeHandler(r) PROVE Settled'
  <2>1. r \notin Admitted /\ Admitted' = Admitted \cup {r} /\ Readers' = Readers
    BY <1>0, <1>5 DEF TakeHandler, Goes, Admitted, Readers, Inside
  <2>2. handlers' = Cardinality(Admitted') /\ readers' = Cardinality(Readers')
    BY <1>0, <1>5, <2>1, Sizes DEF TakeHandler
  <2>3. HttpTypeOK'
    BY <1>0, <1>5, HttpAssumption DEF TakeHandler, Goes, Inside
  <2>4. \A x \in Requests : step'[x] \in {"leaving", "gone"} /\ x \notin left' => x \in answered'
    BY <1>0, <1>5 DEF TakeHandler, Goes
  <2> QED BY <1>1, <2>2, <2>3, <2>4
<1>6. ASSUME NEW r \in Requests, TakeReader(r) PROVE Settled'
  <2>1. r \notin Readers /\ Readers' = Readers \cup {r} /\ Admitted' = Admitted
    BY <1>0, <1>6 DEF TakeReader, Goes, Admitted, Readers, Inside
  <2>2. handlers' = Cardinality(Admitted') /\ readers' = Cardinality(Readers')
    BY <1>0, <1>6, <2>1, Sizes DEF TakeReader
  <2>3. HttpTypeOK'
    BY <1>0, <1>6, HttpAssumption DEF TakeReader, Goes, Inside
  <2>4. \A x \in Requests : step'[x] \in {"leaving", "gone"} /\ x \notin left' => x \in answered'
    BY <1>0, <1>6 DEF TakeReader, Goes
  <2> QED BY <1>1, <2>2, <2>3, <2>4
<1>7. ASSUME NEW r \in Requests, ReadBody(r) PROVE Settled'
  <2>0. PICK s \in {"decoded", "publish", "publishAlways", "leaving"} :
           Goes(r, s) /\ (s = "leaving" => r \in left)
    BY <1>7 DEF ReadBody, BodyEnds
  <2>1. r \in Readers /\ Readers' = Readers \ {r} /\ Admitted' = Admitted
    BY <1>0, <1>7, <2>0 DEF ReadBody, Goes, Admitted, Readers, Inside
  <2>2. handlers' = Cardinality(Admitted') /\ readers' = Cardinality(Readers') /\ readers > 0
    BY <1>0, <1>7, <2>1, Sizes DEF ReadBody
  <2>3. HttpTypeOK'
    BY <1>0, <1>7, <2>0, <2>2, HttpAssumption DEF ReadBody, Goes, Inside
  <2>4. \A x \in Requests : step'[x] \in {"leaving", "gone"} /\ x \notin left' => x \in answered'
    BY <1>0, <1>7, <2>0 DEF ReadBody, BodyEnds, Goes
  <2> QED BY <1>1, <2>2, <2>3, <2>4
<1>8. ASSUME NEW r \in Requests, Write(r) PROVE Settled'
  <2>1. Admitted' = Admitted /\ Readers' = Readers
    BY <1>0, <1>8 DEF Write, Goes, Admitted, Readers, Inside
  <2>2. HttpTypeOK'
    BY <1>0, <1>8 DEF Write, Goes, Inside
  <2>3. \A x \in Requests : step'[x] \in {"leaving", "gone"} /\ x \notin left' => x \in answered'
    BY <1>0, <1>8 DEF Write, Goes
  <2> QED BY <1>0, <1>1, <1>8, <2>1, <2>2, <2>3 DEF Write
<1>9. ASSUME NEW r \in Requests, Leave(r) PROVE Settled'
  <2>1. r \in Admitted /\ Admitted' = Admitted \ {r} /\ Readers' = Readers
    BY <1>0, <1>9 DEF Leave, Goes, Admitted, Readers, Inside
  <2>2. handlers' = Cardinality(Admitted') /\ readers' = Cardinality(Readers') /\ handlers > 0
    BY <1>0, <1>9, <2>1, Sizes DEF Leave
  <2>3. HttpTypeOK'
    BY <1>0, <1>9, <2>2, HttpAssumption DEF Leave, Goes, Inside
  <2>4. \A x \in Requests : step'[x] \in {"leaving", "gone"} /\ x \notin left' => x \in answered'
    BY <1>0, <1>9 DEF Leave, Goes
  <2> QED BY <1>1, <2>2, <2>3, <2>4
<1>10. ASSUME NEW r \in Requests, ClientLeaves(r) PROVE Settled'
  <2>1. Admitted' = Admitted /\ Readers' = Readers
    BY <1>10 DEF ClientLeaves, Admitted, Readers
  <2> QED BY <1>0, <1>1, <1>10, <2>1 DEF ClientLeaves
<1> QED BY <1>2, <1>3, <1>4, <1>5, <1>6, <1>7, <1>8, <1>9, <1>10 DEF HttpMove, Handler

-----------------------------------------------------------------------------
(* What main owns at each of its steps.                                     *)

\* The server follows main.
LEMMA ServicedStep ==
  ASSUME Serviced, [CliNext]_cliVars
  PROVE  Serviced'
<1> USE DEF To, Main, Quits, Plain, NoServer, Building, Diagnosing, Aside, OfHandler, workVars,
    netVars, Serviced, Afterwards, Loading
<1>1. ASSUME Load \/ LoadFails \/ StopsEarly \/ DependenciesFail \/ Diagnose PROVE Serviced'
  BY <1>1 DEF Load, LoadFails, StopsEarly, DependenciesFail, Diagnose
<1>2. ASSUME \/ RootRefused \/ OpenRoot \/ Probed \/ FinishDiagnosis \/ DoctorStops
             \/ \E bad \in SUBSET (1..3) : CheckEarly(bad)
      PROVE  Serviced'
  BY <1>2 DEF RootRefused, OpenRoot, Probed, FinishDiagnosis, DoctorStops, CheckEarly
<1>3. ASSUME Resolve PROVE Serviced'
  BY <1>3 DEF Resolve, Runs
<1>4. ASSUME NEW b \in BOOLEAN, NEW d \in BOOLEAN,
             Janitor(b) \/ NewController(b) \/ SelfTest(b, d) \/ ShutdownController(b)
      PROVE  Serviced'
  BY <1>4 DEF Janitor, NewController, SelfTest, Runs, ShutdownController
<1>5. ASSUME NEW b \in BOOLEAN, NEW d \in BOOLEAN,
             FinishRun(b) \/ CloseSource(b) \/ Report(b, d)
      PROVE  Serviced'
  BY <1>5 DEF FinishRun, CloseSource, Report
<1>6. ASSUME NotDiagnosed \/ NoneReady \/ Assemble \/ RowRefused \/ NewGateway \/ NewIDs \/ StartFails
      PROVE  Serviced'
  BY <1>6 DEF NotDiagnosed, NoneReady, Assemble, RowRefused, NewGateway, NewIDs, StartFails
<1>7. ASSUME NEW p \in Providers,
             BuildProvider(p) \/ BuildFails(p)
      PROVE  Serviced'
  BY <1>7 DEF BuildProvider, BuildFails
<1>8. ASSUME Recheck \/ RecheckFails \/ Listen PROVE Serviced'
  BY <1>8 DEF Recheck, RecheckFails, Listen
<1>9. ASSUME Serving \/ Await \/ AwaitHttp \/ RetryGateway \/ Unwind \/ SupervisorsDown \/ AwaitServe
      PROVE  Serviced'
  BY <1>9 DEF Serving, Await, CloseListener, AwaitHttp, RetryGateway, Unwind, SupervisorsDown,
     AwaitServe
<1>10. ASSUME NEW b \in BOOLEAN,
             \/ ShutdownGateway(b) \/ LastJanitor(b) \/ CloseRoot(b)
             \/ \E p \in Providers : ShutdownSupervisor(p, b)
      PROVE  Serviced'
  BY <1>10 DEF ShutdownGateway, LastJanitor, CloseRoot, ShutdownSupervisor
<1>11. ASSUME Serve PROVE Serviced'
  BY <1>11 DEF Serve, ServeBegins, ServeReturns, HttpCloses, HttpReturns, BoundExpires,
     CloseListener
<1>12. ASSUME NEW r \in Requests, Request(r) PROVE Serviced'
  BY <1>12 DEF Request, Connect, Handles, Leaves, Refused, WorkStarts, WorkEnds
<1>13. ASSUME NEW o \in Requests \cup {"probe"},
             Reaped(o)
      PROVE  Serviced'
  BY <1>13 DEF Reaped
<1>14. ASSUME Signal \/ Edits \/ KeyAppears \/ UNCHANGED cliVars PROVE Serviced'
  BY <1>14 DEF Signal, Edits, KeyAppears, cliVars, appVars
<1>15. ASSUME InitMain PROVE Serviced'
  BY <1>15, InitFrame DEF Planning, Prompts
<1> QED BY Movers, <1>1, <1>2, <1>3, <1>4, <1>5, <1>6, <1>7, <1>8, <1>9, <1>10, <1>11, <1>12,
    <1>13, <1>14, <1>15 DEF AppStart, AppStop

\* The Snapshot is closed on every way to the end.
LEMMA SourcedStep ==
  ASSUME Sourced, [CliNext]_cliVars
  PROVE  Sourced'
<1> USE DEF To, Main, Quits, Plain, NoServer, Building, Diagnosing, Aside, OfHandler, workVars,
    netVars, Sourced, fileGroup, NoFile, Planning, Prompts, Loading
<1>1. ASSUME Load \/ LoadFails \/ StopsEarly \/ DependenciesFail \/ Diagnose PROVE Sourced'
  BY <1>1 DEF Load, LoadFails, StopsEarly, DependenciesFail, Diagnose
<1>2. ASSUME \/ RootRefused \/ OpenRoot \/ Probed \/ FinishDiagnosis \/ DoctorStops
             \/ \E bad \in SUBSET (1..3) : CheckEarly(bad)
      PROVE  Sourced'
  BY <1>2 DEF RootRefused, OpenRoot, Probed, FinishDiagnosis, DoctorStops, CheckEarly
<1>3. ASSUME Resolve PROVE Sourced'
  BY <1>3 DEF Resolve, Runs
<1>4. ASSUME NEW b \in BOOLEAN, NEW d \in BOOLEAN,
             Janitor(b) \/ NewController(b) \/ SelfTest(b, d) \/ ShutdownController(b)
      PROVE  Sourced'
  BY <1>4 DEF Janitor, NewController, SelfTest, Runs, ShutdownController
<1>5. ASSUME NEW b \in BOOLEAN, NEW d \in BOOLEAN,
             FinishRun(b) \/ CloseSource(b) \/ Report(b, d)
      PROVE  Sourced'
  BY <1>5 DEF FinishRun, CloseSource, Report
<1>6. ASSUME NotDiagnosed \/ NoneReady \/ Assemble \/ RowRefused \/ NewGateway \/ NewIDs \/ StartFails
      PROVE  Sourced'
  BY <1>6 DEF NotDiagnosed, NoneReady, Assemble, RowRefused, NewGateway, NewIDs, StartFails
<1>7. ASSUME NEW p \in Providers,
             BuildProvider(p) \/ BuildFails(p)
      PROVE  Sourced'
  BY <1>7 DEF BuildProvider, BuildFails
<1>8. ASSUME Recheck \/ RecheckFails \/ Listen PROVE Sourced'
  BY <1>8 DEF Recheck, RecheckFails, Listen
<1>9. ASSUME Serving \/ Await \/ AwaitHttp \/ RetryGateway \/ Unwind \/ SupervisorsDown \/ AwaitServe
      PROVE  Sourced'
  BY <1>9 DEF Serving, Await, CloseListener, AwaitHttp, RetryGateway, Unwind, SupervisorsDown,
     AwaitServe
<1>10. ASSUME NEW b \in BOOLEAN,
             \/ ShutdownGateway(b) \/ LastJanitor(b) \/ CloseRoot(b)
             \/ \E p \in Providers : ShutdownSupervisor(p, b)
      PROVE  Sourced'
  BY <1>10 DEF ShutdownGateway, LastJanitor, CloseRoot, ShutdownSupervisor
<1>11. ASSUME Serve PROVE Sourced'
  BY <1>11 DEF Serve, ServeBegins, ServeReturns, HttpCloses, HttpReturns, BoundExpires,
     CloseListener
<1>12. ASSUME NEW r \in Requests, Request(r) PROVE Sourced'
  BY <1>12 DEF Request, Connect, Handles, Leaves, Refused, WorkStarts, WorkEnds
<1>13. ASSUME NEW o \in Requests \cup {"probe"}, Reaped(o) PROVE Sourced'
  BY <1>13 DEF Reaped
<1>14. ASSUME Signal \/ Edits \/ KeyAppears \/ UNCHANGED cliVars PROVE Sourced'
  BY <1>14 DEF Signal, Edits, KeyAppears, cliVars, appVars
<1>15. ASSUME InitMain PROVE Sourced'
  BY <1>15, InitFrame
<1> QED BY Movers, <1>1, <1>2, <1>3, <1>4, <1>5, <1>6, <1>7, <1>8, <1>9, <1>10, <1>11, <1>12,
    <1>13, <1>14, <1>15 DEF AppStart, AppStop

\* What is built is handed over and shut down in the order it is used.
LEMMA OwningStep ==
  ASSUME Owning, Serviced, [CliNext]_cliVars
  PROVE  Owning'
<1> USE DEF To, Main, Quits, Plain, NoServer, Building, Diagnosing, Aside, OfHandler, workVars,
    netVars, Owning, Owns, Afterwards, ownVars, diagVars, NoDiag, NoRows, DropRows, Loading
<1>1. ASSUME Load \/ LoadFails \/ StopsEarly \/ DependenciesFail \/ Diagnose PROVE Owning'
  BY <1>1 DEF Load, LoadFails, StopsEarly, DependenciesFail, Diagnose
<1>2. ASSUME \/ RootRefused \/ OpenRoot \/ Probed \/ FinishDiagnosis \/ DoctorStops
             \/ \E bad \in SUBSET (1..3) : CheckEarly(bad)
      PROVE  Owning'
  BY <1>2 DEF RootRefused, OpenRoot, Probed, FinishDiagnosis, DoctorStops, CheckEarly
<1>3. ASSUME Resolve PROVE Owning'
  BY <1>3 DEF Resolve, Runs
<1>4. ASSUME NEW b \in BOOLEAN, NEW d \in BOOLEAN,
             Janitor(b) \/ NewController(b) \/ SelfTest(b, d) \/ ShutdownController(b)
      PROVE  Owning'
  BY <1>4 DEF Janitor, NewController, SelfTest, Runs, ShutdownController
<1>5. ASSUME NEW b \in BOOLEAN, NEW d \in BOOLEAN,
             FinishRun(b) \/ CloseSource(b) \/ Report(b, d)
      PROVE  Owning'
  BY <1>5 DEF FinishRun, CloseSource, Report
<1>6. ASSUME NotDiagnosed \/ NoneReady \/ Assemble \/ RowRefused \/ NewGateway \/ NewIDs \/ StartFails
      PROVE  Owning'
  <2>1. CASE NewGateway
    BY <2>1 DEF NewGateway
  <2>2. CASE NotDiagnosed \/ NoneReady \/ Assemble \/ RowRefused
    BY <2>2 DEF NotDiagnosed, NoneReady, Assemble, RowRefused
  <2>3. CASE NewIDs \/ StartFails
    BY <2>3 DEF NewIDs, StartFails
  <2> QED BY <1>6, <2>1, <2>2, <2>3
<1>7. ASSUME NEW p \in Providers,
             BuildProvider(p) \/ BuildFails(p)
      PROVE  Owning'
  <2>1. gw = "none" /\ gw' = "none" /\ pc' \in {"assemble", "unwind"}
    BY <1>7 DEF BuildProvider, BuildFails
  <2> QED BY <2>1
<1>8. ASSUME Recheck \/ RecheckFails \/ Listen PROVE Owning'
  BY <1>8 DEF Recheck, RecheckFails, Listen
<1>9. ASSUME Serving \/ Await \/ AwaitHttp \/ RetryGateway \/ Unwind \/ SupervisorsDown \/ AwaitServe
      PROVE  Owning'
  BY <1>9 DEF Serving, Await, CloseListener, AwaitHttp, RetryGateway, Unwind, SupervisorsDown,
     AwaitServe
<1>10. ASSUME NEW b \in BOOLEAN,
             \/ ShutdownGateway(b) \/ LastJanitor(b) \/ CloseRoot(b)
             \/ \E p \in Providers : ShutdownSupervisor(p, b)
      PROVE  Owning'
  BY <1>10 DEF ShutdownGateway, LastJanitor, CloseRoot, ShutdownSupervisor
<1>11. ASSUME Serve PROVE Owning'
  BY <1>11 DEF Serve, ServeBegins, ServeReturns, HttpCloses, HttpReturns, BoundExpires,
     CloseListener
<1>12. ASSUME NEW r \in Requests, Request(r) PROVE Owning'
  BY <1>12 DEF Request, Connect, Handles, Leaves, Refused, WorkStarts, WorkEnds
<1>13. ASSUME NEW o \in Requests \cup {"probe"}, Reaped(o) PROVE Owning'
  BY <1>13 DEF Reaped
<1>14. ASSUME Signal \/ Edits \/ KeyAppears \/ UNCHANGED cliVars PROVE Owning'
  BY <1>14 DEF Signal, Edits, KeyAppears, cliVars, appVars
<1>15. ASSUME InitMain PROVE Owning'
  BY <1>15, InitFrame DEF Planning, Prompts
<1> QED BY Movers, <1>1, <1>2, <1>3, <1>4, <1>5, <1>6, <1>7, <1>8, <1>9, <1>10, <1>11, <1>12,
    <1>13, <1>14, <1>15 DEF AppStart, AppStop

\* Nobody is at work and no process is waited for where no supervisor is left for it.
LEMMA EmployedStep ==
  ASSUME HttpTypeOK, Serviced, Owning, Employed, [CliNext]_cliVars
  PROVE  Employed'
<1> USE DEF To, Main, Quits, Plain, NoServer, Building, Diagnosing, Aside, OfHandler, workVars,
    netVars, httpVars, ownVars, diagVars, NoDiag, NoRows, DropRows, Loading, HttpTypeOK, Serviced,
    Owning, Employed, Owns, Afterwards
<1>1. ASSUME Load \/ LoadFails \/ StopsEarly \/ DependenciesFail \/ Diagnose PROVE Employed'
  BY <1>1 DEF Load, LoadFails, StopsEarly, DependenciesFail, Diagnose
<1>2. ASSUME \/ RootRefused \/ OpenRoot \/ Probed \/ FinishDiagnosis \/ DoctorStops
             \/ \E bad \in SUBSET (1..3) : CheckEarly(bad)
      PROVE  Employed'
  BY <1>2 DEF RootRefused, OpenRoot, Probed, FinishDiagnosis, DoctorStops, CheckEarly
<1>3. ASSUME Resolve PROVE Employed'
  BY <1>3 DEF Resolve, Runs
<1>4. ASSUME NEW b \in BOOLEAN, NEW d \in BOOLEAN,
             Janitor(b) \/ NewController(b) \/ SelfTest(b, d) \/ ShutdownController(b)
      PROVE  Employed'
  BY <1>4 DEF Janitor, NewController, SelfTest, Runs, ShutdownController
<1>5. ASSUME NEW b \in BOOLEAN, NEW d \in BOOLEAN,
             FinishRun(b) \/ CloseSource(b) \/ Report(b, d)
      PROVE  Employed'
  BY <1>5 DEF FinishRun, CloseSource, Report
<1>6. ASSUME NotDiagnosed \/ NoneReady \/ Assemble \/ RowRefused \/ NewGateway \/ NewIDs \/ StartFails
      PROVE  Employed'
  BY <1>6 DEF NotDiagnosed, NoneReady, Assemble, RowRefused, NewGateway, NewIDs, StartFails
<1>7. ASSUME NEW p \in Providers,
             BuildProvider(p) \/ BuildFails(p)
      PROVE  Employed'
  BY <1>7 DEF BuildProvider, BuildFails
<1>8. ASSUME Recheck \/ RecheckFails \/ Listen PROVE Employed'
  BY <1>8 DEF Recheck, RecheckFails, Listen
<1>9. ASSUME Serving \/ Await \/ AwaitHttp \/ RetryGateway \/ Unwind \/ SupervisorsDown \/ AwaitServe
      PROVE  Employed'
  <2>1. CASE Serving \/ Await \/ AwaitServe
    BY <2>1 DEF Serving, Await, AwaitServe
  <2>2. CASE AwaitHttp
    BY <2>2 DEF AwaitHttp, ConnectionsClose
  <2>3. CASE RetryGateway
    BY <2>3 DEF RetryGateway
  <2>4. CASE Unwind
    <3>1. working = {}
      BY <2>4 DEF Unwind
    <3> QED BY <2>4, <3>1 DEF Unwind
  <2>5. CASE SupervisorsDown
    BY <2>5 DEF SupervisorsDown
  <2> QED BY <1>9, <2>1, <2>2, <2>3, <2>4, <2>5
<1>10. ASSUME NEW b \in BOOLEAN,
             \/ ShutdownGateway(b) \/ LastJanitor(b) \/ CloseRoot(b)
             \/ \E p \in Providers : ShutdownSupervisor(p, b)
      PROVE  Employed'
  <2>1. CASE ShutdownGateway(b)
    BY <2>1 DEF ShutdownGateway
  <2>2. CASE LastJanitor(b) \/ CloseRoot(b)
    BY <2>2 DEF LastJanitor, CloseRoot
  <2>3. ASSUME NEW p \in Providers, ShutdownSupervisor(p, b) PROVE Employed'
    <3>1. working = {} /\ UNCHANGED <<working, wait, step, srv, gw, pc>>
      BY <2>3 DEF ShutdownSupervisor
    <3>2. \A r \in wait : r \in Requests /\ Serves[r] \in sups \ {p}
      BY <2>3 DEF ShutdownSupervisor, Waits
    <3> QED BY <2>3, <3>1, <3>2 DEF ShutdownSupervisor
  <2> QED BY <1>10, <2>1, <2>2, <2>3
<1>11. ASSUME Serve PROVE Employed'
  BY <1>11 DEF Serve, ServeBegins, ServeReturns, HttpCloses, HttpReturns, BoundExpires,
     CloseListener
<1>12. ASSUME NEW r \in Requests, Request(r) PROVE Employed'
  <2>1. CASE Connect(r)
    BY <1>12, <2>1 DEF Connect, Accept, Goes
  <2>2. CASE Handles(r) \/ Leaves(r)
    <3>1. \A x \in Requests : step[x] \in {"away", "responding"} => step'[x] = step[x]
      BY <2>2 DEF Handles, Leaves, Handler, TakeHandler, NoHandler, AnswerUnread, TakeReader, ReadBody,
         Respond, Write, Leave, ClientLeaves, Goes
    <3>2. UNCHANGED <<pc, gw, sups, srv, working, wait>>
      BY <2>2 DEF Handles, Leaves
    <3> QED BY <3>1, <3>2
  <2>3. CASE Refused(r)
    BY <1>12, <2>3 DEF Refused, Responded, Goes
  <2>4. CASE WorkStarts(r)
    BY <1>12, <2>4 DEF WorkStarts
  <2>5. CASE WorkEnds(r)
    BY <1>12, <2>5 DEF WorkEnds, Responded, Goes
  <2> QED BY <1>12, <2>1, <2>2, <2>3, <2>4, <2>5 DEF Request
<1>13. ASSUME NEW o \in Requests \cup {"probe"},
             Reaped(o)
      PROVE  Employed'
  BY <1>13 DEF Reaped
<1>14. ASSUME Signal \/ Edits \/ KeyAppears \/ UNCHANGED cliVars PROVE Employed'
  BY <1>14 DEF Signal, Edits, KeyAppears, cliVars, appVars
<1>15. ASSUME InitMain PROVE Employed'
  BY <1>15, InitFrame DEF Planning, Prompts
<1> QED BY Movers, <1>1, <1>2, <1>3, <1>4, <1>5, <1>6, <1>7, <1>8, <1>9, <1>10, <1>11, <1>12,
    <1>13, <1>14, <1>15 DEF AppStart, AppStop

\* Of a diagnosis: the verdicts and the flags that decide about the root.
Judged ==
  /\ checks \in [1..7 -> {"pass", "fail", "skipped"}]
  /\ cleanupFailed \in BOOLEAN /\ runErr \in BOOLEAN /\ ctxDone \in BOOLEAN /\ failed \in BOOLEAN
  /\ probed \in 0..Len(Sorted)

\* Every row is of a provider that an adapter exists for.
LEMMA SortedFacts == Len(Sorted) \in Nat /\ \A i \in 1..Len(Sorted) : Sorted[i] \in Known
BY SortedAssumption

\* A probe either left a process behind or did not.
LEMMA Dirtiness == \A p \in Known : \A o \in Outcomes[p] : o.dirty \in BOOLEAN
<1> SUFFICES ASSUME NEW p \in Known, NEW o \in OutcomesOf(p) PROVE o.dirty \in BOOLEAN
  BY DEF Outcomes
<1>1. CASE o \in {[row |-> row, dirty |-> FALSE] : row \in Unprobed(p)}
  <2>1. PICK row \in Unprobed(p) : o = [row |-> row, dirty |-> FALSE]
    BY <1>1
  <2>2. o.dirty = FALSE
    BY <2>1
  <2> QED BY <2>2
<1>2. CASE \E a \in Answers(p), c \in Credentials(p) :
             o = [row |-> Canonical(p, Health(p, a, c)), dirty |-> \E i \in DOMAIN a : a[i] = "dirty"]
  <2>1. PICK a \in Answers(p), c \in Credentials(p) :
               o = [row |-> Canonical(p, Health(p, a, c)), dirty |-> \E i \in DOMAIN a : a[i] = "dirty"]
    BY <1>2
  <2> QED BY <2>1
<1> QED BY <1>1, <1>2 DEF OutcomesOf

\* The diagnosis keeps its types.
LEMMA JudgedStep ==
  ASSUME Judged, [CliNext]_cliVars
  PROVE  Judged'
<1> USE DEF To, Main, Quits, Plain, NoServer, Building, Diagnosing, Aside, OfHandler, diagVars,
    reportVars, NoDiag, NoRows, DropRows, outVars, Judged
<1>1. ASSUME Load \/ LoadFails \/ StopsEarly \/ DependenciesFail \/ Diagnose PROVE Judged'
  BY <1>1 DEF Load, LoadFails, StopsEarly, DependenciesFail, Diagnose
<1>2. ASSUME \/ RootRefused \/ OpenRoot \/ Probed \/ FinishDiagnosis \/ DoctorStops
             \/ \E bad \in SUBSET (1..3) : CheckEarly(bad)
      PROVE  Judged'
  <2>1. CASE RootRefused \/ OpenRoot
    BY <2>1 DEF RootRefused, OpenRoot, Check
  <2>2. CASE Probed \/ FinishDiagnosis \/ DoctorStops
    BY <2>2, SortedFacts DEF Probed, FinishDiagnosis, DoctorStops
  <2>3. ASSUME NEW bad \in SUBSET (1..3), CheckEarly(bad) PROVE Judged'
    BY <2>3 DEF CheckEarly
  <2> QED BY <1>2, <2>1, <2>2, <2>3
<1>3. ASSUME Resolve PROVE Judged'
  BY <1>3, SortedFacts, Dirtiness DEF Resolve, Runs
<1>4. ASSUME NEW b \in BOOLEAN, NEW d \in BOOLEAN,
             Janitor(b) \/ NewController(b) \/ SelfTest(b, d) \/ ShutdownController(b)
      PROVE  Judged'
  <2>1. CASE Janitor(b)
    BY <2>1 DEF Janitor, Check
  <2>2. CASE NewController(b)
    <3>1. checks' = checks \/ Check(6, FALSE)
      BY <2>2 DEF NewController
    <3>2. checks' \in [1..7 -> {"pass", "fail", "skipped"}]
      BY <3>1 DEF Check
    <3> QED BY <2>2, <3>2 DEF NewController
  <2>3. CASE SelfTest(b, d)
    BY <2>3 DEF SelfTest, Runs, Check
  <2>4. CASE ShutdownController(b)
    BY <2>4 DEF ShutdownController
  <2> QED BY <1>4, <2>1, <2>2, <2>3, <2>4
<1>5. ASSUME NEW b \in BOOLEAN, NEW d \in BOOLEAN,
             FinishRun(b) \/ CloseSource(b) \/ Report(b, d)
      PROVE  Judged'
  <2>1. CASE FinishRun(b)
    <3>1. checks' = checks \/ \E v \in BOOLEAN : Check(7, v)
      BY <2>1 DEF FinishRun
    <3>2. checks' \in [1..7 -> {"pass", "fail", "skipped"}]
      BY <3>1 DEF Check
    <3> QED BY <2>1, <3>2 DEF FinishRun
  <2>2. CASE CloseSource(b)
    BY <2>2 DEF CloseSource
  <2>3. CASE Report(b, d)
    BY <2>3 DEF Report
  <2> QED BY <1>5, <2>1, <2>2, <2>3
<1>6. ASSUME NotDiagnosed \/ NoneReady \/ Assemble \/ RowRefused \/ NewGateway \/ NewIDs \/ StartFails
      PROVE  Judged'
  BY <1>6 DEF NotDiagnosed, NoneReady, Assemble, RowRefused, NewGateway, NewIDs, StartFails
<1>7. ASSUME NEW p \in Providers,
             BuildProvider(p) \/ BuildFails(p)
      PROVE  Judged'
  BY <1>7 DEF BuildProvider, BuildFails
<1>8. ASSUME Recheck \/ RecheckFails \/ Listen PROVE Judged'
  BY <1>8 DEF Recheck, RecheckFails, Listen
<1>9. ASSUME Serving \/ Await \/ AwaitHttp \/ RetryGateway \/ Unwind \/ SupervisorsDown \/ AwaitServe
      PROVE  Judged'
  BY <1>9 DEF Serving, Await, CloseListener, AwaitHttp, RetryGateway, Unwind, SupervisorsDown,
     AwaitServe
<1>10. ASSUME NEW b \in BOOLEAN,
             \/ ShutdownGateway(b) \/ LastJanitor(b) \/ CloseRoot(b)
             \/ \E p \in Providers : ShutdownSupervisor(p, b)
      PROVE  Judged'
  BY <1>10 DEF ShutdownGateway, LastJanitor, CloseRoot, ShutdownSupervisor
<1>11. ASSUME Serve PROVE Judged'
  BY <1>11 DEF Serve, ServeBegins, ServeReturns, HttpCloses, HttpReturns, BoundExpires,
     CloseListener
<1>12. ASSUME NEW r \in Requests, Request(r) PROVE Judged'
  BY <1>12 DEF Request, Connect, Handles, Leaves, Refused, WorkStarts, WorkEnds
<1>13. ASSUME NEW o \in Requests \cup {"probe"}, Reaped(o) PROVE Judged'
  BY <1>13 DEF Reaped
<1>14. ASSUME Signal \/ Edits \/ KeyAppears \/ UNCHANGED cliVars PROVE Judged'
  BY <1>14 DEF Signal, Edits, KeyAppears, cliVars, appVars
<1>15. ASSUME InitMain PROVE Judged'
  BY <1>15, InitFrame
<1> QED BY Movers, <1>1, <1>2, <1>3, <1>4, <1>5, <1>6, <1>7, <1>8, <1>9, <1>10, <1>11, <1>12,
    <1>13, <1>14, <1>15 DEF AppStart, AppStop

\* A diagnosis leaves the root open exactly when it passed and nobody asked to stop.
LEMMA RootedStep ==
  ASSUME Judged, Rooted, [CliNext]_cliVars
  PROVE  Rooted'
<1> USE DEF To, Main, Quits, Plain, NoServer, Building, Diagnosing, Aside, OfHandler, diagVars,
    reportVars, NoDiag, NoRows, DropRows, outVars, Judged, Rooted, Early, Probing, Owns, Planning,
    Prompts, Loading
<1>0. checks' = checks => (CoreReady' <=> CoreReady) /\ (All(1, 3, "pass")' <=> All(1, 3, "pass"))
  BY DEF CoreReady, All
<1>1. ASSUME Load \/ LoadFails \/ StopsEarly \/ DependenciesFail \/ Diagnose PROVE Rooted'
  BY <1>0, <1>1 DEF Load, LoadFails, StopsEarly, DependenciesFail, Diagnose
<1>2. ASSUME \/ RootRefused \/ OpenRoot \/ Probed \/ FinishDiagnosis \/ DoctorStops
             \/ \E bad \in SUBSET (1..3) : CheckEarly(bad)
      PROVE  Rooted'
  <2>1. CASE RootRefused \/ OpenRoot
    <3>1. checks'[4] = (IF OpenRoot THEN "pass" ELSE "fail") /\ All(1, 3, "pass")'
      BY <2>1 DEF RootRefused, OpenRoot, Check, All
    <3> QED BY <2>1, <3>1 DEF RootRefused, OpenRoot
  <2>2. CASE Probed \/ FinishDiagnosis \/ DoctorStops
    BY <1>0, <2>2 DEF Probed, FinishDiagnosis, DoctorStops
  <2>3. ASSUME NEW bad \in SUBSET (1..3), CheckEarly(bad) PROVE Rooted'
    <3>1. CASE bad = {}
      <4>1. checks' = checks /\ pc' = "openRoot" /\ UNCHANGED root
        BY <2>3, <3>1 DEF CheckEarly
      <4> QED BY <2>3, <4>1 DEF CheckEarly, InitialChecks, All
    <3>2. ASSUME NEW i \in bad PROVE Rooted'
      <4>1. checks'[i] = "fail" /\ pc' = "complete" /\ UNCHANGED root
        BY <2>3, <3>2 DEF CheckEarly
      <4>2. ~CoreReady'
        BY <4>1 DEF CoreReady, All
      <4> QED BY <2>3, <4>1, <4>2 DEF CheckEarly
    <3> QED BY <3>1, <3>2
  <2> QED BY <1>2, <2>1, <2>2, <2>3
<1>3. ASSUME Resolve PROVE Rooted'
  BY <1>0, <1>3 DEF Resolve, Runs
<1>4. ASSUME NEW b \in BOOLEAN, NEW d \in BOOLEAN,
             Janitor(b) \/ NewController(b) \/ SelfTest(b, d) \/ ShutdownController(b)
      PROVE  Rooted'
  <2>1. UNCHANGED root /\ pc' \in Probing \cup {"finishRoot"} /\ pc \in Probing
    BY <1>4 DEF Janitor, NewController, SelfTest, Runs, ShutdownController
  <2>2. All(1, 3, "pass")'
    <3>1. checks' = checks \/ \E i \in {5, 6}, v \in BOOLEAN : Check(i, v)
      BY <1>4 DEF Janitor, NewController, SelfTest, ShutdownController
    <3> QED BY <2>1, <3>1 DEF Check, All
  <2> QED BY <2>1, <2>2
<1>5. ASSUME NEW b \in BOOLEAN, NEW d \in BOOLEAN,
             FinishRun(b) \/ CloseSource(b) \/ Report(b, d)
      PROVE  Rooted'
  <2>1. CASE FinishRun(b)
    <3>1. pc = "finishRoot" /\ pc' = "complete" /\ runErr' = ctxDone /\ All(1, 3, "pass")
      BY <2>1 DEF FinishRun
    <3>2. CASE root = "none"
      <4>1. root' = "none" /\ checks'[4] = "fail"
        BY <2>1, <3>1, <3>2 DEF FinishRun
      <4> QED BY <3>1, <4>1 DEF CoreReady, All
    <3>3. CASE root = "open" /\ All(4, 6, "pass") /\ ~cleanupFailed /\ ~ctxDone
      <4>1. root' = "open" /\ ~cleanupFailed' /\ checks' = [checks EXCEPT ![7] = "pass"]
        BY <2>1, <3>3 DEF FinishRun, Check
      <4>2. \A i \in 1..7 : checks'[i] = "pass"
        BY <3>1, <3>3, <4>1 DEF All
      <4> QED BY <3>1, <3>3, <4>1, <4>2 DEF CoreReady, All
    <3>4. CASE root = "open" /\ ~(All(4, 6, "pass") /\ ~cleanupFailed /\ ~ctxDone)
      <4>1. root' = "closed" /\ (cleanupFailed => cleanupFailed')
            /\ checks' = [checks EXCEPT ![7] = IF cleanupFailed' THEN "fail" ELSE "pass"]
        BY <2>1, <3>4 DEF FinishRun, Check
      <4>2. runErr' \/ \E i \in 4..7 : checks'[i] # "pass"
        BY <3>1, <3>4, <4>1 DEF All
      <4>3. ~(CoreReady' /\ ~runErr')
        BY <4>2 DEF CoreReady, All
      <4> QED BY <3>1, <4>1, <4>3
    <3> QED BY <3>1, <3>2, <3>3, <3>4
  <2>2. CASE CloseSource(b)
    BY <2>2 DEF CloseSource, CoreReady, All
  <2>3. CASE Report(b, d)
    BY <2>3 DEF Report
  <2> QED BY <1>5, <2>1, <2>2, <2>3
<1>6. ASSUME NotDiagnosed \/ NoneReady \/ Assemble \/ RowRefused \/ NewGateway \/ NewIDs \/ StartFails
      PROVE  Rooted'
  BY <1>0, <1>6 DEF NotDiagnosed, NoneReady, Assemble, RowRefused, NewGateway, NewIDs, StartFails
<1>7. ASSUME NEW p \in Providers,
             BuildProvider(p) \/ BuildFails(p)
      PROVE  Rooted'
  BY <1>0, <1>7 DEF BuildProvider, BuildFails
<1>8. ASSUME Recheck \/ RecheckFails \/ Listen PROVE Rooted'
  BY <1>0, <1>8 DEF Recheck, RecheckFails, Listen
<1>9. ASSUME Serving \/ Await \/ AwaitHttp \/ RetryGateway \/ Unwind \/ SupervisorsDown \/ AwaitServe
      PROVE  Rooted'
  BY <1>0, <1>9 DEF Serving, Await, CloseListener, AwaitHttp, RetryGateway, Unwind, SupervisorsDown,
     AwaitServe
<1>10. ASSUME NEW b \in BOOLEAN,
             \/ ShutdownGateway(b) \/ LastJanitor(b) \/ CloseRoot(b)
             \/ \E p \in Providers : ShutdownSupervisor(p, b)
      PROVE  Rooted'
  BY <1>0, <1>10 DEF ShutdownGateway, LastJanitor, CloseRoot, ShutdownSupervisor
<1>11. ASSUME Serve PROVE Rooted'
  BY <1>0, <1>11 DEF Serve, ServeBegins, ServeReturns, HttpCloses, HttpReturns, BoundExpires,
     CloseListener
<1>12. ASSUME NEW r \in Requests, Request(r) PROVE Rooted'
  BY <1>0, <1>12 DEF Request, Connect, Handles, Leaves, Refused, WorkStarts, WorkEnds
<1>13. ASSUME NEW o \in Requests \cup {"probe"}, Reaped(o) PROVE Rooted'
  BY <1>0, <1>13 DEF Reaped
<1>14. ASSUME Signal \/ Edits \/ KeyAppears \/ UNCHANGED cliVars PROVE Rooted'
  BY <1>0, <1>14 DEF Signal, Edits, KeyAppears, cliVars, appVars
<1>15. ASSUME InitMain PROVE Rooted'
  BY <1>0, <1>15, InitFrame
<1> QED BY Movers, <1>1, <1>2, <1>3, <1>4, <1>5, <1>6, <1>7, <1>8, <1>9, <1>10, <1>11, <1>12,
    <1>13, <1>14, <1>15 DEF AppStart, AppStop

-----------------------------------------------------------------------------
(* What init changes, and what it says of it.                               *)

\* Every way out of init says of the files what happened to them.
LEMMA ToldByInit ==
  ASSUME Judged, Rooted, Told, InitMain
  PROVE  Told'
<1> USE DEF Turns, Stops, Ends, Still, To, Told, Planning, Prompts, Selection, diagVars,
    reportVars, outVars
<1>1. ASSUME CancelInit \/ FailInit \/ RefuseInit \/ BeginInit \/ SelectBack \/ CollectBack
      PROVE  Told'
  BY <1>1 DEF CancelInit, FailInit, RefuseInit, BeginInit, SelectBack, CollectBack
<1>2. ASSUME CollectKeyBack \/ Plan \/ PlanRefused \/ PlanCollides \/ ReviewBack \/ Decline
      PROVE  Told'
  BY <1>2 DEF CollectKeyBack, Plan, PlanRefused, PlanCollides, ReviewBack, Decline
<1>3. ASSUME Preflight \/ ConfirmKey \/ PlanAgain \/ Confirm \/ DryRun \/ KeyUnconfirmed
      PROVE  Told'
  BY <1>3 DEF Preflight, ConfirmKey, PlanAgain, Confirm, DryRun, KeyUnconfirmed
<1>4. ASSUME BeginCommit \/ NothingToDo PROVE Told'
  BY <1>4 DEF BeginCommit, GoesOn, NothingToDo
<1>5. ASSUME Committed \/ NotCommitted \/ Undiagnosed PROVE Told'
  BY <1>5 DEF Committed, NotCommitted, Undiagnosed
<1>6. ASSUME NEW names \in SUBSET Names, Select(names) PROVE Told'
  BY <1>6 DEF Select
<1>7. ASSUME NEW granted \in SUBSET Entries, Review(granted) PROVE Told'
  BY <1>7 DEF Review
<1>8. ASSUME NEW a \in {"none", "file", "explicit"}, CollectKey(a) PROVE Told'
  BY <1>8 DEF CollectKey
<1>9. ASSUME NEW a \in {"none", "file", "explicit"}, NEW new \in SUBSET Entries, Collect(new, a)
      PROVE  Told'
  BY <1>9 DEF Collect
<1>10. ASSUME NEW w \in BOOLEAN, NEW c \in BOOLEAN, NEW r \in BOOLEAN, InitReport(w, c, r)
      PROVE  Told'
  <2>1. UNCHANGED <<checks, failed, saved, disk>> /\ pc = "report" /\ pc' = "ended"
    BY <1>10 DEF InitReport, NoDiag
  <2>2. ASSUME outcome' = "ready" PROVE CoreReady' /\ root' = "closed" /\ ~failed'
    <3>1. CoreReady /\ ~failed
      BY <1>10, <2>2 DEF InitReport, Judged
    <3>2. root = "open" /\ root' = "closed"
      BY <1>10, <2>1, <3>1 DEF InitReport, Rooted
    <3> QED BY <2>1, <3>1, <3>2 DEF CoreReady, All
  <2>3. outcome' \in {"ready", "notReady", "failed", "canceled"} /\ outcome = "none"
    BY <1>10, <2>1 DEF InitReport
  <2> QED BY <2>1, <2>2, <2>3
<1> QED BY <1>1, <1>2, <1>3, <1>4, <1>5, <1>6, <1>7, <1>8, <1>9, <1>10 DEF InitMain

\* Outside of init's own steps its phases are not entered or left, and nothing happens
\* once the process has ended.
Apart ==
  /\ pc \in Planning \/ pc' \in Planning => pc' = pc
  /\ pc = "ended" => UNCHANGED <<pc, checks, root, failed>>

\* Serve and doctor keep apart from init.
LEMMA ApartStep ==
  ASSUME [CliNext]_cliVars
  PROVE  Apart \/ InitMain
<1> USE DEF To, Main, Quits, Plain, NoServer, Building, Diagnosing, Aside, OfHandler, initVars,
    Planning, Prompts, Loading, Apart, reportVars, diagVars, outVars, NoDiag
<1>1. ASSUME Load \/ LoadFails \/ StopsEarly \/ DependenciesFail \/ Diagnose
      PROVE  Apart \/ InitMain
  BY <1>1 DEF Load, LoadFails, StopsEarly, DependenciesFail, Diagnose
<1>2. ASSUME \/ RootRefused \/ OpenRoot \/ Probed \/ FinishDiagnosis \/ DoctorStops
             \/ \E bad \in SUBSET (1..3) : CheckEarly(bad)
      PROVE  Apart \/ InitMain
  BY <1>2 DEF RootRefused, OpenRoot, Probed, FinishDiagnosis, DoctorStops, CheckEarly
<1>3. ASSUME Resolve PROVE Apart \/ InitMain
  BY <1>3 DEF Resolve, Runs
<1>4. ASSUME NEW b \in BOOLEAN, NEW d \in BOOLEAN,
             Janitor(b) \/ NewController(b) \/ SelfTest(b, d) \/ ShutdownController(b)
      PROVE  Apart \/ InitMain
  BY <1>4 DEF Janitor, NewController, SelfTest, Runs, ShutdownController
<1>5. ASSUME NEW b \in BOOLEAN, NEW d \in BOOLEAN,
             FinishRun(b) \/ CloseSource(b) \/ Report(b, d)
      PROVE  Apart \/ InitMain
  BY <1>5 DEF FinishRun, CloseSource, Report
<1>6. ASSUME NotDiagnosed \/ NoneReady \/ Assemble \/ RowRefused \/ NewGateway \/ NewIDs \/ StartFails
      PROVE  Apart \/ InitMain
  BY <1>6 DEF NotDiagnosed, NoneReady, Assemble, RowRefused, NewGateway, NewIDs, StartFails
<1>7. ASSUME NEW p \in Providers,
             BuildProvider(p) \/ BuildFails(p)
      PROVE  Apart \/ InitMain
  BY <1>7 DEF BuildProvider, BuildFails
<1>8. ASSUME Recheck \/ RecheckFails \/ Listen PROVE Apart \/ InitMain
  BY <1>8 DEF Recheck, RecheckFails, Listen
<1>9. ASSUME Serving \/ Await \/ AwaitHttp \/ RetryGateway \/ Unwind \/ SupervisorsDown \/ AwaitServe
      PROVE  Apart \/ InitMain
  BY <1>9 DEF Serving, Await, CloseListener, AwaitHttp, RetryGateway, Unwind, SupervisorsDown,
     AwaitServe
<1>10. ASSUME NEW b \in BOOLEAN,
             \/ ShutdownGateway(b) \/ LastJanitor(b) \/ CloseRoot(b)
             \/ \E p \in Providers : ShutdownSupervisor(p, b)
      PROVE  Apart \/ InitMain
  BY <1>10 DEF ShutdownGateway, LastJanitor, CloseRoot, ShutdownSupervisor
<1>11. ASSUME Serve PROVE Apart \/ InitMain
  BY <1>11 DEF Serve, ServeBegins, ServeReturns, HttpCloses, HttpReturns, BoundExpires,
     CloseListener
<1>12. ASSUME NEW r \in Requests, Request(r) PROVE Apart \/ InitMain
  BY <1>12 DEF Request, Connect, Handles, Leaves, Refused, WorkStarts, WorkEnds
<1>13. ASSUME NEW o \in Requests \cup {"probe"},
             Reaped(o)
      PROVE  Apart \/ InitMain
  BY <1>13 DEF Reaped
<1>14. ASSUME Signal \/ Edits \/ KeyAppears \/ UNCHANGED cliVars PROVE Apart \/ InitMain
  BY <1>14 DEF Signal, Edits, KeyAppears, cliVars, appVars
<1>15. ASSUME InitMain PROVE Apart \/ InitMain
  BY <1>15
<1> QED BY Movers, <1>1, <1>2, <1>3, <1>4, <1>5, <1>6, <1>7, <1>8, <1>9, <1>10, <1>11, <1>12,
    <1>13, <1>14, <1>15 DEF AppStart, AppStop

\* Nothing else of the process makes what was said untrue.
LEMMA ToldStep ==
  ASSUME Judged, Rooted, Told, [CliNext]_cliVars
  PROVE  Told'
<1>1. CASE InitMain
  BY <1>1, ToldByInit
<1>2. CASE Apart /\ ~InitMain
  <2>1. UNCHANGED <<outcome, saved, disk>>
    BY <1>2, Movers DEF KeyAppears, cliVars, initVars
  <2>2. checks' = checks => (CoreReady' <=> CoreReady)
    BY DEF CoreReady, All
  <2> QED BY <1>2, <2>1, <2>2 DEF Apart, Told
<1> QED BY <1>1, <1>2, ApartStep

\* Every way through the prompts keeps the plan within what was agreed.
LEMMA AgreedByInit ==
  ASSUME Agreed, InitMain
  PROVE  Agreed'
<1> USE DEF Turns, Stops, Ends, To, Forget, Agreed, Planning, Prompts, Selection, Planned,
    Inspected, planVars, keyVars, Collisions, PlannedAuth, SetKeyPlan, Of
<1>1. ASSUME CancelInit \/ FailInit \/ RefuseInit \/ BeginInit \/ SelectBack \/ CollectBack
      PROVE  Agreed'
  BY <1>1 DEF CancelInit, FailInit, RefuseInit, BeginInit, SelectBack, CollectBack
<1>2. ASSUME CollectKeyBack \/ Plan \/ PlanRefused \/ PlanCollides \/ ReviewBack \/ Decline
      PROVE  Agreed'
  <2>1. CASE Plan
    <3>1. /\ agreed' = agreed \ {"key"} /\ UNCHANGED <<selected, asked, auth, replace, base>>
          /\ pc' = "preflight" /\ Collisions \subseteq replace
      BY <2>1 DEF Plan
    <3>2. asked' \subseteq Of(selected)' /\ replace' \subseteq agreed' /\ replace' \subseteq Entries
      BY <3>1, InitAssumption
    <3>3. Collisions' \subseteq replace'
      BY <3>1
    <3>4. /\ keyAction' \in {"none", "inspect", "ensure"}
          /\ keyAction' = "none" => PlannedAuth' = "none"
          /\ keyAction' = "ensure" => base'.auth # "file"
          /\ allowExisting' => auth' = "explicit"
      BY <2>1, <3>1 DEF Plan
    <3> QED BY <3>1, <3>2, <3>3, <3>4
  <2>2. CASE CollectKeyBack \/ PlanRefused \/ PlanCollides
    BY <2>2 DEF CollectKeyBack, PlanRefused, PlanCollides
  <2>3. CASE ReviewBack \/ Decline
    BY <2>3 DEF ReviewBack, Decline
  <2> QED BY <1>2, <2>1, <2>2, <2>3
<1>3. ASSUME Preflight \/ ConfirmKey \/ PlanAgain \/ Confirm \/ DryRun \/ KeyUnconfirmed
      PROVE  Agreed'
  <2>1. CASE Preflight
    <3>1. /\ keyState' = "none" => keyAction = "none"
          /\ keyState' = "reusable" => keyAction = "inspect" \/ allowExisting
      BY <2>1 DEF Preflight
    <3>2. /\ pc' \in {"write", "confirmKey", "confirm"} /\ pc = "preflight"
          /\ UNCHANGED <<planVars, keyAction, allowExisting, base, flags>>
      BY <2>1 DEF Preflight
    <3> QED BY <3>1, <3>2
  <2>2. CASE ConfirmKey
    BY <2>2 DEF ConfirmKey
  <2>3. CASE PlanAgain \/ Confirm
    BY <2>3 DEF PlanAgain, Confirm
  <2>4. CASE DryRun \/ KeyUnconfirmed
    BY <2>4 DEF DryRun, KeyUnconfirmed
  <2> QED BY <1>3, <2>1, <2>2, <2>3, <2>4
<1>4. ASSUME BeginCommit \/ NothingToDo PROVE Agreed'
  BY <1>4 DEF BeginCommit, GoesOn, NothingToDo
<1>5. ASSUME Committed \/ NotCommitted \/ Undiagnosed PROVE Agreed'
  BY <1>5 DEF Committed, NotCommitted, Undiagnosed
<1>6. ASSUME NEW names \in SUBSET Names, Select(names) PROVE Agreed'
  BY <1>6 DEF Select
<1>7. ASSUME NEW granted \in SUBSET Entries, Review(granted) PROVE Agreed'
  BY <1>7, InitAssumption DEF Review
<1>8. ASSUME NEW a \in {"none", "file", "explicit"}, CollectKey(a) PROVE Agreed'
  BY <1>8 DEF CollectKey
<1>9. ASSUME NEW a \in {"none", "file", "explicit"}, NEW new \in SUBSET Entries, Collect(new, a)
      PROVE  Agreed'
  BY <1>9 DEF Collect
<1>10. ASSUME NEW w \in BOOLEAN, NEW c \in BOOLEAN, NEW r \in BOOLEAN, InitReport(w, c, r)
      PROVE  Agreed'
  BY <1>10 DEF InitReport
<1> QED BY <1>1, <1>2, <1>3, <1>4, <1>5, <1>6, <1>7, <1>8, <1>9, <1>10 DEF InitMain

\* Nothing else of the process touches the plan.
LEMMA AgreedStep ==
  ASSUME Agreed, [CliNext]_cliVars
  PROVE  Agreed'
<1>1. CASE InitMain
  BY <1>1, AgreedByInit
<1>2. CASE Apart /\ ~InitMain
  <2>1. UNCHANGED <<flags, base, planVars, keyVars>>
    BY <1>2, Movers DEF KeyAppears, cliVars, initVars
  <2>2. (pc' \in Planned => pc \in Planned) /\ (pc' \in Inspected => pc \in Inspected)
        /\ (pc' \in {"commit", "committing"} => pc' = pc)
    BY <1>2 DEF Apart, Planned, Inspected, Planning, Prompts
  <2>3. (Collisions' = Collisions) /\ (PlannedAuth' = PlannedAuth) /\ Of(selected)' = Of(selected)
    BY <2>1 DEF Collisions, PlannedAuth, Of, planVars
  <2> QED BY <2>1, <2>2, <2>3 DEF Agreed, planVars, keyVars
<1> QED BY <1>1, <1>2, ApartStep

-----------------------------------------------------------------------------
(* The file, and what was read of it.                                       *)

\* A rewrite in two halves leaves a file of two halves.
LEMMA TwoHalves ==
  ASSUME NEW S, NEW a \in S, NEW b \in S, NEW f, f = [h \in 1..2 |-> IF h = 1 THEN a ELSE b]
  PROVE  f \in S \X S
<1>1. f = <<a, b>>
  OBVIOUS
<1> QED BY <1>1

\* A file is read half after half.
LEMMA OneMoreHalf ==
  ASSUME NEW S, NEW raw \in Seq(S), Len(raw) \in 0..1, NEW halves \in S \X S,
         NEW longer, longer = Append(raw, halves[Len(raw) + 1])
  PROVE  /\ longer \in Seq(S)
         /\ raw = <<>> => Len(longer) = 1
         /\ raw # <<>> => Len(longer) = 2
<1>1. halves[1] \in S /\ halves[2] \in S
  OBVIOUS
<1>2. CASE raw = <<>>
  <2>1. Len(raw) + 1 = 1
    BY <1>2
  <2> QED BY <1>1, <1>2, <2>1
<1>3. CASE raw # <<>>
  <2>1. Len(raw) = 1
    BY <1>3
  <2>2. Len(raw) + 1 = 2
    BY <2>1
  <2>3. longer = Append(raw, halves[2])
    BY <2>2
  <2>4. longer \in Seq(S) /\ Len(longer) = Len(raw) + 1
    BY <1>1, <2>3
  <2> QED BY <1>3, <2>1, <2>2, <2>4
<1> QED BY <1>2, <1>3

\* An edit makes a revision of the file the path names, or of another one.
LEMMA Edited ==
  ASSUME Pinned, Replace \/ Rewrite
  PROVE  /\ name' \in Files /\ revision' \in Revisions
         /\ body' \in [Files -> Revisions \X Revisions] /\ stamp' \in [Files -> Revisions]
<1> DEFINE next == revision + 1
<1>1. next \in Revisions /\ next \in Files /\ Files = Revisions
  BY RevisionsAssumption DEF Pinned, Replace, Rewrite, Revisions, Files
<1>2. CASE Replace
  BY <1>1, <1>2 DEF Pinned, Replace
<1>3. CASE Rewrite
  <2>1. PICK halves \in {{1}, {2}, {1, 2}} :
          body' = [body EXCEPT ![name] =
                    [h \in 1..2 |-> IF h \in halves THEN next ELSE @[h]]]
    BY <1>3 DEF Rewrite
  <2> DEFINE new == [h \in 1..2 |-> IF h \in halves THEN next ELSE body[name][h]]
  <2>2. body[name] \in Revisions \X Revisions
    BY DEF Pinned
  <2>3. new[1] \in Revisions /\ new[2] \in Revisions
    BY <1>1, <2>2
  <2>4. new = [h \in 1..2 |-> IF h = 1 THEN new[1] ELSE new[2]]
    OBVIOUS
  <2>5. new \in Revisions \X Revisions
    <3> HIDE DEF new
    <3> QED BY <2>3, <2>4, TwoHalves
  <2>6. body' = [body EXCEPT ![name] = new]
    BY <2>1
  <2>7. body' \in [Files -> Revisions \X Revisions]
    <3> HIDE DEF new
    <3> QED BY <2>5, <2>6 DEF Pinned
  <2> QED BY <1>1, <1>3, <2>7 DEF Pinned, Rewrite
<1> QED BY <1>2, <1>3

\* What was read is what a file held, until it is forgotten before the listener.
LEMMA PinnedStep ==
  ASSUME Pinned, [CliNext]_cliVars
  PROVE  Pinned'
<1> USE DEF To, Main, Quits, Plain, NoServer, Building, Diagnosing, Aside, OfHandler, workVars,
    fileGroup, fileVars, NoFile, Planning, Prompts, Loading, Probing, Read, Pinned
<1>1. ASSUME Load \/ LoadFails \/ StopsEarly \/ DependenciesFail \/ Diagnose PROVE Pinned'
  <2>1. CASE Load
    <3>1. UNCHANGED <<fileVars, raced>> /\ pc # "rechecked" /\ pc' # "rechecked"
      BY <2>1 DEF Load
    <3>2. CASE pc = "start"
      BY <2>1, <3>2 DEF Load
    <3>3. CASE pc = "load"
      <4>1. pin' = [file |-> name, meta |-> stamp[name], raw |-> <<>>] /\ pc' = "read"
        BY <2>1, <3>3 DEF Load, Open
      <4>2. pin'.raw = <<>> /\ Len(pin'.raw) = 0
        BY <4>1
      <4>3. pin' \in [file : Files, meta : Revisions, raw : Seq(Revisions)]
        BY <4>1
      <4> QED BY <3>1, <4>1, <4>2, <4>3
    <3>4. CASE pc = "read"
      <4>1. pin' = [pin EXCEPT !.raw = Append(@, body[pin.file][Len(@) + 1])]
            /\ pc' = (IF pin.raw = <<>> THEN "read" ELSE "verify")
        BY <2>1, <3>4 DEF Load, ReadHalf
      <4>2. /\ pin.raw \in Seq(Revisions) /\ Len(pin.raw) \in 0..1
            /\ body[pin.file] \in Revisions \X Revisions
        BY <3>4
      <4>3. pin'.raw = Append(pin.raw, body[pin.file][Len(pin.raw) + 1])
        BY <4>1
      <4>4. /\ pin'.raw \in Seq(Revisions)
            /\ pin.raw = <<>> => Len(pin'.raw) = 1
            /\ pin.raw # <<>> => Len(pin'.raw) = 2
        <5> HIDE DEF Pinned
        <5> QED BY <4>2, <4>3, OneMoreHalf
      <4>5. pin' \in [file : Files, meta : Revisions, raw : Seq(Revisions)]
        BY <4>1, <4>3, <4>4
      <4> QED BY <3>1, <4>1, <4>4, <4>5
    <3>5. CASE pc \in {"verify", "verified"}
      BY <2>1, <3>5 DEF Load
    <3> QED BY <2>1, <3>2, <3>3, <3>4, <3>5 DEF Load
  <2>2. CASE LoadFails \/ StopsEarly
    BY <2>2 DEF LoadFails, StopsEarly
  <2>3. CASE DependenciesFail \/ Diagnose
    BY <2>3 DEF DependenciesFail, Diagnose
  <2> QED BY <1>1, <2>1, <2>2, <2>3
<1>2. ASSUME \/ RootRefused \/ OpenRoot \/ Probed \/ FinishDiagnosis \/ DoctorStops
             \/ \E bad \in SUBSET (1..3) : CheckEarly(bad)
      PROVE  Pinned'
  BY <1>2 DEF RootRefused, OpenRoot, Probed, FinishDiagnosis, DoctorStops, CheckEarly
<1>3. ASSUME Resolve PROVE Pinned'
  BY <1>3 DEF Resolve, Runs
<1>4. ASSUME NEW b \in BOOLEAN, NEW d \in BOOLEAN,
             Janitor(b) \/ NewController(b) \/ SelfTest(b, d) \/ ShutdownController(b)
      PROVE  Pinned'
  BY <1>4 DEF Janitor, NewController, SelfTest, Runs, ShutdownController
<1>5. ASSUME NEW b \in BOOLEAN, NEW d \in BOOLEAN,
             FinishRun(b) \/ CloseSource(b) \/ Report(b, d)
      PROVE  Pinned'
  BY <1>5 DEF FinishRun, CloseSource, Report
<1>6. ASSUME NotDiagnosed \/ NoneReady \/ Assemble \/ RowRefused \/ NewGateway \/ NewIDs \/ StartFails
      PROVE  Pinned'
  BY <1>6 DEF NotDiagnosed, NoneReady, Assemble, RowRefused, NewGateway, NewIDs, StartFails
<1>7. ASSUME NEW p \in Providers,
             BuildProvider(p) \/ BuildFails(p)
      PROVE  Pinned'
  BY <1>7 DEF BuildProvider, BuildFails
<1>8. ASSUME Recheck \/ RecheckFails \/ Listen PROVE Pinned'
  <2>1. CASE Recheck
    <3>1. CASE pc = "recheck"
      BY <2>1, <3>1 DEF Recheck, RevalidateBegins, Evidence, Same
    <3>2. CASE pc = "rechecked"
      <4>1. pc' = "boundary" /\ name' = 0 /\ revision' = 0 /\ pin' = NoPin
            /\ body' = [f \in Files |-> <<0, 0>>] /\ stamp' = [f \in Files |-> 0]
        BY <2>1, <3>2 DEF Recheck
      <4>2. 0 \in Revisions /\ 0 \in Files
        BY RevisionsAssumption DEF Revisions, Files
      <4> QED BY <4>1, <4>2 DEF NoPin
    <3> QED BY <2>1, <3>1, <3>2 DEF Recheck
  <2>2. CASE RecheckFails \/ Listen
    BY <2>2 DEF RecheckFails, Listen
  <2> QED BY <1>8, <2>1, <2>2
<1>9. ASSUME Serving \/ Await \/ AwaitHttp \/ RetryGateway \/ Unwind \/ SupervisorsDown \/ AwaitServe
      PROVE  Pinned'
  BY <1>9 DEF Serving, Await, CloseListener, AwaitHttp, RetryGateway, Unwind, SupervisorsDown,
     AwaitServe
<1>10. ASSUME NEW b \in BOOLEAN,
             \/ ShutdownGateway(b) \/ LastJanitor(b) \/ CloseRoot(b)
             \/ \E p \in Providers : ShutdownSupervisor(p, b)
      PROVE  Pinned'
  BY <1>10 DEF ShutdownGateway, LastJanitor, CloseRoot, ShutdownSupervisor
<1>11. ASSUME Serve PROVE Pinned'
  BY <1>11 DEF Serve, ServeBegins, ServeReturns, HttpCloses, HttpReturns, BoundExpires,
     CloseListener
<1>12. ASSUME NEW r \in Requests, Request(r) PROVE Pinned'
  BY <1>12 DEF Request, Connect, Handles, Leaves, Refused, WorkStarts, WorkEnds
<1>13. ASSUME NEW o \in Requests \cup {"probe"}, Reaped(o) PROVE Pinned'
  BY <1>13 DEF Reaped
<1>14. ASSUME Signal \/ Edits \/ KeyAppears \/ UNCHANGED cliVars PROVE Pinned'
  <2>1. CASE Edits
    <3>1. /\ name' \in Files /\ revision' \in Revisions
          /\ body' \in [Files -> Revisions \X Revisions] /\ stamp' \in [Files -> Revisions]
      BY <2>1, Edited DEF Edits, Edit
    <3>2. UNCHANGED <<pin, pc>> /\ (pc = "rechecked" => raced')
      BY <2>1 DEF Edits, Edit
    <3> QED BY <3>1, <3>2
  <2>2. CASE Signal \/ KeyAppears \/ UNCHANGED cliVars
    BY <2>2 DEF Signal, KeyAppears, cliVars, appVars
  <2> QED BY <1>14, <2>1, <2>2
<1>15. ASSUME InitMain PROVE Pinned'
  BY <1>15, InitFrame DEF Read
<1> QED BY Movers, <1>1, <1>2, <1>3, <1>4, <1>5, <1>6, <1>7, <1>8, <1>9, <1>10, <1>11, <1>12,
    <1>13, <1>14, <1>15 DEF AppStart, AppStop

-----------------------------------------------------------------------------
(* The rows of the report.                                                  *)

\* What a probe finds out.
Versions == {"", "unsupported", "overlong", "supported"}
Answered(p) == IF p = "gemini" THEN {"configured", "unknown"}
               ELSE {"authenticated", "missing", "unknown"}

\* What buildHealth makes of a probe: neither canonicalizeHealth nor the report nor
\* NewProviderRuntime minds (but for the length of its version), and nobody takes it for
\* a row that was not probed.
LEMMA BuiltAgrees ==
  ASSUME NEW p \in Known, NEW version \in Versions, NEW proven \in BOOLEAN,
         NEW found \in Answered(p), NEW h, h = Built(p, version, proven, found)
  PROVE  /\ ProofRow(p, h) /\ h.problems \subseteq Allowed(p)
         /\ Accepts(p, h) <=> CanonicalVersion(h.version)
         /\ ~PreprobeRow(p, h) /\ h # Skipped
<1> USE DEF Versions, Answered, Unsupported
<1> DEFINE Faults ==
      (IF version = "" THEN {"version_unreadable"}
       ELSE IF version \in Unsupported THEN {"version_unsupported"} ELSE {})
      \cup (IF proven THEN {} ELSE {"capability_missing"})
      \cup (CASE found = "missing" -> {"auth_missing"}
              [] found = "unknown" -> {"auth_unknown"}
              [] OTHER -> {})
<1> DEFINE Usable == version = "supported" /\ proven
<1>1. /\ h.version = version /\ h.caps = proven /\ h.auth = found /\ h.problems = Faults
      /\ h.status = IF Faults = {} THEN "ready"
                    ELSE IF p # "gemini" /\ Faults = {"auth_unknown"} THEN "unknown"
                    ELSE "not_ready"
  BY DEF Built
<1> DEFINE Fault(x) == \/ x = "version_unreadable" /\ version = ""
                       \/ x = "version_unsupported" /\ version \in Unsupported
                       \/ x = "capability_missing" /\ ~proven
                       \/ x = "auth_missing" /\ found = "missing"
                       \/ x = "auth_unknown" /\ found = "unknown"
<1>2. \A x : x \in Faults <=> Fault(x)
  OBVIOUS
<1>3. /\ Faults = {} <=> Usable /\ found \in {"authenticated", "configured"}
      /\ Faults = {"auth_unknown"} <=> Usable /\ found = "unknown"
  <2> HIDE DEF Faults
  <2>1. Usable /\ found \in {"authenticated", "configured"} => Faults = {}
    BY <1>2
  <2>2. Usable /\ found = "unknown" => Faults = {"auth_unknown"}
    BY <1>2
  <2>0. \A x \in {"version_unreadable", "version_unsupported", "capability_missing", "auth_missing"} :
          x # "auth_unknown"
    OBVIOUS
  <2>3. ~Usable => \E x \in Faults : x # "auth_unknown"
    BY <1>2, <2>0
  <2>4. found = "missing" => "auth_missing" \in Faults
    BY <1>2
  <2>5. found = "unknown" => "auth_unknown" \in Faults
    BY <1>2
  <2>6. "auth_unknown" \in Faults => found = "unknown"
    BY <1>2, <2>0
  <2>7. found \in {"authenticated", "configured", "missing", "unknown"}
    OBVIOUS
  <2> HIDE DEF Usable
  <2> QED BY <2>1, <2>2, <2>3, <2>4, <2>5, <2>6, <2>7
<1> HIDE DEF Faults
<1>4. Expected(p, h) = Faults
  <2>1. \A x : x \in Expected(p, h) <=> Fault(x)
    BY <1>1 DEF Expected
  <2> HIDE DEF Fault
  <2> QED BY <1>2, <2>1
<1>5. ProofRow(p, h)
  BY <1>1, <1>3, <1>4 DEF ProofRow, AuthValues
<1>6. h.problems \subseteq Allowed(p)
  BY <1>1, <1>2 DEF Allowed
<1>7. Accepts(p, h) <=> CanonicalVersion(h.version)
  <2>1. h.problems \subseteq Startable(p)
    BY <1>1, <1>2 DEF Startable, Known
  <2> DEFINE wanted ==
        UNION {IF h.version = "" THEN {"version_unreadable"} ELSE {},
               IF h.version \in Unsupported THEN {"version_unsupported"} ELSE {},
               IF h.caps THEN {} ELSE {"capability_missing"},
               IF h.auth = "unknown" THEN {"auth_unknown"} ELSE {},
               IF h.auth # "missing" THEN {}
               ELSE {IF p = "gemini" THEN "credential_missing" ELSE "auth_missing"}}
  <2>2. \A x : x \in wanted <=> Fault(x)
    BY <1>1
  <2>3. h.problems = wanted
    <3> HIDE DEF wanted, Fault
    <3> QED BY <1>1, <1>2, <2>2
  <2> QED BY <1>1, <1>3, <2>1, <2>3 DEF Accepts
<1>8. ~PreprobeRow(p, h)
  BY <1>1, <1>2 DEF PreprobeRow, PathProblems
<1>9. h # Skipped
  <2>1. Skipped.status = "unknown" /\ Skipped.problems = {}
    BY DEF Skipped
  <2>2. h.problems = {} => h.status = "ready"
    BY <1>1
  <2> QED BY <2>1, <2>2
<1> QED BY <1>5, <1>6, <1>7, <1>8, <1>9

\* A probe comes to a row of buildHealth.
LEMMA HealthIsBuilt ==
  ASSUME NEW p \in Known, NEW a \in Answers(p), NEW c \in Credentials(p)
  PROVE  \E version \in Versions, proven \in BOOLEAN,
            found \in Answered(p) :
           Health(p, a, c) = Built(p, version, proven, found)
<1> USE DEF Versions
<1> DEFINE said(x) == a[CHOOSE i \in DOMAIN a : Commands[p][i] = x]
<1> DEFINE version == CASE said("version") = "yes" -> "supported"
                        [] said("version") = "no" -> "unsupported"
                        [] said("version") = "long" -> "overlong"
                        [] OTHER -> ""
<1> DEFINE found == IF p = "gemini" THEN c
                    ELSE CASE said("auth") = "yes" -> "authenticated"
                           [] said("auth") = "no" -> "missing"
                           [] OTHER -> "unknown"
<1> DEFINE proven == \A i \in DOMAIN a : Commands[p][i] # "auth" => a[i] = "yes"
<1>1. Health(p, a, c) = Built(p, version, proven, found)
  BY DEF Health
<1> HIDE DEF said
<1>2. version \in Versions
  OBVIOUS
<1>3. found \in Answered(p)
  <2>1. CASE p = "gemini"
    BY <2>1 DEF Credentials, Answered
  <2>2. CASE p # "gemini"
    BY <2>2 DEF Answered
  <2> QED BY <2>1, <2>2
<1>4. proven \in BOOLEAN
  OBVIOUS
<1> HIDE DEF version, found, proven
<1> QED BY <1>1, <1>2, <1>3, <1>4

\* What canonicalizeHealth lets pass of it is all of it.
LEMMA HealthAgrees ==
  ASSUME NEW p \in Known, NEW a \in Answers(p), NEW c \in Credentials(p), NEW h, h = Health(p, a, c)
  PROVE  /\ Canonical(p, h) = h /\ ValidRow(p, h)
         /\ Accepts(p, h) <=> CanonicalVersion(h.version)
         /\ ~PreprobeRow(p, h) /\ h # Skipped
<1>1. PICK version \in Versions, proven \in BOOLEAN,
           found \in Answered(p) :
             h = Built(p, version, proven, found)
  BY HealthIsBuilt
<1>2. /\ ProofRow(p, h) /\ h.problems \subseteq Allowed(p)
      /\ Accepts(p, h) <=> CanonicalVersion(h.version)
      /\ ~PreprobeRow(p, h) /\ h # Skipped
  BY <1>1, BuiltAgrees
<1>3. Canonical(p, h) = h
  BY <1>2 DEF Canonical
<1>4. ValidRow(p, h)
  BY <1>2 DEF ValidRow, ProofRow
<1> QED BY <1>2, <1>3, <1>4

\* A row that was not probed.
LEMMA UnprobedAgrees ==
  ASSUME NEW p \in Known, NEW row \in Unprobed(p)
  PROVE  /\ ValidRow(p, row) /\ Accepts(p, row) /\ CanonicalVersion(row.version)
         /\ row # Skipped
<1> DEFINE Row(problem, auth_) == /\ row.status = "not_ready" /\ row.version = "" /\ row.caps = FALSE
                                  /\ row.auth = auth_ /\ row.problems = {problem}
<1>1. \/ \E problem \in PathProblems : Row(problem, "unknown")
      \/ p = "gemini" /\ Row("credential_file_unsafe", "unknown")
      \/ p \in {"claude", "gemini"} /\ Row("credential_missing", "missing")
  BY DEF Unprobed, Skipped, TakesCredentials, Known
<1>2. ASSUME NEW problem \in PathProblems, Row(problem, "unknown")
      PROVE  ValidRow(p, row) /\ Accepts(p, row)
  <2>1. problem # "credential_missing"
    BY DEF PathProblems
  <2>2. PreprobeRow(p, row)
    BY <1>2, <2>1 DEF PreprobeRow
  <2>3. ValidRow(p, row)
    BY <1>2, <2>2 DEF ValidRow, AuthValues, Allowed
  <2>4. Accepts(p, row)
    BY <1>2 DEF Accepts, Startable, Unasked, CanonicalVersion
  <2> QED BY <2>3, <2>4
<1>3. ASSUME p = "gemini", Row("credential_file_unsafe", "unknown")
      PROVE  ValidRow(p, row) /\ Accepts(p, row)
  <2>1. ValidRow(p, row)
    BY <1>3 DEF ValidRow, AuthValues, Allowed, PreprobeRow
  <2>2. Accepts(p, row)
    BY <1>3 DEF Accepts, Startable, Unasked, CanonicalVersion
  <2> QED BY <2>1, <2>2
<1>4. ASSUME p \in {"claude", "gemini"}, Row("credential_missing", "missing")
      PROVE  ValidRow(p, row) /\ Accepts(p, row)
  <2>1. ValidRow(p, row)
    BY <1>4 DEF ValidRow, AuthValues, Allowed, PreprobeRow
  <2>2. Accepts(p, row)
    BY <1>4 DEF Accepts, Startable, Unasked, CanonicalVersion
  <2> QED BY <2>1, <2>2
<1>5. row # Skipped
  <2>1. row.status = "not_ready" /\ Skipped.status = "unknown"
    BY <1>1 DEF Skipped
  <2> QED BY <2>1
<1>6. CanonicalVersion(row.version)
  BY <1>1 DEF CanonicalVersion
<1> QED BY <1>1, <1>2, <1>3, <1>4, <1>5, <1>6

\* Nothing an adapter says is malformed, and of the rows that resolveProvider makes those
\* with a version of legal length are accepted; the row of a probe is not one of a provider
\* that was not probed.
LEMMA RowsAreAgreed ==
  /\ RowsAgree
  /\ \A p \in Known : \A o \in OutcomesOf(p) :
       /\ ValidRow(p, o.row) /\ o.row # Skipped
       /\ Accepts(p, o.row) <=> CanonicalVersion(o.row.version)
       /\ o.dirty => ~PreprobeRow(p, o.row)
<1>1. ASSUME NEW p \in Known, NEW o \in OutcomesOf(p)
      PROVE  /\ ValidRow(p, o.row) /\ o.row # Skipped
             /\ Accepts(p, o.row) <=> CanonicalVersion(o.row.version)
             /\ o.dirty => ~PreprobeRow(p, o.row)
  <2>1. CASE o \in {[row |-> row, dirty |-> FALSE] : row \in Unprobed(p)}
    <3>1. PICK row \in Unprobed(p) : o = [row |-> row, dirty |-> FALSE]
      BY <2>1
    <3>2. o.row = row /\ ~o.dirty
      BY <3>1
    <3> QED BY <3>2, UnprobedAgrees
  <2>2. CASE \E a \in Answers(p), c \in Credentials(p) :
               o = [row |-> Canonical(p, Health(p, a, c)), dirty |-> \E i \in DOMAIN a : a[i] = "dirty"]
    <3>1. PICK a \in Answers(p), c \in Credentials(p) :
                 o = [row |-> Canonical(p, Health(p, a, c)), dirty |-> \E i \in DOMAIN a : a[i] = "dirty"]
      BY <2>2
    <3>2. o.row = Canonical(p, Health(p, a, c))
      BY <3>1
    <3> QED BY <3>2, HealthAgrees
  <2> QED BY <2>1, <2>2 DEF OutcomesOf
<1>2. ASSUME NEW p \in Known, NEW a \in Answers(p), NEW c \in Credentials(p)
      PROVE  Canonical(p, Health(p, a, c)) = Health(p, a, c)
  BY HealthAgrees
<1>3. \A p \in Known : Outcomes[p] = OutcomesOf(p)
  BY DEF Outcomes
<1> QED BY <1>1, <1>2, <1>3 DEF RowsAgree

-----------------------------------------------------------------------------
(* The report.                                                              *)

\* The verdicts one by one.
LEMMA Ranges ==
  /\ \A v :
       /\ All(1, 3, v) <=> checks[1] = v /\ checks[2] = v /\ checks[3] = v
       /\ All(1, 4, v) <=> checks[1] = v /\ checks[2] = v /\ checks[3] = v /\ checks[4] = v
       /\ All(1, 5, v) <=> /\ checks[1] = v /\ checks[2] = v /\ checks[3] = v
                        /\ checks[4] = v /\ checks[5] = v
       /\ All(1, 6, v) <=> /\ checks[1] = v /\ checks[2] = v /\ checks[3] = v
                        /\ checks[4] = v /\ checks[5] = v /\ checks[6] = v
       /\ All(4, 7, v) <=> checks[4] = v /\ checks[5] = v /\ checks[6] = v /\ checks[7] = v
       /\ All(5, 7, v) <=> checks[5] = v /\ checks[6] = v /\ checks[7] = v
       /\ All(6, 7, v) <=> checks[6] = v /\ checks[7] = v
  /\ \A v :
       /\ All(1, 3, v)' <=> checks'[1] = v /\ checks'[2] = v /\ checks'[3] = v
       /\ All(1, 4, v)' <=> checks'[1] = v /\ checks'[2] = v /\ checks'[3] = v /\ checks'[4] = v
       /\ All(1, 5, v)' <=> /\ checks'[1] = v /\ checks'[2] = v /\ checks'[3] = v
                         /\ checks'[4] = v /\ checks'[5] = v
       /\ All(1, 6, v)' <=> /\ checks'[1] = v /\ checks'[2] = v /\ checks'[3] = v
                         /\ checks'[4] = v /\ checks'[5] = v /\ checks'[6] = v
       /\ All(4, 7, v)' <=> checks'[4] = v /\ checks'[5] = v /\ checks'[6] = v /\ checks'[7] = v
       /\ All(5, 7, v)' <=> checks'[5] = v /\ checks'[6] = v /\ checks'[7] = v
       /\ All(6, 7, v)' <=> checks'[6] = v /\ checks'[7] = v
<1>1. /\ 1..3 = {1, 2, 3} /\ 1..4 = {1, 2, 3, 4} /\ 1..5 = {1, 2, 3, 4, 5}
      /\ 1..6 = {1, 2, 3, 4, 5, 6} /\ 4..7 = {4, 5, 6, 7} /\ 5..7 = {5, 6, 7} /\ 6..7 = {6, 7}
  OBVIOUS
<1> QED BY <1>1 DEF All

\* Nothing but the diagnosis touches what it found.
LEMMA CheckedFrame ==
  ASSUME Checked, UNCHANGED checks,
         \/ pc' = pc /\ UNCHANGED root
         \/ pc \notin Phases /\ pc' \notin Phases
  PROVE  Checked'
<1>1. CASE pc' = pc /\ UNCHANGED root
  BY <1>1 DEF Checked, All, ValidCore
<1>2. CASE pc \notin Phases /\ pc' \notin Phases
  BY <1>2 DEF Checked, Phases
<1> QED BY <1>1, <1>2

\* The rows stand where the diagnosis does not go on.
LEMMA ReportedFrame ==
  ASSUME Reported, UNCHANGED <<checks, rows, probed>>,
         \/ pc' = pc /\ UNCHANGED cleanupFailed
         \/ pc \notin Phases /\ pc' \notin Phases
  PROVE  Reported'
<1>1. All(1, 6, "pass")' <=> All(1, 6, "pass")
  BY DEF All
<1>2. CASE pc' = pc /\ UNCHANGED cleanupFailed
  BY <1>1, <1>2 DEF Reported
<1>3. CASE pc \notin Phases /\ pc' \notin Phases
  BY <1>3 DEF Reported, Phases, Probes
<1> QED BY <1>2, <1>3

\* Whoever drops the rows is done with the diagnosis.
LEMMA Cleared ==
  ASSUME rows' = SkippedRows, probed' = 0, pc' \notin Phases
  PROVE  Reported'
<1>1. DOMAIN Sorted = 1..Len(Sorted) /\ Len(Sorted) \in Nat
  BY SortedAssumption
<1>2. DOMAIN rows' = 1..Len(Sorted) /\ \A i \in 1..Len(Sorted) : rows'[i] = Skipped /\ ~(i <= probed')
  BY <1>1 DEF SkippedRows
<1> QED BY <1>2 DEF Reported, Phases, Probes

\* Each step of the diagnosis adds its verdict.
LEMMA CheckedStep ==
  ASSUME Judged, Rooted, Checked, [CliNext]_cliVars
  PROVE  Checked'
<1> USE DEF To, Main, Quits, Plain, NoServer, Building, Diagnosing, Aside, OfHandler, workVars,
    diagVars, reportVars, NoDiag, NoRows, DropRows, Planning, Prompts, Loading, Phases
<1>1. ASSUME Load \/ LoadFails \/ StopsEarly \/ DependenciesFail \/ Diagnose PROVE Checked'
  BY <1>1, CheckedFrame DEF Load, LoadFails, StopsEarly, DependenciesFail, Diagnose
<1>2. ASSUME \/ RootRefused \/ OpenRoot \/ Probed \/ FinishDiagnosis \/ DoctorStops
             \/ \E bad \in SUBSET (1..3) : CheckEarly(bad)
      PROVE  Checked'
  <2>1. CASE RootRefused
    <3>1. pc = "openRoot" /\ pc' = "finishRoot" /\ root' = "none" /\ Check(4, FALSE)
      BY <2>1 DEF RootRefused, Rooted, Early
    <3>2. checks'[4] = "fail" /\ \A k \in 1..7 \ {4} : checks'[k] = checks[k]
      BY <3>1 DEF Check, Judged
    <3> QED BY <3>1, <3>2, Ranges DEF Checked
  <2>2. CASE OpenRoot
    <3>1. pc = "openRoot" /\ pc' = "janitor" /\ Check(4, TRUE)
      BY <2>2 DEF OpenRoot
    <3>2. checks'[4] = "pass" /\ \A k \in 1..7 \ {4} : checks'[k] = checks[k]
      BY <3>1 DEF Check, Judged
    <3> QED BY <3>1, <3>2, Ranges DEF Checked
  <2>3. CASE Probed
    BY <2>3 DEF Probed, Checked, All
  <2>4. CASE FinishDiagnosis
    BY <2>4 DEF FinishDiagnosis, Checked, All, ValidCore
  <2>5. CASE DoctorStops
    BY <2>5 DEF DoctorStops, Checked
  <2>6. ASSUME NEW bad \in SUBSET (1..3), CheckEarly(bad) PROVE Checked'
    <3>1. pc = "auth" /\ checks = InitialChecks /\ pc' = (IF bad = {} THEN "openRoot" ELSE "complete")
      BY <2>6 DEF CheckEarly, Rooted, Early
    <3>2. checks' = [i \in 1..7 |-> IF i \in bad THEN "fail" ELSE IF i <= 3 THEN "pass" ELSE "skipped"]
      BY <2>6, <3>1 DEF CheckEarly, InitialChecks
    <3>3. CASE bad = {}
      BY <3>1, <3>2, <3>3 DEF Checked, All
    <3>4. CASE bad # {}
      <4>1. /\ \A i \in 1..3 : checks'[i] \in {"pass", "fail"}
            /\ \A i \in 4..7 : checks'[i] = "skipped"
        BY <3>2
      <4>2. PICK i \in bad : i \in 1..3
        BY <3>4
      <4>3. checks'[i] = "fail"
        BY <3>2, <4>2
      <4>4. ~All(1, 3, "pass")' /\ All(4, 7, "skipped")'
        BY <4>1, <4>2, <4>3 DEF All
      <4>5. ValidCore'
        BY <4>1, <4>4 DEF ValidCore
      <4> QED BY <3>1, <3>4, <4>5 DEF Checked
    <3> QED BY <3>3, <3>4
  <2> QED BY <1>2, <2>1, <2>2, <2>3, <2>4, <2>5, <2>6
<1>3. ASSUME Resolve PROVE Checked'
  BY <1>3 DEF Resolve, Runs, Checked, All
<1>4. ASSUME NEW b \in BOOLEAN, NEW d \in BOOLEAN,
             Janitor(b) \/ NewController(b) \/ SelfTest(b, d) \/ ShutdownController(b)
      PROVE  Checked'
  <2>1. CASE Janitor(b)
    <3>1. /\ pc = "janitor" /\ pc' = (IF b THEN "controller" ELSE "finishRoot") /\ Check(5, b)
          /\ root = "open" /\ root' = root
      BY <2>1 DEF Janitor, Rooted, Probing
    <3>2. checks'[5] = (IF b THEN "pass" ELSE "fail") /\ \A k \in 1..7 \ {5} : checks'[k] = checks[k]
      BY <3>1 DEF Check, Judged
    <3> QED BY <3>1, <3>2, Ranges DEF Checked
  <2>2. CASE NewController(b)
    <3>1. /\ pc = "controller" /\ pc' = (IF b THEN "selfTest" ELSE "finishRoot")
          /\ IF b THEN checks' = checks ELSE Check(6, FALSE)
          /\ root = "open" /\ root' = root
      BY <2>2 DEF NewController, Rooted, Probing
    <3>2. CASE b
      BY <3>1, <3>2, Ranges DEF Checked
    <3>3. CASE ~b
      <4>1. checks'[6] = "fail" /\ \A k \in 1..7 \ {6} : checks'[k] = checks[k]
        BY <3>1, <3>3 DEF Check, Judged
      <4> QED BY <3>1, <3>3, <4>1, Ranges DEF Checked
    <3> QED BY <3>2, <3>3
  <2>3. CASE SelfTest(b, d)
    <3> DEFINE well == b /\ ~d
    <3>1. pc = "selfTest" /\ pc' = (IF well THEN "probe" ELSE "finish") /\ Check(6, well)
      BY <2>3 DEF SelfTest
    <3>2. /\ checks'[6] = (IF well THEN "pass" ELSE "fail")
          /\ \A k \in 1..7 \ {6} : checks'[k] = checks[k]
      BY <3>1 DEF Check, Judged
    <3> HIDE DEF well
    <3> QED BY <3>1, <3>2, Ranges DEF Checked
  <2>4. CASE ShutdownController(b)
    BY <2>4 DEF ShutdownController, Checked, All, Rooted, Probing
  <2> QED BY <1>4, <2>1, <2>2, <2>3, <2>4
<1>5. ASSUME NEW b \in BOOLEAN, NEW d \in BOOLEAN,
             FinishRun(b) \/ CloseSource(b) \/ Report(b, d)
      PROVE  Checked'
  <2>1. CASE FinishRun(b)
    <3>1. pc = "finishRoot" /\ pc' = "complete"
      BY <2>1 DEF FinishRun
    <3>2. CASE checks[4] = "fail"
      <4>1. checks' = checks
        BY <2>1, <3>1, <3>2 DEF FinishRun, Checked
      <4>2. ValidCore'
        BY <3>1, <3>2, <4>1 DEF Checked, ValidCore, All
      <4> QED BY <3>1, <4>2 DEF Checked
    <3>3. CASE checks[4] = "pass"
      <4>1. root = "open" /\ Check(7, ~cleanupFailed')
        BY <2>1, <3>1, <3>3 DEF FinishRun, Checked
      <4>2. checks'[7] # "skipped" /\ \A k \in 1..6 : checks'[k] = checks[k]
        BY <4>1 DEF Check, Judged
      <4>3. checks'[5] # "skipped" /\ ((checks'[5] = "fail") <=> (checks'[6] = "skipped"))
        BY <3>1, <3>3, <4>2 DEF Checked
      <4>4. \A k \in 1..3 : checks'[k] = "pass"
        BY <3>1, <4>2 DEF Checked, All
      <4>5. ValidCore'
        BY <3>3, <4>2, <4>3, <4>4 DEF ValidCore, All
      <4> QED BY <3>1, <4>5 DEF Checked
    <3>4. checks[4] \in {"pass", "fail"}
      BY <3>1 DEF Checked, Judged
    <3> QED BY <3>2, <3>3, <3>4
  <2>2. CASE CloseSource(b)
    BY <2>2 DEF CloseSource, Checked
  <2>3. CASE Report(b, d)
    BY <2>3 DEF Report, Checked
  <2> QED BY <1>5, <2>1, <2>2, <2>3
<1>6. ASSUME NotDiagnosed \/ NoneReady \/ Assemble \/ RowRefused \/ NewGateway \/ NewIDs \/ StartFails
      PROVE  Checked'
  BY <1>6 DEF NotDiagnosed, NoneReady, Assemble, RowRefused, NewGateway, NewIDs, StartFails, Checked
<1>7. ASSUME NEW p \in Providers,
             BuildProvider(p) \/ BuildFails(p)
      PROVE  Checked'
  BY <1>7, CheckedFrame DEF BuildProvider, BuildFails
<1>8. ASSUME Recheck \/ RecheckFails \/ Listen PROVE Checked'
  BY <1>8, CheckedFrame DEF Recheck, RecheckFails, Listen
<1>9. ASSUME Serving \/ Await \/ AwaitHttp \/ RetryGateway \/ Unwind \/ SupervisorsDown \/ AwaitServe
      PROVE  Checked'
  BY <1>9, CheckedFrame DEF Serving, Await, CloseListener, AwaitHttp, RetryGateway, Unwind, SupervisorsDown,
     AwaitServe
<1>10. ASSUME NEW b \in BOOLEAN,
             \/ ShutdownGateway(b) \/ LastJanitor(b) \/ CloseRoot(b)
             \/ \E p \in Providers : ShutdownSupervisor(p, b)
      PROVE  Checked'
  BY <1>10, CheckedFrame DEF ShutdownGateway, LastJanitor, CloseRoot, ShutdownSupervisor
<1>11. ASSUME Serve PROVE Checked'
  BY <1>11, CheckedFrame DEF Serve, ServeBegins, ServeReturns, HttpCloses, HttpReturns, BoundExpires,
     CloseListener
<1>12. ASSUME NEW r \in Requests, Request(r) PROVE Checked'
  BY <1>12, CheckedFrame DEF Request, Connect, Handles, Leaves, Refused, WorkStarts, WorkEnds
<1>13. ASSUME NEW o \in Requests \cup {"probe"}, Reaped(o) PROVE Checked'
  BY <1>13, CheckedFrame DEF Reaped
<1>14. ASSUME Signal \/ Edits \/ KeyAppears \/ UNCHANGED cliVars PROVE Checked'
  BY <1>14, CheckedFrame DEF Signal, Edits, KeyAppears, cliVars, appVars
<1>15. ASSUME InitMain PROVE Checked'
  BY <1>15, InitFrame, CheckedFrame DEF Planning, Prompts, diagVars, reportVars
<1> QED BY Movers, <1>1, <1>2, <1>3, <1>4, <1>5, <1>6, <1>7, <1>8, <1>9, <1>10, <1>11, <1>12,
    <1>13, <1>14, <1>15 DEF AppStart, AppStop

\* Each step of the diagnosis adds its row.
LEMMA ReportedStep ==
  ASSUME Judged, Checked, Reported, [CliNext]_cliVars
  PROVE  Reported'
<1> USE DEF To, Main, Quits, Plain, NoServer, Building, Diagnosing, Aside, OfHandler, workVars,
    diagVars, reportVars, NoDiag, NoRows, DropRows, Planning, Prompts, Loading, Phases
<1>1. ASSUME Load \/ LoadFails \/ StopsEarly \/ DependenciesFail \/ Diagnose PROVE Reported'
  BY <1>1, ReportedFrame DEF Load, LoadFails, StopsEarly, DependenciesFail, Diagnose
<1>2. ASSUME \/ RootRefused \/ OpenRoot \/ Probed \/ FinishDiagnosis \/ DoctorStops
             \/ \E bad \in SUBSET (1..3) : CheckEarly(bad)
      PROVE  Reported'
  <2>1. CASE RootRefused
    <3>1. checks'[4] = "fail" /\ pc' = "finishRoot" /\ probed = 0 /\ UNCHANGED <<rows, probed>>
      BY <2>1 DEF RootRefused, Check, Judged, Reported, Probes
    <3>2. ~All(1, 6, "pass")'
      BY <3>1 DEF All
    <3> QED BY <3>1, <3>2 DEF Reported, Probes
  <2>2. CASE OpenRoot
    BY <2>2 DEF OpenRoot, Reported, Probes
  <2>3. CASE Probed
    <3>1. All(1, 6, "pass")' /\ pc' = "finish"
      BY <2>3 DEF Probed, Checked, All
    <3> QED BY <2>3, <3>1, SortedFacts DEF Probed, Reported, Probes
  <2>4. CASE FinishDiagnosis
    <3>1. CASE pc' = "diagnosed"
      <4>1. pc = "complete" /\ UNCHANGED <<checks, rows, probed, cleanupFailed>>
        BY <2>4, <3>1 DEF FinishDiagnosis
      <4>2. All(1, 6, "pass")' <=> All(1, 6, "pass")
        BY <4>1 DEF All
      <4> QED BY <3>1, <4>1, <4>2 DEF Reported, Probes
    <3>2. CASE pc' # "diagnosed"
      BY <2>4, <3>2, Cleared DEF FinishDiagnosis
    <3> QED BY <3>1, <3>2
  <2>5. CASE DoctorStops
    BY <2>5, Cleared DEF DoctorStops
  <2>6. ASSUME NEW bad \in SUBSET (1..3), CheckEarly(bad) PROVE Reported'
    <3>1. probed = 0 /\ UNCHANGED <<rows, probed>>
      BY <2>6 DEF CheckEarly, Reported, Probes
    <3>2. CASE bad = {}
      BY <2>6, <3>1, <3>2 DEF CheckEarly, Reported, Probes
    <3>3. ASSUME NEW i \in bad PROVE Reported'
      <4>1. checks'[i] = "fail" /\ pc' = "complete"
        BY <2>6, <3>3 DEF CheckEarly
      <4>2. ~All(1, 6, "pass")'
        BY <4>1 DEF All
      <4> QED BY <3>1, <4>1, <4>2 DEF Reported, Probes
    <3> QED BY <3>2, <3>3
  <2> QED BY <1>2, <2>1, <2>2, <2>3, <2>4, <2>5, <2>6
<1>3. ASSUME Resolve PROVE Reported'
  <2>1. pc = "probe" /\ probed < Len(Sorted) /\ probed' = probed + 1 /\ checks' = checks
    BY <1>3 DEF Resolve
  <2>2. probed \in 0..Len(Sorted) /\ probed + 1 \in 1..Len(Sorted) /\ Sorted[probed + 1] \in Known
    BY <2>1, SortedFacts DEF Judged
  <2>3. PICK o \in OutcomesOf(Sorted[probed + 1]) :
               /\ cleanupFailed' = o.dirty
               /\ rows' = [rows EXCEPT ![probed + 1] = o.row]
               /\ pc' = IF o.dirty THEN "finish" ELSE "probe"
    BY <1>3, <2>2 DEF Resolve, Runs, Outcomes
  <2>4. o.dirty \in BOOLEAN /\ (o.dirty => ~PreprobeRow(Sorted[probed + 1], o.row))
    BY <2>2, Dirtiness, RowsAreAgreed DEF Outcomes
  <2>5. All(1, 6, "pass")'
    BY <2>1 DEF Checked, All
  <2>6. DOMAIN rows' = 1..Len(Sorted) /\ rows'[probed'] = o.row
    BY <2>1, <2>2, <2>3 DEF Reported
  <2>7. ASSUME NEW i \in 1..Len(Sorted)
        PROVE  IF i <= probed' THEN \E x \in OutcomesOf(Sorted[i]) : rows'[i] = x.row
                               ELSE rows'[i] = Skipped
    <3>1. CASE i = probed + 1
      BY <2>1, <2>2, <2>6, <3>1
    <3>2. CASE i # probed + 1
      <4>1. rows'[i] = rows[i] /\ (i <= probed' <=> i <= probed)
        BY <2>1, <2>2, <2>3, <3>2, SortedFacts DEF Reported
      <4> QED BY <4>1 DEF Reported
    <3> QED BY <3>1, <3>2
  <2>8. pc' = "finish" => cleanupFailed' /\ ~PreprobeRow(Sorted[probed'], rows'[probed']) /\ probed' > 0
    BY <2>1, <2>2, <2>3, <2>4, <2>6
  <2>9. pc' \in {"probe", "finish"}
    BY <2>3
  <2> QED BY <2>5, <2>6, <2>7, <2>8, <2>9 DEF Reported, Probes
<1>4. ASSUME NEW b \in BOOLEAN, NEW d \in BOOLEAN,
             Janitor(b) \/ NewController(b) \/ SelfTest(b, d) \/ ShutdownController(b)
      PROVE  Reported'
  <2>1. UNCHANGED <<rows, probed>>
    BY <1>4 DEF Janitor, NewController, SelfTest, ShutdownController
  <2>2. CASE Janitor(b) \/ NewController(b) \/ SelfTest(b, d)
    <3>1. probed = 0 /\ pc' \in {"controller", "selfTest", "probe", "finish", "finishRoot"}
      BY <2>2 DEF Janitor, NewController, SelfTest, Reported, Probes
    <3>2. pc' \in Probes => \E i \in {5, 6} : checks'[i] = "fail"
      <4>1. ASSUME Janitor(b), pc' \in Probes PROVE checks'[5] = "fail"
        BY <4>1 DEF Janitor, Check, Probes, Judged
      <4>2. ASSUME NewController(b), pc' \in Probes PROVE checks'[6] = "fail"
        BY <4>2 DEF NewController, Check, Probes, Judged
      <4>3. ASSUME SelfTest(b, d), pc' \in Probes PROVE checks'[6] = "fail"
        BY <4>3 DEF SelfTest, Check, Probes, Judged
      <4> QED BY <2>2, <4>1, <4>2, <4>3
    <3>3. pc' \in Probes => ~All(1, 6, "pass")'
      BY <3>2 DEF All
    <3> QED BY <2>1, <3>1, <3>3 DEF Reported
  <2>3. CASE ShutdownController(b)
    <3>1. /\ pc \in Probes /\ pc' \in {"finishRoot", "finishRetry"} /\ checks' = checks
          /\ cleanupFailed => cleanupFailed'
      BY <2>3 DEF ShutdownController, Probes
    <3>2. All(1, 6, "pass")' <=> All(1, 6, "pass")
      BY <3>1 DEF All
    <3> QED BY <2>1, <3>1, <3>2 DEF Reported, Probes
  <2> QED BY <1>4, <2>2, <2>3
<1>5. ASSUME NEW b \in BOOLEAN, NEW d \in BOOLEAN,
             FinishRun(b) \/ CloseSource(b) \/ Report(b, d)
      PROVE  Reported'
  <2>1. CASE FinishRun(b)
    <3>1. /\ pc = "finishRoot" /\ pc' = "complete" /\ UNCHANGED <<rows, probed>>
          /\ cleanupFailed => cleanupFailed'
      BY <2>1 DEF FinishRun
    <3>2. \A i \in 1..6 : checks'[i] = checks[i]
      BY <2>1 DEF FinishRun, Check, Judged
    <3>3. All(1, 6, "pass")' <=> All(1, 6, "pass")
      BY <3>2 DEF All
    <3>4. ASSUME All(1, 6, "pass"), cleanupFailed' PROVE checks'[7] = "fail"
      <4>1. root = "open"
        BY <3>1, <3>4 DEF Checked, All
      <4> QED BY <2>1, <3>4, <4>1 DEF FinishRun, Check, Judged
    <3> QED BY <3>1, <3>3, <3>4 DEF Reported, Probes
  <2>2. CASE CloseSource(b)
    BY <2>2, Cleared DEF CloseSource
  <2>3. CASE Report(b, d)
    BY <2>3, ReportedFrame DEF Report
  <2> QED BY <1>5, <2>1, <2>2, <2>3
<1>6. ASSUME NotDiagnosed \/ NoneReady \/ Assemble \/ RowRefused \/ NewGateway \/ NewIDs \/ StartFails
      PROVE  Reported'
  <2>1. CASE NotDiagnosed \/ NoneReady \/ Assemble \/ RowRefused
    BY <2>1, Cleared DEF NotDiagnosed, NoneReady, Assemble, RowRefused
  <2>2. CASE NewGateway \/ NewIDs \/ StartFails
    BY <2>2, ReportedFrame DEF NewGateway, NewIDs, StartFails
  <2> QED BY <1>6, <2>1, <2>2
<1>7. ASSUME NEW p \in Providers,
             BuildProvider(p) \/ BuildFails(p)
      PROVE  Reported'
  BY <1>7, ReportedFrame DEF BuildProvider, BuildFails
<1>8. ASSUME Recheck \/ RecheckFails \/ Listen PROVE Reported'
  BY <1>8, ReportedFrame DEF Recheck, RecheckFails, Listen
<1>9. ASSUME Serving \/ Await \/ AwaitHttp \/ RetryGateway \/ Unwind \/ SupervisorsDown \/ AwaitServe
      PROVE  Reported'
  BY <1>9, ReportedFrame DEF Serving, Await, CloseListener, AwaitHttp, RetryGateway, Unwind, SupervisorsDown,
     AwaitServe
<1>10. ASSUME NEW b \in BOOLEAN,
             \/ ShutdownGateway(b) \/ LastJanitor(b) \/ CloseRoot(b)
             \/ \E p \in Providers : ShutdownSupervisor(p, b)
      PROVE  Reported'
  BY <1>10, ReportedFrame DEF ShutdownGateway, LastJanitor, CloseRoot, ShutdownSupervisor
<1>11. ASSUME Serve PROVE Reported'
  BY <1>11, ReportedFrame DEF Serve, ServeBegins, ServeReturns, HttpCloses, HttpReturns, BoundExpires,
     CloseListener
<1>12. ASSUME NEW r \in Requests, Request(r) PROVE Reported'
  BY <1>12, ReportedFrame DEF Request, Connect, Handles, Leaves, Refused, WorkStarts, WorkEnds
<1>13. ASSUME NEW o \in Requests \cup {"probe"},
             Reaped(o)
      PROVE  Reported'
  BY <1>13, ReportedFrame DEF Reaped
<1>14. ASSUME Signal \/ Edits \/ KeyAppears \/ UNCHANGED cliVars PROVE Reported'
  BY <1>14, ReportedFrame DEF Signal, Edits, KeyAppears, cliVars, appVars
<1>15. ASSUME InitMain PROVE Reported'
  BY <1>15, InitFrame, ReportedFrame DEF Planning, Prompts, diagVars, reportVars
<1> QED BY Movers, <1>1, <1>2, <1>3, <1>4, <1>5, <1>6, <1>7, <1>8, <1>9, <1>10, <1>11, <1>12,
    <1>13, <1>14, <1>15 DEF AppStart, AppStop

-----------------------------------------------------------------------------
(* Types.                                                                   *)

\* What main, its server and its requests write is of the type.
LEMMA TypedStep ==
  ASSUME Judged, Typed, [CliNext]_cliVars
  PROVE  Typed'
<1> USE DEF To, Main, Quits, Plain, NoServer, Building, Diagnosing, Aside, OfHandler, workVars,
    netVars, ownVars, outVars, diagVars, reportVars, fileGroup, NoFile, NoDiag, NoRows, DropRows,
    Typed
<1>1. ASSUME Load \/ LoadFails \/ StopsEarly \/ DependenciesFail \/ Diagnose PROVE Typed'
  BY <1>1 DEF Load, LoadFails, StopsEarly, DependenciesFail, Diagnose
<1>2. ASSUME \/ RootRefused \/ OpenRoot \/ Probed \/ FinishDiagnosis \/ DoctorStops
             \/ \E bad \in SUBSET (1..3) : CheckEarly(bad)
      PROVE  Typed'
  <2>1. CASE RootRefused \/ OpenRoot
    BY <2>1 DEF RootRefused, OpenRoot
  <2>2. CASE Probed \/ DoctorStops
    BY <2>2 DEF Probed, DoctorStops
  <2>3. CASE FinishDiagnosis
    BY <2>3 DEF FinishDiagnosis
  <2>4. ASSUME NEW bad \in SUBSET (1..3), CheckEarly(bad) PROVE Typed'
    BY <2>4 DEF CheckEarly
  <2> QED BY <1>2, <2>1, <2>2, <2>3, <2>4
<1>3. ASSUME Resolve PROVE Typed'
  <2>1. PICK o \in Outcomes[Sorted[probed + 1]] :
               ready' = IF o.row.status = "ready" THEN ready \cup {Sorted[probed + 1]} ELSE ready
    BY <1>3 DEF Resolve
  <2>2. probed + 1 \in DOMAIN Sorted
    BY <1>3, SortedAssumption DEF Resolve, Judged
  <2>3. ready' \subseteq Providers
    BY <2>1, <2>2 DEF Providers, Typed
  <2>4. wait' \subseteq Requests \cup {"probe"}
    BY <1>3 DEF Resolve, Runs, Typed
  <2> QED BY <1>3, <2>3, <2>4 DEF Resolve, Runs, Typed
<1>4. ASSUME NEW b \in BOOLEAN, NEW d \in BOOLEAN,
             Janitor(b) \/ NewController(b) \/ SelfTest(b, d) \/ ShutdownController(b)
      PROVE  Typed'
  BY <1>4 DEF Janitor, NewController, SelfTest, Runs, ShutdownController
<1>5. ASSUME NEW b \in BOOLEAN, NEW d \in BOOLEAN,
             FinishRun(b) \/ CloseSource(b) \/ Report(b, d)
      PROVE  Typed'
  BY <1>5 DEF FinishRun, CloseSource, Report
<1>6. ASSUME NotDiagnosed \/ NoneReady \/ Assemble \/ RowRefused \/ NewGateway \/ NewIDs \/ StartFails
      PROVE  Typed'
  BY <1>6 DEF NotDiagnosed, NoneReady, Assemble, RowRefused, NewGateway, NewIDs, StartFails
<1>7. ASSUME NEW p \in Providers,
             BuildProvider(p) \/ BuildFails(p)
      PROVE  Typed'
  BY <1>7 DEF BuildProvider, BuildFails
<1>8. ASSUME Recheck \/ RecheckFails \/ Listen PROVE Typed'
  BY <1>8 DEF Recheck, RecheckFails, Listen
<1>9. ASSUME Serving \/ Await \/ AwaitHttp \/ RetryGateway \/ Unwind \/ SupervisorsDown \/ AwaitServe
      PROVE  Typed'
  BY <1>9 DEF Serving, Await, CloseListener, AwaitHttp, RetryGateway, Unwind, SupervisorsDown,
     AwaitServe
<1>10. ASSUME NEW b \in BOOLEAN,
             \/ ShutdownGateway(b) \/ LastJanitor(b) \/ CloseRoot(b)
             \/ \E p \in Providers : ShutdownSupervisor(p, b)
      PROVE  Typed'
  BY <1>10 DEF ShutdownGateway, LastJanitor, CloseRoot, ShutdownSupervisor
<1>11. ASSUME Serve PROVE Typed'
  BY <1>11 DEF Serve, ServeBegins, ServeReturns, HttpCloses, HttpReturns, BoundExpires,
     CloseListener
<1>12. ASSUME NEW r \in Requests, Request(r) PROVE Typed'
  BY <1>12 DEF Request, Connect, Handles, Leaves, Refused, WorkStarts, WorkEnds
<1>13. ASSUME NEW o \in Requests \cup {"probe"}, Reaped(o) PROVE Typed'
  BY <1>13 DEF Reaped
<1>14. ASSUME Signal \/ Edits \/ KeyAppears \/ UNCHANGED cliVars PROVE Typed'
  BY <1>14 DEF Signal, Edits, KeyAppears, cliVars, appVars
<1>15. ASSUME InitMain PROVE Typed'
  BY <1>15, InitFrame
<1> QED BY Movers, <1>1, <1>2, <1>3, <1>4, <1>5, <1>6, <1>7, <1>8, <1>9, <1>10, <1>11, <1>12,
    <1>13, <1>14, <1>15 DEF AppStart, AppStop

\* Main goes from one step to another.
LEMMA PhasedStep ==
  ASSUME Phased, [CliNext]_cliVars
  PROVE  Phased'
<1> USE DEF To, Main, Quits, Plain, NoServer, Building, Diagnosing, Aside, OfHandler, Loading,
    Phased, Early, Probing, Owns, Afterwards
<1>1. ASSUME Load \/ LoadFails \/ StopsEarly \/ DependenciesFail \/ Diagnose PROVE Phased'
  BY <1>1 DEF Load, LoadFails, StopsEarly, DependenciesFail, Diagnose
<1>2. ASSUME \/ RootRefused \/ OpenRoot \/ Probed \/ FinishDiagnosis \/ DoctorStops
             \/ \E bad \in SUBSET (1..3) : CheckEarly(bad)
      PROVE  Phased'
  BY <1>2 DEF RootRefused, OpenRoot, Probed, FinishDiagnosis, DoctorStops, CheckEarly
<1>3. ASSUME Resolve PROVE Phased'
  BY <1>3 DEF Resolve, Runs
<1>4. ASSUME NEW b \in BOOLEAN, NEW d \in BOOLEAN,
             Janitor(b) \/ NewController(b) \/ SelfTest(b, d) \/ ShutdownController(b)
      PROVE  Phased'
  BY <1>4 DEF Janitor, NewController, SelfTest, Runs, ShutdownController
<1>5. ASSUME NEW b \in BOOLEAN, NEW d \in BOOLEAN,
             FinishRun(b) \/ CloseSource(b) \/ Report(b, d)
      PROVE  Phased'
  BY <1>5 DEF FinishRun, CloseSource, Report
<1>6. ASSUME NotDiagnosed \/ NoneReady \/ Assemble \/ RowRefused \/ NewGateway \/ NewIDs \/ StartFails
      PROVE  Phased'
  BY <1>6 DEF NotDiagnosed, NoneReady, Assemble, RowRefused, NewGateway, NewIDs, StartFails
<1>7. ASSUME NEW p \in Providers,
             BuildProvider(p) \/ BuildFails(p)
      PROVE  Phased'
  BY <1>7 DEF BuildProvider, BuildFails
<1>8. ASSUME Recheck \/ RecheckFails \/ Listen PROVE Phased'
  BY <1>8 DEF Recheck, RecheckFails, Listen
<1>9. ASSUME Serving \/ Await \/ AwaitHttp \/ RetryGateway \/ Unwind \/ SupervisorsDown \/ AwaitServe
      PROVE  Phased'
  BY <1>9 DEF Serving, Await, CloseListener, AwaitHttp, RetryGateway, Unwind, SupervisorsDown,
     AwaitServe
<1>10. ASSUME NEW b \in BOOLEAN,
             \/ ShutdownGateway(b) \/ LastJanitor(b) \/ CloseRoot(b)
             \/ \E p \in Providers : ShutdownSupervisor(p, b)
      PROVE  Phased'
  BY <1>10 DEF ShutdownGateway, LastJanitor, CloseRoot, ShutdownSupervisor
<1>11. ASSUME Serve PROVE Phased'
  BY <1>11 DEF Serve, ServeBegins, ServeReturns, HttpCloses, HttpReturns, BoundExpires,
     CloseListener
<1>12. ASSUME NEW r \in Requests, Request(r) PROVE Phased'
  BY <1>12 DEF Request, Connect, Handles, Leaves, Refused, WorkStarts, WorkEnds
<1>13. ASSUME NEW o \in Requests \cup {"probe"}, Reaped(o) PROVE Phased'
  BY <1>13 DEF Reaped
<1>14. ASSUME Signal \/ Edits \/ KeyAppears \/ UNCHANGED cliVars PROVE Phased'
  BY <1>14 DEF Signal, Edits, KeyAppears, cliVars, appVars
<1>15. ASSUME InitMain PROVE Phased'
  BY <1>15, InitFrame DEF Planning, Prompts
<1> QED BY Movers, <1>1, <1>2, <1>3, <1>4, <1>5, <1>6, <1>7, <1>8, <1>9, <1>10, <1>11, <1>12,
    <1>13, <1>14, <1>15 DEF AppStart, AppStop

\* What init may report.
Results == {"none", "ready", "notReady", "failed", "recovery", "unknown", "usage", "canceled",
            "declined", "dryRun"}

\* A step that leaves what init knows alone.
LEMMA Kept ==
  ASSUME Asked, UNCHANGED <<flags, base, planVars, keyVars, keyFile, disk, saved, outcome>>
  PROVE  Asked'
BY DEF Asked, planVars, keyVars

\* A way out that forgets the plan, whatever it says.
LEMMA Forgotten ==
  ASSUME Forget, disk' \in {"base", "candidate"}, saved' \in BOOLEAN, outcome' \in Results
  PROVE  Asked'
BY DEF Asked, Forget, Results

\* A way out that leaves the files alone.
LEMMA Stopped ==
  ASSUME Asked, NEW result \in Results, Stops(result)
  PROVE  Asked'
<1>1. Forget /\ UNCHANGED <<disk, saved>> /\ outcome' \in Results
  BY DEF Stops, Ends
<1>2. disk' \in {"base", "candidate"} /\ saved' \in BOOLEAN
  BY <1>1 DEF Asked
<1> QED BY <1>1, <1>2, Forgotten

\* So is what init writes.
LEMMA AskedByInit ==
  ASSUME Asked, InitMain
  PROVE  Asked'
<1> USE DEF Turns
<1>1. ASSUME CancelInit \/ FailInit \/ RefuseInit \/ BeginInit \/ SelectBack \/ CollectBack
      PROVE  Asked'
  <2>1. CASE BeginInit \/ CollectBack
    BY <2>1, Kept DEF BeginInit, CollectBack
  <2>2. CASE SelectBack
    BY <2>2, Kept, Stopped DEF SelectBack, Results
  <2>3. CASE CancelInit \/ FailInit \/ RefuseInit
    BY <2>3, Stopped DEF CancelInit, FailInit, RefuseInit, Results
  <2> QED BY <1>1, <2>1, <2>2, <2>3
<1>2. ASSUME CollectKeyBack \/ Plan \/ PlanRefused \/ PlanCollides \/ ReviewBack \/ Decline
      PROVE  Asked'
  <2>1. CASE CollectKeyBack \/ PlanRefused \/ Decline
    BY <2>1, Stopped DEF CollectKeyBack, PlanRefused, Decline, Results
  <2>2. CASE PlanCollides \/ ReviewBack
    BY <2>2, Kept DEF PlanCollides, ReviewBack
  <2>3. CASE Plan
    BY <2>3 DEF Plan, SetKeyPlan, Asked
  <2> QED BY <1>2, <2>1, <2>2, <2>3
<1>3. ASSUME Preflight \/ ConfirmKey \/ PlanAgain \/ Confirm \/ DryRun \/ KeyUnconfirmed
      PROVE  Asked'
  <2>1. CASE DryRun \/ KeyUnconfirmed
    BY <2>1, Stopped DEF DryRun, KeyUnconfirmed, Results
  <2>2. CASE Confirm
    BY <2>2, Stopped, Kept DEF Confirm, Results
  <2>3. CASE Preflight
    BY <2>3 DEF Preflight, planVars, Asked
  <2>4. CASE ConfirmKey
    <3>1. allowExisting' \in BOOLEAN /\ keyAction' \in {"none", "inspect", "ensure"}
      BY <2>4 DEF ConfirmKey, Asked
    <3>2. agreed' \subseteq Entries \cup {"key"}
      BY <2>4 DEF ConfirmKey, Asked
    <3>3. UNCHANGED <<flags, base, selected, asked, auth, replace, resumed, keyState, keyFile,
                      disk, saved, outcome>>
      BY <2>4 DEF ConfirmKey
    <3> QED BY <3>1, <3>2, <3>3 DEF Asked
  <2>5. CASE PlanAgain
    BY <2>5 DEF PlanAgain, keyVars, Asked
  <2> QED BY <1>3, <2>1, <2>2, <2>3, <2>4, <2>5
<1>4. ASSUME BeginCommit \/ NothingToDo PROVE Asked'
  <2>1. CASE BeginCommit
    BY <2>1, Kept DEF BeginCommit, GoesOn
  <2>3. UNCHANGED <<disk, saved, outcome>>
        => disk' \in {"base", "candidate"} /\ saved' \in BOOLEAN /\ outcome' \in Results
    BY DEF Asked, Results
  <2>2. CASE NothingToDo
    BY <2>2, <2>3, Forgotten DEF NothingToDo
  <2> QED BY <1>4, <2>1, <2>2
<1>5. ASSUME Committed \/ NotCommitted \/ Undiagnosed PROVE Asked'
  <2>1. CASE Undiagnosed
    BY <2>1, Stopped DEF Undiagnosed, Results
  <2>2. saved \in BOOLEAN /\ disk \in {"base", "candidate"} /\ outcome \in Results
    BY DEF Asked, Results
  <2>3. CASE Committed
    BY <2>2, <2>3, Forgotten DEF Committed, Results
  <2>4. CASE NotCommitted
    BY <2>2, <2>4, Forgotten DEF Ends, NotCommitted, Results
  <2> QED BY <1>5, <2>1, <2>3, <2>4
<1>6. ASSUME NEW names \in SUBSET Names, Select(names) PROVE Asked'
  BY <1>6 DEF Select, keyVars, Asked
<1>7. ASSUME NEW granted \in SUBSET Entries, Review(granted) PROVE Asked'
  BY <1>7 DEF Review, SetKeyPlan, Asked
<1>8. ASSUME NEW a \in {"none", "file", "explicit"}, CollectKey(a) PROVE Asked'
  BY <1>8 DEF CollectKey, keyVars, Asked
<1>9. ASSUME NEW a \in {"none", "file", "explicit"}, NEW new \in SUBSET Entries, Collect(new, a)
      PROVE  Asked'
  <2>1. CASE Overlaid(a) = "clash"
    BY <1>9, <2>1, Stopped DEF Collect, Results
  <2>2. CASE Overlaid(a) # "clash"
    <3>1. auth' \in {"none", "file", "explicit", "keep"}
      <4>1. flags.auth \in {"keep", "none", "file", "explicit"}
        BY InitAssumption DEF Asked, NoFlags
      <4> QED BY <1>9, <2>2, <4>1 DEF Collect, Overlaid
    <3> QED BY <1>9, <2>2, <3>1 DEF Collect, keyVars, Asked
  <2> QED BY <2>1, <2>2
<1>10. ASSUME NEW w \in BOOLEAN, NEW c \in BOOLEAN, NEW r \in BOOLEAN, InitReport(w, c, r)
      PROVE  Asked'
  BY <1>10 DEF InitReport, planVars, keyVars, Asked
<1> QED BY <1>1, <1>2, <1>3, <1>4, <1>5, <1>6, <1>7, <1>8, <1>9, <1>10 DEF InitMain

\* Nothing else of the process writes it.
LEMMA AskedStep ==
  ASSUME Asked, [CliNext]_cliVars
  PROVE  Asked'
<1>1. CASE InitMain
  BY <1>1, AskedByInit
<1>2. CASE UNCHANGED initVars
  BY <1>2 DEF initVars, planVars, keyVars, Asked
<1>3. CASE KeyAppears
  BY <1>3 DEF KeyAppears, planVars, keyVars, Asked
<1> QED BY Movers, <1>1, <1>2, <1>3 DEF cliVars

-----------------------------------------------------------------------------
(* The inductive invariant.                                                 *)

\* Every part of it needs others of it.
IInv ==
  /\ Settled /\ Serviced /\ Owning /\ Employed /\ Sourced
  /\ Judged /\ Rooted /\ Checked /\ Reported /\ Told /\ Agreed /\ Pinned
  /\ Phased /\ Typed /\ Asked

\* A process that is started, and an init with its flags.
LEMMA Starts ==
  ASSUME CliInit
  PROVE  IInv
<1>1. /\ PinnedInit /\ HttpInit /\ DoctorInit
      /\ command \in {"serve", "doctor", "init"} /\ pc \in {"start", "init"} /\ ctxDone = FALSE
      /\ source = "none" /\ raced = FALSE /\ root = "none"
      /\ cleanupFailed = FALSE /\ runErr = FALSE /\ probed = 0
      /\ sups = {} /\ scheds = {} /\ gw = "none"
      /\ listener = "none" /\ srv = "none"
      /\ failed = FALSE /\ working = {} /\ wait = {}
  BY DEF CliInit, AppStarts
<1>2. flags = NoFlags \/ flags \in CommandLines
  BY DEF CliInit
<1>3. Settled
  <2>1. /\ step = [r \in Requests |-> "away"] /\ left = {} /\ answered = {}
        /\ handlers = 0 /\ readers = 0
    BY <1>1 DEF HttpInit
  <2>2. HttpTypeOK
    BY <2>1, HttpAssumption DEF HttpTypeOK
  <2>3. Admitted = {} /\ Readers = {}
    BY <2>1 DEF Admitted, Readers, Inside
  <2>4. Cardinality(Admitted) = 0 /\ Cardinality(Readers) = 0
    BY <2>3, FS_EmptySet
  <2> QED BY <2>1, <2>2, <2>4 DEF Settled, RequestsSettled, Admitted, Readers
<1>4. Serviced /\ Sourced
  BY <1>1 DEF Serviced, Sourced, Afterwards
<1>5. Owning
  BY <1>1 DEF Owning, Owns, Afterwards
<1>6. Employed
  <2>1. \A r \in Requests : step[r] = "away"
    BY <1>1 DEF HttpInit
  <2>2. working = {} /\ wait = {}
    BY <1>1
  <2> QED BY <2>1, <2>2 DEF Employed
<1>7. Judged
  <2>1. checks \in [1..7 -> {"pass", "fail", "skipped"}]
    BY <1>1 DEF DoctorInit, InitialChecks
  <2>2. probed \in 0..Len(Sorted)
    BY <1>1, SortedFacts
  <2> QED BY <1>1, <2>1, <2>2 DEF Judged
<1>8. Rooted
  BY <1>1 DEF Rooted, DoctorInit, Early, Probing, Owns, Planning, Prompts
<1>9. Told
  BY <1>1 DEF CliInit, Told
<1>10. Agreed
  <2>1. /\ asked = flags.asked /\ selected = flags.selected
        /\ replace = flags.replace /\ agreed = flags.replace
    BY DEF CliInit
  <2>2. flags.asked \cup flags.replace \subseteq Of(flags.selected)
    BY <1>2, InitAssumption DEF NoFlags
  <2>3. Of(flags.selected) \subseteq Entries
    BY DEF Of
  <2> QED BY <1>1, <2>1, <2>2, <2>3 DEF Agreed, Planned, Inspected
<1>11. Checked
  BY <1>1 DEF Checked
<1>12. Reported
  <2>1. DOMAIN Sorted = 1..Len(Sorted) /\ Len(Sorted) \in Nat
    BY SortedAssumption
  <2>2. DOMAIN rows = 1..Len(Sorted) /\ \A i \in 1..Len(Sorted) : rows[i] = Skipped /\ ~(i <= probed)
    BY <1>1, <2>1 DEF DoctorInit, SkippedRows
  <2> QED BY <1>1, <2>2 DEF Reported, Probes
<1>13. Pinned
  <2>1. /\ name = 0 /\ revision = 0 /\ pin = NoPin
        /\ body = [f \in Files |-> <<0, 0>>] /\ stamp = [f \in Files |-> 0]
    BY <1>1 DEF PinnedInit
  <2>2. 0 \in Revisions /\ 0 \in Files
    BY RevisionsAssumption DEF Revisions, Files
  <2> QED BY <1>1, <2>1, <2>2 DEF Pinned, NoPin, Read, Probing
<1>14. Phased
  BY <1>1 DEF Phased, Early, Planning
<1>15. Typed
  BY DEF CliInit, AppStarts, Typed
<1>16. Asked
  <2>1. base = NoBase \/ base \in Bases
    BY DEF CliInit
  <2>2. /\ selected = flags.selected /\ asked = flags.asked /\ auth = flags.auth
        /\ replace = flags.replace /\ agreed = flags.replace /\ keyFile \in BOOLEAN
    BY DEF CliInit
  <2>3. /\ flags.selected \subseteq Names /\ flags.asked \cup flags.replace \subseteq Of(flags.selected)
        /\ flags.auth \in {"keep", "none", "file", "explicit"}
    BY <1>2, InitAssumption DEF NoFlags
  <2>4. Of(flags.selected) \subseteq Entries
    BY DEF Of
  <2>5. /\ keyAction = "none" /\ keyState = "none" /\ resumed = FALSE /\ allowExisting = FALSE
        /\ saved = FALSE /\ disk = "base" /\ outcome = "none"
    BY DEF CliInit
  <2> QED BY <1>2, <2>1, <2>2, <2>3, <2>4, <2>5 DEF Asked
<1> QED BY <1>3, <1>4, <1>5, <1>6, <1>7, <1>8, <1>9, <1>10, <1>11, <1>12, <1>13, <1>14, <1>15,
    <1>16 DEF IInv

\* What holds of a process and of init holds after each of their steps.
LEMMA Continues ==
  ASSUME IInv, [CliNext]_cliVars
  PROVE  IInv'
<1> USE DEF IInv
<1>1. Settled'
  BY HttpMoves, SettledStep
<1>2. Serviced' /\ Sourced'
  BY ServicedStep, SourcedStep
<1>3. Owning'
  BY OwningStep
<1>4. Employed'
  BY EmployedStep DEF Settled
<1>5. Judged' /\ Rooted'
  BY JudgedStep, RootedStep
<1>6. Told'
  BY ToldStep
<1>7. Agreed'
  BY AgreedStep
<1>8. Checked' /\ Reported'
  BY CheckedStep, ReportedStep
<1>9. Pinned'
  BY PinnedStep
<1>10. Phased' /\ Typed' /\ Asked'
  BY PhasedStep, TypedStep, AskedStep
<1> QED BY <1>1, <1>2, <1>3, <1>4, <1>5, <1>6, <1>7, <1>8, <1>9, <1>10

\* The invariant of the process (internal/app): what main owns, what the handlers, the
\* diagnosis, the Snapshot and the plan of init are at each step of main.
THEOREM Inductive == CliSpec => []IInv
<1>1. CliInit => IInv
  BY Starts
<1>2. IInv /\ [CliNext]_cliVars => IInv'
  BY Continues
<1> QED BY <1>1, <1>2, PTL DEF CliSpec

\* Only a commit writes the configuration.
LEMMA DiskMoves ==
  ASSUME Told, InitMain
  PROVE  disk' = disk \/ (pc = "committing" /\ KeyAgrees)
<1> DEFINE OnCommit == disk' = disk \/ (pc = "committing" /\ KeyAgrees)
<1> USE DEF Turns, Stops, Ends, To, Forget
<1>1. ASSUME CancelInit \/ FailInit \/ RefuseInit \/ BeginInit \/ SelectBack \/ CollectBack
      PROVE  OnCommit
  BY <1>1 DEF CancelInit, FailInit, RefuseInit, BeginInit, SelectBack, CollectBack
<1>2. ASSUME CollectKeyBack \/ Plan \/ PlanRefused \/ PlanCollides \/ ReviewBack \/ Decline
      PROVE  OnCommit
  BY <1>2 DEF CollectKeyBack, Plan, PlanRefused, PlanCollides, ReviewBack, Decline
<1>3. ASSUME Preflight \/ ConfirmKey \/ PlanAgain \/ Confirm \/ DryRun \/ KeyUnconfirmed
      PROVE  OnCommit
  BY <1>3 DEF Preflight, ConfirmKey, PlanAgain, Confirm, DryRun, KeyUnconfirmed
<1>4. ASSUME BeginCommit \/ NothingToDo PROVE OnCommit
  BY <1>4 DEF BeginCommit, GoesOn, NothingToDo
<1>5. ASSUME Committed \/ NotCommitted \/ Undiagnosed
      PROVE  OnCommit
  BY <1>5 DEF Committed, NotCommitted, Undiagnosed, Told, Planning
<1>6. ASSUME NEW names \in SUBSET Names, Select(names)
      PROVE  OnCommit
  BY <1>6 DEF Select
<1>7. ASSUME NEW granted \in SUBSET Entries, Review(granted)
      PROVE  OnCommit
  BY <1>7 DEF Review
<1>8. ASSUME NEW a \in {"none", "file", "explicit"}, CollectKey(a)
      PROVE  OnCommit
  BY <1>8 DEF CollectKey
<1>9. ASSUME NEW a \in {"none", "file", "explicit"}, NEW new \in SUBSET Entries, Collect(new, a)
      PROVE  OnCommit
  BY <1>9 DEF Collect
<1>10. ASSUME NEW w \in BOOLEAN, NEW c \in BOOLEAN, NEW r \in BOOLEAN, InitReport(w, c, r)
      PROVE  OnCommit
  BY <1>10 DEF InitReport
<1> QED BY <1>1, <1>2, <1>3, <1>4, <1>5, <1>6, <1>7, <1>8, <1>9, <1>10 DEF InitMain

\* The listener waits for the end of the last look.
LEMMA LastLook ==
  ASSUME [CliNext]_cliVars, pc = "rechecked", pc' = "boundary"
  PROVE  RevalidateEnds
<1> DEFINE Last == pc = "rechecked" /\ pc' = "boundary" => RevalidateEnds
<1> USE DEF To, Main, Quits, Plain, NoServer, Building, Diagnosing, Aside, OfHandler, Loading
<1>1. ASSUME Load \/ LoadFails \/ StopsEarly \/ DependenciesFail \/ Diagnose PROVE Last
  BY <1>1 DEF Load, LoadFails, StopsEarly, DependenciesFail, Diagnose
<1>2. ASSUME \/ RootRefused \/ OpenRoot \/ Probed \/ FinishDiagnosis \/ DoctorStops
             \/ \E bad \in SUBSET (1..3) : CheckEarly(bad)
      PROVE  Last
  BY <1>2 DEF RootRefused, OpenRoot, Probed, FinishDiagnosis, DoctorStops, CheckEarly
<1>3. ASSUME Resolve PROVE Last
  BY <1>3 DEF Resolve, Runs
<1>4. ASSUME NEW b \in BOOLEAN, NEW d \in BOOLEAN,
             Janitor(b) \/ NewController(b) \/ SelfTest(b, d) \/ ShutdownController(b)
      PROVE  Last
  BY <1>4 DEF Janitor, NewController, SelfTest, Runs, ShutdownController
<1>5. ASSUME NEW b \in BOOLEAN, NEW d \in BOOLEAN,
             FinishRun(b) \/ CloseSource(b) \/ Report(b, d)
      PROVE  Last
  BY <1>5 DEF FinishRun, CloseSource, Report
<1>6. ASSUME NotDiagnosed \/ NoneReady \/ Assemble \/ RowRefused \/ NewGateway \/ NewIDs \/ StartFails
      PROVE  Last
  BY <1>6 DEF NotDiagnosed, NoneReady, Assemble, RowRefused, NewGateway, NewIDs, StartFails
<1>7. ASSUME NEW p \in Providers,
             BuildProvider(p) \/ BuildFails(p)
      PROVE  Last
  BY <1>7 DEF BuildProvider, BuildFails
<1>8. ASSUME Recheck \/ RecheckFails \/ Listen PROVE Last
  BY <1>8 DEF Recheck, RecheckFails, Listen
<1>9. ASSUME Serving \/ Await \/ AwaitHttp \/ RetryGateway \/ Unwind \/ SupervisorsDown \/ AwaitServe
      PROVE  Last
  BY <1>9 DEF Serving, Await, CloseListener, AwaitHttp, RetryGateway, Unwind, SupervisorsDown,
     AwaitServe
<1>10. ASSUME NEW b \in BOOLEAN,
             \/ ShutdownGateway(b) \/ LastJanitor(b) \/ CloseRoot(b)
             \/ \E p \in Providers : ShutdownSupervisor(p, b)
      PROVE  Last
  BY <1>10 DEF ShutdownGateway, LastJanitor, CloseRoot, ShutdownSupervisor
<1>11. ASSUME Serve PROVE Last
  BY <1>11 DEF Serve, ServeBegins, ServeReturns, HttpCloses, HttpReturns, BoundExpires,
     CloseListener
<1>12. ASSUME NEW r \in Requests, Request(r) PROVE Last
  BY <1>12 DEF Request, Connect, Handles, Leaves, Refused, WorkStarts, WorkEnds
<1>13. ASSUME NEW o \in Requests \cup {"probe"}, Reaped(o) PROVE Last
  BY <1>13 DEF Reaped
<1>14. ASSUME Signal \/ Edits \/ KeyAppears \/ UNCHANGED cliVars PROVE Last
  BY <1>14 DEF Signal, Edits, KeyAppears, cliVars, appVars
<1>15. ASSUME InitMain PROVE Last
  BY <1>15, InitFrame DEF Planning, Prompts
<1> QED BY Movers, <1>1, <1>2, <1>3, <1>4, <1>5, <1>6, <1>7, <1>8, <1>9, <1>10, <1>11, <1>12,
    <1>13, <1>14, <1>15 DEF AppStart, AppStop

-----------------------------------------------------------------------------
(* The theorems.                                                            *)

\* On whichever early return of ServeHTTP and handleResponses a handler leaves, its slots
\* of handlerGate and bodyReaderGate are given back, and whoever stayed was answered.
THEOREM SlotsAreSettled == CliSpec => []RequestsSettled
<1>1. IInv => RequestsSettled
  BY DEF IInv, Settled
<1> QED BY <1>1, Inductive, PTL

\* shutdownServingRuntime, unwindRuntime and finishRun: the janitor sweeps and the root is
\* closed only when no request, process, supervisor or scheduler uses it.
THEOREM RootIsLast == CliSpec => []RootOutlivesUsers
<1>1. ASSUME IInv, pc \in {"lastJanitor", "closeRoot"} \/ root = "closed"
      PROVE  working = {} /\ wait = {} /\ sups = {} /\ scheds = {} /\ gw # "up"
  <2>1. pc \notin Owns \cup Probing
    BY <1>1 DEF IInv, Rooted, Owns, Probing
  <2>2. sups = {} /\ scheds = {} /\ gw \in {"none", "drained"}
    BY <1>1, <2>1 DEF IInv, Owning
  <2>3. working = {} /\ wait = {}
    BY <1>1, <2>1, <2>2 DEF IInv, Employed, Probing
  <2> QED BY <2>2, <2>3
<1>2. IInv => RootOutlivesUsers
  BY <1>1 DEF RootOutlivesUsers
<1> QED BY <1>2, Inductive, PTL

\* Serve, RunDoctor and Init end, on whatever way, with everything they took given back.
THEOREM NothingIsKept == CliSpec => []AllGivenBack
<1>1. ASSUME IInv, pc = "ended"
      PROVE  /\ root # "open" /\ source # "open" /\ listener # "open"
             /\ srv \in {"none", "closed", "failed"}
             /\ sups = {} /\ scheds = {} /\ gw \in {"none", "drained"}
  BY <1>1 DEF IInv, Rooted, Sourced, Serviced, Owning, Owns
<1>2. IInv => AllGivenBack
  BY <1>1 DEF AllGivenBack
<1> QED BY <1>2, Inductive, PTL

\* interpretInitCommit and the report of init: what is said to be saved is on the disk.
THEOREM OutcomesAreTrue == CliSpec => []OutcomeIsTrue
<1>1. IInv => OutcomeIsTrue
  BY DEF IInv, Told, OutcomeIsTrue
<1> QED BY <1>1, Inductive, PTL

\* PlanMerge, the prompts and Commit: whatever way back and forth led to a commit, what it
\* changes was selected, and what it replaces or reuses was agreed to.
THEOREM OnlyTheAgreed == CliSpec => CommitsOnlyTheAgreed
<1>1. ASSUME IInv, CliNext, disk' # disk
      PROVE  /\ ~flags.dryRun /\ asked \subseteq Of(selected) /\ Collisions \subseteq agreed
             /\ KeyAgreed
  <2>1. pc = "committing" /\ KeyAgrees
    <3>1. InitMain
      BY <1>1, Movers DEF KeyAppears, cliVars, initVars
    <3> QED BY <1>1, <3>1, DiskMoves DEF IInv
  <2>2. Agreed /\ pc \in Planned /\ pc \in Inspected
    BY <1>1, <2>1 DEF IInv, Planned, Inspected
  <2>3. ~flags.dryRun /\ asked \subseteq Of(selected) /\ Collisions \subseteq agreed
    BY <2>1, <2>2 DEF Agreed
  <2>4. ASSUME keyAction = "ensure", "key" \notin agreed
        PROVE  base.auth # "file" /\ (~keyFile \/ auth = "explicit")
    <3>1. base.auth # "file"
      BY <2>2, <2>4 DEF Agreed
    <3>2. keyState \in {"missing", "reusable"}
      BY <2>1, <2>2, <2>4 DEF Agreed, KeyAgrees
    <3>3. keyState = "missing" => ~keyFile
      BY <2>1 DEF KeyAgrees
    <3>4. keyState = "reusable" => auth = "explicit"
      BY <2>2, <2>4 DEF Agreed
    <3> QED BY <3>1, <3>2, <3>3, <3>4
  <2> QED BY <2>3, <2>4 DEF KeyAgreed
<1>2. IInv /\ [CliNext]_cliVars
      => [disk' # disk => /\ ~flags.dryRun /\ asked \subseteq Of(selected)
                          /\ Collisions \subseteq agreed /\ KeyAgreed]_cliVars
  BY <1>1
<1> QED BY <1>2, Inductive, PTL DEF CliSpec, CommitsOnlyTheAgreed

\* configsource.Revalidate before Listen: what is served is the revision that the path
\* names, unless an edit overlaps the revalidation itself.
THEOREM ServedAsRead == CliSpec => ServesWhatItRead
<1>1. ASSUME IInv, [CliNext]_cliVars, pc = "rechecked", pc' = "boundary", ~raced
      PROVE  pin.raw = body[name]
  <2>1. RevalidateEnds
    BY <1>1, LastLook
  <2>2. /\ body[name][1] = pin.raw[1] /\ body[name][2] = pin.raw[2]
    BY <1>1, <2>1 DEF IInv, Pinned, RevalidateEnds, Evidence, Same
  <2>3. /\ body[name] \in Revisions \X Revisions
        /\ pin.raw \in Seq(Revisions) /\ Len(pin.raw) = 2
    BY <1>1 DEF IInv, Pinned, Read
  <2> QED BY <2>2, <2>3
<1>2. IInv /\ [CliNext]_cliVars
      => [pc = "rechecked" /\ pc' = "boundary" => raced \/ pin.raw = body[name]]_appVars
  BY <1>1
<1> QED BY <1>2, Inductive, PTL DEF CliSpec, ServesWhatItRead

\* What NewProviderRuntime does with the i-th row.
Passes(i) == Accepts(Sorted[i], rows[i]) <=> CanonicalVersion(rows[i].version)

\* A complete diagnosis passes validateReport, and behind one that passed there is a row of
\* resolveProvider for every provider.
LEMMA Validated ==
  ASSUME Judged, Checked, Reported, pc \in {"complete", "diagnosed"}
  PROVE  /\ ValidReport
         /\ CoreReady => \A i \in DOMAIN Sorted : Passes(i)
<1> DEFINE missing == {i \in DOMAIN rows : rows[i] = Skipped}
<1>1. /\ DOMAIN rows = 1..Len(Sorted) /\ DOMAIN Sorted = 1..Len(Sorted)
      /\ Len(Sorted) \in Nat /\ probed \in 0..Len(Sorted)
  BY SortedAssumption DEF Reported, Judged
<1>2. ASSUME NEW i \in 1..Len(Sorted), i <= probed
      PROVE  ValidRow(Sorted[i], rows[i]) /\ Passes(i) /\ rows[i] # Skipped
  <2>1. PICK o \in OutcomesOf(Sorted[i]) : rows[i] = o.row
    BY <1>2 DEF Reported
  <2>2. Sorted[i] \in Known
    BY SortedFacts
  <2> QED BY <2>1, <2>2, RowsAreAgreed DEF Passes
<1>3. ASSUME NEW i \in 1..Len(Sorted), ~(i <= probed)
      PROVE  rows[i] = Skipped
  BY <1>3 DEF Reported
<1>4. \A i \in 1..Len(Sorted) : i \in missing <=> i > probed
  BY <1>1, <1>2, <1>3
<1> HIDE DEF missing
<1>5. CASE ~All(1, 6, "pass")
  <2>1. probed = 0
    BY <1>5 DEF Reported, Probes
  <2>2. missing = DOMAIN rows
    BY <1>1, <1>4, <2>1 DEF missing
  <2>3. ValidRows
    BY <1>5, <2>2 DEF ValidRows, missing
  <2>4. ~CoreReady
    BY <1>5 DEF CoreReady, All
  <2> QED BY <2>3, <2>4 DEF ValidReport, Checked
<1>6. CASE All(1, 6, "pass")
  <2>1. \A i \in DOMAIN rows \ missing : ValidRow(Sorted[i], rows[i]) /\ \A j \in missing : i < j
    <3>1. missing \subseteq 1..Len(Sorted)
      BY <1>1 DEF missing
    <3> QED BY <1>1, <1>2, <1>4, <3>1
  <2>2. ASSUME probed < Len(Sorted)
        PROVE  /\ checks[7] = "fail"
               /\ \E i \in DOMAIN rows \ missing :
                    i + 1 \in missing /\ ~PreprobeRow(Sorted[i], rows[i])
    <3>1. probed > 0 /\ cleanupFailed /\ ~PreprobeRow(Sorted[probed], rows[probed])
      BY <1>6, <2>2 DEF Reported, Probes
    <3>2. checks[7] = "fail"
      BY <1>6, <3>1 DEF Reported
    <3>3. probed \in DOMAIN rows \ missing /\ probed + 1 \in missing
      BY <1>1, <1>4, <2>2, <3>1
    <3> QED BY <3>1, <3>2, <3>3
  <2>3. missing # {} => probed < Len(Sorted)
    <3>1. missing \subseteq 1..Len(Sorted)
      BY <1>1 DEF missing
    <3>2. ASSUME NEW i \in missing PROVE probed < Len(Sorted)
      <4>1. i \in 1..Len(Sorted) /\ i > probed
        BY <1>4, <3>1, <3>2
      <4> QED BY <1>1, <4>1
    <3> QED BY <3>2
  <2>4. ValidRows
    BY <1>6, <2>1, <2>2, <2>3 DEF ValidRows, missing
  <2>5. CoreReady => \A i \in DOMAIN Sorted : Passes(i)
    <3>1. CoreReady => checks[7] = "pass"
      BY DEF CoreReady, All
    <3>2. CoreReady => probed = Len(Sorted)
      <4>1. ASSUME ~(probed < Len(Sorted)) PROVE probed = Len(Sorted)
        <5>1. probed \in Int /\ Len(Sorted) \in Int /\ probed <= Len(Sorted)
          BY <1>1
        <5> QED BY <4>1, <5>1
      <4>2. ASSUME probed < Len(Sorted) PROVE ~CoreReady
        <5>1. checks[7] = "fail"
          BY <2>2, <4>2
        <5> QED BY <3>1, <5>1
      <4> QED BY <4>1, <4>2
    <3> QED BY <1>1, <1>2, <3>2
  <2> QED BY <2>4, <2>5 DEF ValidReport, Checked
<1> QED BY <1>5, <1>6

\* doctor.Run, canonicalizeHealth, validateReport and NewProviderRuntime, whose rules for a
\* row are written down three times: they differ in the length of a version, which only
\* NewProviderRuntime bounds, and in nothing else.
THEOREM DiagnosisIsSound == CliSpec => []DiagnosisHolds
<1>1. ASSUME IInv
      PROVE  /\ pc = "complete" => ValidReport /\ RowsAgree
             /\ pc = "diagnosed" /\ CoreReady => \A i \in DOMAIN Sorted : Passes(i)
  BY <1>1, Validated, RowsAreAgreed DEF IInv
<1>2. IInv => DiagnosisHolds
  BY <1>1 DEF DiagnosisHolds, Passes
<1> QED BY <1>2, Inductive, PTL

\* The rows have the type of a diagnosis.
LEMMA RowsHaveType ==
  ASSUME Judged, Reported
  PROVE  DoctorTypeOK
<1>1. ASSUME NEW i \in DOMAIN Sorted
      PROVE  /\ rows[i].status \in {"ready", "not_ready", "unknown"}
             /\ rows[i].auth \in {"authenticated", "configured", "missing", "unknown"}
  <2>1. i \in 1..Len(Sorted) /\ Sorted[i] \in Known
    BY <1>1, SortedAssumption
  <2>2. CASE i <= probed
    <3>1. PICK o \in OutcomesOf(Sorted[i]) : rows[i] = o.row
      BY <2>1, <2>2 DEF Reported
    <3>2. ValidRow(Sorted[i], rows[i])
      BY <2>1, <3>1, RowsAreAgreed
    <3>3. rows[i].status \in {"ready", "not_ready", "unknown"}
      BY <3>2 DEF ValidRow, ProofRow, PreprobeRow
    <3>4. rows[i].auth \in {"authenticated", "configured", "missing", "unknown"}
      BY <3>2 DEF ValidRow, AuthValues
    <3> QED BY <3>3, <3>4
  <2>3. CASE ~(i <= probed)
    <3>1. rows[i] = Skipped
      BY <2>1, <2>3 DEF Reported
    <3>2. Skipped.status = "unknown" /\ Skipped.auth = "unknown"
      BY DEF Skipped
    <3> QED BY <3>1, <3>2
  <2> QED BY <2>2, <2>3
<1> QED BY <1>1 DEF DoctorTypeOK, Judged

\* The state of a gateway's process and of init.
THEOREM TypesHold == CliSpec => []InitTypeOK
<1>1. ASSUME IInv PROVE PinnedTypeOK
  <2>1. pin \in [file : Files, meta : Revisions, raw : Seq(Revisions)]
    BY <1>1 DEF IInv, Pinned
  <2>2. Len(pin.raw) <= 2
    BY <1>1 DEF IInv, Pinned
  <2>3. Len(pin.raw) \in Nat /\ pin.raw \in [1..Len(pin.raw) -> Revisions]
    BY <2>1
  <2>4. Len(pin.raw) \in 0..2
    <3>1. \A n \in Nat : n <= 2 => n \in 0..2
      OBVIOUS
    <3> QED BY <2>2, <2>3, <3>1, Zenon
  <2>5. pin.raw \in UNION {[1..n -> Revisions] : n \in 0..2}
    BY <2>3, <2>4
  <2> QED BY <1>1, <2>1, <2>5 DEF IInv, Pinned, PinnedTypeOK
<1>2. ASSUME IInv PROVE HttpTypeOK /\ DoctorTypeOK
  BY <1>1, <1>2, RowsHaveType DEF IInv, Settled
<1>3. ASSUME IInv, pc \notin Planning PROVE AppTypeOK
  BY <1>1, <1>2, <1>3 DEF IInv, Judged, Rooted, Phased, Typed, AppTypeOK, Early, Probing, Owns, Afterwards
<1>4. ASSUME IInv
      PROVE  InitTypeOK
  BY <1>3, <1>4 DEF IInv, Asked, InitTypeOK
<1> QED BY <1>4, Inductive, PTL

=============================================================================
