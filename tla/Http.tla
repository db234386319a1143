-------------------------------- MODULE Http --------------------------------
(***************************************************************************)
(* The HTTP boundary (internal/httpapi/server.go): one handler goroutine   *)
(* per request, the two try-acquire gates, the body with its deadline, the *)
(* call of the backend and the answer that is suppressed if the client     *)
(* left.  What the backend does is the business of the module that EXTENDS *)
(* this one; headers, bodies and answers are the decisions they lead to.   *)
(***************************************************************************)
EXTENDS Naturals, FiniteSets

CONSTANTS Requests, HandlerLimit, BodyReaderLimit

ASSUME HttpAssumption ==
  /\ IsFiniteSet(Requests)
  /\ HandlerLimit \in Nat \ {0} /\ BodyReaderLimit \in 1..HandlerLimit

VARIABLES
  step,      \* where each handler is
  left,      \* the requests whose context is done
  answered,  \* the requests that were answered
  handlers, readers  \* tokens in handlerGate and bodyReaderGate

gates == <<handlers, readers>>
httpVars == <<step, left, answered, gates>>

\* Steps of a handler that took a slot of handlerGate.
Inside == {"gated", "body", "decoded", "responding", "publish", "publishAlways", "leaving"}

HttpTypeOK ==
  /\ step \in [Requests -> Inside \cup {"away", "accepted", "publishBusy", "gone"}]
  /\ left \subseteq Requests /\ answered \subseteq Requests
  /\ handlers \in 0..HandlerLimit /\ readers \in 0..BodyReaderLimit

HttpInit ==
  /\ step = [r \in Requests |-> "away"]
  /\ left = {} /\ answered = {}
  /\ handlers = 0 /\ readers = 0

Goes(r, s) == step' = [step EXCEPT ![r] = s]

\* A connection is accepted and a handler started for its request.
Accept(r) ==
  /\ step[r] = "away"
  /\ Goes(r, "accepted")
  /\ UNCHANGED <<left, answered, gates>>

TakeHandler(r) ==
  /\ step[r] = "accepted"
  /\ handlers < HandlerLimit
  /\ handlers' = handlers + 1
  /\ Goes(r, "gated")
  /\ UNCHANGED <<left, answered, readers>>

NoHandler(r) ==
  /\ step[r] = "accepted"
  /\ handlers = HandlerLimit
  /\ Goes(r, "publishBusy")
  /\ UNCHANGED <<left, answered, gates>>

\* Host, query, authorization, path, method, type or encoding are refused, the
\* models are asked for, or the body slots are taken (which is one more refusal).
AnswerUnread(r) ==
  /\ step[r] = "gated"
  /\ Goes(r, "publish")
  /\ UNCHANGED <<left, answered, gates>>

TakeReader(r) ==
  /\ step[r] = "gated"
  /\ readers < BodyReaderLimit
  /\ readers' = readers + 1
  /\ Goes(r, "body")
  /\ UNCHANGED <<left, answered, handlers>>

\* What readAndDecode comes to.  The deadline it installed is answered whether or
\* not the context is done; any other failure is silent then.
BodyEnds(r) ==
  IF r \in left THEN {"leaving", "publishAlways"}
                ELSE {"decoded", "publish", "publishAlways"}

\* Slip: the slot is given back only when the body was decoded.
ReadBodyKeeps(r) ==
  /\ step[r] = "body"
  /\ \E s \in BodyEnds(r) :
       Goes(r, s) /\ readers' = IF s = "decoded" THEN readers - 1 ELSE readers
  /\ UNCHANGED <<left, answered, handlers>>

\* readAndDecode returns and the slot is given back.
ReadBody(r) ==
  /\ step[r] = "body"
  /\ readers' = readers - 1
  /\ \E s \in BodyEnds(r) : Goes(r, s)
  /\ UNCHANGED <<left, answered, handlers>>

\* The backend is called, unless the client left.
Respond(r) ==
  /\ step[r] = "decoded"
  /\ Goes(r, IF r \in left THEN "leaving" ELSE "responding")
  /\ UNCHANGED <<left, answered, gates>>

\* The backend answered, with a result or an error.
Responded(r) ==
  /\ step[r] = "responding"
  /\ Goes(r, "publish")
  /\ UNCHANGED <<left, answered, gates>>

\* publishWithPolicies.
Write(r) ==
  /\ step[r] \in {"publish", "publishAlways", "publishBusy"}
  /\ answered' = IF r \in left /\ step[r] # "publishAlways" THEN answered
                 ELSE answered \cup {r}
  /\ Goes(r, IF step[r] = "publishBusy" THEN "gone" ELSE "leaving")
  /\ UNCHANGED <<left, gates>>

\* The deferred release of the handler's slot.
Leave(r) ==
  /\ step[r] = "leaving"
  /\ handlers' = handlers - 1
  /\ Goes(r, "gone")
  /\ UNCHANGED <<left, answered, readers>>

\* Handlers that have not returned.
Active == {r \in Requests : step[r] \notin {"away", "gone"}}

\* The client goes away, at a step that looks at its context (or before it).
ClientLeaves(r) ==
  /\ step[r] \in {"body", "decoded", "publish", "publishBusy"} /\ r \notin left
  /\ left' = left \cup {r}
  /\ UNCHANGED <<step, answered, gates>>

\* http.Server.Close closes every connection: the contexts of their requests end.
ConnectionsClose == left' = left \cup Active /\ UNCHANGED <<step, answered, gates>>

Handler(r) ==
  \/ TakeHandler(r) \/ NoHandler(r) \/ AnswerUnread(r) \/ TakeReader(r) \/ ReadBody(r)
  \/ Respond(r) \/ Write(r) \/ Leave(r)

(* A slot is taken exactly while its handler needs it, on whichever of the    *)
(* early returns of ServeHTTP and handleResponses the handler leaves; and a    *)
(* request whose client stayed is answered before its handler returns.         *)
RequestsSettled ==
  /\ handlers = Cardinality({r \in Requests : step[r] \in Inside})
  /\ readers = Cardinality({r \in Requests : step[r] = "body"})
  /\ \A r \in Requests : step[r] = "gone" /\ r \notin left => r \in answered
=============================================================================
