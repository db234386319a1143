------------------------------- MODULE Replies -------------------------------
(* What a request comes to: the checks of ServeHTTP and DecodeRequest in their order, *)
(* the errors Respond makes of what happened, and what publishWithPolicies writes and   *)
(* logs. The packages httpapi, gateway, core and observability each hold closed sets    *)
(* of codes, parameters and metadata. A string is the set of strings of its check, a     *)
(* JSON value is its kind, what a check compares, and its bytes.                        *)
EXTENDS Integers, Sequences

CONSTANTS
  InputBytes, InstructionsBytes, SchemaBytes,   \* RequestLimits
  FinalBytes,
  FormatNames,   \* the strings of formatNamePattern
  AliasNames,    \* the strings of aliasPattern and modelAliasPattern
  Versions,      \* the canonical provider versions
  Served         \* the provider of each configured alias

ProviderNames == {"codex", "claude", "gemini"}

ASSUME RepliesAssumption ==
  /\ {InputBytes, InstructionsBytes, SchemaBytes, FinalBytes} \subseteq Nat \ {0}
  /\ DOMAIN Served \subseteq AliasNames
  /\ \A a \in DOMAIN Served : Served[a] \in ProviderNames
  /\ "" \notin AliasNames

-----------------------------------------------------------------------------
(* The catalog of errors: a code and a parameter, "" for none.               *)

StatusOf ==
  [invalid_json |-> 400, invalid_request |-> 400, unsupported_parameter |-> 400,
   invalid_json_schema |-> 400, invalid_bearer_key |-> 401, not_found |-> 404,
   model_not_found |-> 404, method_not_allowed |-> 405, request_timeout |-> 408,
   request_too_large |-> 413, unsupported_media_type |-> 415, server_busy |-> 429,
   queue_full |-> 429, provider_rate_limited |-> 429, queue_timeout |-> 503,
   provider_not_ready |-> 503, provider_auth_required |-> 503, service_shutting_down |-> 503,
   provider_timeout |-> 504, output_limit_exceeded |-> 502, provider_protocol_error |-> 502,
   structured_output_invalid |-> 502, provider_failed |-> 502, process_cleanup_failed |-> 500,
   internal_error |-> 500]
Codes == DOMAIN StatusOf

Error(code, param) ==
  IF code \in Codes THEN [code |-> code, param |-> param] ELSE [code |-> "internal_error", param |-> ""]
InternalError == Error("internal_error", "")
NoError == [code |-> "", param |-> ""]

\* A check of a sequence that stops at the first that is bad.
Refuse(bad, code, param) == [bad |-> bad, error |-> Error(code, param)]
Failing(checks) == {i \in DOMAIN checks : checks[i].bad}
FirstError(checks) ==
  {checks[i].error : i \in {j \in Failing(checks) : \A k \in Failing(checks) : j =< k}}

-----------------------------------------------------------------------------
(* DecodeRequest.                                                            *)

TopFields == {"model", "instructions", "input", "text", "stream", "store", "tools", "tool_choice"}
SchemaFields ==
  {"text.format.type", "text.format.name", "text.format.description", "text.format.strict",
   "text.format.schema"}
Fields == TopFields \cup {"text.format"} \cup SchemaFields

Nothing == [is |-> "absent", says |-> "", bytes |-> 0]
Values ==
  {v \in [is : {"absent", "null", "bool", "number", "string", "array", "object"},
          says : STRING, bytes : Nat] :
     /\ v.is = "string" => (v.bytes = 0 <=> v.says = "")
     /\ v.is = "object" => v.bytes >= 2}
\* What safejson.Parse made of the bytes; the objects with a field outside the ones above.
Bodies ==
  [parse : {"ok", "encoding", "nul", "syntax", "duplicate", "trailing", "root", "limit"},
   strange : SUBSET {"", "text", "text.format"}, at : [Fields -> Values]]

RequiredTypedString(b, f) == <<Refuse(b.at[f].is # "string", "invalid_request", f)>>
RequiredString(b, f) == RequiredTypedString(b, f) \o <<Refuse(b.at[f].bytes = 0, "invalid_request", f)>>
OptionalStringOrNull(b, f) ==
  <<Refuse(b.at[f].is \notin {"absent", "null", "string"}, "invalid_request", f)>>
OptionalString(b, f) == <<Refuse(b.at[f].is \notin {"absent", "string"}, "invalid_request", f)>>
OptionalExact(b, f, kind, want) ==
  <<Refuse(b.at[f].is \notin {"absent", kind}, "invalid_request", f),
    Refuse(b.at[f].is = kind /\ b.at[f].says # want, "unsupported_parameter", f)>>
RequiredExactBool(b, f, want) ==
  <<Refuse(b.at[f].is # "bool", "invalid_request", f),
    Refuse(b.at[f].says # want, "unsupported_parameter", f)>>
OptionalEmptyArray(b, f) ==
  <<Refuse(b.at[f].is \notin {"absent", "array"}, "invalid_request", f),
    Refuse(b.at[f].is = "array" /\ b.at[f].bytes # 0, "unsupported_parameter", f)>>
TooLarge(b, f, limit) ==
  <<Refuse(b.at[f].is = "string" /\ b.at[f].bytes > limit, "request_too_large", f)>>

Parsing(b) ==
  <<Refuse(b.parse \in {"syntax", "duplicate", "trailing"}, "invalid_json", ""),
    Refuse(b.parse # "ok", "invalid_request", ""),
    Refuse("" \in b.strange, "unsupported_parameter", "")>>

DecodeSchemaFormat(b) ==
  <<Refuse("text.format" \in b.strange, "unsupported_parameter", "text.format")>>
  \o RequiredTypedString(b, "text.format.name")
  \o <<Refuse(b.at["text.format.name"].says \notin FormatNames,
              "unsupported_parameter", "text.format.name")>>
  \o OptionalString(b, "text.format.description")
  \o RequiredExactBool(b, "text.format.strict", "true")
  \o <<Refuse(b.at["text.format.schema"].is # "object", "invalid_request", "text.format.schema"),
       Refuse(b.at["text.format.schema"].bytes > SchemaBytes,
              "request_too_large", "text.format.schema")>>

\* The fields that make a format of type text strange.
Surplus(b) ==
  "text.format" \in b.strange
  \/ \E f \in SchemaFields \ {"text.format.type"} : b.at[f].is # "absent"
DecodeText(b) ==
  <<Refuse(b.at["text"].is # "object", "invalid_request", "text"),
    Refuse("text" \in b.strange, "unsupported_parameter", "text"),
    Refuse(b.at["text.format"].is # "object", "invalid_request", "text.format")>>
  \o RequiredTypedString(b, "text.format.type")
  \o IF b.at["text.format.type"].says = "json_schema" THEN DecodeSchemaFormat(b)
     ELSE <<Refuse(b.at["text.format.type"].says # "text", "unsupported_parameter", "text.format.type"),
            Refuse(Surplus(b), "unsupported_parameter", "text.format")>>

Decoding(b) ==
  Parsing(b)
  \o RequiredString(b, "model")
  \o RequiredString(b, "input") \o TooLarge(b, "input", InputBytes)
  \o OptionalStringOrNull(b, "instructions") \o TooLarge(b, "instructions", InstructionsBytes)
  \o OptionalExact(b, "stream", "bool", "false") \o OptionalExact(b, "store", "bool", "false")
  \o OptionalEmptyArray(b, "tools") \o OptionalExact(b, "tool_choice", "string", "none")
  \o IF b.at["text"].is = "absent" THEN <<>> ELSE DecodeText(b)

PlainText == [type |-> "text", name |-> "", description |-> Nothing, schema |-> Nothing]
Decoded(b) ==
  [alias |-> b.at["model"], instructions |-> b.at["instructions"], input |-> b.at["input"],
   format |->
     IF b.at["text"].is = "absent" \/ b.at["text.format.type"].says = "text" THEN PlainText
     ELSE [type |-> "json_schema", name |-> b.at["text.format.name"].says,
           description |-> b.at["text.format.description"], schema |-> b.at["text.format.schema"]]]

\* snapshotResponseRequest accepts the request.
Echoes(request) ==
  /\ request.alias.is = "string" /\ request.alias.bytes > 0
  /\ \/ request.format = PlainText
     \/ /\ request.format.type = "json_schema" /\ request.format.name \in FormatNames
        /\ request.format.schema.is = "object" /\ request.format.schema.bytes > 0

-----------------------------------------------------------------------------
(* ServeHTTP and readAndDecode: what is refused before the backend is asked.   *)

Responses == "/v1/responses"
Models == "/v1/models"
Reads ==
  [early : BOOLEAN, failed : BOOLEAN, ours : BOOLEAN, timeout : BOOLEAN, tooLarge : BOOLEAN,
   left : BOOLEAN]
Asked ==
  [slot : BOOLEAN, host : BOOLEAN, query : BOOLEAN, authorized : BOOLEAN,
   path : {Responses, Models, "other"}, method : {"GET", "POST", "other"},
   encoding : BOOLEAN, json : BOOLEAN, reader : BOOLEAN, read : Reads, body : Bodies]

Admission(q) ==
  <<Refuse(~q.slot, "server_busy", ""), Refuse(~q.host, "invalid_request", ""),
    Refuse(q.query, "unsupported_parameter", "query"),
    Refuse(~q.authorized, "invalid_bearer_key", "")>>
Routing(q) ==
  <<Refuse(q.path \notin {Responses, Models}, "not_found", ""),
    Refuse(q.method # IF q.path = Responses THEN "POST" ELSE "GET", "method_not_allowed", ""),
    Refuse(~q.encoding, "unsupported_media_type", "")>>
Unread(q) ==
  Admission(q) \o Routing(q)
  \o IF q.path # Responses THEN <<>>
     ELSE <<Refuse(~q.json, "unsupported_media_type", ""), Refuse(~q.reader, "server_busy", "")>>

\* The body's deadline is answered even to a client that left; nothing else is.
OwnDeadline(read) == ~read.early /\ read.failed /\ read.ours
Canceled(read) == read.early \/ (read.left /\ ~OwnDeadline(read))
Reading(read) ==
  <<Refuse(read.failed /\ (read.ours \/ read.timeout), "request_timeout", ""),
    Refuse(read.failed /\ read.tooLarge, "request_too_large", ""),
    Refuse(read.failed, "invalid_json", "")>>

\* The error of a request the backend is not asked about, if there is one.
Refusals(q) ==
  IF Failing(Unread(q)) # {} \/ q.path = Models THEN FirstError(Unread(q))
  ELSE IF Canceled(q.read) THEN {}
  ELSE FirstError(Reading(q.read) \o Decoding(q.body))
Endpoint(q) == IF Failing(Admission(q)) # {} \/ q.path = "other" THEN "unmatched" ELSE q.path

\* The request reaches the backend.
Asks(q) ==
  /\ Failing(Unread(q)) = {} /\ q.path = Responses /\ ~Canceled(q.read)
  /\ Failing(Reading(q.read) \o Decoding(q.body)) = {}

-----------------------------------------------------------------------------
(* Respond: what a cause is, and the metadata it goes with.                    *)

Counts == {"stdout", "stderr", "depth", "running", "queued", "ran"}
Exits == {"", "completed", "nonzero_exit", "start_failed", "canceled", "timeout", "output_limit",
          "cleanup_failed"}
Reasons == {"", "completed", "client_canceled", "gateway_shutdown", "execution_timeout",
            "output_limit", "cleanup_failed"}
Actions == {"", "none", "term", "kill", "terminate_job"}
Texts == ProviderNames \cup Versions \cup Exits \cup Reasons \cup Actions \cup {"other"}
Metas ==
  [provider : Texts, count : [Counts -> Int], version : Texts, exit : Texts, reason : Texts,
   action : Texts]
NoMeta ==
  [provider |-> "", count |-> [c \in Counts |-> 0], version |-> "", exit |-> "", reason |-> "",
   action |-> ""]
\* validateResultMeta.
ValidMeta(m) ==
  /\ \A c \in Counts : m.count[c] >= 0
  /\ m.provider \in {""} \cup ProviderNames /\ m.version \in {""} \cup Versions
  /\ m.exit \in Exits /\ m.reason \in Reasons /\ m.action \in Actions

\* A process result and the kind of the error Execute gave with it, "none" for nil.
ReasonOf ==
  [normal_exit |-> "completed", caller_cancellation |-> "client_canceled",
   supervisor_timeout |-> "execution_timeout", output_overflow |-> "output_limit",
   cleanup_failure |-> "cleanup_failed"]
ExitOf ==
  [canceled |-> "canceled", timeout |-> "timeout", output_limit |-> "output_limit",
   start |-> "start_failed", cleanup |-> "cleanup_failed"]
Results ==
  [stdout : Int, stderr : Int, heldOut : Nat, heldErr : Nat, code : Int,
   reason : DOMAIN ReasonOf \cup {"other"}, action : Texts]
Applies(result, kind) ==
  /\ result.stdout >= result.heldOut /\ result.stderr >= result.heldErr /\ result.code >= -1
  /\ result.reason \in DOMAIN ReasonOf /\ result.action \in Actions \ {""}
  /\ IF kind = "none" THEN result.code >= 0 ELSE kind \in DOMAIN ExitOf
Applied(m, result, kind) ==
  [m EXCEPT !.count = [@ EXCEPT !["stdout"] = result.stdout, !["stderr"] = result.stderr],
            !.reason = ReasonOf[result.reason], !.action = result.action,
            !.exit = IF kind # "none" THEN ExitOf[kind]
                     ELSE IF result.code = 0 THEN "completed" ELSE "nonzero_exit"]

\* The causes that are no code of the catalog: the two errors of a context.
Contexts == {"context_canceled", "context_deadline"}
\* The causes behind the answers of the module Gateway: classifyExecutionError,
\* classifyProviderError and classifySchedulerError, and the returns before the scheduler.
CausesOf ==
  [shutting_down |-> {"service_shutting_down"},
   rejected |-> {"model_not_found", "invalid_json_schema"},
   not_ready |-> {"provider_not_ready"},
   canceled |-> Contexts,
   queue_full |-> {"queue_full"}, queue_timeout |-> {"queue_timeout"},
   timeout |-> {"provider_timeout"}, output_limit |-> {"output_limit_exceeded"},
   cleanup_failed |-> {"process_cleanup_failed"},
   provider |-> {"provider_auth_required", "provider_rate_limited", "provider_protocol_error",
                 "provider_failed", "structured_output_invalid"},
   internal |-> {"internal_error"}]

\* normalizeGatewayShutdownStop and outcomeOrInternal.
Normalized(m, admitted, cause) ==
  IF admitted /\ cause = "service_shutting_down" THEN [m EXCEPT !.reason = "gateway_shutdown"] ELSE m
Outcome(cause, m) ==
  IF ValidMeta(m) THEN [cause |-> cause, metas |-> {m}]
  ELSE [cause |-> "internal_error", metas |-> {}]
\* What Respond may return that is no result, before the scheduler and after it.
EarlyCauses ==
  {"service_shutting_down", "model_not_found", "internal_error", "invalid_json_schema",
   "provider_not_ready"}
LateCauses == UNION {CausesOf[a] : a \in DOMAIN CausesOf}
Outcomes ==
  {[cause |-> c, metas |-> {}] : c \in EarlyCauses}
  \cup {Outcome(c, m) : c \in LateCauses, m \in Metas}

-----------------------------------------------------------------------------
(* What the client and the log are told.                                       *)

ParamTables ==
  [invalid_request |-> Fields,
   unsupported_parameter |->
     {"stream", "store", "tools", "tool_choice", "text", "text.format", "text.format.type",
      "text.format.name", "text.format.strict", "query"},
   invalid_json_schema |-> {"text.format.schema"},
   request_too_large |-> {"input", "instructions", "text.format.schema"}]
\* validPublicErrorParam.
ParamsOf(code) == IF code \in DOMAIN ParamTables THEN ParamTables[code] ELSE {}
\* publicAPIError, of an error of the catalog and of a cause Respond returned.
PublicError(e) == IF e.param = "" \/ e.param \in ParamsOf(e.code) THEN e ELSE InternalError
PublicCause(cause) ==
  IF cause = "context_deadline" THEN Error("request_timeout", "")
  ELSE IF cause \in Codes THEN PublicError(Error(cause, "")) ELSE InternalError

\* requestEventFromMeta with what the handler adds.
Event(endpoint, status, code, alias, provider, input, final, m) ==
  [endpoint |-> endpoint, status |-> status, code |-> code, alias |-> alias, provider |-> provider,
   input |-> input, final |-> final, count |-> m.count, version |-> m.version, exit |-> m.exit,
   reason |-> m.reason, action |-> m.action]
LoggedProviders == {"codex", "claude", "gemini"}
LoggedExits == {"", "completed", "nonzero_exit", "start_failed", "canceled", "timeout",
                "output_limit", "cleanup_failed"}
LoggedReasons == {"", "completed", "client_canceled", "gateway_shutdown", "execution_timeout",
                  "output_limit", "cleanup_failed"}
LoggedActions == {"", "none", "term", "kill", "terminate_job"}
\* validRequestEvent: any other event is replaced by a fixed line without its values.
ValidEvent(e) ==
  /\ e.endpoint \in {Responses, Models, "unmatched"}
  /\ IF e.code = "" THEN e.status = 200 ELSE e.code \in Codes /\ e.status = StatusOf[e.code]
  /\ \/ e.alias = "" /\ e.provider = ""
     \/ e.alias \in AliasNames /\ e.provider \in LoggedProviders
  /\ e.input >= 0 /\ e.final >= 0 /\ \A c \in Counts : e.count[c] >= 0
  /\ e.version \in {""} \cup Versions
  /\ e.exit \in LoggedExits /\ e.reason \in LoggedReasons /\ e.action \in LoggedActions

\* loggingIdentity.
Alias(request) == IF request.alias.says \in DOMAIN Served THEN request.alias.says ELSE ""
Provider(request) == IF request.alias.says \in DOMAIN Served THEN Served[request.alias.says] ELSE ""

Reply(error, event) == [error |-> error, event |-> event]
\* A refusal, the list of the models, an error of Respond, and a result of it.
Refusal(q, error) ==
  LET e == PublicError(error) IN
  Reply(e, Event(Endpoint(q), StatusOf[e.code], e.code, "", "", 0, 0, NoMeta))
Listing == Reply(NoError, Event(Models, 200, "", "", "", 0, 0, NoMeta))
Failure(q, outcome) ==
  LET r == Decoded(q.body)
      e == PublicCause(outcome.cause)
      m == IF outcome.metas = {} THEN NoMeta ELSE CHOOSE x \in outcome.metas : TRUE
  IN  Reply(e, Event(Responses, StatusOf[e.code], e.code, Alias(r), Provider(r), r.input.bytes, 0, m))
\* encodeSuccessResponse: the text Respond returned, and the identifiers of the answer.
Encodes(text, ids) == ids /\ text.utf8 /\ text.bytes > 0 /\ text.bytes =< FinalBytes
Success(q, text, ids, m) ==
  LET r == Decoded(q.body) IN
  IF Encodes(text, ids)
  THEN Reply(NoError, Event(Responses, 200, "", Alias(r), Provider(r), r.input.bytes, text.bytes, m))
  ELSE Failure(q, [cause |-> "internal_error", metas |-> {}])
=============================================================================
