------------------------------ MODULE MCGateway ------------------------------
(* Gateway with two requests that share a provider, and one provider more; and the *)
(* replies to bodies with every value of every two fields, and to every way a       *)
(* request is turned away before its body is read.                                 *)
EXTENDS Gateway, MCAdapters
CONSTANTS r1, r2, p1, p2
ServesModel == [r \in Requests |-> p1]
ServedModel == [a \in {"alias"} |-> "codex"]

Value(is, says, bytes) == [is |-> is, says |-> says, bytes |-> bytes]
Text(says) == Value("string", says, 3)
Samples ==
  {Nothing, Value("null", "", 0), Value("string", "", 0), Value("array", "", 0), Value("array", "", 1),
   Value("object", "", 2), Value("object", "", 9), Value("number", "1", 1)}
  \cup {Value("bool", s, 0) : s \in {"true", "false"}}
  \cup {Text(s) : s \in {"alias", "none", "text", "json_schema", "name"}}
  \cup {Value("string", "long", 9)}
Plain ==
  [parse |-> "ok", strange |-> {},
   at |-> [f \in Fields |-> IF f \in {"model", "input"} THEN Text("alias") ELSE Nothing]]
Formatted ==
  [Plain EXCEPT !.at["text"] = Value("object", "", 2), !.at["text.format"] = Value("object", "", 2),
                !.at["text.format.type"] = Text("json_schema"),
                !.at["text.format.name"] = Text("name"),
                !.at["text.format.strict"] = Value("bool", "true", 0),
                !.at["text.format.schema"] = Value("object", "", 2)]
SampleBodies ==
  {[b EXCEPT !.at[f] = v, !.at[g] = w] : b \in {Plain, Formatted}, f, g \in Fields, v, w \in Samples}
  \cup {[b EXCEPT !.parse = p, !.strange = s] : b \in {Plain, Formatted},
          p \in {"ok", "nul", "syntax"}, s \in SUBSET {"", "text", "text.format"}}
Whole == [early |-> FALSE, failed |-> FALSE, ours |-> FALSE, timeout |-> FALSE, tooLarge |-> FALSE, left |-> FALSE]
Good(b) ==
  [slot |-> TRUE, host |-> TRUE, query |-> FALSE, authorized |-> TRUE, path |-> Responses,
   method |-> "POST", encoding |-> TRUE, json |-> TRUE, reader |-> TRUE, read |-> Whole, body |-> b]
Turned ==
  {[Good(Plain) EXCEPT !.slot = s, !.host = h, !.query = u, !.authorized = a, !.path = p, !.method = m] :
     s, h, u, a \in BOOLEAN, p \in {Responses, Models, "other"}, m \in {"GET", "POST"}}
  \cup {[Good(Plain) EXCEPT !.encoding = e, !.json = j, !.reader = k, !.read = d] :
           e, j, k \in BOOLEAN, d \in Reads}
AsksOrRefuses(q) == Asks(q) \/ q.path = Models \/ Canceled(q.read) \/ Refusals(q) # {}
ASSUME Asks(Good(Plain)) /\ Asks(Good(Formatted))
ASSUME \A b \in SampleBodies :
  LET refused == Refusals(Good(b)) IN
  /\ AsksOrRefuses(Good(b)) /\ \A e \in refused : PublicError(e) = e
  /\ refused = {} => Echoes(Decoded(b))
ASSUME \A q \in Turned :
  AsksOrRefuses(q) /\ \A e \in Refusals(q) : PublicError(e) = e /\ ValidEvent(Refusal(q, e).event)
\* Every parameter a table allows for a refusal is one that some request is refused for.
ASSUME LET refused == UNION {Refusals(Good(b)) : b \in SampleBodies} IN
  /\ \A f \in Fields : \E e \in refused : e.param = f
  /\ \A f \in ParamsOf("unsupported_parameter") \ {"query"} :
       [code |-> "unsupported_parameter", param |-> f] \in refused
  /\ \A f \in ParamsOf("request_too_large") : [code |-> "request_too_large", param |-> f] \in refused
=============================================================================
