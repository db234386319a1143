----------------------------- MODULE MCAdapters -----------------------------
(* The adapters on small inputs: prompts of up to two bytes a section, every choice of *)
(* credentials and lookups, outputs with every value of every two fields. The run of    *)
(* MCGateway evaluates what is assumed here.                                             *)
EXTENDS Adapters, FiniteSets

\* Lengths in base two, so that one is the beginning of another.
Binary == [n \in 0..3 |-> CASE n = 0 -> <<"0">> [] n = 1 -> <<"1">> [] n = 2 -> <<"1", "0">>
                            [] n = 3 -> <<"1", "1">>]
Symbols == Tags \cup {"0", "1", "nl"}
Short(S) == UNION {[1..n -> S] : n \in 0..1} \cup [1..2 -> {"nl", "0", "1", "INPUT"}]
Parts ==
  [told : {TRUE}, instructions : Short(Symbols), input : {<<>>, <<"nl">>, <<"INPUT", "0">>}, contract : Short({"nl", "plain"})]
  \cup [told : {FALSE}, instructions : {<<>>}, input : Short(Symbols), contract : Short(Symbols)]
FramedParts(x) == Framed(x.told, x.instructions, x.input, x.contract)
\* As many prompts as parts: no two of them are framed alike.
ASSUME Cardinality({FramedParts(x) : x \in Parts}) = Cardinality(Parts)

-----------------------------------------------------------------------------
Formats == {[type |-> t, encodes |-> e, inline |-> <<"nl", "INPUT">>, schema |-> "schema"] :
              t \in {"text", "json_schema", "other"}, e \in BOOLEAN}
Prompts == [told : BOOLEAN, instructions : {<<"0">>}, input : {<<"1", "nl">>}, format : Formats]
Keys == {<<>>, <<"ANTHROPIC_API_KEY">>, <<"GEMINI_API_KEY">>, <<"GOOGLE_API_KEY">>,
         <<"GEMINI_API_KEY", "GOOGLE_API_KEY">>, <<"GOOGLE_API_KEY", "GOOGLE_API_KEY">>,
         <<"GOOGLE_CLOUD_LOCATION", "GOOGLE_CLOUD_PROJECT", "GOOGLE_APPLICATION_CREDENTIALS">>}
Names == CredentialNames \cup {"SystemRoot", "OTHER"}
EveryName == [n \in Names |-> <<"/", n>>]
Lookups == {EveryName} \cup {[EveryName EXCEPT ![n] = v] : n \in Names, v \in {<<>>, <<"/", "nul">>, <<"x">>}}
Configs ==
  [executable : {<<"/", "cli">>}, prefix : {<<>>}, home : {<<"/", "home">>},
   path : {<<"/", "bin">>, <<>>}, credentials : Keys, looks : BOOLEAN, lookup : Lookups, windows : BOOLEAN]
Dirs == {<<"/", "request">>, <<"request">>}
Model(p) == [provider |-> p, valid |-> TRUE, name |-> "model"]
Command(p, q, cfg, dir) == Build(p, q, Model(p), cfg, dir)

\* Each adapter builds what its credentials allow, and only that.
ASSUME \A p \in ProviderNames, names \in Keys :
  LET cfg == CHOOSE c \in Configs :
               c.credentials = names /\ c.looks /\ c.windows /\ c.lookup = EveryName /\ c.path # <<>>
      q == CHOOSE x \in Prompts : x.format.type = "text"
  IN  (Command(p, q, cfg, <<"/", "request">>) # {}) <=> CredentialSelection(p, names)
ASSUME \A p \in ProviderNames, q \in Prompts, cfg \in Configs, dir \in Dirs :
  \A command \in Command(p, q, cfg, dir) :
    /\ Flags(command.args) \subseteq Probed(p)
    /\ DOMAIN command.env \cap CredentialNames = Elements(cfg.credentials)
    /\ "OTHER" \notin DOMAIN command.env
    /\ \A n \in DOMAIN command.env : ~HasNul(command.env[n])
    /\ command.files # <<>> <=> p = "gemini" \/ Schema(p, q)
ASSUME \A p \in ProviderNames, cfg \in Configs, dir \in Dirs :
  \A probe \in ProbeCommand(p, HelpArgs[p], cfg, dir) :
    /\ DOMAIN probe.env \cap CredentialNames \subseteq Elements(cfg.credentials)
    /\ \A q \in Prompts : \A command \in Command(p, q, cfg, dir) :
         \A n \in DOMAIN probe.env : command.env[n] = probe.env[n]

-----------------------------------------------------------------------------
Supports(p, t) == \E v \in ParseVersion(t) : Contains(SupportedVersion[p], v)
ASSUME /\ Supports("codex", <<Word, Blank, 0, Dot, 1, 4, 6, Dot, 9, Blank>>)
       /\ Supports("codex", <<0, 0, Dot, 1, 4, 6, Dot, 9>>)
       /\ Supports("claude", <<2, Dot, 1, Dot, 2, 0, 8>>)
       /\ ~Supports("claude", <<2, Dot, 1, Dot, 2, 0, 7>>)
       /\ Supports("gemini", <<0, Dot, 5, 3, Dot, 0, Blank, 7>>)
ASSUME \A t \in {<<Word, 0, Dot, 1, Dot, 2>>, <<0, Dot, 1, Dot, 2, Word>>, <<0, Dot, 1, Dot, 2, Dot, 3>>,
                 <<0, Dot, 1, Dot, 2, Blank, 0, Dot, 1, Dot, 2>>, <<0, Dot, Dot, 1, Dot, 2>>, <<0, Dot, 1>>,
                 <<0, Dot, 9, 9, 9, 9, Dot, 1>>, <<0, Dot, 0, 0, 0, 0, 1, Dot, 1>>, <<>>} :
         ParseVersion(t) = {}

Feature(name) == [formed |-> TRUE, name |-> name, maturity |-> "stable", enabled |-> "false"]
Listed(lines) == [fails |-> FALSE, exit |-> 0, utf8 |-> TRUE, lines |-> lines]
EveryFeature == [i \in DOMAIN Disabled |-> Feature(Disabled[i])]
ASSUME /\ Said("codex", "features", Listed(EveryFeature)) = "yes"
       /\ \A i \in DOMAIN Disabled : \A line \in {[Feature(Disabled[i]) EXCEPT !.maturity = "removed"], Feature("other"),
                                             Feature(Disabled[17 - i])} :
            Said("codex", "features", Listed([EveryFeature EXCEPT ![i] = line])) = "nothing"

-----------------------------------------------------------------------------
Of(is, says) == [is |-> is, says |-> says, bytes |-> 1]
FieldValues ==
  {Nothing, Of("null", ""), Of("array", ""), Of("object", ""), Of("string", "text"), Of("string", "success")}
  \cup {Of("bool", s) : s \in {"true", "false"}}
  \cup {Of("number", s) : s \in {"401", "403", "429", "500", "401.0"}}
  \cup {Of("string", s) : s \in {"result"} \cup TerminalErrors}
Empty == [parse |-> "ok", root |-> "object", strange |-> FALSE, at |-> [f \in EnvelopeFields |-> Nothing]]
Succeeded ==
  [Empty EXCEPT !.at["type"] = Of("string", "result"), !.at["subtype"] = Of("string", "success"),
                !.at["is_error"] = Of("bool", "false"), !.at["result"] = Of("string", "text")]
Limited == [Succeeded EXCEPT !.at["is_error"] = Of("bool", "true"), !.at["api_error_status"] = Of("number", "429")]
Broken ==
  [Succeeded EXCEPT !.at["subtype"] = Of("string", "error_max_turns"), !.at["is_error"] = Of("bool", "true"),
                    !.at["result"] = Nothing, !.at["errors"] = Of("array", "")]
Responded == [Empty EXCEPT !.at["response"] = Of("string", "text"), !.at["stats"] = Of("object", "")]
SampleEnvelopes ==
  {[e EXCEPT !.at[f] = v, !.at[g] = w] : e \in {Succeeded, Limited, Broken, Responded},
     f, g \in EnvelopeFields, v, w \in FieldValues}
  \cup {[e EXCEPT !.parse = a, !.root = b, !.strange = c] : e \in {Succeeded, Responded},
          a \in {"ok", "bad"}, b \in {"object", "other"}, c \in BOOLEAN}
Output(e, exit) == [exit |-> exit, utf8 |-> TRUE, text |-> "text", envelope |-> e]
ASSUME \A e \in SampleEnvelopes, exit \in {0, 1}, p \in ProviderNames :
  LET parsed == Parse(p, Output(e, exit)) IN
  /\ parsed.category = "none" => ~Complains(p, Output(e, exit)) /\ parsed.text = Final(p, Output(e, exit))
  /\ parsed.category # "none" => CauseOfFault[parsed.category] \in CausesOf["provider"]
  /\ parsed.category \in {"auth_required", "rate_limited"} => p = "claude"
\* The four ends of a run of Claude, and the three of Gemini.
ASSUME /\ {Parse("claude", Output(e, x)).category : e \in SampleEnvelopes, x \in {0, 1}}
            = {"none"} \cup ErrorCategories
       /\ {Parse("gemini", Output(e, x)).category : e \in SampleEnvelopes, x \in {0, 1}}
            = {"none", "failed", "protocol"}
=============================================================================
