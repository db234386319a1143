------------------------------- MODULE Adapters -------------------------------
(* The three adapters of internal/provider: the command Build makes of a request, *)
(* the answer Parse makes of a result, and what Probe may conclude of the output of  *)
(* each of its commands (which commands it runs, and the row it makes, are in the      *)
(* module Doctor).                                                                      *)
(*                                                                                     *)
(* An argument list is a sequence of options, each a flag with its value; a path, or   *)
(* a value of the environment, is the sequence of its elements; the tag of a section   *)
(* of a prompt is one symbol, which a client may send as well.                          *)
EXTENDS Replies

CONSTANTS
  Bytes, Newline, Digits, Decimal,   \* the bytes of a prompt, and how a length is printed
  MaxPrompt,                         \* maxPromptBytes
  MaxVersionOutput, MaxComponent, MaxUint,
  Fractions,      \* the numbers of an envelope that are no integers
  Nul, Absolute   \* the element of a value that holds a NUL; where an absolute path begins

Tags == {"AI_CLI_GATEWAY/1", "INSTRUCTIONS", "INPUT", "OUTPUT_CONTRACT", "NULL", "plain", "file"}

ASSUME AdaptersAssumption ==
  /\ Tags \cup Digits \cup {Newline} \subseteq Bytes
  /\ Newline \notin Digits \cup Tags /\ Digits \cap Tags = {}
  /\ \A n \in DOMAIN Decimal :
       /\ Decimal[n] \in Seq(Digits) /\ Decimal[n] # <<>>
       /\ \A m \in DOMAIN Decimal : Decimal[m] = Decimal[n] => m = n
  /\ Fractions \cap {"401", "403", "429"} = {}
  /\ {MaxPrompt, MaxVersionOutput, MaxComponent, MaxUint} \subseteq Nat

-----------------------------------------------------------------------------
(* BuildPrompt: the sections of a prompt, each behind its length.            *)

Section(tag, value, rest) ==
  <<tag>> \o (Decimal[Len(value)] \o (<<Newline>> \o (value \o (<<Newline>> \o rest))))
NullSection(tag, rest) == <<tag>> \o (<<"NULL", Newline>> \o rest)
Framed(told, instructions, input, contract) ==
  LET rest == Section("INPUT", input, Section("OUTPUT_CONTRACT", contract, <<>>)) IN
  <<"AI_CLI_GATEWAY/1", Newline>>
  \o (IF told THEN Section("INSTRUCTIONS", instructions, rest) ELSE NullSection("INSTRUCTIONS", rest))

\* Codex reads the schema from a file of its runtime, the others in their prompt.
Delivery(p) == IF p = "codex" THEN "file" ELSE "inline"
OutputContract(format, delivery) ==
  CASE format.type = "text" -> {<<"plain">>}
    [] format.type = "json_schema" /\ delivery = "file" -> {<<"file">>}
    [] format.type = "json_schema" /\ delivery = "inline" ->
         IF format.encodes THEN {format.inline} ELSE {}
    [] OTHER -> {}
\* The prompt, or none.
BuildPrompt(q, delivery) ==
  {Framed(q.told, q.instructions, q.input, c) : c \in OutputContract(q.format, delivery)}

-----------------------------------------------------------------------------
(* BuildEnv: the whole environment of the child.                             *)

\* canonicalEnvironmentName, of the names the adapters use.
Canonical(name) == IF name = "SystemRoot" THEN "SYSTEMROOT" ELSE name
HasNul(value) == \E i \in DOMAIN value : value[i] = Nul
Usable(value) == value # <<>> /\ ~HasNul(value)

\* normalizedLookupNames.
Looked(required) == required \ {"PATH"}
Distinct(fixed, required) ==
  LET names == {"PATH"} \cup DOMAIN fixed \cup Looked(required) IN
  /\ "PATH" \notin DOMAIN fixed /\ DOMAIN fixed \cap Looked(required) = {}
  /\ \A m, n \in names : Canonical(m) = Canonical(n) => m = n
\* A name the gateway's environment does not have is as good as an empty value.
BuildsEnv(fixed, path, required, cfg) ==
  /\ Usable(path) /\ \A n \in DOMAIN fixed : ~HasNul(fixed[n])
  /\ Distinct(fixed, required)
  /\ Looked(required) # {} => cfg.looks
  /\ \A n \in Looked(required) : Usable(cfg.lookup[n])
EnvOf(fixed, path, required, cfg) ==
  [n \in {"PATH"} \cup DOMAIN fixed \cup Looked(required) |->
     IF n = "PATH" THEN path ELSE IF n \in DOMAIN fixed THEN fixed[n] ELSE cfg.lookup[n]]

-----------------------------------------------------------------------------
(* The credentials a configuration may name.                                 *)

Elements(seq) == {seq[i] : i \in DOMAIN seq}
ServiceAccount == {"GOOGLE_APPLICATION_CREDENTIALS", "GOOGLE_CLOUD_PROJECT", "GOOGLE_CLOUD_LOCATION"}
Profiles == {{"GEMINI_API_KEY"}, {"GOOGLE_API_KEY"}, ServiceAccount}
SelectsProfile(names) ==
  /\ \A i, j \in DOMAIN names : names[i] = names[j] => i = j
  /\ Elements(names) \in Profiles
CredentialSelection(p, names) ==
  /\ p = "codex" => names = <<>>
  /\ p = "claude" => names \in {<<>>, <<"ANTHROPIC_API_KEY">>}
  /\ p = "gemini" => SelectsProfile(names)
Snapshot(cfg) ==
  /\ cfg.looks
  /\ \A n \in Elements(cfg.credentials) :
       /\ Usable(cfg.lookup[n])
       /\ n = "GOOGLE_APPLICATION_CREDENTIALS" => cfg.lookup[n][1] \in Absolute

\* buildEnvironment of the adapters: what is fixed, and what is looked up by name.
Over(f, g) == [n \in DOMAIN f \cup DOMAIN g |-> IF n \in DOMAIN f THEN f[n] ELSE g[n]]
SettingsFile(dir, file) == dir \o <<".gemini", file>>
Always(dir) == Over([n \in {"HOME", "TEMP", "TMP", "TMPDIR"} |-> dir], [NO_COLOR |-> <<"1">>])
Own(p, cfg, dir) ==
  CASE p = "codex" -> [CODEX_HOME |-> cfg.home]
    [] p = "claude" ->
         Over([n \in {"CLAUDE_CODE_DISABLE_NONESSENTIAL_TRAFFIC",
                      "CLAUDE_CODE_DISABLE_OFFICIAL_MARKETPLACE_AUTOINSTALL",
                      "CLAUDE_CODE_DISABLE_TERMINAL_TITLE", "CLAUDE_CODE_SKIP_PROMPT_HISTORY"} |-> <<"1">>],
              [CLAUDE_CODE_TMPDIR |-> dir, CLAUDE_CONFIG_DIR |-> cfg.home])
    [] p = "gemini" ->
         [GEMINI_CLI_HOME |-> dir,
          GEMINI_CLI_SYSTEM_DEFAULTS_PATH |-> SettingsFile(dir, "system-defaults.json"),
          GEMINI_CLI_SYSTEM_SETTINGS_PATH |-> SettingsFile(dir, "system-settings.json")]
\* Gemini's credentials are snapshots among the fixed values, and a probe has none.
Copied(p, cfg, purpose) == IF p = "gemini" /\ purpose = "run" THEN Elements(cfg.credentials) ELSE {}
Fixed(p, cfg, dir, purpose) ==
  Over(Over(Own(p, cfg, dir), Always(dir)), [n \in Copied(p, cfg, purpose) |-> cfg.lookup[n]])
Required(p, cfg) ==
  (IF p = "claude" THEN Elements(cfg.credentials) ELSE {})
  \cup (IF cfg.windows THEN {"SystemRoot"} ELSE {})
\* validRuntimeDirectory: an absolute path is clean here, and what is joined to it stays inside.
ValidRuntimeDirectory(dir) == Usable(dir) /\ dir[1] \in Absolute

Environment(p, cfg, dir, purpose) == EnvOf(Fixed(p, cfg, dir, purpose), cfg.path, Required(p, cfg), cfg)
HasEnvironment(p, cfg, dir, purpose) ==
  /\ p = "gemini" => ValidRuntimeDirectory(dir)
  /\ BuildsEnv(Fixed(p, cfg, dir, purpose), cfg.path, Required(p, cfg), cfg)

-----------------------------------------------------------------------------
(* The arguments, and what --help has to name.                               *)

Disabled ==
  <<"shell_tool", "unified_exec", "code_mode_host", "apps", "plugins", "remote_plugin", "hooks",
    "multi_agent", "browser_use", "browser_use_external", "computer_use", "in_app_browser",
    "image_generation", "skill_search", "skill_mcp_dependency_install", "workspace_dependencies">>
FixedArgs ==
  [codex |->
     <<<<"--ask-for-approval", "never">>, <<"exec">>, <<"--ephemeral">>, <<"--ignore-user-config">>,
       <<"--ignore-rules">>, <<"--strict-config">>, <<"--sandbox", "read-only">>,
       <<"--skip-git-repo-check">>, <<"--color", "never">>>>
     \o [i \in DOMAIN Disabled |-> <<"--disable", Disabled[i]>>]
     \o <<<<"-c", "web_search=disabled">>>>,
   claude |->
     <<<<"-p">>, <<"--output-format", "json">>, <<"--no-session-persistence">>, <<"--safe-mode">>,
       <<"--setting-sources", "">>, <<"--tools", "">>, <<"--strict-mcp-config">>,
       <<"--permission-mode", "dontAsk">>, <<"--disable-slash-commands">>, <<"--no-chrome">>>>,
   gemini |->
     <<<<"--output-format", "json">>, <<"--approval-mode", "default">>, <<"-e", "none">>>>]
\* The command that is asked for help: Claude's has the arguments of a run.
HelpArgs ==
  [codex |-> <<<<"--ask-for-approval", "never">>, <<"exec">>, <<"--help">>>>,
   claude |-> FixedArgs.claude \o <<<<"--model", "sonnet">>, <<"--help">>>>,
   gemini |-> <<<<"--help">>>>]
HelpTokens ==
  [codex |-> {"PROMPT", "-", "--disable", "-c", "--strict-config", "--sandbox", "--model",
              "--output-schema", "--color", "--ephemeral", "--ignore-user-config",
              "--ignore-rules", "--skip-git-repo-check"},
   claude |-> {"--print", "--output-format", "--no-session-persistence", "--safe-mode",
               "--setting-sources", "--tools", "--strict-mcp-config", "--permission-mode",
               "--disable-slash-commands", "--no-chrome", "--model"},
   gemini |-> {"--output-format", "--approval-mode", "-e", "--extensions", "--model"}]
HardeningFeatures ==
  {"shell_tool", "unified_exec", "code_mode_host", "apps", "plugins", "remote_plugin", "hooks",
   "multi_agent", "browser_use", "browser_use_external", "computer_use", "in_app_browser",
   "image_generation", "skill_search", "skill_mcp_dependency_install", "workspace_dependencies"}

Schema(p, q) == p = "codex" /\ q.format.type = "json_schema"
SchemaFile(dir) == dir \o <<"output-schema.json">>
Args(p, q, model, cfg, dir) ==
  cfg.prefix \o FixedArgs[p] \o <<<<"--model", model.name>>>>
  \o (IF Schema(p, q) THEN <<<<"--output-schema", SchemaFile(dir)>>>> ELSE <<>>)
  \o (IF p = "codex" THEN <<<<"-">>>> ELSE <<>>)
\* buildSettings, of whose document only the kind of authentication varies.
AuthType(cfg) == IF Elements(cfg.credentials) = {"GEMINI_API_KEY"} THEN "gemini-api-key" ELSE "vertex-ai"
FilesOf(p, q, cfg) ==
  CASE p = "gemini" -> <<[name |-> <<".gemini", "settings.json">>, data |-> AuthType(cfg)]>>
    [] Schema(p, q) -> <<[name |-> <<"output-schema.json">>, data |-> q.format.schema]>>
    [] OTHER -> <<>>

-----------------------------------------------------------------------------
(* Build, and the command of a probe.                                        *)

Buildable(p, q, model, cfg, dir) ==
  /\ model.provider = p /\ model.valid
  /\ CredentialSelection(p, cfg.credentials)
  /\ p = "gemini" => Snapshot(cfg)
  /\ BuildPrompt(q, Delivery(p)) # {}
  /\ p = "claude" => \A stdin \in BuildPrompt(q, Delivery(p)) : Len(stdin) <= MaxPrompt
  /\ HasEnvironment(p, cfg, dir, "run")
\* The command, or none: every error of Build is an internal error to the gateway.
Build(p, q, model, cfg, dir) ==
  {[executable |-> cfg.executable, args |-> Args(p, q, model, cfg, dir), dir |-> dir,
    env |-> Environment(p, cfg, dir, "run"), stdin |-> stdin, files |-> FilesOf(p, q, cfg)] :
     stdin \in IF Buildable(p, q, model, cfg, dir) THEN BuildPrompt(q, Delivery(p)) ELSE {}}
\* runProbe: Gemini's credentials are not looked at.
ProbeCommand(p, command, cfg, dir) ==
  IF HasEnvironment(p, cfg, dir, "probe") /\ (p # "gemini" => CredentialSelection(p, cfg.credentials))
  THEN {[executable |-> cfg.executable, args |-> cfg.prefix \o command, dir |-> dir,
         env |-> Environment(p, cfg, dir, "probe"), stdin |-> <<>>, files |-> <<>>]}
  ELSE {}

-----------------------------------------------------------------------------
(* ParseVersion: a text is its runes, a digit for what it is worth.          *)

Dot == 10
Word == 11    \* any other rune of an identifier, with - and +
Blank == 12
IsDigit(rune) == rune \in 0..9

\* A run of digits from a to b that the text does not go on with.
Run(t, a, b) == a =< b /\ (\A i \in a..b : IsDigit(t[i])) /\ ~(b < Len(t) /\ IsDigit(t[b+1]))
\* findVersionCores: major in a..b, minor in b+2..c, patch in c+2..d.
Cores(t) ==
  {k \in [a : DOMAIN t, b : DOMAIN t, c : DOMAIN t, d : DOMAIN t] :
     /\ k.b + 2 =< k.c /\ k.c + 2 =< k.d
     /\ Run(t, k.a, k.b) /\ ~(k.a > 1 /\ IsDigit(t[k.a - 1]))
     /\ t[k.b + 1] = Dot /\ Run(t, k.b + 2, k.c)
     /\ t[k.c + 1] = Dot /\ Run(t, k.c + 2, k.d)}
Standalone(t, k) ==
  /\ k.a > 1 => t[k.a - 1] = Blank
  /\ k.d < Len(t) => t[k.d + 1] = Blank
Number(t, a, b) ==
  LET upTo[i \in a..b] == IF i = a THEN t[i] ELSE 10 * upTo[i-1] + t[i] IN upTo[b]
Components(t, k) == <<Number(t, k.a, k.b), Number(t, k.b + 2, k.c), Number(t, k.c + 2, k.d)>>
\* The version, or none.
ParseVersion(t) ==
  {Components(t, k) :
     k \in {x \in Cores(t) :
             /\ Len(t) =< MaxVersionOutput /\ Cores(t) = {x} /\ Standalone(t, x)
             /\ {x.b - x.a, x.c - (x.b + 2), x.d - (x.c + 2)} \subseteq 0..(MaxComponent - 1)
             /\ \A i \in 1..3 : Components(t, x)[i] =< MaxUint}}

Earlier(v, w) ==
  \/ v[1] < w[1]
  \/ v[1] = w[1] /\ v[2] < w[2]
  \/ v[1] = w[1] /\ v[2] = w[2] /\ v[3] < w[3]
SupportedVersion ==
  [codex |-> [from |-> <<0, 146, 0>>, to |-> <<0, 147, 0>>],
   claude |-> [from |-> <<2, 1, 208>>, to |-> <<2, 2, 0>>],
   gemini |-> [from |-> <<0, 53, 0>>, to |-> <<0, 54, 0>>]]
Contains(range, v) == ~Earlier(v, range.from) /\ Earlier(v, range.to)

-----------------------------------------------------------------------------
(* What Probe makes of the result of a command: "yes", "no" or "nothing" of use. *)

\* containsExactHelpToken: every token is a word of its own, so it is one of the words.
ValidHelp(p, r) == r.utf8 /\ HelpTokens[p] \subseteq r.words
Maturities == {"stable", "experimental", "under development", "deprecated", "removed"}
\* The lines that are not blank; a line without three fields is not formed.
ValidFeatureList(r) ==
  /\ r.utf8
  /\ \A i \in DOMAIN r.lines :
       /\ r.lines[i].formed /\ r.lines[i].maturity \in Maturities
       /\ r.lines[i].enabled \in {"true", "false"}
       /\ \A j \in DOMAIN r.lines : r.lines[j].name = r.lines[i].name => j = i
  /\ \A f \in HardeningFeatures :
       \E i \in DOMAIN r.lines : r.lines[i].name = f /\ r.lines[i].maturity # "removed"
DoctorChecks == {"auth.credentials", "config.load"}
DoctorStatuses == {"ok", "warn", "fail"}
ValidDoctorReport(r) ==
  /\ r.report.parse = "ok" /\ r.report.root = "object"
  /\ r.report.schemaVersion.is = "number" /\ r.report.schemaVersion.says = "1"
  /\ r.report.overallStatus.is = "string" /\ r.report.overallStatus.says \in DoctorStatuses
  /\ \A c \in DoctorChecks :
       /\ c \in DOMAIN r.report.checks
       /\ r.report.checks[c].id = c /\ r.report.checks[c].status = "ok"

Proven(condition) == IF condition THEN "yes" ELSE "nothing"
\* Doctor tells a "no" that is too long for core apart from any other.
SaidVersion(p, r) ==
  IF r.fails \/ r.exit # 0 \/ ~r.utf8 \/ ParseVersion(r.runes) = {} THEN "nothing"
  ELSE IF \E v \in ParseVersion(r.runes) : Contains(SupportedVersion[p], v) THEN "yes" ELSE "no"
\* Codex takes any exit that is not 0 for a missing login, Claude only 1.
SaidAuth(p, r) ==
  IF r.fails THEN "nothing"
  ELSE IF r.exit = 0 THEN "yes"
  ELSE IF p = "codex" \/ r.exit = 1 THEN "no" ELSE "nothing"
Said(p, command, r) ==
  CASE command = "version" -> SaidVersion(p, r)
    [] command = "help" -> Proven(~r.fails /\ r.exit = 0 /\ ValidHelp(p, r))
    [] command = "features" -> Proven(~r.fails /\ r.exit = 0 /\ ValidFeatureList(r))
    [] command = "auth" -> SaidAuth(p, r)
    [] command = "doctor" -> Proven(~r.fails /\ r.exit \in {0, 1} /\ ValidDoctorReport(r))

-----------------------------------------------------------------------------
(* Parse.                                                                    *)

ErrorCategories == {"auth_required", "rate_limited", "protocol", "failed"}
\* NewProviderError.
Fault(category) ==
  [category |-> IF category \in ErrorCategories THEN category ELSE "failed", text |-> ""]
Answer(text) == [category |-> "none", text |-> text]

EnvelopeFields ==
  {"type", "subtype", "is_error", "result", "errors", "api_error_status",
   "response", "error", "session_id", "stats", "warnings"}
\* What safejson.Parse made of the output; strange if it has another field.
Envelopes ==
  [parse : {"ok", "bad"}, root : {"object", "other"}, strange : BOOLEAN, at : [EnvelopeFields -> Values]]
Objects(e) == e.parse = "ok" /\ e.root = "object"
Has(e, field) == e.at[field].is # "absent"
Is(e, field, kind) == e.at[field].is = kind

CodexParse(o) ==
  IF o.exit # 0 THEN Fault("failed")
  ELSE IF o.text = "" \/ ~o.utf8 THEN Fault("protocol") ELSE Answer(o.text)

TerminalErrors ==
  {"error_during_execution", "error_max_turns", "error_max_budget_usd",
   "error_max_structured_output_retries"}
\* isIntegerNumber.
IsInteger(number) == number \notin Fractions
SuccessEnvelope(e) ==
  LET status == e.at["api_error_status"] IN
  IF ~Is(e, "result", "string") \/ Has(e, "errors") THEN "invalid"
  ELSE IF e.at["is_error"].says = "false"
       THEN IF Has(e, "api_error_status") THEN "invalid" ELSE "success"
  ELSE IF status.is \in {"absent", "null"} THEN "failed"
  ELSE IF status.is # "number" \/ ~IsInteger(status.says) THEN "invalid"
  ELSE IF status.says \in {"401", "403"} THEN "auth_required"
  ELSE IF status.says = "429" THEN "rate_limited" ELSE "failed"
ParseEnvelope(e) ==
  IF ~(Objects(e) /\ Is(e, "type", "string") /\ e.at["type"].says = "result"
       /\ Is(e, "subtype", "string") /\ Is(e, "is_error", "bool"))
  THEN "invalid"
  ELSE IF e.at["subtype"].says = "success" THEN SuccessEnvelope(e)
  ELSE IF /\ e.at["subtype"].says \in TerminalErrors /\ e.at["is_error"].says = "true"
          /\ ~Has(e, "result") /\ ~Has(e, "api_error_status") /\ Is(e, "errors", "array")
       THEN "failed" ELSE "invalid"
\* What the envelope says of the login or of a limit is believed whatever the exit.
ClaudeParse(o) ==
  LET kind == ParseEnvelope(o.envelope) IN
  IF kind \in {"auth_required", "rate_limited"} THEN Fault(kind)
  ELSE IF o.exit # 0 \/ kind = "failed" THEN Fault("failed")
  ELSE IF kind = "success" THEN Answer(o.envelope.at["result"].says) ELSE Fault("protocol")

GeminiFields ==
  [response |-> {"absent", "null", "bool", "number", "string", "array", "object"},
   error |-> {"absent", "null", "bool", "number", "string", "array", "object"},
   session_id |-> {"absent", "string"}, stats |-> {"absent", "object"}, warnings |-> {"absent", "array"}]
GeminiParse(o) ==
  LET e == o.envelope
      closed == /\ Objects(e) /\ ~e.strange
                /\ \A f \in EnvelopeFields :
                     IF f \in DOMAIN GeminiFields THEN e.at[f].is \in GeminiFields[f] ELSE ~Has(e, f)
  IN  IF o.exit # 0 THEN Fault("failed")
      ELSE IF ~closed THEN Fault("protocol")
      ELSE IF Has(e, "error")
           THEN IF Is(e, "error", "object") /\ e.at["response"].is \in {"absent", "string"}
                THEN Fault("failed") ELSE Fault("protocol")
      ELSE IF Is(e, "response", "string") THEN Answer(e.at["response"].says) ELSE Fault("protocol")

Parse(p, o) ==
  CASE p = "codex" -> CodexParse(o) [] p = "claude" -> ClaudeParse(o) [] p = "gemini" -> GeminiParse(o)

\* classifyProviderError.
CauseOfFault ==
  [auth_required |-> "provider_auth_required", rate_limited |-> "provider_rate_limited",
   protocol |-> "provider_protocol_error", failed |-> "provider_failed"]

-----------------------------------------------------------------------------
(* What the checks and the theorems say of them.                             *)

\* What a probe has seen the CLI take: what its help had to name, and what the command
\* that asked for it was given itself.
Flags(args) == {option[1] : option \in Elements(args)}
Probed(p) == HelpTokens[p] \cup Flags(HelpArgs[p])

\* The parts of the gateway's environment an adapter may look at.
CredentialNames == {"ANTHROPIC_API_KEY"} \cup UNION Profiles
Visible(cfg) == Elements(cfg.credentials) \cup {"SystemRoot"}
SameButLookup(cfg, other) ==
  /\ cfg.home = other.home /\ cfg.path = other.path /\ cfg.windows = other.windows
  /\ cfg.credentials = other.credentials
  /\ \A n \in Visible(cfg) : cfg.lookup[n] = other.lookup[n]

\* An output that says of itself that something went wrong.
Complains(p, o) ==
  \/ o.exit # 0
  \/ /\ p = "claude"
     /\ \/ Has(o.envelope, "errors") \/ Has(o.envelope, "api_error_status")
        \/ o.envelope.at["is_error"].says # "false"
  \/ p = "gemini" /\ Has(o.envelope, "error")
\* The text an output is asked for.
Final(p, o) ==
  CASE p = "codex" -> o.text
    [] p = "claude" -> o.envelope.at["result"].says
    [] p = "gemini" -> o.envelope.at["response"].says
=============================================================================
