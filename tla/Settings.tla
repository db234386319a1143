------------------------------- MODULE Settings -------------------------------
(* The configuration: what internal/config makes of the values of a TOML file, which *)
(* of them it refuses, and what the constructors that serve calls with them, each    *)
(* with bounds of its own, refuse in their turn. An optional value is a set of at     *)
(* most one element, a string is a member of the set of those that pass its check.   *)
EXTENDS Integers, Sequences, FiniteSets

CONSTANTS
  Windows,            \* whether the build is for Windows
  MaxInt,             \* the largest int of the build
  Second,             \* the units of time in a second (the code's is a nanosecond)
  Longest,            \* the longest time.Duration, in these units
  EnvironmentNames,   \* the strings of environmentNamePattern
  Aliases,            \* the strings of aliasPattern
  Arguments           \* the strings ValidateProviderModel takes

Credentials ==
  [codex |-> {}, claude |-> {"ANTHROPIC_API_KEY"},
   gemini |-> {"GEMINI_API_KEY", "GOOGLE_API_KEY", "GOOGLE_APPLICATION_CREDENTIALS",
               "GOOGLE_CLOUD_PROJECT", "GOOGLE_CLOUD_LOCATION"}]
Known == DOMAIN Credentials
Day == 86400 * Second
MaxConfigBytes == 1048576

ASSUME SizesAssumption ==
  /\ MaxInt \in Nat /\ MaxInt >= 2147483647
  /\ Second \in Nat \ {0}
  /\ Longest \in Nat /\ Longest >= 4 * Day
ASSUME NamesAssumption ==
  /\ Windows \in BOOLEAN
  /\ \A n \in Known : Credentials[n] \subseteq EnvironmentNames
  /\ "" \notin EnvironmentNames

\* What a file may say.
Opt(S) == {{}} \cup {{v} : v \in S}
Given(o, fallback) == IF o = {} THEN fallback ELSE CHOOSE v \in o : TRUE
Filled(given, fallbacks) == [f \in DOMAIN fallbacks |-> Given(given[f], fallbacks[f])]

Listens == [splits : BOOLEAN, host : {"", "loopback", "address", "name"}, digits : BOOLEAN, port : Nat]
Scripts == [bytes : Nat, text : BOOLEAN, dash : BOOLEAN, absolute : BOOLEAN, module : BOOLEAN]
Executables == [absolute : BOOLEAN, node : BOOLEAN]

ServerDefaults ==
  [httpBodyBytes |-> 1048576, inputBytes |-> 524288, instructionsBytes |-> 262144,
   schemaBytes |-> 32768, handlerLimit |-> 128, bodyReaderLimit |-> 32,
   maxHeaderBytes |-> 16384]
ServerCaps ==
  [httpBodyBytes |-> 16777216, inputBytes |-> 16777216, instructionsBytes |-> 16777216,
   schemaBytes |-> 1048576, handlerLimit |-> 4096, bodyReaderLimit |-> 256,
   maxHeaderBytes |-> 1048576]
ServerTimes ==
  [readHeader |-> 5 * Second, bodyRead |-> 15 * Second, idle |-> 60 * Second,
   shutdown |-> 15 * Second]
RuntimeDefaults == [stdoutBytes |-> 2097152, stderrBytes |-> 262144, finalBytes |-> 1048576]
RuntimeCaps == [stdoutBytes |-> 67108864, stderrBytes |-> 16777216, finalBytes |-> 16777216]
RuntimeTimes == [termGrace |-> 2 * Second, cleanup |-> 5 * Second]
ProviderDefaults == [concurrency |-> 1, queueSize |-> 32, queueBytes |-> 16777216]
ProviderCaps == [concurrency |-> 64, queueSize |-> 4096, queueBytes |-> 1073741824]
ProviderTimes == [queue |-> 30 * Second, execution |-> 300 * Second]

\* A decoded file: an unknown field, and a duration that is not positive, is no TOML of
\* this program (toml, DisallowUnknownFields and Duration.UnmarshalText).
ServerWires ==
  [listen : Opt(Listens), apiKeyEnv : Opt(STRING), apiKeyFile : Opt(BOOLEAN),
   size : [DOMAIN ServerDefaults -> Opt(Int)], time : [DOMAIN ServerTimes -> Opt(Nat \ {0})]]
RuntimeWires ==
  [root : Opt(BOOLEAN), size : [DOMAIN RuntimeDefaults -> Opt(Int)],
   time : [DOMAIN RuntimeTimes -> Opt(Nat \ {0})]]
ProviderWires ==
  [executable : Executables, prefixArgs : Seq(Scripts), configHome : BOOLEAN, credentialEnv : Seq(STRING),
   size : [DOMAIN ProviderDefaults -> Opt(Int)], time : [DOMAIN ProviderTimes -> Opt(Nat \ {0})]]
ModelWires == [id : STRING, provider : STRING, argument : STRING, created : Int]
Wires ==
  [server : ServerWires, runtime : RuntimeWires,
   providers : UNION {[N -> ProviderWires] : N \in SUBSET STRING}, models : Seq(ModelWires)]
Files == [opens : BOOLEAN, bytes : Nat, reads : BOOLEAN, decodes : BOOLEAN, wire : Wires]

\* Go's conversion of an int64 to an int.
AsInt(v) ==
  IF v \in -MaxInt - 1 .. MaxInt THEN v
  ELSE ((v + MaxInt + 1) % (2 * (MaxInt + 1))) - (MaxInt + 1)
Bounded(sizes, caps) == \A f \in DOMAIN caps : sizes[f] > 0 /\ sizes[f] =< caps[f]
Timely(times, names) == \A f \in names : times[f] > 0 /\ times[f] =< Day

\* normalize: the defaults, and what does not fit an int of the program.
WideServer(w) == Filled(w.server.size, ServerDefaults)
WideProvider(p) == Filled(p.size, ProviderDefaults)
NarrowServer(w) ==
  [f \in DOMAIN ServerCaps |->
     IF f = "httpBodyBytes" THEN WideServer(w)[f] ELSE AsInt(WideServer(w)[f])]
NarrowProvider(p) ==
  [f \in DOMAIN ProviderCaps |->
     IF f = "queueBytes" THEN WideProvider(p)[f] ELSE AsInt(WideProvider(p)[f])]
DefaultListen == [splits |-> TRUE, host |-> "loopback", digits |-> TRUE, port |-> 8080]
NormalServer(w) ==
  [listen |-> Given(w.server.listen, DefaultListen), apiKeyEnv |-> Given(w.server.apiKeyEnv, ""),
   size |-> NarrowServer(w), time |-> Filled(w.server.time, ServerTimes)]
NormalRuntime(w) ==
  [root |-> Given(w.runtime.root, TRUE), size |-> Filled(w.runtime.size, RuntimeDefaults),
   time |-> Filled(w.runtime.time, RuntimeTimes)]
NormalProvider(p) ==
  [executable |-> p.executable, prefixArgs |-> p.prefixArgs, configHome |-> p.configHome,
   credentialEnv |-> p.credentialEnv, size |-> NarrowProvider(p), time |-> Filled(p.time, ProviderTimes)]
Normalizes(w) ==
  /\ w.server.apiKeyEnv = {} \/ w.server.apiKeyFile = {}
  /\ Given(w.server.apiKeyFile, TRUE)
  /\ \A f \in DOMAIN ServerCaps \ {"httpBodyBytes"} :
       WideServer(w)[f] > 0 /\ WideServer(w)[f] =< ServerCaps[f]
  /\ \A n \in DOMAIN w.providers : \A f \in {"concurrency", "queueSize"} :
       LET v == WideProvider(w.providers[n])[f] IN v > 0 /\ v =< ProviderCaps[f]
Normal(w) ==
  [server |-> NormalServer(w), runtime |-> NormalRuntime(w),
   providers |-> [n \in DOMAIN w.providers |-> NormalProvider(w.providers[n])],
   models |-> w.models]

\* validate: the server, the runtime and the time a shutdown needs.
ValidListen(l) ==
  l.splits /\ l.host = "loopback" /\ l.digits /\ l.port \in 1..65535
ValidServer(s) ==
  /\ ValidListen(s.listen)
  /\ s.apiKeyEnv \in {""} \cup EnvironmentNames
  /\ Bounded(s.size, ServerCaps) /\ Timely(s.time, DOMAIN ServerTimes)
  /\ \A f \in {"inputBytes", "instructionsBytes", "schemaBytes"} : s.size[f] =< s.size.httpBodyBytes
  /\ s.size.bodyReaderLimit =< s.size.handlerLimit
ValidRuntime(r) ==
  /\ r.root
  /\ Bounded(r.size, RuntimeCaps) /\ r.size.finalBytes =< r.size.stdoutBytes
  /\ Timely(r.time, DOMAIN RuntimeTimes)
ValidShutdownBudget(cfg) ==
  LET term == cfg.runtime.time.termGrace
      cleanup == cfg.runtime.time.cleanup
  IN  /\ cleanup =< (Longest - term - Second) \div 2
      /\ cfg.server.time.shutdown >= term + 2 * cleanup + Second

\* validate: one provider, its credentials beside the others', and the models.
ValidPrefixArgs(p) ==
  \/ p.prefixArgs = <<>>
  \/ /\ Windows /\ Len(p.prefixArgs) = 1 /\ p.executable.absolute /\ p.executable.node
     /\ LET s == p.prefixArgs[1] IN
        s.bytes \in 1..4096 /\ s.text /\ ~s.dash /\ s.absolute /\ s.module
Passed(p) == {p.credentialEnv[i] : i \in DOMAIN p.credentialEnv}
ValidGeminiProfile(profile) ==
  profile \in {{}, {"GEMINI_API_KEY"}, {"GOOGLE_API_KEY"},
               {"GOOGLE_APPLICATION_CREDENTIALS", "GOOGLE_CLOUD_PROJECT", "GOOGLE_CLOUD_LOCATION"}}
ValidProvider(n, p, gatewayEnv) ==
  /\ n \in Known
  /\ p.executable.absolute /\ p.configHome /\ ValidPrefixArgs(p)
  /\ Bounded(p.size, ProviderCaps) /\ Timely(p.time, DOMAIN ProviderTimes)
  /\ Passed(p) \subseteq (EnvironmentNames \cap Credentials[n]) \ {gatewayEnv}
  /\ \A i, j \in DOMAIN p.credentialEnv : p.credentialEnv[i] = p.credentialEnv[j] => i = j
  /\ n = "gemini" => ValidGeminiProfile(Passed(p))
Separate(providers) ==
  \A m, n \in DOMAIN providers : m = n \/ Passed(providers[m]) \cap Passed(providers[n]) = {}
Registrable(models) ==
  /\ \A i \in DOMAIN models : /\ models[i].id \in Aliases
                              /\ models[i].provider \in Known
                              /\ models[i].argument \in Arguments
  /\ \A i, j \in DOMAIN models : models[i].id = models[j].id => i = j
ValidModels(models, providers) ==
  /\ Len(models) \in 1..1024
  /\ \A i \in DOMAIN models : /\ models[i].created >= 0
                              /\ models[i].provider \in DOMAIN providers
                              /\ models[i].argument \in Arguments
  /\ Registrable(models)
Validates(cfg) ==
  /\ ValidServer(cfg.server) /\ ValidRuntime(cfg.runtime) /\ ValidShutdownBudget(cfg)
  /\ DOMAIN cfg.providers # {}
  /\ \A n \in DOMAIN cfg.providers : ValidProvider(n, cfg.providers[n], cfg.server.apiKeyEnv)
  /\ Separate(cfg.providers)
  /\ ValidModels(cfg.models, cfg.providers)

\* Load: the configuration in the file, or none.
Load(file) ==
  IF /\ file.opens /\ file.reads /\ file.bytes =< MaxConfigBytes /\ file.decodes
     /\ Normalizes(file.wire) /\ Validates(Normal(file.wire))
  THEN {Normal(file.wire)} ELSE {}

\* The constructors serve calls, with the bounds of their own packages.
NewSupervisor(cfg, n) ==
  /\ \A t \in {cfg.providers[n].time.execution, cfg.runtime.time.termGrace, cfg.runtime.time.cleanup} :
       t > 0 /\ t =< Day
  /\ cfg.runtime.size.stdoutBytes > 0 /\ cfg.runtime.size.stdoutBytes =< 67108864
  /\ cfg.runtime.size.stderrBytes > 0 /\ cfg.runtime.size.stderrBytes =< 16777216
NewScheduler(cfg, n) ==
  LET p == cfg.providers[n] IN
  /\ p.size.concurrency > 0 /\ p.size.concurrency =< 64
  /\ p.size.queueSize > 0 /\ p.size.queueSize =< 4096
  /\ p.size.queueBytes > 0 /\ p.size.queueBytes =< 1073741824
  /\ p.time.queue > 0 /\ p.time.queue =< Day
DefaultLimits(schemaBytes, outputBytes) ==
  schemaBytes > 0 /\ outputBytes > 0 /\ schemaBytes + outputBytes + 1156 =< MaxInt
RequestLimits(input, instructions, schema) ==
  input > 0 /\ instructions > 0 /\ schema > 0 /\ input + instructions + schema + 192 =< MaxInt
SuccessLimitFits(final, body) ==
  /\ final > 0 /\ body > 0 /\ body =< MaxInt /\ final =< MaxInt - body
  /\ final + body =< (MaxInt - 131072) \div 6
NewGateway(cfg) ==
  /\ AsInt(cfg.runtime.size.finalBytes) > 0
  /\ DefaultLimits(cfg.server.size.schemaBytes, AsInt(cfg.runtime.size.finalBytes))
  /\ \A i \in DOMAIN cfg.models : cfg.models[i].provider \in DOMAIN cfg.providers
HttpCaps ==
  [httpBodyBytes |-> 16777216, inputBytes |-> 16777216, instructionsBytes |-> 16777216,
   schemaBytes |-> 1048576, handlerLimit |-> 4096, bodyReaderLimit |-> 256,
   maxHeaderBytes |-> 1048576]
MaxFinalResponseBytes == 16777216
NewServer(cfg) ==
  LET s == cfg.server.size
      final == AsInt(cfg.runtime.size.finalBytes)
  IN  /\ ValidListen(cfg.server.listen)
      /\ Bounded(s, HttpCaps) /\ RequestLimits(s.inputBytes, s.instructionsBytes, s.schemaBytes)
      /\ \A f \in {"inputBytes", "instructionsBytes", "schemaBytes"} : s[f] =< s.httpBodyBytes
      /\ s.bodyReaderLimit =< s.handlerLimit
      /\ Timely(cfg.server.time, {"readHeader", "bodyRead", "idle"})
      /\ final > 0 /\ final =< MaxFinalResponseBytes
      /\ Len(cfg.models) \in 1..1024
      /\ SuccessLimitFits(final, s.httpBodyBytes)
      /\ Registrable(cfg.models) /\ \A i \in DOMAIN cfg.models : cfg.models[i].created >= 0

\* The configuration can be served: no constructor refuses it.
Servable(cfg) ==
  /\ \A n \in DOMAIN cfg.providers : NewSupervisor(cfg, n) /\ NewScheduler(cfg, n)
  /\ NewGateway(cfg) /\ NewServer(cfg)

\* A file that says only what has no default.
Plain(w) ==
  /\ w.server.listen = {} /\ w.server.apiKeyEnv = {} /\ w.server.apiKeyFile = {} /\ w.runtime.root = {}
  /\ \A f \in DOMAIN ServerDefaults : w.server.size[f] = {}
  /\ \A f \in DOMAIN ServerTimes : w.server.time[f] = {}
  /\ \A f \in DOMAIN RuntimeDefaults : w.runtime.size[f] = {}
  /\ \A f \in DOMAIN RuntimeTimes : w.runtime.time[f] = {}
  /\ DOMAIN w.providers # {} /\ DOMAIN w.providers \subseteq Known
  /\ \A n \in DOMAIN w.providers :
       LET p == w.providers[n] IN
       /\ p.executable.absolute /\ p.configHome /\ p.prefixArgs = <<>> /\ p.credentialEnv = <<>>
       /\ \A f \in DOMAIN ProviderDefaults : p.size[f] = {}
       /\ \A f \in DOMAIN ProviderTimes : p.time[f] = {}
  /\ ValidModels(w.models, w.providers)
=============================================================================
