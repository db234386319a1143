----------------------------- MODULE MCSupervisor -----------------------------
(* Supervisor with two runtimes and two callers of Shutdown; the settings with one *)
(* file at every bound of every two numbers of [server], one for every number and  *)
(* duration of the other tables, and one for what else a file may get wrong; and   *)
(* init's plans for the options and sources of MCMerge.                            *)
EXTENDS Supervisor, MCMerge
CONSTANTS r1, r2, s1, s2
Provider ==
  [executable |-> [absolute |-> TRUE, node |-> TRUE], prefixArgs |-> <<>>, configHome |-> TRUE,
   credentialEnv |-> <<>>, size |-> [f \in DOMAIN ProviderDefaults |-> {}],
   time |-> [f \in DOMAIN ProviderTimes |-> {}]]
Wire ==
  [server |-> [listen |-> {}, apiKeyEnv |-> {}, apiKeyFile |-> {},
               size |-> [f \in DOMAIN ServerDefaults |-> {}],
               time |-> [f \in DOMAIN ServerTimes |-> {}]],
   runtime |-> [root |-> {}, size |-> [f \in DOMAIN RuntimeDefaults |-> {}],
                time |-> [f \in DOMAIN RuntimeTimes |-> {}]],
   providers |-> [n \in {"codex", "gemini"} |-> Provider],
   models |-> <<[id |-> "a", provider |-> "codex", argument |-> "x", created |-> 0],
                [id |-> "b", provider |-> "gemini", argument |-> "x", created |-> 1]>>]
FileOf(w) == [opens |-> TRUE, reads |-> TRUE, decodes |-> TRUE, bytes |-> 1, wire |-> w]
Accepted(w) == Load(FileOf(w)) # {}
Bounds == UNION {{-1, 0, 1, ServerCaps[f], ServerCaps[f] + 1} : f \in DOMAIN ServerCaps}
ServerFiles ==
  {[Wire EXCEPT !.server.size[f] = {i}, !.server.size[g] = {j}] :
     f, g \in DOMAIN ServerCaps, i, j \in Bounds}
OtherFiles ==
  UNION {{[Wire EXCEPT !.runtime.size[f] = {i}] : i \in {0, 1, RuntimeCaps[f], RuntimeCaps[f] + 1}} :
           f \in DOMAIN RuntimeCaps}
  \cup UNION {{[Wire EXCEPT !.providers["gemini"].size[f] = {i}] :
                 i \in {0, 1, ProviderCaps[f], ProviderCaps[f] + 1}} : f \in DOMAIN ProviderCaps}
  \cup {[Wire EXCEPT !.providers["gemini"].time[f] = {i}] : f \in DOMAIN ProviderTimes, i \in {1, Day, Day + 1}}
  \cup {[Wire EXCEPT !.server.time[f] = {i}] : f \in DOMAIN ServerTimes, i \in {1, Day, Day + 1}}
  \cup {[Wire EXCEPT !.runtime.time.cleanup = {i}, !.server.time.shutdown = {j}] :
          i \in {1, 5 * Second, Day}, j \in {13 * Second - 1, 13 * Second, Day}}
WrongFiles ==
  {[Wire EXCEPT !.server.apiKeyEnv = {"KEY"}, !.server.apiKeyFile = {TRUE}],
   [Wire EXCEPT !.server.apiKeyFile = {FALSE}], [Wire EXCEPT !.server.apiKeyEnv = {"key"}],
   [Wire EXCEPT !.server.apiKeyEnv = {"GEMINI_API_KEY"},
                !.providers["gemini"].credentialEnv = <<"GEMINI_API_KEY">>],
   [Wire EXCEPT !.providers["gemini"].credentialEnv = <<"GEMINI_API_KEY", "GEMINI_API_KEY">>],
   [Wire EXCEPT !.providers["gemini"].credentialEnv = <<"GOOGLE_CLOUD_PROJECT">>],
   [Wire EXCEPT !.providers["codex"].credentialEnv = <<"GEMINI_API_KEY">>],
   [Wire EXCEPT !.models[2].id = "a"], [Wire EXCEPT !.models[2].provider = "claude"],
   [Wire EXCEPT !.models[2].created = -1], [Wire EXCEPT !.models = <<>>]}
ASSUME Plain(Wire) /\ Accepted(Wire)
ASSUME \A w \in ServerFiles \cup OtherFiles : \A cfg \in Load(FileOf(w)) : Servable(cfg)
ASSUME \A f \in DOMAIN ServerCaps : \E w \in ServerFiles : w.server.size[f] = {ServerCaps[f]} /\ Accepted(w)
ASSUME \A w \in ServerFiles : \A f \in DOMAIN ServerCaps : w.server.size[f] = {ServerCaps[f] + 1} => ~Accepted(w)
ASSUME \A w \in WrongFiles : ~Accepted(w)
=============================================================================
