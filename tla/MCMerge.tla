------------------------------- MODULE MCMerge -------------------------------
(* Plans for options and sources that differ in everything a plan looks at. The run of *)
(* MCSupervisor evaluates what is assumed here.                                         *)
EXTENDS Merge

Root == <<"/root">>
Key == <<"/key">>
Group(form, entries) == [as |-> form, entries |-> entries]
Nodes == [f \in {"executable", "config_home"} |-> IF f = "executable" THEN <<"/node">> ELSE <<"/home">>]
With(entries, f, v) == [g \in DOMAIN entries \cup {f} |-> IF g = f THEN v ELSE entries[g]]
CodexGroups ==
  {Group(form, e) : form \in {"table", "dotted", "nested", "inline"},
     e \in {With(Nodes, "tuning", <<"tuned">>), With(Nodes, "prefix_args", <<"/script">>),
            With(With(Nodes, "prefix_args", <<>>), "executable", <<"/odd">>)}}
Other == Group("inline", With(Nodes, "credential_env", <<"ANTHROPIC_API_KEY">>))
SampleServers ==
  {Group("none", [f \in {} |-> <<>>])}
  \cup {Group(form, e) : form \in {"table", "dotted", "inline"},
          e \in {[f \in {"settings"} |-> <<"set">>], [f \in {"settings", "api_key_env"} |-> IF f = "settings" THEN <<"set">> ELSE <<>>],
                 [f \in {"api_key_env"} |-> <<"KEY">>], [f \in {"api_key_file"} |-> Key],
                 [f \in {"api_key_file"} |-> <<"/odd">>]}}
Mapping(n, m, c) == [provider |-> <<n>>, provider_model |-> <<m>>, created |-> c]
ModelMaps ==
  {[a \in {"a"} |-> Mapping("codex", "x", <<"1">>)],
   [a \in {"a", "b"} |-> IF a = "a" THEN Mapping("codex", "x", <<"1">>) ELSE Mapping("claude", "x", <<>>)]}
Source(g, c, names, m, closed) ==
  [server |-> g, root |-> Root, providers |-> [n \in names |-> IF n = "codex" THEN c ELSE Other], models |-> m,
   closed |-> closed, decodes |-> TRUE]
NameSets == {{"codex"}, {"codex", "claude"}}
SampleSources ==
  {Source(g, Group("table", With(Nodes, "tuning", <<"tuned">>)), names, m, FALSE) : g \in SampleServers, names \in NameSets, m \in ModelMaps}
  \cup {Source(Group("table", [f \in {} |-> <<>>]), c, names, m, b) :
          c \in CodexGroups, names \in NameSets, m \in ModelMaps, b \in BOOLEAN}
Existing == {{}} \cup {{s} : s \in {s \in SampleSources : Decode(s) # {}}}

Silent == [executable |-> <<>>, entrypoint |-> <<>>, config_home |-> <<>>, auth |-> "unset"]
Inputs(n) ==
  {Silent, [Silent EXCEPT !.executable = <<"/node">>, !.entrypoint = <<"/script">>, !.config_home = <<"/home">>,
                          !.auth = IF n = "codex" THEN "unset" ELSE CHOOSE a \in AuthIDs[n] : a \in {"anthropic-api-key", "google-api-key"}],
   [Silent EXCEPT !.executable = <<"/cli">>]}
GatewayInputs ==
  {[auth |-> "unset", key_file |-> <<>>, key_env |-> <<>>], [auth |-> "none", key_file |-> <<>>, key_env |-> <<>>],
   [auth |-> "file", key_file |-> <<"/other">>, key_env |-> <<>>], [auth |-> "file", key_file |-> <<>>, key_env |-> <<>>],
   [auth |-> "environment", key_file |-> <<>>, key_env |-> <<"KEY">>]}
Asked == {[a \in {} |-> <<>>], [a \in {"a"} |-> [provider |-> <<"claude">>, provider_model |-> <<"x">>]],
          [a \in {"b"} |-> [provider |-> <<"codex">>, provider_model |-> <<"x">>]]}
SampleOptions ==
  UNION {{[providers |-> [n \in names |-> IF n = "codex" THEN i ELSE j], models |-> m, gateway |-> g,
     replaceProviders |-> IF r THEN names ELSE {}, replaceModels |-> IF r THEN DOMAIN m ELSE {}] :
     i \in Inputs("codex"), j \in Inputs("claude"), m \in Asked, g \in GatewayInputs, r \in BOOLEAN}
   : names \in {{"codex"}, {"codex", "claude"}}}
Resolved(o, sources) == Resolve(o, UNION {Decode(s) : s \in sources}, Root, Key)

\* The samples hold both ends of every question.
ASSUME \E o \in SampleOptions, sources \in Existing : \E d \in Resolved(o, sources) : \E p \in PlanMerge(sources, d) :
  p.changed /\ p.collisions # NoCollisions
ASSUME \A sources \in Existing, o \in SampleOptions : \A d \in Resolved(o, sources) :
  LET configs == UNION {Decode(src) : src \in sources} IN
  \A p \in PlanMerge(sources, d) :
    /\ p.config = (IF sources = {} THEN Planned(NoConfig(d.root), d) ELSE Planned(CHOOSE c \in configs : TRUE, d))
    /\ ~HasUnauthorizedCollision(p.collisions, d) => (ValidFinal(d, p) <=> Shown(p.diff))
    /\ \A q \in PlanMerge({p.candidate}, d) :
         ~q.changed /\ q.config = p.config /\ q.collisions = NoCollisions /\ q.key.action # "ensure"
    /\ PlanMerge({p.candidate}, d) # {}
=============================================================================
