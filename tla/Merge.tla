--------------------------------- MODULE Merge ---------------------------------
(* What init writes: the state the options ask for, the plan that merges it into the *)
(* source there is, the edits that carry the plan out, and the last look at a plan      *)
(* before it is committed.  The dialogue around them is in the module InitCommand.       *)
(*                                                                                       *)
(* A value is the list of strings a diff joins: empty where nothing is said, and only     *)
(* credential_env may list several.  What init leaves alone, the tuning of a provider or   *)
(* the limits of the server, is one field more.  A source is the groups of its lines, each *)
(* with the way it is written; a model is rendered whole, and a source has its values.     *)
EXTENDS Settings

CONSTANTS
  Strings,     \* the strings that occur
  Texts,       \* of them, those of safeText
  Paths,       \* of them, those of isAbsolutePath
  NodeFiles,   \* of the paths, those named node.exe
  Modules      \* of the paths, those validatePrefixArgs takes

ASSUME MergeAssumption ==
  /\ EnvironmentNames \cup Aliases \cup Arguments \cup Known \subseteq Texts
  /\ {"file", "environment", "none"} \subseteq Texts
  /\ NodeFiles \cup Modules \subseteq Paths /\ Paths \cup Texts \subseteq Strings

Unsaid == <<>>
Printable(v) == \A i \in DOMAIN v : v[i] \in Texts
Safe(v) == v # Unsaid /\ Printable(v)
OneOf(S, v) == \E x \in S : v = <<x>>
Listed(v) == {v[i] : i \in DOMAIN v}

AuthFields == {"api_key_file", "api_key_env"}
ServerFields == AuthFields \cup {"settings"}
Managed == {"executable", "prefix_args", "config_home", "credential_env"}
ProviderFields == Managed \cup {"tuning"}
Mapped == {"provider", "provider_model"}
ModelFields == Mapped \cup {"created"}
NoProvider == [f \in ProviderFields |-> Unsaid]
NoModel == [f \in ModelFields |-> Unsaid]
NoConfig(root) ==
  [server |-> [f \in ServerFields |-> Unsaid], root |-> root,
   providers |-> [n \in {} |-> NoProvider], models |-> [a \in {} |-> NoModel]]

-----------------------------------------------------------------------------
(* A source, and what config.Decode reads in it.                             *)

\* The representations of a group; "nested" is a dotted key below a header, and "none" that
\* the group is not there.
Values == Seq(Strings)
Maps(S, T) == UNION {[N -> T] : N \in SUBSET S}
Groups(forms, fields) ==
  [as : {"table", "dotted", "inline"} \cup forms, entries : Maps(fields, Values)]
ServerGroups == {g \in Groups({"none"}, ServerFields) : g.as = "none" => DOMAIN g.entries = {}}
ProviderGroups == Groups({"nested"}, ProviderFields)
\* Does the document refuse one provider more at its end; is it TOML that decodes.
Sources ==
  [server : ServerGroups, root : Values, providers : Maps(Strings, ProviderGroups),
   models : Maps(Strings, [ModelFields -> Values]), closed : BOOLEAN, decodes : BOOLEAN]

Says(entries, fields) == [f \in fields |-> IF f \in DOMAIN entries THEN entries[f] ELSE Unsaid]
Reading(src) ==
  [server |-> Says(src.server.entries, ServerFields), root |-> src.root,
   providers |-> [n \in DOMAIN src.providers |-> Says(src.providers[n].entries, ProviderFields)],
   models |-> src.models]

AdmitsServer(s) ==
  /\ s.api_key_file = Unsaid \/ OneOf(Paths, s.api_key_file)
  /\ s.api_key_env = Unsaid \/ OneOf(EnvironmentNames, s.api_key_env)
AdmitsProvider(n, p, gatewayEnv) ==
  /\ OneOf(Paths, p.executable) /\ OneOf(Paths, p.config_home)
  /\ \/ p.prefix_args = Unsaid
     \/ Windows /\ OneOf(NodeFiles, p.executable) /\ OneOf(Modules, p.prefix_args)
  /\ Listed(p.credential_env) \subseteq Credentials[n] \ Listed(gatewayEnv)
  /\ \A i, j \in DOMAIN p.credential_env : p.credential_env[i] = p.credential_env[j] => i = j
  /\ n = "gemini" => ValidGeminiProfile(Listed(p.credential_env))
AdmitsProviders(providers, gatewayEnv) ==
  /\ DOMAIN providers # {} /\ DOMAIN providers \subseteq Known
  /\ \A n \in DOMAIN providers : AdmitsProvider(n, providers[n], gatewayEnv)
MapsModels(models, names) ==
  \A a \in DOMAIN models : /\ a \in Aliases
                           /\ OneOf(names, models[a].provider)
                           /\ OneOf(Arguments, models[a].provider_model)
Admits(cfg) ==
  /\ AdmitsServer(cfg.server) /\ OneOf(Paths, cfg.root)
  /\ AdmitsProviders(cfg.providers, cfg.server.api_key_env)
  /\ Cardinality(DOMAIN cfg.models) \in 1..1024 /\ MapsModels(cfg.models, DOMAIN cfg.providers)

\* The configuration, or none. Of the two sources of the gateway's key one may be said at
\* all, and a key file not be empty.
OneKey(entries) ==
  /\ ~(AuthFields \subseteq DOMAIN entries)
  /\ "api_key_file" \in DOMAIN entries => entries["api_key_file"] # Unsaid
Decode(src) ==
  IF src.decodes /\ OneKey(src.server.entries) /\ Admits(Reading(src)) THEN {Reading(src)} ELSE {}

-----------------------------------------------------------------------------
(* ValidateOptions, ResolveNonInteractive: the state that is asked for.      *)

AuthIDs ==
  [codex |-> {}, claude |-> {"config-home", "anthropic-api-key"},
   gemini |-> {"gemini-api-key", "google-api-key", "vertex-service-account"}]
CredentialEnvironment ==
  [a \in UNION {AuthIDs[n] : n \in Known} |->
     CASE a = "config-home" -> Unsaid
       [] a = "anthropic-api-key" -> <<"ANTHROPIC_API_KEY">>
       [] a = "gemini-api-key" -> <<"GEMINI_API_KEY">>
       [] a = "google-api-key" -> <<"GOOGLE_API_KEY">>
       [] a = "vertex-service-account" ->
            <<"GOOGLE_APPLICATION_CREDENTIALS", "GOOGLE_CLOUD_PROJECT", "GOOGLE_CLOUD_LOCATION">>]

\* The command line: a flag that is not given is Unsaid, an authentication "unset".
Options ==
  [providers : Maps(Strings, [executable : Values, entrypoint : Values, config_home : Values, auth : STRING]),
   models : Maps(Strings, [Mapped -> Values]),
   gateway : [auth : STRING, key_file : Values, key_env : Values],
   replaceProviders : SUBSET Strings, replaceModels : SUBSET Strings]
ValidGatewayInput(g) ==
  /\ Printable(g.key_file) /\ Printable(g.key_env)
  /\ \/ g.auth \in {"unset", "none"} /\ g.key_file = Unsaid /\ g.key_env = Unsaid
     \/ g.auth = "file" /\ g.key_env = Unsaid
     \/ g.auth = "environment" /\ g.key_file = Unsaid /\ OneOf(EnvironmentNames, g.key_env)
ValidOptions(o) ==
  /\ DOMAIN o.providers # {} /\ DOMAIN o.providers \subseteq Known
  /\ \A n \in DOMAIN o.providers :
       LET i == o.providers[n] IN
       /\ Printable(i.executable) /\ Printable(i.entrypoint) /\ Printable(i.config_home)
       /\ i.auth \in {"unset"} \cup AuthIDs[n]
  /\ Cardinality(DOMAIN o.models) =< 1024 /\ MapsModels(o.models, DOMAIN o.providers)
  /\ ValidGatewayInput(o.gateway)
  /\ o.replaceProviders \subseteq DOMAIN o.providers /\ o.replaceModels \subseteq DOMAIN o.models

\* resolveProviderCommand, resolveConfigHome, resolveCredentials; old is the provider there
\* is, or none.
Commands(i, old) ==
  LET node == Windows /\ OneOf(NodeFiles, i.executable)
      script == i.entrypoint # Unsaid
  IN  IF i.executable = Unsaid
      THEN {[executable |-> p.executable, prefix_args |-> p.prefix_args] : p \in {p \in old : ~script}}
      ELSE {c \in {[executable |-> i.executable, prefix_args |-> i.entrypoint]} :
              script = node /\ (script => OneOf(Modules, c.prefix_args))}
Homes(i, old) == IF i.config_home = Unsaid THEN {p.config_home : p \in old} ELSE {i.config_home}
Profiles(n, i, old) ==
  IF n = "codex" THEN {Unsaid}
  ELSE IF i.auth = "unset" THEN {p.credential_env : p \in old} ELSE {CredentialEnvironment[i.auth]}
Patches(n, i, old) ==
  {[executable |-> c.executable, prefix_args |-> c.prefix_args, config_home |-> h, credential_env |-> e] :
     c \in Commands(i, old), h \in Homes(i, old), e \in Profiles(n, i, old)}

\* resolveGatewayAuth, beside the server there is, or none.
NoPatch == [set |-> FALSE, api_key_file |-> Unsaid, api_key_env |-> Unsaid, explicit |-> FALSE]
GatewayPatch(g, servers, defaultKey) ==
  LET kept == UNION {{s.api_key_file} : s \in servers} \ {Unsaid}
      path == IF g.key_file # Unsaid THEN g.key_file
              ELSE IF kept # {} THEN CHOOSE k \in kept : TRUE ELSE defaultKey
  IN  CASE g.auth = "unset" /\ servers # {} -> NoPatch
        [] g.auth = "unset" /\ servers = {} -> [NoPatch EXCEPT !.set = TRUE, !.api_key_file = defaultKey]
        [] g.auth = "file" -> [NoPatch EXCEPT !.set = TRUE, !.api_key_file = path, !.explicit = g.key_file # Unsaid]
        [] g.auth = "environment" -> [NoPatch EXCEPT !.set = TRUE, !.api_key_env = g.key_env]
        [] g.auth = "none" -> [NoPatch EXCEPT !.set = TRUE]

Desireds ==
  [root : Values, providers : Maps(Strings, [Managed -> Values]),
   gateway : [set : BOOLEAN, api_key_file : Values, api_key_env : Values, explicit : BOOLEAN],
   models : Maps(Strings, [Mapped -> Values]),
   replaceProviders : SUBSET Strings, replaceModels : SUBSET Strings]

ValidGatewayPatch(g) ==
  IF ~g.set THEN g = NoPatch
  ELSE /\ g.api_key_env = Unsaid \/ (g.api_key_file = Unsaid /\ OneOf(EnvironmentNames, g.api_key_env))
       /\ Printable(g.api_key_file)
       /\ g.explicit => g.api_key_file # Unsaid
\* ValidateDesiredState. The document it decodes has one model more for each provider that
\* is given none.
ValidDesired(d) ==
  LET selected == DOMAIN d.providers
      bare == {n \in selected : \A a \in DOMAIN d.models : d.models[a].provider # <<n>>}
  IN  /\ Safe(d.root) /\ OneOf(Paths, d.root)
      /\ ValidGatewayPatch(d.gateway) /\ AdmitsServer(d.gateway)
      /\ \A n \in selected : /\ \A f \in Managed : Printable(d.providers[n][f])
                             /\ Safe(d.providers[n].executable) /\ Safe(d.providers[n].config_home)
      /\ AdmitsProviders(d.providers, d.gateway.api_key_env)
      /\ Cardinality(DOMAIN d.models) + Cardinality(bare) =< 1024 /\ MapsModels(d.models, selected)
      /\ d.replaceProviders \subseteq selected /\ d.replaceModels \subseteq DOMAIN d.models

\* Every selected provider is one that some alias is mapped to.
SelectedModelsPresent(models, selected) ==
  \A n \in selected : \E a \in DOMAIN models : models[a].provider = <<n>>
Remapped(old, new) ==
  [a \in DOMAIN old \cup DOMAIN new |-> IF a \in DOMAIN new THEN new[a] ELSE old[a]]
\* The desired state, or none; configs is the configuration there is, or none.
Resolve(o, configs, root, defaultKey) ==
  LET Old(n) == {c.providers[n] : c \in {c \in configs : n \in DOMAIN c.providers}}
      patches == [n \in DOMAIN o.providers |-> Patches(n, o.providers[n], Old(n))]
      models == UNION {{[a \in DOMAIN c.models |-> [f \in Mapped |-> c.models[a][f]]]} : c \in configs}
  IN  IF /\ ValidOptions(o) /\ \A n \in DOMAIN o.providers : patches[n] # {}
         /\ \A m \in models : SelectedModelsPresent(Remapped(m, o.models), DOMAIN o.providers)
         /\ models = {} => SelectedModelsPresent(o.models, DOMAIN o.providers)
      THEN {d \in {[root |-> root, models |-> o.models,
                    providers |-> [n \in DOMAIN o.providers |-> CHOOSE p \in patches[n] : TRUE],
                    gateway |-> GatewayPatch(o.gateway, {c.server : c \in configs}, defaultKey),
                    replaceProviders |-> o.replaceProviders, replaceModels |-> o.replaceModels]} :
              ValidDesired(d)}
      ELSE {}

-----------------------------------------------------------------------------
(* PlanMerge: what the configuration becomes, and how the plan tells it.      *)

Updated(old, new, fields) == [f \in fields |-> IF f \in DOMAIN new THEN new[f] ELSE old[f]]
Of(map, k, none) == IF k \in DOMAIN map THEN map[k] ELSE none
\* planGateway, planProviders, planModels, on the configuration.
Planned(cfg, d) ==
  [server |-> IF d.gateway.set
              THEN Updated(cfg.server, [f \in AuthFields |-> d.gateway[f]], ServerFields) ELSE cfg.server,
   root |-> cfg.root,
   providers |-> [n \in DOMAIN cfg.providers \cup DOMAIN d.providers |->
                    IF n \in DOMAIN d.providers
                    THEN Updated(Of(cfg.providers, n, NoProvider), d.providers[n], ProviderFields)
                    ELSE cfg.providers[n]],
   models |-> [a \in DOMAIN cfg.models \cup DOMAIN d.models |->
                 IF a \in DOMAIN d.models
                 THEN Updated(Of(cfg.models, a, NoModel), d.models[a], ModelFields)
                 ELSE cfg.models[a]]]

\* An entry of a diff: the fields that are new, with what they were.
Differing(old, new, fields) == {f \in fields : old[f] # new[f]}
Change(old, new) == [before |-> old, after |-> new]
Entry(exists, old, new, fields) ==
  LET named == IF exists THEN Differing(old, new, fields) ELSE fields IN
  [kind |-> IF ~exists THEN "added" ELSE IF named = {} THEN "unchanged" ELSE "replaced",
   fields |-> [f \in named |-> Change(old[f], new[f])]]
Mode(server) ==
  IF server.api_key_file # Unsaid THEN <<"file">>
  ELSE IF server.api_key_env # Unsaid THEN <<"environment">> ELSE <<"none">>
ModeAndKeys(old, new, mode, keys) ==
  [f \in {"mode"} \cup keys |-> IF f = "mode" THEN Change(mode, Mode(new)) ELSE Change(old[f], new[f])]
GatewayEntry(old, new) ==
  LET keys == Differing(old, new, AuthFields) IN
  [kind |-> IF keys = {} THEN "unchanged" ELSE "replaced", fields |-> ModeAndKeys(old, new, Mode(old), keys)]
Diff(cfg, after, d) ==
  [gateway |-> IF d.gateway.set THEN {GatewayEntry(cfg.server, after.server)} ELSE {},
   providers |-> [n \in DOMAIN d.providers |->
                    Entry(n \in DOMAIN cfg.providers, Of(cfg.providers, n, NoProvider), after.providers[n], Managed)],
   models |-> [a \in DOMAIN d.models |->
                 Entry(a \in DOMAIN cfg.models, Of(cfg.models, a, NoModel), after.models[a], Mapped)]]
\* freshSemanticDiff.
FreshDiff(after, d) ==
  [gateway |-> {[kind |-> "added",
                 fields |-> ModeAndKeys([f \in AuthFields |-> Unsaid], after.server, Unsaid,
                              {f \in AuthFields : after.server[f] # Unsaid})]},
   providers |-> [n \in DOMAIN d.providers |-> [kind |-> "added", fields |-> [f \in {} |-> Change(Unsaid, Unsaid)]]],
   models |-> [a \in DOMAIN d.models |-> Entry(FALSE, NoModel, after.models[a], Mapped)]]
Kinds(diff) ==
  {e.kind : e \in diff.gateway} \cup {diff.providers[n].kind : n \in DOMAIN diff.providers}
  \cup {diff.models[a].kind : a \in DOMAIN diff.models}
Alters(diff) == Kinds(diff) \cap {"added", "replaced"} # {}

\* The replacements, each of which needs authority.
Replaced(entries) == {k \in DOMAIN entries : entries[k].kind = "replaced"}
FieldsOf(entries) == [k \in Replaced(entries) |-> entries[k].fields]
Collisions(diff) == [providers |-> FieldsOf(diff.providers), models |-> FieldsOf(diff.models)]
NoCollisions == [providers |-> [n \in {} |-> Unsaid], models |-> [a \in {} |-> Unsaid]]
HasUnauthorizedCollision(collisions, d) ==
  ~(/\ DOMAIN collisions.providers \subseteq d.replaceProviders
    /\ DOMAIN collisions.models \subseteq d.replaceModels)

KeyPlan(action, path, allow) == [action |-> action, path |-> path, allowExisting |-> allow]
NoKeyPlan == KeyPlan("none", Unsaid, FALSE)
SetKeyPlan(old, new, d) ==
  LET path == new.server.api_key_file IN
  IF path = Unsaid THEN NoKeyPlan
  ELSE IF old.server.api_key_file = path THEN KeyPlan("inspect", path, FALSE)
  ELSE KeyPlan("ensure", path, d.gateway.set /\ d.gateway.explicit /\ d.gateway.api_key_file = path)

-----------------------------------------------------------------------------
(* buildMergeEdits: each group is edited as it is written.                    *)

\* renderedProviderValues, renderProvider: the fields that are written.
Rendered(p) ==
  [f \in {f \in ProviderFields : p[f] # Unsaid \/ f \in {"executable", "config_home"}} |-> p[f]]
\* A table or an inline table is rendered anew, dotted keys are edited one by one.
ProviderEdit(g, p, changed) ==
  LET new == Rendered(p) IN
  IF g.as \in {"table", "inline"} THEN [g EXCEPT !.entries = new]
  ELSE [g EXCEPT !.entries = [f \in (DOMAIN g.entries \ changed) \cup (changed \cap DOMAIN new) |->
                                IF f \in changed THEN new[f] ELSE g.entries[f]]]
\* A key that is added behind a nested group names a path below its header.
Misplaces(g, p, changed) ==
  g.as = "nested" /\ (changed \cap DOMAIN Rendered(p)) \ DOMAIN g.entries # {}

SourceField(server) ==
  IF server.api_key_file # Unsaid THEN {"api_key_file"}
  ELSE IF server.api_key_env # Unsaid THEN {"api_key_env"} ELSE {}
\* gatewaySourceEdits: an api_key_env that is there and empty makes room for its successor.
GatewayEdit(g, old, new) ==
  LET leaves == IF SourceField(old) = {} THEN {"api_key_env"} ELSE SourceField(old)
      comes == SourceField(new)
  IN  IF g.as = "none" THEN [as |-> "table", entries |-> [f \in comes |-> new[f]]]
      ELSE IF g.as = "inline" THEN [g EXCEPT !.entries = [f \in comes \cup {"settings"} |-> new[f]]]
      ELSE [g EXCEPT !.entries = [f \in (DOMAIN g.entries \ leaves) \cup comes |->
                                    IF f \in comes THEN new[f] ELSE g.entries[f]]]

Edited(src, after, diff) ==
  LET replaced == Replaced(diff.providers)
      Names(n) == DOMAIN diff.providers[n].fields
  IN  [server |-> IF \E e \in diff.gateway : e.kind = "replaced"
                  THEN GatewayEdit(src.server, Reading(src).server, after.server) ELSE src.server,
       root |-> src.root,
       providers |-> [n \in DOMAIN after.providers |->
                        IF n \notin DOMAIN src.providers THEN [as |-> "table", entries |-> Rendered(after.providers[n])]
                        ELSE IF n \in replaced THEN ProviderEdit(src.providers[n], after.providers[n], Names(n))
                        ELSE src.providers[n]],
       models |-> [a \in DOMAIN after.models |->
                     IF a \in DOMAIN diff.models /\ diff.models[a].kind # "unchanged"
                     THEN after.models[a] ELSE src.models[a]],
       closed |-> src.closed,
       decodes |-> /\ src.decodes
                   /\ ~src.closed \/ DOMAIN after.providers = DOMAIN src.providers
                   /\ \A n \in replaced : ~Misplaces(src.providers[n], after.providers[n], Names(n))]
\* renderFresh.
Fresh(after) ==
  [server |-> [as |-> "table", entries |-> [f \in SourceField(after.server) |-> after.server[f]]],
   root |-> after.root,
   providers |-> [n \in DOMAIN after.providers |-> [as |-> "table", entries |-> Rendered(after.providers[n])]],
   models |-> after.models, closed |-> FALSE, decodes |-> TRUE]

\* The plan, or none (ErrPlan); a plan that collides comes with ErrCollision.
PlanOf(src, old, new, diff, collisions, d) ==
  [candidate |-> src, config |-> new, diff |-> diff, collisions |-> collisions, changed |-> Alters(diff),
   key |-> SetKeyPlan(old, new, d)]
PlanFresh(d) ==
  LET after == Planned(NoConfig(d.root), d) IN
  {PlanOf(Fresh(after), NoConfig(d.root), c, FreshDiff(after, d), NoCollisions, d) :
     c \in {c \in Decode(Fresh(after)) : /\ ValidDesired(d) /\ d.gateway.set /\ DOMAIN d.models # {}
                                          /\ SelectedModelsPresent(c.models, DOMAIN d.providers)}}
PlanExisting(src, cfg, d) ==
  LET after == Planned(cfg, d)
      diff == Diff(cfg, after, d)
      candidate == Edited(src, after, diff)
  IN  IF ~Alters(diff) THEN {PlanOf(src, cfg, cfg, diff, NoCollisions, d)}
      ELSE {PlanOf(candidate, cfg, c, diff, Collisions(diff), d) :
              c \in {c \in Decode(candidate) : SelectedModelsPresent(c.models, DOMAIN d.providers)}}
PlanMerge(sources, d) ==
  IF ~ValidDesired(d) THEN {}
  ELSE IF sources = {} THEN PlanFresh(d)
  ELSE UNION {UNION {PlanExisting(src, cfg, d) : cfg \in Decode(src)} : src \in sources}

-----------------------------------------------------------------------------
(* validFinalPlanningResult: ConfirmInteractive trusts no plan it did not check. *)

\* validatedDiffEntries: every value of it can be shown.
ShownFields(fields) ==
  \A f \in DOMAIN fields : Printable(fields[f].before) /\ Printable(fields[f].after)
Shown(diff) ==
  /\ \A e \in diff.gateway : ShownFields(e.fields)
  /\ \A n \in DOMAIN diff.providers : n \in Known /\ ShownFields(diff.providers[n].fields)
  /\ \A a \in DOMAIN diff.models : a \in Aliases /\ ShownFields(diff.models[a].fields)

\* finalDiffMatchesPlan, diffAfterMatchesConfig.
Tells(fields, new, names) ==
  DOMAIN fields \subseteq names /\ \A f \in DOMAIN fields : fields[f].after = new[f]
TellsGateway(fields, server) ==
  /\ DOMAIN fields \subseteq {"mode"} \cup AuthFields
  /\ \A f \in DOMAIN fields : fields[f].after = (IF f = "mode" THEN Mode(server) ELSE server[f])
DiffMatches(diff, d, cfg) ==
  /\ diff.gateway # {} <=> d.gateway.set
  /\ \A e \in diff.gateway : TellsGateway(e.fields, cfg.server)
  /\ DOMAIN diff.providers = DOMAIN d.providers /\ DOMAIN diff.models = DOMAIN d.models
  /\ \A n \in DOMAIN diff.providers :
       n \in DOMAIN cfg.providers /\ Tells(diff.providers[n].fields, cfg.providers[n], Managed)
  /\ \A a \in DOMAIN diff.models :
       a \in DOMAIN cfg.models /\ Tells(diff.models[a].fields, cfg.models[a], Mapped)

IsFresh(diff, d, cfg) ==
  /\ d.gateway.set
  /\ DOMAIN cfg.providers = DOMAIN d.providers /\ DOMAIN cfg.models = DOMAIN d.models
  /\ \E e \in diff.gateway : e.kind = "added"

WasEmpty(fields) == \A f \in DOMAIN fields : fields[f].before = Unsaid
Changed(fields) == DOMAIN fields # {} /\ \A f \in DOMAIN fields : fields[f].before # fields[f].after
GatewayShape(e, fresh, server) ==
  \/ /\ e.kind = "added" /\ fresh /\ WasEmpty(e.fields)
     /\ DOMAIN e.fields = {"mode"} \cup SourceField(server)
  \/ /\ e.kind = "unchanged" /\ ~fresh
     /\ DOMAIN e.fields = {"mode"} /\ e.fields["mode"].before = e.fields["mode"].after
  \/ LET keys == DOMAIN e.fields \cap AuthFields IN
     /\ e.kind = "replaced" /\ ~fresh /\ "mode" \in DOMAIN e.fields
     /\ Changed([f \in keys |-> e.fields[f]])
     /\ SourceField(server) \subseteq keys
ProviderShape(e, fresh) ==
  \/ e.kind = "added" /\ fresh /\ DOMAIN e.fields = {}
  \/ e.kind = "added" /\ ~fresh /\ DOMAIN e.fields = Managed /\ WasEmpty(e.fields)
  \/ e.kind = "unchanged" /\ ~fresh /\ DOMAIN e.fields = {}
  \/ e.kind = "replaced" /\ ~fresh /\ Changed(e.fields)
ModelShape(e, fresh) ==
  \/ e.kind = "added" /\ DOMAIN e.fields = Mapped /\ WasEmpty(e.fields)
  \/ e.kind = "unchanged" /\ ~fresh /\ DOMAIN e.fields = {}
  \/ e.kind = "replaced" /\ ~fresh /\ Changed(e.fields)
CompleteShapes(diff, fresh, cfg) ==
  /\ \A e \in diff.gateway : GatewayShape(e, fresh, cfg.server)
  /\ \A n \in DOMAIN diff.providers : ProviderShape(diff.providers[n], fresh)
  /\ \A a \in DOMAIN diff.models : ModelShape(diff.models[a], fresh)

\* finalCollisionsConverged, finalDesiredMatchesConfig, validFinalKeyPlan.
CollisionsConverged(diff, collisions, d) ==
  ~HasUnauthorizedCollision(collisions, d) /\ collisions = Collisions(diff)
DesiredMatches(d, cfg) ==
  /\ d.gateway.set => \A f \in AuthFields : cfg.server[f] = d.gateway[f]
  /\ \A n \in DOMAIN d.providers :
       n \in DOMAIN cfg.providers /\ \A f \in Managed : cfg.providers[n][f] = d.providers[n][f]
  /\ \A a \in DOMAIN d.models :
       a \in DOMAIN cfg.models /\ \A f \in Mapped : cfg.models[a][f] = d.models[a][f]
ValidKeyPlan(key, diff, cfg) ==
  LET path == cfg.server.api_key_file
      anew == \E e \in diff.gateway : /\ e.kind \in {"added", "replaced"}
                                     /\ "api_key_file" \in DOMAIN e.fields
                                     /\ e.fields["api_key_file"].after = path
  IN  IF path = Unsaid THEN key = NoKeyPlan
      ELSE /\ key.path = path
           /\ IF anew THEN key.action = "ensure"
              ELSE key.action \in {"inspect", "ensure"} /\ ~key.allowExisting

ValidFinal(d, plan) ==
  LET fresh == IsFresh(plan.diff, d, plan.config) IN
  /\ ValidDesired(d) /\ Decode(plan.candidate) = {plan.config}
  /\ SelectedModelsPresent(plan.config.models, DOMAIN d.providers)
  /\ Shown(plan.diff) /\ DiffMatches(plan.diff, d, plan.config)
  /\ CompleteShapes(plan.diff, fresh, plan.config)
  /\ fresh => plan.config.root = d.root
  /\ CollisionsConverged(plan.diff, plan.collisions, d)
  /\ Alters(plan.diff) = plan.changed
  /\ DesiredMatches(d, plan.config)
  /\ ValidKeyPlan(plan.key, plan.diff, plan.config)
=============================================================================
