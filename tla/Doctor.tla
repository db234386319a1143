------------------------------- MODULE Doctor -------------------------------
(***************************************************************************)
(* What is known of a provider before it serves: the probes of the three    *)
(* adapters (internal/provider), the rows doctor.Run makes of them, and the  *)
(* two places that check such a row again, each with rules of its own: the   *)
(* report (internal/doctor/output.go) and the gateway (NewProviderRuntime).   *)
(*                                                                          *)
(* A version is "" (unreadable), "unsupported", "overlong" (unsupported too, *)
(* and longer than core lets a version be) or "supported" (which the bounds  *)
(* of the supported intervals keep short); the capabilities of a provider    *)
(* are proven all together or not at all; of a check is kept whether it      *)
(* passed.  App runs the diagnosis.                                          *)
(***************************************************************************)
EXTENDS Naturals, Sequences, FiniteSets

CONSTANT Sorted  \* the configured providers in the order of their names

Providers == {Sorted[i] : i \in DOMAIN Sorted}
Known == {"claude", "codex", "gemini"}

\* snapshotAdapters.
ASSUME SortedAssumption ==
  /\ Sorted \in Seq(Known) /\ Sorted # <<>>
  /\ Cardinality(Providers) = Len(Sorted)

VARIABLES
  checks,  \* listener, gateway_auth, scheduler, runtime_root, runtime_janitor,
           \* containment, probe_cleanup
  rows     \* of each provider

reportVars == <<checks, rows>>

InitialChecks == [i \in 1..7 |-> IF i <= 3 THEN "pass" ELSE "skipped"]
Skipped == [status |-> "unknown", version |-> "", caps |-> FALSE, auth |-> "unknown",
            problems |-> {}]
SkippedRows == [i \in DOMAIN Sorted |-> Skipped]

DoctorInit == checks = InitialChecks /\ rows = SkippedRows

DoctorTypeOK ==
  /\ checks \in [1..7 -> {"pass", "fail", "skipped"}]
  /\ \A i \in DOMAIN Sorted :
       /\ rows[i].status \in {"ready", "not_ready", "unknown"}
       /\ rows[i].auth \in {"authenticated", "configured", "missing", "unknown"}

-----------------------------------------------------------------------------
(* The adapters' probes.                                                     *)

Commands == [claude |-> <<"version", "help", "auth">>,
             codex  |-> <<"version", "help", "features", "auth", "doctor">>,
             gemini |-> <<"version", "help">>]

\* What the commands say: yes, no (of the version: another one, which may be "long";
\* of auth: missing) or nothing of use.  A version that is not supported ends the
\* probe; a cleanup that failed ("dirty") is latched and refuses the commands after it.
Answers(p) ==
  {a \in [DOMAIN Commands[p] -> {"yes", "no", "long", "nothing", "dirty"}] :
     \A i \in DOMAIN a \ {1} : /\ a[i] # "long"
                               /\ a[1] \in {"no", "long", "nothing"} => a[i] = "nothing"
                               /\ a[i-1] = "dirty" => a[i] = "dirty"}

\* ParseVersion reads three numbers of 64 bits, 62 bytes at most, and Range.Contains
\* finds these outside the interval.
Unsupported == {"unsupported", "overlong"}

\* core.IsCanonicalProviderVersion: 32 bytes at most.
CanonicalVersion(version) == version # "overlong"

\* credentialHealth: what Gemini's credentials are is not asked of the CLI.
Credentials(p) == IF p = "gemini" THEN {"configured", "unknown"} ELSE {"unknown"}

\* buildHealth.
Built(p, version, proven, auth) ==
  LET problems ==
        (IF version = "" THEN {"version_unreadable"}
         ELSE IF version \in Unsupported THEN {"version_unsupported"} ELSE {})
        \cup (IF proven THEN {} ELSE {"capability_missing"})
        \cup (CASE auth = "missing" -> {"auth_missing"}
                [] auth = "unknown" -> {"auth_unknown"}
                [] OTHER -> {})
  IN [status |-> IF problems = {} THEN "ready"
                 ELSE IF p # "gemini" /\ problems = {"auth_unknown"} THEN "unknown"
                 ELSE "not_ready",
      version |-> version, caps |-> proven, auth |-> auth, problems |-> problems]

\* Probe.
Health(p, a, credentials) ==
  LET said(c) == a[CHOOSE i \in DOMAIN a : Commands[p][i] = c]
      version == CASE said("version") = "yes" -> "supported"
                   [] said("version") = "no" -> "unsupported"
                   [] said("version") = "long" -> "overlong"
                   [] OTHER -> ""
      auth == IF p = "gemini" THEN credentials
              ELSE CASE said("auth") = "yes" -> "authenticated"
                     [] said("auth") = "no" -> "missing"
                     [] OTHER -> "unknown"
  IN Built(p, version, \A i \in DOMAIN a : Commands[p][i] # "auth" => a[i] = "yes", auth)

-----------------------------------------------------------------------------
(* The report: validateReport, and canonicalizeHealth before it.             *)

AuthValues(p) == {"missing", "unknown"} \cup IF p = "gemini" THEN {"configured"}
                                             ELSE {"authenticated"}

PathProblems == {"executable_missing", "executable_unsafe", "config_home_unsafe"}

\* providerProblemAllowed.
Allowed(p) ==
  PathProblems \cup {"version_unreadable", "version_unsupported", "capability_missing",
                     "auth_unknown"}
  \cup (IF p = "gemini" THEN {"credential_missing", "credential_file_unsafe"}
        ELSE {"auth_missing"})
  \cup (IF p = "claude" THEN {"credential_missing"} ELSE {})

Expected(p, row) ==
  (IF row.version = "" THEN {"version_unreadable"} ELSE {})
  \cup (IF row.version \in Unsupported THEN {"version_unsupported"} ELSE {})
  \cup (IF row.caps THEN {} ELSE {"capability_missing"})
  \cup (IF row.auth = "unknown" THEN {"auth_unknown"} ELSE {})
  \cup (IF row.auth # "missing" THEN {}
        ELSE IF p = "gemini" THEN {"credential_missing"} ELSE {"auth_missing"})

\* providerProofRow.
ProofRow(p, row) ==
  /\ row.auth \in AuthValues(p)
  /\ row.problems = Expected(p, row)
  /\ row.status = IF row.version # "supported" \/ ~row.caps THEN "not_ready"
                  ELSE IF row.auth \in {"authenticated", "configured"} THEN "ready"
                  ELSE IF row.auth = "unknown" /\ p # "gemini" THEN "unknown"
                  ELSE "not_ready"

\* preprobeProviderRow: without a probe there is one problem.
PreprobeRow(p, row) ==
  /\ row.status = "not_ready" /\ row.version = "" /\ ~row.caps
  /\ \E problem \in PathProblems
                    \cup (IF p # "codex" THEN {"credential_missing"} ELSE {})
                    \cup (IF p = "gemini" THEN {"credential_file_unsafe"} ELSE {}) :
       /\ row.problems = {problem}
       /\ row.auth = IF problem = "credential_missing" THEN "missing" ELSE "unknown"

ValidRow(p, row) ==
  /\ row.auth \in AuthValues(p) /\ row.problems \subseteq Allowed(p)
  /\ PreprobeRow(p, row) \/ ProofRow(p, row)

All(from, to, result) == \A i \in from..to : checks[i] = result

\* validateCoreReport.
ValidCore ==
  /\ \A i \in 1..3 : checks[i] # "skipped"
  /\ IF ~All(1, 3, "pass") THEN All(4, 7, "skipped")
     ELSE /\ checks[4] # "skipped"
          /\ IF checks[4] = "fail" THEN All(5, 7, "skipped")
             ELSE /\ checks[5] # "skipped" /\ checks[7] # "skipped"
                  /\ (checks[5] = "fail") <=> (checks[6] = "skipped")

\* validateProviderRows: rows are missing only behind a probe whose cleanup failed.
ValidRows ==
  LET skipped == {i \in DOMAIN rows : rows[i] = Skipped}
  IN IF ~All(1, 6, "pass") THEN skipped = DOMAIN rows
     ELSE /\ \A i \in DOMAIN rows \ skipped :
               ValidRow(Sorted[i], rows[i]) /\ \A j \in skipped : i < j
          /\ skipped # {} =>
               /\ checks[7] = "fail"
               /\ \E i \in DOMAIN rows \ skipped :
                    i + 1 \in skipped /\ ~PreprobeRow(Sorted[i], rows[i])

ValidReport == ValidCore /\ ValidRows

\* canonicalizeHealth: what an adapter should not have said is not believed.
Malformed == [status |-> "not_ready", version |-> "", caps |-> FALSE, auth |-> "unknown",
              problems |-> {"auth_unknown", "capability_missing", "version_unreadable"}]
Canonical(p, health) ==
  IF health.problems \subseteq Allowed(p) /\ ProofRow(p, health) THEN health ELSE Malformed

-----------------------------------------------------------------------------
(* resolveProvider.                                                          *)

\* allowedCredentialEnv: Codex has no credential of its own.
TakesCredentials(p) == p # "codex"

\* A path, a credential or its file is refused; nothing is run.
Unprobed(p) ==
  LET refused == [Skipped EXCEPT !.status = "not_ready"]
      files == PathProblems \cup IF p = "gemini" THEN {"credential_file_unsafe"} ELSE {}
  IN {[refused EXCEPT !.problems = {problem}] : problem \in files}
     \cup IF TakesCredentials(p)
          THEN {[refused EXCEPT !.auth = "missing", !.problems = {"credential_missing"}]}
          ELSE {}

\* The row, what the adapter said if it was asked, and whether a cleanup failed.
OutcomesOf(p) ==
  {[row |-> row, dirty |-> FALSE] : row \in Unprobed(p)}
  \cup {[row |-> Canonical(p, Health(p, a, c)), dirty |-> \E i \in DOMAIN a : a[i] = "dirty"]
        : a \in Answers(p), c \in Credentials(p)}

Outcomes == [p \in Known |-> OutcomesOf(p)]

-----------------------------------------------------------------------------
(* NewProviderRuntime.                                                       *)

\* startupProblemAllowed.
Startable(p) ==
  PathProblems \cup {"version_unreadable", "version_unsupported", "capability_missing",
                     "auth_unknown"}
  \cup (IF p \in {"codex", "claude"} THEN {"auth_missing"} ELSE {})
  \cup (IF p \in {"claude", "gemini"} THEN {"credential_missing"} ELSE {})
  \cup (IF p = "gemini" THEN {"credential_file_unsafe"} ELSE {})

\* canonicalPreprobeHealth.
Unasked(health) ==
  /\ health.status = "not_ready" /\ health.version = "" /\ ~health.caps
  /\ \/ health.auth = "unknown"
        /\ \E p \in PathProblems \cup {"credential_file_unsafe"} : health.problems = {p}
     \/ health.auth = "missing" /\ health.problems = {"credential_missing"}

\* canonicalInitialHealth: the one place that bounds the length of a version.
Accepts(p, health) ==
  LET known == IF p = "gemini" THEN "configured" ELSE "authenticated"
      usable == health.version = "supported" /\ health.caps
      wanted == UNION {IF health.version = "" THEN {"version_unreadable"} ELSE {},
                       IF health.version \in Unsupported THEN {"version_unsupported"} ELSE {},
                       IF health.caps THEN {} ELSE {"capability_missing"},
                       IF health.auth = "unknown" THEN {"auth_unknown"} ELSE {},
                       IF health.auth # "missing" THEN {}
                       ELSE {IF p = "gemini" THEN "credential_missing" ELSE "auth_missing"}}
  IN /\ CanonicalVersion(health.version)
     /\ health.auth \in {known, "missing", "unknown"}
     /\ health.problems \subseteq Startable(p)
     /\ \/ Unasked(health)
        \/ /\ health.problems = wanted
           /\ (health.status = "ready") <=> (usable /\ health.auth = known)
           /\ (health.status = "unknown")
                <=> (usable /\ health.auth = "unknown" /\ p # "gemini")

\* Nothing an adapter can say is malformed, and no row is refused but for the length
\* of its version.
RowsAgree ==
  \A p \in Known :
    /\ \A a \in Answers(p), c \in Credentials(p) :
         Canonical(p, Health(p, a, c)) = Health(p, a, c)
    /\ \A o \in Outcomes[p] :
         ValidRow(p, o.row) /\ (Accepts(p, o.row) <=> CanonicalVersion(o.row.version))
=============================================================================
