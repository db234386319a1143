---------------------------- MODULE ConfigCommit ----------------------------
(***************************************************************************)
(* The transaction that replaces a configuration (internal/configstore):   *)
(* Load, Preflight and Commit by several processes that share one          *)
(* configuration, its backup, its key file and an advisory lock.           *)
(*                                                                         *)
(* A process may be killed and the power may fail between any two steps.   *)
(* What the disk holds then is one of the directory images since the last  *)
(* directory sync (confDisk, keyDisk).  A user's editor may replace the    *)
(* configuration at any time without the lock.  On Windows directories     *)
(* are not synced.                                                         *)
(*                                                                         *)
(* A context that is done ends Commit like any failing step.  A process    *)
(* that ends forgets everything.  A file is its body.  Owner, mode and     *)
(* identity checks appear as steps that may fail; private directories,     *)
(* which are created on the way and never removed, are left out.           *)
(***************************************************************************)
EXTENDS Naturals, FiniteSets

CONSTANTS
  Writers,   \* processes that run Commit; a writer stands for its candidate too
  MaxCrashes, \* bound on power failures
  MaxEdits,   \* bound on edits by the user
  None

ASSUME CommitAssumption ==
  /\ None \notin Writers \cup {"old", "older", "edited", "key"}
  /\ Writers \cap {"old", "older", "edited"} = {}
  /\ MaxCrashes \in Nat /\ MaxEdits \in Nat

VARIABLES
  windows,   \* directories are not synced on this platform
  config, backup, key,  \* what the names hold now, None if absent
  temps,     \* names of temporary files that exist
  confDisk,  \* pairs <<config, backup>> a power failure may leave
  keyDisk,   \* values of key a power failure may leave
  lock,      \* holder of the advisory lock, or None
  pc,        \* next step of each writer
  plan,      \* the mutation: key intent, permission to reuse, candidate = base
  base,      \* Mutation.Base: the configuration that was loaded
  payload,   \* a new key was generated for this Commit
  prior,     \* backupRevision: the backup before this Commit
  staged,    \* state of the four transaction files
  keyFile,   \* state of stagedKey
  result,    \* CommitResult.State
  keyUse,    \* whose candidates were published, and whether their key is new
  raced,     \* the editor saved after the last look of a Commit
  crashes, edits

fileVars == <<config, backup, confDisk, temps>>
keyVars == <<key, keyDisk, keyFile>>
planVars == <<plan, base, payload, prior, keyUse>>
envVars == <<windows, raced, crashes, edits>>
vars == <<fileVars, keyVars, planVars, envVars, lock, pc, staged, result>>

Candidate == "config.tmp"
Backup == "config.bak.tmp"
Rollback == "config.rollback.tmp"
Restore == "config.bak.restore.tmp"
KeyTemp == ".key.tmp"
TransactionFiles == {Candidate, Backup, Rollback, Restore}

Bodies == Writers \cup {"old", "older", "edited"}
Intents == {"none", "inspect", "ensure"}
Plans == {p \in [intent : Intents, reuse : BOOLEAN, same : BOOLEAN] :
            p.reuse => p.intent = "ensure"}

\* CommitState.
States == {"notCommitted", "rolledBack", "committed", "recoveryRequired", "indeterminate"}

\* The order in which the transaction files are staged.
Order == <<Candidate, Backup, Rollback, Restore>>

\* Steps at which an error ends Commit with nothing published.
Early == {"locked", "checked", "keyed", "staged"}
Steps == Early \cup
  {"idle", "loaded", "planned", "keyStaged", "keyRenamed", "backupRenamed",
   "backupSynced", "publishing", "configRenamed", "restoring", "restored", "rolling",
   "rolledBack", "cleanup", "cleanKey", "unlock", "gone"}

TypeOK ==
  /\ windows \in BOOLEAN /\ raced \in BOOLEAN
  /\ config \in Bodies \cup {None} /\ backup \in Bodies \cup {None}
  /\ key \in {"key", None}
  /\ temps \subseteq TransactionFiles \cup {KeyTemp}
  /\ confDisk \subseteq (Bodies \cup {None}) \X (Bodies \cup {None}) /\ confDisk # {}
  /\ keyDisk \subseteq {"key", None} /\ keyDisk # {}
  /\ lock \in Writers \cup {None}
  /\ pc \in [Writers -> Steps]
  /\ plan \in [Writers -> Plans]
  /\ base \in [Writers -> Bodies \cup {None}]
  /\ prior \in [Writers -> Bodies \cup {None}]
  /\ payload \in [Writers -> BOOLEAN]
  /\ staged \in [Writers -> [TransactionFiles ->
                   {"none", "temporary", "renamed", "kept", "unlinked"}]]
  /\ keyFile \in [Writers -> {"none", "temporary", "published"}]
  /\ result \in [Writers -> States]
  /\ keyUse \in [Writers -> {"none", "reused", "new"}]
  /\ crashes \in Nat /\ edits \in Nat

NoPlan == [intent |-> "none", reuse |-> FALSE, same |-> FALSE]

Init ==
  /\ windows \in BOOLEAN
  /\ config \in {None, "old"} /\ backup \in {None, "older"} /\ key \in {None, "key"}
  /\ temps = {} /\ confDisk = {<<config, backup>>} /\ keyDisk = {key}
  /\ lock = None
  /\ pc = [w \in Writers |-> "idle"]
  /\ plan = [w \in Writers |-> NoPlan]
  /\ base = [w \in Writers |-> None] /\ prior = [w \in Writers |-> None]
  /\ payload = [w \in Writers |-> FALSE]
  /\ staged = [w \in Writers |-> [t \in TransactionFiles |-> "none"]]
  /\ keyFile = [w \in Writers |-> "none"]
  /\ result = [w \in Writers |-> "notCommitted"]
  /\ keyUse = [w \in Writers |-> "none"]
  /\ raced = FALSE /\ crashes = 0 /\ edits = 0

-----------------------------------------------------------------------------
(* Helpers.                                                                *)

Exists(w) == base[w] # None
CandidateBody(w) == IF plan[w].same THEN base[w] ELSE w
Changed(w) == ~Exists(w) \/ CandidateBody(w) # base[w]

\* validateBaseRevision: the configuration is the revision that was loaded.  The
\* code compares identity too: a file with the same bytes does not pass.
BaseIsCurrent(w) == config = base[w]

\* validateOpaqueRevision and verifyRestoredBackup.
BackupIsPrior(w) == backup = prior[w]

\* createNativePrivateFile succeeds only for names that do not exist, also if
\* what exists was left by a process that was killed.
Free(names) == names \cap temps = {}

Go(w, step) == pc' = [pc EXCEPT ![w] = step]

\* These processes are gone, and what they remembered with them.
End(S) ==
  LET Reset(f, fresh) == [w \in Writers |-> IF w \in S THEN fresh ELSE f[w]] IN
  /\ pc' = Reset(pc, "gone")
  /\ plan' = Reset(plan, NoPlan)
  /\ base' = Reset(base, None) /\ prior' = Reset(prior, None)
  /\ payload' = Reset(payload, FALSE)
  /\ staged' = Reset(staged, [t \in TransactionFiles |-> "none"])
  /\ keyFile' = Reset(keyFile, "none")
  /\ result' = Reset(result, "notCommitted")

\* The result is known; the deferred clean-up is next.
Decide(w, state) ==
  /\ result' = [result EXCEPT ![w] = state]
  /\ Go(w, "cleanup")

\* A directory operation adds an image that a power failure may leave.
Hold(c, b) ==
  /\ config' = c /\ backup' = b
  /\ confDisk' = confDisk \cup {<<c, b>>}

\* syncConfigDirectory.
SyncDirectory ==
  confDisk' = IF windows THEN confDisk ELSE {<<config, backup>>}

Mark(w, marks) ==
  staged' = [staged EXCEPT ![w] = [t \in TransactionFiles |->
               IF t \in DOMAIN marks THEN marks[t] ELSE @[t]]]

\* preflightKey.
KeyState(w) ==
  CASE plan[w].intent = "none" -> "none"
    [] plan[w].intent # "none" /\ key = None -> "missing"
    [] plan[w].intent = "ensure" /\ key # None /\ ~plan[w].reuse -> "needsConfirmation"
    [] OTHER -> "reusable"

\* validateKeyCommitMatrix.
KeyMode(w) ==
  CASE KeyState(w) = "none" /\ ~payload[w] -> "noop"
    [] KeyState(w) = "missing" /\ plan[w].intent = "ensure" /\ payload[w] -> "create"
    [] KeyState(w) = "reusable" /\ ~payload[w] -> "reuse"
    [] OTHER -> "refuse"

\* The transaction files a Commit stages.
Needed(w) ==
  {Candidate} \cup (IF Exists(w) THEN {Backup, Rollback} ELSE {})
              \cup (IF Exists(w) /\ backup # None THEN {Restore} ELSE {})

-----------------------------------------------------------------------------
(* Before the transaction.                                                 *)

\* Load, and the plan made from what was loaded.
Load(w) ==
  /\ pc[w] = "idle"
  /\ base' = [base EXCEPT ![w] = config]
  /\ \E p \in Plans :
       /\ p.same => config # None
       /\ plan' = [plan EXCEPT ![w] = p]
  /\ Go(w, "loaded")
  /\ UNCHANGED <<fileVars, keyVars, payload, prior, keyUse, envVars, lock, staged, result>>

\* Preflight finds the revision that was loaded; Init generates a key for a
\* file that is missing, and asks before it reuses one.
Preflight(w) ==
  /\ pc[w] = "loaded"
  /\ BaseIsCurrent(w)
  /\ KeyState(w) # "needsConfirmation"
  /\ payload' = [payload EXCEPT ![w] = plan[w].intent = "ensure" /\ KeyState(w) = "missing"]
  /\ Go(w, "planned")
  /\ UNCHANGED <<fileVars, keyVars, plan, base, prior, keyUse, envVars, lock, staged, result>>

\* Preflight, the start of Commit or acquireLock fails, or the context ends
\* while the lock is awaited.
GiveUp(w) ==
  /\ pc[w] \in {"loaded", "planned"}
  /\ End({w})
  /\ UNCHANGED <<fileVars, key, keyDisk, keyUse, envVars, lock>>

AcquireLock(w) ==
  /\ pc[w] = "planned"
  /\ lock = None
  /\ lock' = w
  /\ Go(w, "locked")
  /\ UNCHANGED <<fileVars, keyVars, planVars, envVars, staged, result>>

-----------------------------------------------------------------------------
(* The transaction, under the lock.                                        *)

\* validateBaseRevision, the private directories, the reserved names and the
\* key are looked at again.
Recheck(w) ==
  /\ pc[w] = "locked"
  /\ BaseIsCurrent(w)
  /\ KeyMode(w) # "refuse"
  /\ Go(w, "checked")
  /\ UNCHANGED <<fileVars, keyVars, planVars, envVars, lock, staged, result>>

\* Any of these steps may find something unsafe, fail or see the context done.
Refuse(w) ==
  /\ pc[w] \in Early
  /\ Decide(w, "notCommitted")
  /\ UNCHANGED <<fileVars, keyVars, planVars, envVars, lock, staged>>

NoNewKey(w) ==
  /\ pc[w] = "checked"
  /\ KeyMode(w) \in {"noop", "reuse"}
  /\ Go(w, "keyed")
  /\ UNCHANGED <<fileVars, keyVars, planVars, envVars, lock, staged, result>>

\* stageNewKey.
StageKey(w) ==
  /\ pc[w] = "checked" /\ KeyMode(w) = "create"
  /\ Free({KeyTemp})
  /\ temps' = temps \cup {KeyTemp}
  /\ keyFile' = [keyFile EXCEPT ![w] = "temporary"]
  /\ Go(w, "keyStaged")
  /\ UNCHANGED <<config, backup, confDisk, key, keyDisk, planVars, envVars, lock, staged, result>>

\* publish of the key: a rename that does not replace.
RenameKey(w) ==
  /\ pc[w] = "keyStaged"
  /\ key = None
  /\ key' = "key" /\ keyDisk' = keyDisk \cup {"key"}
  /\ temps' = temps \ {KeyTemp}
  /\ keyFile' = [keyFile EXCEPT ![w] = "published"]
  /\ Go(w, "keyRenamed")
  /\ UNCHANGED <<config, backup, confDisk, planVars, envVars, lock, staged, result>>

\* Slip: the directory of the key is not synced.
SyncKeyNever(w) ==
  /\ pc[w] = "keyRenamed"
  /\ Go(w, "keyed")
  /\ UNCHANGED <<fileVars, keyVars, planVars, envVars, lock, staged, result>>

SyncKey(w) ==
  /\ pc[w] = "keyRenamed"
  /\ keyDisk' = IF windows THEN keyDisk ELSE {key}
  /\ Go(w, "keyed")
  /\ UNCHANGED <<fileVars, key, keyFile, planVars, envVars, lock, staged, result>>

\* stagedKey.rollback: the file is removed and the directory synced, or it
\* stays because the removal or the sync fails.
RollBackKey(w) ==
  /\ keyFile' = [keyFile EXCEPT ![w] = "none"]
  /\ \/ /\ keyFile[w] = "published"
        /\ key' = None
        /\ \/ keyDisk' = IF windows THEN keyDisk \cup {None} ELSE {None}
           \/ keyDisk' = keyDisk \cup {None}
        /\ UNCHANGED temps
     \/ /\ keyFile[w] = "temporary"
        /\ temps' = temps \ {KeyTemp}
        /\ UNCHANGED <<key, keyDisk>>
     \/ UNCHANGED <<key, keyDisk, temps>>

\* Staging or publishing the key fails; it rolls itself back.
KeyFails(w) ==
  /\ pc[w] \in {"keyStaged", "keyRenamed"}
  /\ RollBackKey(w)
  /\ Decide(w, "notCommitted")
  /\ UNCHANGED <<config, backup, confDisk, planVars, envVars, lock, staged>>

\* The candidate is what is there: nothing is published.
Unchanged(w) ==
  /\ pc[w] = "keyed" /\ ~Changed(w)
  /\ Decide(w, "committed")
  /\ UNCHANGED <<fileVars, keyVars, planVars, envVars, lock, staged>>

\* stage of the candidate and, if there is a configuration, of the new backup,
\* of the copy to roll back to and of the old backup.
Stage(w) ==
  /\ pc[w] = "keyed" /\ Changed(w)
  /\ Free(Needed(w))
  /\ temps' = temps \cup Needed(w)
  /\ prior' = [prior EXCEPT ![w] = backup]
  /\ Mark(w, [t \in Needed(w) |-> "temporary"])
  /\ Go(w, "staged")
  /\ UNCHANGED <<config, backup, confDisk, keyVars, plan, base, payload, keyUse, envVars, lock, result>>

\* One of the files is not staged: those before it are left to the clean-up.
StageFails(w) ==
  /\ pc[w] = "keyed" /\ Changed(w)
  /\ \E n \in 0..3 : LET some == {Order[i] : i \in 1..n} IN
       /\ some \subseteq Needed(w) /\ some # Needed(w) /\ Free(some)
       /\ temps' = temps \cup some
       /\ Mark(w, [t \in some |-> "temporary"])
  /\ Decide(w, "notCommitted")
  /\ UNCHANGED <<config, backup, confDisk, keyVars, planVars, envVars, lock>>

\* The base is checked again and becomes the backup.
PublishBackup(w) ==
  /\ pc[w] = "staged" /\ Exists(w)
  /\ BaseIsCurrent(w) /\ BackupIsPrior(w)
  /\ Hold(config, base[w])
  /\ temps' = temps \ {Backup}
  /\ Mark(w, [t \in {Backup} |-> "kept"])
  /\ Go(w, "backupRenamed")
  /\ UNCHANGED <<keyVars, planVars, envVars, lock, result>>

SyncBackup(w) ==
  /\ pc[w] = "backupRenamed"
  /\ SyncDirectory
  /\ Go(w, "backupSynced")
  /\ UNCHANGED <<config, backup, temps, keyVars, planVars, envVars, lock, staged, result>>

NoBackup(w) ==
  /\ pc[w] = "staged" /\ ~Exists(w)
  /\ BaseIsCurrent(w)
  /\ Go(w, "backupSynced")
  /\ UNCHANGED <<fileVars, keyVars, planVars, envVars, lock, staged, result>>

\* Slip: the base was checked when the backup was published; once is enough.
PublishUnchecked(w) ==
  /\ pc[w] = "backupSynced"
  /\ Go(w, "publishing")
  /\ UNCHANGED <<fileVars, keyVars, planVars, envVars, lock, staged, result>>

\* The last two looks at the base.
FinalCheck(w) ==
  /\ pc[w] = "backupSynced"
  /\ BaseIsCurrent(w)
  /\ Go(w, "publishing")
  /\ UNCHANGED <<fileVars, keyVars, planVars, envVars, lock, staged, result>>

\* publish of the candidate: a rename that replaces only if there was a base.
\* If the file cannot be validated afterwards nothing is known.
PublishConfig(w) ==
  /\ pc[w] = "publishing"
  /\ Exists(w) \/ config = None
  /\ Hold(CandidateBody(w), backup)
  /\ temps' = temps \ {Candidate}
  /\ Mark(w, [t \in {Candidate} |-> "kept"])
  /\ keyUse' = [keyUse EXCEPT ![w] = IF plan[w].intent = "none" THEN "none"
                                     ELSE IF payload[w] THEN "new" ELSE "reused"]
  /\ \/ Go(w, "configRenamed") /\ UNCHANGED result
     \/ Decide(w, "indeterminate")
  /\ UNCHANGED <<keyVars, plan, base, payload, prior, envVars, lock>>

SyncConfig(w) ==
  /\ pc[w] = "configRenamed"
  /\ SyncDirectory
  /\ Decide(w, "committed")
  /\ UNCHANGED <<config, backup, temps, keyVars, planVars, envVars, lock, staged>>

SyncFails(w) ==
  /\ pc[w] = "configRenamed" /\ ~windows
  /\ Go(w, "rolling")
  /\ UNCHANGED <<fileVars, keyVars, planVars, envVars, lock, staged, result>>

-----------------------------------------------------------------------------
(* failBeforeConfig: the backup goes back to what it was.                  *)

FailBeforeConfig(w) ==
  /\ pc[w] \in {"backupRenamed", "backupSynced", "publishing"}
  /\ IF Exists(w)
     THEN Go(w, "restoring") /\ UNCHANGED result
     ELSE Decide(w, "notCommitted")
  /\ UNCHANGED <<fileVars, keyVars, planVars, envVars, lock, staged>>

\* The old backup replaces the new one, or the new one is removed.  The rename
\* may succeed and the validation after it fail: then the file keeps its
\* mark as a temporary.
RestoreBackup(w) ==
  /\ pc[w] = "restoring"
  /\ backup = base[w]
  /\ Hold(config, prior[w])
  /\ IF prior[w] = None
     THEN /\ Mark(w, [t \in {Backup} |-> "unlinked"])
          /\ Go(w, "restored")
          /\ UNCHANGED <<temps, result>>
     ELSE /\ temps' = temps \ {Restore}
          /\ \/ /\ Mark(w, [t \in {Backup, Restore} |->
                              IF t = Backup THEN "unlinked" ELSE "kept"])
                /\ Go(w, "restored")
                /\ UNCHANGED result
             \/ /\ Mark(w, [t \in {Restore} |-> "renamed"])
                /\ Decide(w, "recoveryRequired")
  /\ UNCHANGED <<keyVars, planVars, envVars, lock>>

SyncRestored(w) ==
  /\ pc[w] = "restored"
  /\ BackupIsPrior(w)
  /\ SyncDirectory
  /\ Decide(w, "notCommitted")
  /\ UNCHANGED <<config, backup, temps, keyVars, planVars, envVars, lock, staged>>

RestoreFails(w) ==
  /\ pc[w] \in {"restoring", "restored"}
  /\ Decide(w, "recoveryRequired")
  /\ UNCHANGED <<fileVars, keyVars, planVars, envVars, lock, staged>>

-----------------------------------------------------------------------------
(* rollbackPublishedConfig: the configuration goes back to what it was.    *)

RollBackConfig(w) ==
  /\ pc[w] = "rolling"
  /\ config = CandidateBody(w)
  /\ Hold(base[w], backup)
  /\ IF Exists(w)
     THEN /\ temps' = temps \ {Rollback}
          /\ \/ /\ Mark(w, [t \in {Candidate, Rollback} |->
                              IF t = Candidate THEN "unlinked" ELSE "kept"])
                /\ Go(w, "rolledBack")
                /\ UNCHANGED result
             \/ /\ Mark(w, [t \in {Rollback} |-> "renamed"])
                /\ Decide(w, "indeterminate")
     ELSE /\ Mark(w, [t \in {Candidate} |-> "unlinked"])
          /\ Go(w, "rolledBack")
          /\ UNCHANGED <<temps, result>>
  /\ UNCHANGED <<keyVars, planVars, envVars, lock>>

\* Slip: the rollback is reported without the sync that makes it last.
ReportRolledBack(w) ==
  /\ pc[w] = "rolledBack"
  /\ BaseIsCurrent(w)
  /\ Decide(w, "rolledBack")
  /\ UNCHANGED <<fileVars, keyVars, planVars, envVars, lock, staged>>

SyncRolledBack(w) ==
  /\ pc[w] = "rolledBack"
  /\ BaseIsCurrent(w)
  /\ SyncDirectory
  /\ Decide(w, "rolledBack")
  /\ UNCHANGED <<config, backup, temps, keyVars, planVars, envVars, lock, staged>>

RollBackFails(w) ==
  /\ pc[w] \in {"rolling", "rolledBack"}
  /\ Decide(w, "indeterminate")
  /\ UNCHANGED <<fileVars, keyVars, planVars, envVars, lock, staged>>

-----------------------------------------------------------------------------
(* The deferred clean-up, whatever happened before.                        *)

\* transactionDirectory.cleanup: every file that still counts as temporary is
\* removed under the name it has now, if it is still the file there; or the
\* removals fail.
Cleanup(w) ==
  LET Renamed(t) == staged[w][t] = "renamed"
      loseConfig == Renamed(Rollback) /\ config = base[w]
      loseBackup == Renamed(Restore) /\ backup = prior[w]
  IN
  /\ pc[w] = "cleanup"
  /\ \E fails \in {{}, TransactionFiles} :
       LET c == IF loseConfig /\ Rollback \notin fails THEN None ELSE config
           b == IF loseBackup /\ Restore \notin fails THEN None ELSE backup
       IN /\ Hold(c, b)
          /\ temps' = temps \ {t \in TransactionFiles \ fails : staged[w][t] = "temporary"}
  /\ staged' = [staged EXCEPT ![w] = [t \in TransactionFiles |->
                  IF @[t] \in {"kept", "unlinked"} THEN @[t] ELSE "none"]]
  /\ Go(w, "cleanKey")
  /\ UNCHANGED <<keyVars, planVars, envVars, lock, result>>

KeepKey(w) == result[w] \in {"committed", "indeterminate"}

\* key.finish or key.rollback.
CleanKey(w) ==
  /\ pc[w] = "cleanKey"
  /\ IF keyFile[w] = "none" \/ KeepKey(w)
     THEN /\ keyFile' = [keyFile EXCEPT ![w] = "none"]
          /\ UNCHANGED <<key, keyDisk, temps>>
     ELSE RollBackKey(w)
  /\ Go(w, "unlock")
  /\ UNCHANGED <<config, backup, confDisk, planVars, envVars, lock, staged, result>>

Unlock(w) ==
  /\ pc[w] = "unlock"
  /\ lock' = None
  /\ End({w})
  /\ UNCHANGED <<fileVars, key, keyDisk, keyUse, envVars>>

-----------------------------------------------------------------------------
(* The environment.                                                        *)

\* The kernel gives up the lock of a process that is killed; its files stay.
Killed(w) ==
  /\ pc[w] \notin {"idle", "gone"}
  /\ End({w})
  /\ lock' = IF lock = w THEN None ELSE lock
  /\ UNCHANGED <<fileVars, key, keyDisk, keyUse, envVars>>

PowerFails ==
  /\ crashes < MaxCrashes
  /\ crashes' = crashes + 1
  /\ \E d \in confDisk : config' = d[1] /\ backup' = d[2] /\ confDisk' = {d}
  /\ \E k \in keyDisk : key' = k /\ keyDisk' = {k}
  /\ temps' \in {temps, {}}
  /\ End({w \in Writers : pc[w] # "idle"})
  /\ lock' = None
  /\ UNCHANGED <<keyUse, windows, raced, edits>>

\* A user replaces the configuration with an editor that knows no lock.
Edit ==
  /\ edits < MaxEdits
  /\ edits' = edits + 1
  /\ raced' = \E w \in Writers : pc[w] = "publishing"
  /\ Hold("edited", backup)
  /\ UNCHANGED <<temps, keyVars, planVars, windows, crashes, lock, pc, staged, result>>

Step(w) ==
  \/ Load(w) \/ Preflight(w) \/ GiveUp(w) \/ AcquireLock(w)
  \/ Recheck(w) \/ Refuse(w) \/ NoNewKey(w) \/ StageKey(w) \/ RenameKey(w) \/ SyncKey(w)
  \/ KeyFails(w) \/ Unchanged(w) \/ Stage(w) \/ StageFails(w) \/ PublishBackup(w)
  \/ SyncBackup(w) \/ NoBackup(w) \/ FinalCheck(w) \/ PublishConfig(w) \/ SyncConfig(w)
  \/ SyncFails(w) \/ FailBeforeConfig(w) \/ RestoreBackup(w) \/ SyncRestored(w)
  \/ RestoreFails(w) \/ RollBackConfig(w) \/ SyncRolledBack(w) \/ RollBackFails(w)
  \/ Cleanup(w) \/ CleanKey(w) \/ Unlock(w)

Next ==
  \/ \E w \in Writers : Step(w) \/ Killed(w)
  \/ PowerFails
  \/ Edit

Spec == Init /\ [][Next]_vars

-----------------------------------------------------------------------------
(* What must hold.                                                         *)

\* What a power failure may leave of the configuration, and of the backup.
DiskConfigs == {d[1] : d \in confDisk}
DiskBackups == {d[2] : d \in confDisk}

\* Commit reports only what is so (CommitState, commit.go:19-33), also if the
\* power fails right after it: while the lock is still held, a configuration
\* that was committed is there with the one it replaced as its backup, one that
\* was rolled back is the old one, one that was not committed is nowhere, and a
\* backup that was published and taken back is the one before.  What an editor
\* wrote may be there instead.
ReportIsTrue ==
  \A w \in Writers : pc[w] = "unlock" =>
    LET configs == {config} \cup (IF windows THEN {} ELSE DiskConfigs)
        backups == {backup} \cup (IF windows THEN {} ELSE DiskBackups)
    IN
    /\ result[w] = "committed" /\ Changed(w) =>
         /\ configs \subseteq {w, "edited"}
         /\ Exists(w) => backups = {base[w]}
    /\ result[w] = "rolledBack" => configs \subseteq {base[w], "edited"}
    /\ result[w] \in {"notCommitted", "recoveryRequired"} => w \notin configs
    /\ result[w] = "notCommitted" /\ staged[w][Backup] = "unlinked" => backups = {prior[w]}

\* A configuration that Commit put in place and that names a key file never
\* stands without it: another process takes back only the key it created itself
\* (commit.go:130-141).  If the key was new it is durable before the
\* configuration is published, and no power failure leaves one without the
\* other (commit.go:190-205), except on Windows, which syncs no directory.
KeyBeforeConfig ==
  \A w \in Writers :
    /\ keyUse[w] # "none" /\ config = w /\ crashes = 0 => key = "key"
    /\ keyUse[w] = "new" /\ ~windows =>
         /\ config = w => key = "key"
         /\ w \in DiskConfigs => keyDisk = {"key"}

\* A Commit replaces the very configuration its candidate was made from, however
\* many processes run: only an editor, which takes no lock, can be overwritten,
\* and only if it saves between the last look and the rename
\* (commit.go:300-346).
ReplacesItsBase ==
  [][\A w \in Writers : pc[w] = "publishing" /\ config' # config /\ pc'[w] # pc[w]
       => config = base[w] \/ raced]_vars

\* "Storage, locking, or safe-path failure: old config retained"
\* (docs/reference.md:318).  When a Commit that replaces a configuration is over,
\* there is one, the old or the new.
ConfigSurvives ==
  \A w \in Writers : pc[w] = "unlock" /\ Exists(w) => config # None
=============================================================================
