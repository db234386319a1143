-------------------------- MODULE ConfigCommitProofs --------------------------
(* For any number of processes, edits and power failures: a Commit reports what *)
(* is so, publishes no configuration before its key and replaces only its base. *)
EXTENDS ConfigCommit, TLAPS

Over == {"cleanup", "cleanKey", "unlock"}
Publishing == {"staged", "backupRenamed", "backupSynced", "publishing"}
Published == {"configRenamed", "rolling", "rolledBack"}
Restoring == {"restoring", "restored"}
Ready == {"keyed"} \cup Publishing
InLock == {"locked", "checked", "keyStaged",
   "keyRenamed"} \cup Ready \cup Published \cup Restoring \cup Over
Before == {"idle", "loaded", "planned"}

\* What the names hold now is one of the images.
OnDisk == <<config, backup>> \in confDisk /\ key \in keyDisk

\* The steps of a transaction are taken under the lock.
Exclusive == \A w \in Writers : pc[w] \in InLock => lock = w

\* A candidate is nowhere before it is published.
Nowhere(w) ==
  /\ \A d \in confDisk : d[1] # w /\ d[2] # w
  /\ \A v \in Writers : base[v] # w /\ prior[v] # w

Unpublished(w) ==
  \/ pc[w] \in (InLock \ (Published \cup Over)) \cup Before
  \/ pc[w] \in Over /\ result[w] \in {"notCommitted", "recoveryRequired"}

Fresh == \A w \in Writers : Unpublished(w) => Nowhere(w)

\* A candidate is another file than its base, unless it is its copy.
Planned ==
  \A w \in Writers :
    /\ base[w] # w
    /\ plan[w].same => base[w] # None
    /\ pc[w] \in Publishing \cup Published \cup Restoring => Changed(w)

\* Only a rename that could not be validated leaves a file marked as temporary
\* under a name that counts.
MarkedOf(w) ==
  /\ staged[w][Rollback] = "renamed" => pc[w] = "cleanup" /\ result[w] = "indeterminate"
  /\ staged[w][Restore] = "renamed" => pc[w] = "cleanup" /\ result[w] = "recoveryRequired"
  /\ staged[w][Backup] = "unlinked" => pc[w] \in {"restored"} \cup Over

Marked == \A w \in Writers : MarkedOf(w)

\* A published backup is the base, and the base is what is replaced.
BaseKept(w) ==
  /\ pc[w] \in {"backupRenamed", "backupSynced", "publishing", "configRenamed"} /\ Exists(w)
       => backup = base[w]
  /\ pc[w] = "publishing" => config = base[w] \/ raced
  /\ pc[w] = "configRenamed" => config \in {w, "edited"}

BasesKept == \A w \in Writers : BaseKept(w)

Reported(w) ==
  /\ result[w] = "committed" /\ Changed(w) =>
       /\ config \in {w, "edited"} /\ (Exists(w) => backup = base[w])
       /\ ~windows => \A d \in confDisk : d[1] \in {w, "edited"} /\ (Exists(w) => d[2] = base[w])
  /\ result[w] = "rolledBack" =>
       /\ config \in {base[w], "edited"}
       /\ ~windows => \A d \in confDisk : d[1] \in {base[w], "edited"}
  /\ result[w] = "notCommitted" /\ staged[w][Backup] = "unlinked" =>
       /\ backup = prior[w]
       /\ ~windows => \A d \in confDisk : d[2] = prior[w]

Reports == \A w \in Writers : pc[w] \in Over => Reported(w)

\* The key a configuration names is there, and durable if it is new, before the
\* configuration is published.
KeyReadyFor(w) ==
  /\ pc[w] \in Before \cup {"locked", "checked", "unlock", "gone"} => keyFile[w] = "none"
  /\ pc[w] = "keyStaged" => keyFile[w] = "temporary"
  /\ pc[w] = "keyRenamed" => key = "key"
  /\ pc[w] \in Ready =>
       /\ plan[w].intent # "none" => key = "key"
       /\ payload[w] /\ ~windows => keyDisk = {"key"}

KeyReady == \A w \in Writers : KeyReadyFor(w)

\* What a published configuration with a key asks for: now if the power never
\* failed, and of the disk if its key was new.
Asks(w, now, lasting) ==
  /\ keyUse[w] # "none" /\ crashes = 0 => now
  /\ keyUse[w] = "new" /\ ~windows => lasting

KeyKeptFor(w) == Asks(w, config = w => key = "key", w \in DiskConfigs => keyDisk = {"key"})
KeyKept == \A w \in Writers : KeyKeptFor(w)

\* A process that created the key did so because no configuration needed one.
Owned(v, w) ==
  keyFile[v] = "published" => Asks(w, config # w /\ base[v] # w, w \notin DiskConfigs /\ base[v] # w)
KeyOwned == \A v \in Writers : \A w \in Writers \ {v} : Owned(v, w)

\* A base that needs its key has it as long as it may come back.
HasKey(v, w) ==
  pc[v] \in InLock \ ({"locked"} \cup Over) /\ base[v] = w => Asks(w, key = "key", keyDisk = {"key"})
BaseHasKey == \A v \in Writers : \A w \in Writers \ {v} : HasKey(v, w)

IInv ==
  /\ TypeOK /\ OnDisk /\ Exclusive /\ Fresh /\ Planned /\ Marked /\ BasesKept /\ Reports
  /\ KeyReady /\ KeyKept /\ KeyOwned /\ BaseHasKey

-----------------------------------------------------------------------------
\* What a writer remembers.
Aside(v) ==
  /\ pc'[v] = pc[v] /\ plan'[v] = plan[v] /\ base'[v] = base[v] /\ prior'[v] = prior[v]
  /\ payload'[v] = payload[v] /\ staged'[v] = staged[v] /\ keyFile'[v] = keyFile[v]
  /\ result'[v] = result[v] /\ keyUse'[v] = keyUse[v]

\* What a process that ends forgets, and no other.
LEMMA Ends ==
  ASSUME NEW S, End(S), NEW v \in Writers
  PROVE  /\ v \in S => /\ pc'[v] = "gone" /\ plan'[v] = NoPlan /\ base'[v] = None /\ prior'[v] = None
                       /\ payload'[v] = FALSE /\ keyFile'[v] = "none" /\ result'[v] = "notCommitted"
                       /\ staged'[v] = [t \in TransactionFiles |-> "none"]
         /\ v \notin S => /\ pc'[v] = pc[v] /\ plan'[v] = plan[v] /\ base'[v] = base[v] /\ prior'[v] = prior[v]
                          /\ payload'[v] = payload[v] /\ keyFile'[v] = keyFile[v] /\ result'[v] = result[v]
                          /\ staged'[v] = staged[v]
BY DEF End

LEMMA EndsOne ==
  ASSUME NEW w \in Writers, End({w}), NEW v \in Writers \ {w}, keyUse' = keyUse
  PROVE  Aside(v)
<1>1. v \in Writers /\ v \notin {w}
  OBVIOUS
<1>2. /\ pc'[v] = pc[v] /\ plan'[v] = plan[v] /\ base'[v] = base[v] /\ prior'[v] = prior[v]
      /\ payload'[v] = payload[v] /\ keyFile'[v] = keyFile[v] /\ result'[v] = result[v]
      /\ staged'[v] = staged[v]
  BY <1>1, Ends
<1> QED BY <1>2 DEF Aside

\* A step of one writer changes nothing another remembers.
LEMMA StepsAside ==
  ASSUME TypeOK, NEW w \in Writers, Step(w), NEW v \in Writers \ {w}
  PROVE  Aside(v)
<1> USE DEF TypeOK, Aside, Go, Decide, planVars, keyVars, fileVars
<1>1. CASE Load(w) \/ Preflight(w) \/ GiveUp(w) \/ AcquireLock(w)
  <2>1. CASE GiveUp(w)
    BY <2>1, EndsOne DEF GiveUp
  <2> QED BY <1>1, <2>1 DEF Load, Preflight, AcquireLock
<1>2. CASE Recheck(w) \/ Refuse(w) \/ NoNewKey(w) \/ StageKey(w) \/ RenameKey(w) \/ SyncKey(w)
  BY <1>2 DEF Recheck, Refuse, NoNewKey, StageKey, RenameKey, SyncKey
<1>3. CASE KeyFails(w) \/ CleanKey(w)
  BY <1>3 DEF KeyFails, CleanKey, RollBackKey
<1>4. CASE Unchanged(w) \/ Stage(w) \/ StageFails(w)
  BY <1>4 DEF Unchanged, Stage, StageFails, Mark
<1>5. CASE PublishBackup(w) \/ SyncBackup(w) \/ NoBackup(w) \/ FinalCheck(w)
  BY <1>5 DEF PublishBackup, SyncBackup, NoBackup, FinalCheck, Mark
<1>6. CASE PublishConfig(w) \/ SyncConfig(w) \/ SyncFails(w) \/ FailBeforeConfig(w)
  BY <1>6 DEF PublishConfig, SyncConfig, SyncFails, FailBeforeConfig, Mark
<1>7. CASE RestoreBackup(w) \/ SyncRestored(w) \/ RestoreFails(w)
  BY <1>7 DEF RestoreBackup, SyncRestored, RestoreFails, Mark
<1>8. CASE RollBackConfig(w) \/ SyncRolledBack(w) \/ RollBackFails(w)
  BY <1>8 DEF RollBackConfig, SyncRolledBack, RollBackFails, Mark
<1>9. CASE Cleanup(w) \/ Unlock(w)
  <2>1. CASE Unlock(w)
    BY <2>1, EndsOne DEF Unlock
  <2> QED BY <1>9, <2>1 DEF Cleanup
<1> QED BY <1>1, <1>2, <1>3, <1>4, <1>5, <1>6, <1>7, <1>8, <1>9 DEF Step

Files == <<config, backup, confDisk, key, keyDisk>>

\* A step outside the lock changes no file, and a step under it keeps it.
LEMMA StepsOutside ==
  ASSUME TypeOK, NEW w \in Writers, Step(w)
  PROVE  /\ UNCHANGED <<windows, crashes, raced, edits>>
         /\ pc[w] \in Before => UNCHANGED <<Files, keyUse>>
         /\ pc[w] \in InLock \cup Before
         /\ pc[w] \in Before =>
              \/ pc'[w] \in Before \cup {"gone"} /\ lock' = lock
              \/ lock = None /\ lock' = w /\ pc'[w] = "locked"
         /\ pc[w] \in InLock =>
              \/ pc'[w] \in InLock \ {"locked"} /\ lock' = lock
              \/ pc'[w] = "gone"
         /\ lock' \in {lock, w, None}
<1> USE DEF TypeOK, Go, Decide, End, planVars, keyVars, fileVars, envVars, Files, InLock, Before, Ready,
    Publishing,
    Published, Restoring, Over, Early
<1>1. CASE Load(w) \/ Preflight(w) \/ GiveUp(w) \/ AcquireLock(w)
  BY <1>1 DEF Load, Preflight, GiveUp, AcquireLock
<1>2. CASE Recheck(w) \/ Refuse(w) \/ NoNewKey(w) \/ StageKey(w) \/ RenameKey(w) \/ SyncKey(w)
  BY <1>2 DEF Recheck, Refuse, NoNewKey, StageKey, RenameKey, SyncKey
<1>3. CASE KeyFails(w) \/ CleanKey(w)
  BY <1>3 DEF KeyFails, CleanKey, RollBackKey
<1>4. CASE Unchanged(w) \/ Stage(w) \/ StageFails(w)
  BY <1>4 DEF Unchanged, Stage, StageFails
<1>5. CASE PublishBackup(w) \/ SyncBackup(w) \/ NoBackup(w) \/ FinalCheck(w)
  BY <1>5 DEF PublishBackup, SyncBackup, NoBackup, FinalCheck
<1>6. CASE PublishConfig(w) \/ SyncConfig(w) \/ SyncFails(w) \/ FailBeforeConfig(w)
  BY <1>6 DEF PublishConfig, SyncConfig, SyncFails, FailBeforeConfig
<1>7. CASE RestoreBackup(w) \/ SyncRestored(w) \/ RestoreFails(w)
  BY <1>7 DEF RestoreBackup, SyncRestored, RestoreFails
<1>8. CASE RollBackConfig(w) \/ SyncRolledBack(w) \/ RollBackFails(w)
  BY <1>8 DEF RollBackConfig, SyncRolledBack, RollBackFails
<1>9. CASE Cleanup(w) \/ Unlock(w)
  BY <1>9 DEF Cleanup, Unlock
<1> QED BY <1>1, <1>2, <1>3, <1>4, <1>5, <1>6, <1>7, <1>8, <1>9 DEF Step

Keyed == {"none", "temporary", "published"}

LEMMA EndsTyped ==
  ASSUME TypeOK, NEW S, End(S)
  PROVE  /\ pc' \in [Writers -> Steps] /\ plan' \in [Writers -> Plans]
         /\ base' \in [Writers -> Bodies \cup {None}] /\ prior' \in [Writers -> Bodies \cup {None}]
         /\ payload' \in [Writers -> BOOLEAN] /\ keyFile' \in [Writers -> Keyed]
         /\ staged' \in [Writers -> [TransactionFiles -> {"none", "temporary", "renamed", "kept",
            "unlinked"}]]
         /\ result' \in [Writers -> States]
<1>1. NoPlan \in Plans
  BY DEF NoPlan, Plans, Intents
<1> QED BY <1>1 DEF End, TypeOK, Steps, Early, States, Keyed

LEMMA HoldTyped ==
  ASSUME TypeOK, NEW c \in Bodies \cup {None}, NEW b \in Bodies \cup {None}, Hold(c, b)
  PROVE  /\ config' \in Bodies \cup {None} /\ backup' \in Bodies \cup {None}
         /\ confDisk' \subseteq (Bodies \cup {None}) \X (Bodies \cup {None}) /\ confDisk' # {}
BY DEF Hold, TypeOK

LEMMA SyncTyped ==
  ASSUME TypeOK, SyncDirectory
  PROVE  confDisk' \subseteq (Bodies \cup {None}) \X (Bodies \cup {None}) /\ confDisk' # {}
<1>1. <<config, backup>> \in (Bodies \cup {None}) \X (Bodies \cup {None})
  BY DEF TypeOK
<1>2. confDisk' = confDisk \/ confDisk' = {<<config, backup>>}
  BY DEF SyncDirectory
<1> QED BY <1>1, <1>2 DEF TypeOK

LEMMA MarkTyped ==
  ASSUME TypeOK, NEW w \in Writers, NEW marks, Mark(w, marks),
         \A t \in DOMAIN marks : marks[t] \in {"none", "temporary", "renamed", "kept", "unlinked"}
  PROVE  staged' \in [Writers -> [TransactionFiles -> {"none", "temporary", "renamed", "kept", "unlinked"}]]
BY DEF Mark, TypeOK

LEMMA RollBackKeyTyped ==
  ASSUME TypeOK, NEW w \in Writers, RollBackKey(w)
  PROVE  /\ keyFile' \in [Writers -> Keyed] /\ key' \in {"key", None}
         /\ keyDisk' \subseteq {"key",
            None} /\ keyDisk' # {} /\ temps' \subseteq TransactionFiles \cup {KeyTemp}
BY DEF RollBackKey, TypeOK, Keyed

LEMMA CandidateTyped ==
  ASSUME TypeOK, NEW w \in Writers
  PROVE  CandidateBody(w) \in Bodies \cup {None} /\ base[w] \in Bodies \cup {None} /\ prior[w] \in Bodies \cup {None}
BY DEF CandidateBody, TypeOK, Bodies

LEMMA StepTyped ==
  ASSUME TypeOK, NEW w \in Writers, Step(w)
  PROVE  TypeOK'
<1> USE DEF Go, Decide, planVars, keyVars, fileVars, envVars, Keyed
<1>1. CASE Load(w) \/ Preflight(w) \/ AcquireLock(w)
  <2>1. CASE Load(w)
    BY <1>1, <2>1 DEF TypeOK, Steps, Load
  <2>2. CASE Preflight(w)
    <3>1. PICK b \in BOOLEAN : payload' = [payload EXCEPT ![w] = b]
      BY <2>2 DEF Preflight
    <3> QED BY <2>2, <3>1 DEF TypeOK, Steps, Preflight
  <2>3. CASE AcquireLock(w)
    BY <2>3 DEF TypeOK, Steps, Early, AcquireLock
  <2> QED BY <1>1, <2>1, <2>2, <2>3
<1>2. CASE GiveUp(w) \/ Unlock(w)
  BY <1>2, EndsTyped DEF TypeOK, GiveUp, Unlock
<1>3. CASE Recheck(w) \/ Refuse(w) \/ NoNewKey(w) \/ StageKey(w) \/ RenameKey(w) \/ SyncKey(w)
  BY <1>3 DEF TypeOK, Steps, Early, States, KeyTemp, Recheck, Refuse, NoNewKey, StageKey, RenameKey, SyncKey
<1>4. CASE KeyFails(w)
  BY <1>4, RollBackKeyTyped DEF TypeOK, Steps, States, KeyFails
<1>5. CASE CleanKey(w)
  BY <1>5, RollBackKeyTyped DEF TypeOK, Steps, CleanKey
<1>6. CASE Unchanged(w) \/ SyncFails(w) \/ FailBeforeConfig(w) \/ RestoreFails(w) \/ RollBackFails(w)
  BY <1>6 DEF TypeOK, Steps, States, Unchanged, SyncFails, FailBeforeConfig, RestoreFails, RollBackFails
<1>7. CASE Stage(w)
  <2>1. staged' \in [Writers -> [TransactionFiles -> {"none", "temporary", "renamed", "kept", "unlinked"}]]
    <3>1. Mark(w, [t \in Needed(w) |-> "temporary"])
      BY <1>7 DEF Stage
    <3> QED BY <3>1, MarkTyped
  <2>2. Needed(w) \subseteq TransactionFiles
    BY DEF Needed, TransactionFiles
  <2>3. backup \in Bodies \cup {None}
    BY DEF TypeOK
  <2> QED BY <1>7, <2>1, <2>2, <2>3 DEF TypeOK, Steps, Early, Stage
<1>8. CASE StageFails(w)
  <2>1. PICK n \in 0..3 : LET some == {Order[i] : i \in 1..n} IN
          /\ some \subseteq Needed(w) /\ temps' = temps \cup some
          /\ Mark(w, [t \in some |-> "temporary"])
    BY <1>8 DEF StageFails
  <2> DEFINE some == {Order[i] : i \in 1..n}
  <2>2. some \subseteq TransactionFiles /\ temps' = temps \cup some /\ Mark(w, [t \in some |-> "temporary"])
    BY <2>1 DEF Needed, TransactionFiles
  <2> HIDE DEF some
  <2>3. staged' \in [Writers -> [TransactionFiles -> {"none", "temporary", "renamed", "kept", "unlinked"}]]
    BY <2>2, MarkTyped
  <2> QED BY <1>8, <2>2, <2>3 DEF TypeOK, Steps, States, StageFails
<1>9. CASE PublishBackup(w)
  BY <1>9, HoldTyped, MarkTyped, CandidateTyped DEF TypeOK, Steps, PublishBackup
<1>10. CASE SyncBackup(w) \/ NoBackup(w) \/ FinalCheck(w) \/ SyncConfig(w) \/ SyncRestored(w) \/ SyncRolledBack(w)
  BY <1>10, SyncTyped DEF TypeOK, Steps, States, SyncBackup, NoBackup, FinalCheck, SyncConfig, SyncRestored,
     SyncRolledBack
<1>11. CASE PublishConfig(w)
  <2>1. staged' \in [Writers -> [TransactionFiles -> {"none", "temporary", "renamed", "kept", "unlinked"}]]
    BY <1>11, MarkTyped DEF PublishConfig
  <2>2. /\ config' \in Bodies \cup {None} /\ backup' \in Bodies \cup {None}
        /\ confDisk' \subseteq (Bodies \cup {None}) \X (Bodies \cup {None}) /\ confDisk' # {}
    BY <1>11, HoldTyped, CandidateTyped DEF PublishConfig, TypeOK
  <2> QED BY <1>11, <2>1, <2>2 DEF TypeOK, Steps, States, PublishConfig
<1>12. CASE RestoreBackup(w)
  <2>1. staged' \in [Writers -> [TransactionFiles -> {"none", "temporary", "renamed", "kept", "unlinked"}]]
    BY <1>12, MarkTyped DEF RestoreBackup
  <2>2. /\ config' \in Bodies \cup {None} /\ backup' \in Bodies \cup {None}
        /\ confDisk' \subseteq (Bodies \cup {None}) \X (Bodies \cup {None}) /\ confDisk' # {}
    BY <1>12, HoldTyped, CandidateTyped DEF RestoreBackup, TypeOK
  <2> QED BY <1>12, <2>1, <2>2 DEF TypeOK, Steps, States, RestoreBackup
<1>13. CASE RollBackConfig(w)
  <2>1. staged' \in [Writers -> [TransactionFiles -> {"none", "temporary", "renamed", "kept", "unlinked"}]]
    BY <1>13, MarkTyped DEF RollBackConfig
  <2>2. /\ config' \in Bodies \cup {None} /\ backup' \in Bodies \cup {None}
        /\ confDisk' \subseteq (Bodies \cup {None}) \X (Bodies \cup {None}) /\ confDisk' # {}
    BY <1>13, HoldTyped, CandidateTyped DEF RollBackConfig, TypeOK
  <2> QED BY <1>13, <2>1, <2>2 DEF TypeOK, Steps, States, RollBackConfig
<1>14. CASE Cleanup(w)
  <2>1. PICK c \in {config, None}, b \in {backup, None} : Hold(c, b)
    BY <1>14 DEF Cleanup
  <2>2. /\ config' \in Bodies \cup {None} /\ backup' \in Bodies \cup {None}
        /\ confDisk' \subseteq (Bodies \cup {None}) \X (Bodies \cup {None}) /\ confDisk' # {}
    BY <2>1, HoldTyped DEF TypeOK
  <2> QED BY <1>14, <2>2 DEF TypeOK, Steps, Cleanup
<1> QED BY <1>1, <1>2, <1>3, <1>4, <1>5, <1>6, <1>7, <1>8, <1>9, <1>10, <1>11, <1>12, <1>13, <1>14 DEF Step

LEMMA TypeStep ==
  ASSUME TypeOK, [Next]_vars
  PROVE  TypeOK'
<1> USE DEF fileVars, keyVars, planVars, envVars
<1>1. ASSUME NEW w \in Writers, Killed(w) PROVE TypeOK'
  BY <1>1, EndsTyped DEF TypeOK, Killed, Keyed
<1>2. CASE PowerFails
  <2>1. PICK d \in confDisk : config' = d[1] /\ backup' = d[2] /\ confDisk' = {d}
    BY <1>2 DEF PowerFails
  <2>2. PICK k \in keyDisk : key' = k /\ keyDisk' = {k}
    BY <1>2 DEF PowerFails
  <2>3. d \in (Bodies \cup {None}) \X (Bodies \cup {None}) /\ k \in {"key", None}
    BY DEF TypeOK
  <2>4. /\ config' \in Bodies \cup {None} /\ backup' \in Bodies \cup {None} /\ key' \in {"key", None}
        /\ confDisk' \subseteq (Bodies \cup {None}) \X (Bodies \cup {None}) /\ confDisk' # {}
        /\ keyDisk' \subseteq {"key", None} /\ keyDisk' # {}
    BY <2>1, <2>2, <2>3
  <2>5. End({w \in Writers : pc[w] # "idle"})
    BY <1>2 DEF PowerFails
  <2> QED BY <1>2, <2>4, <2>5, EndsTyped DEF TypeOK, PowerFails, Keyed
<1>3. CASE Edit
  <2>1. /\ config' \in Bodies \cup {None} /\ backup' \in Bodies \cup {None}
        /\ confDisk' \subseteq (Bodies \cup {None}) \X (Bodies \cup {None}) /\ confDisk' # {}
    BY <1>3, HoldTyped DEF Edit, Bodies, TypeOK
  <2> QED BY <1>3, <2>1 DEF TypeOK, Edit
<1>4. CASE UNCHANGED vars
  BY <1>4 DEF TypeOK, vars
<1> QED BY <1>1, <1>2, <1>3, <1>4, StepTyped DEF Next
-----------------------------------------------------------------------------
\* How a step moves what the names of configuration and backup hold.
ConfMoves(w) ==
  \/ UNCHANGED <<config, backup, confDisk>>
  \/ UNCHANGED <<config, backup>> /\ SyncDirectory
  \/ PublishBackup(w) /\ Hold(config, base[w])
  \/ PublishConfig(w) /\ Hold(CandidateBody(w), backup)
  \/ RestoreBackup(w) /\ Hold(config, prior[w])
  \/ RollBackConfig(w) /\ Hold(base[w], backup)
  \/ Cleanup(w) /\ \E c \in {config, None}, b \in {backup, None} :
       /\ Hold(c, b)
       /\ c # config => staged[w][Rollback] = "renamed"
       /\ b # backup => staged[w][Restore] = "renamed"

LEMMA StepsMoveConf ==
  ASSUME NEW w \in Writers, Step(w)
  PROVE  ConfMoves(w)
<1> USE DEF ConfMoves, planVars, keyVars, fileVars
<1>1. CASE Cleanup(w)
  BY <1>1 DEF Cleanup
<1>2. CASE PublishBackup(w) \/ PublishConfig(w) \/ RestoreBackup(w) \/ RollBackConfig(w)
  BY <1>2 DEF PublishBackup, PublishConfig, RestoreBackup, RollBackConfig
<1>3. CASE SyncBackup(w) \/ SyncConfig(w) \/ SyncRestored(w) \/ SyncRolledBack(w)
  BY <1>3 DEF SyncBackup, SyncConfig, SyncRestored, SyncRolledBack
<1>4. CASE Load(w) \/ Preflight(w) \/ GiveUp(w) \/ AcquireLock(w) \/ Recheck(w) \/ Refuse(w) \/ NoNewKey(w)
  BY <1>4 DEF Load, Preflight, GiveUp, AcquireLock, Recheck, Refuse, NoNewKey
<1>5. CASE StageKey(w) \/ RenameKey(w) \/ SyncKey(w) \/ KeyFails(w) \/ Unchanged(w) \/ Stage(w) \/ StageFails(w)
  BY <1>5 DEF StageKey, RenameKey, SyncKey, KeyFails, Unchanged, Stage, StageFails
<1>6. CASE NoBackup(w) \/ FinalCheck(w) \/ SyncFails(w) \/ FailBeforeConfig(w) \/ RestoreFails(w)
           \/ RollBackFails(w) \/ CleanKey(w) \/ Unlock(w)
  BY <1>6 DEF NoBackup, FinalCheck, SyncFails, FailBeforeConfig, RestoreFails, RollBackFails, CleanKey,
     Unlock
<1> QED BY <1>1, <1>2, <1>3, <1>4, <1>5, <1>6 DEF Step

KeyMoves(w) ==
  \/ UNCHANGED <<key, keyDisk>>
  \/ RenameKey(w)
  \/ SyncKey(w)
  \/ KeyFails(w) /\ RollBackKey(w)
  \/ CleanKey(w) /\ keyFile[w] # "none" /\ ~KeepKey(w) /\ RollBackKey(w)

LEMMA StepsMoveKey ==
  ASSUME NEW w \in Writers, Step(w)
  PROVE  KeyMoves(w)
<1> USE DEF KeyMoves, planVars, keyVars, fileVars
<1>1. CASE RenameKey(w) \/ SyncKey(w) \/ KeyFails(w) \/ CleanKey(w)
  BY <1>1 DEF KeyFails, CleanKey
<1>2. CASE Load(w) \/ Preflight(w) \/ GiveUp(w) \/ AcquireLock(w) \/ Recheck(w) \/ Refuse(w) \/ NoNewKey(w)
           \/ StageKey(w) \/ Unchanged(w) \/ Stage(w) \/ StageFails(w)
  BY <1>2 DEF Load, Preflight, GiveUp, AcquireLock, Recheck, Refuse, NoNewKey, StageKey, Unchanged,
     Stage, StageFails
<1>3. CASE PublishBackup(w) \/ SyncBackup(w) \/ NoBackup(w) \/ FinalCheck(w) \/ PublishConfig(w) \/ SyncConfig(w)
           \/ SyncFails(w) \/ FailBeforeConfig(w)
  BY <1>3 DEF PublishBackup, SyncBackup, NoBackup, FinalCheck, PublishConfig, SyncConfig, SyncFails,
     FailBeforeConfig
<1>4. CASE RestoreBackup(w) \/ SyncRestored(w) \/ RestoreFails(w) \/ RollBackConfig(w) \/ SyncRolledBack(w)
           \/ RollBackFails(w) \/ Cleanup(w) \/ Unlock(w)
  BY <1>4 DEF RestoreBackup, SyncRestored, RestoreFails, RollBackConfig, SyncRolledBack, RollBackFails,
     Cleanup, Unlock
<1> QED BY <1>1, <1>2, <1>3, <1>4 DEF Step

\* The names hold an image that is on the disk.
LEMMA OnDiskStep ==
  ASSUME TypeOK, OnDisk, [Next]_vars
  PROVE  OnDisk'
<1> USE DEF OnDisk
<1>1. ASSUME NEW w \in Writers, Step(w) PROVE <<config, backup>>' \in confDisk'
  <2>1. ConfMoves(w)
    BY <1>1, StepsMoveConf
  <2> QED BY <2>1 DEF ConfMoves, SyncDirectory, Hold
<1>2. ASSUME NEW w \in Writers, Step(w) PROVE key' \in keyDisk'
  <2>1. KeyMoves(w)
    BY <1>2, StepsMoveKey
  <2> QED BY <2>1 DEF KeyMoves, RenameKey, SyncKey, RollBackKey
<1>3. ASSUME NEW w \in Writers, Killed(w) PROVE OnDisk'
  BY <1>3 DEF Killed, fileVars
<1>4. CASE PowerFails
  <2>1. PICK d \in confDisk : config' = d[1] /\ backup' = d[2] /\ confDisk' = {d}
    BY <1>4 DEF PowerFails
  <2>2. d = <<d[1], d[2]>>
    BY DEF TypeOK
  <2>3. key' \in keyDisk'
    BY <1>4 DEF PowerFails
  <2> QED BY <2>1, <2>2, <2>3
<1>5. CASE Edit
  BY <1>5 DEF Edit, Hold, keyVars
<1>6. CASE UNCHANGED vars
  BY <1>6 DEF vars, fileVars, keyVars
<1> QED BY <1>1, <1>2, <1>3, <1>4, <1>5, <1>6 DEF Next

\* Killed and PowerFails, seen from one writer.
LEMMA EndsSome ==
  ASSUME PowerFails \/ \E w \in Writers : Killed(w), NEW v \in Writers
  PROVE  /\ keyUse' = keyUse
         /\ \/ Aside(v)
            \/ /\ pc'[v] = "gone" /\ plan'[v] = NoPlan /\ base'[v] = None /\ prior'[v] = None
               /\ payload'[v] = FALSE /\ keyFile'[v] = "none" /\ result'[v] = "notCommitted"
               /\ staged'[v] = [t \in TransactionFiles |-> "none"]
         /\ PowerFails /\ pc[v] # "idle" => pc'[v] = "gone"
<1>1. CASE PowerFails
  <2> DEFINE S == {w \in Writers : pc[w] # "idle"}
  <2>1. End(S) /\ keyUse' = keyUse /\ (v \in S <=> pc[v] # "idle")
    BY <1>1 DEF PowerFails
  <2> HIDE DEF S
  <2> QED BY <2>1, Ends DEF Aside
<1>2. CASE ~PowerFails
  <2>1. PICK w \in Writers : Killed(w)
    BY <1>2
  <2> DEFINE S == {w}
  <2>2. End(S) /\ keyUse' = keyUse
    BY <2>1 DEF Killed
  <2> HIDE DEF S
  <2> QED BY <1>2, <2>2, Ends DEF Aside
<1> QED BY <1>1, <1>2

LEMMA ExclusiveStep ==
  ASSUME TypeOK, Exclusive, [Next]_vars
  PROVE  Exclusive'
<1> USE DEF Exclusive
<1>1. ASSUME NEW w \in Writers, Step(w), NEW v \in Writers, pc'[v] \in InLock PROVE lock' = v
  <2>1. CASE v = w
    BY <1>1, <2>1, StepsOutside DEF InLock, Before, Ready, Publishing, Published, Restoring, Over
  <2>2. CASE v # w
    <3>1. pc[v] \in InLock /\ lock = v
      BY <1>1, <2>2, StepsAside DEF Aside
    <3>2. pc[w] \notin InLock
      BY <2>2, <3>1
    <3>3. lock' = lock
      BY <1>1, <3>1, <3>2, StepsOutside, CommitAssumption
    <3> QED BY <3>1, <3>3
  <2> QED BY <2>1, <2>2
<1>2. ASSUME NEW w \in Writers, Killed(w), NEW v \in Writers, pc'[v] \in InLock PROVE lock' = v
  <2>1. pc'[w] = "gone"
    <3> DEFINE S == {w}
    <3>1. End(S) /\ w \in S
      BY <1>2 DEF Killed
    <3> HIDE DEF S
    <3> QED BY <3>1, Ends
  <2>2. v # w /\ pc'[v] = pc[v]
    BY <1>2, <2>1, EndsSome DEF Aside, InLock, Ready, Publishing, Published, Restoring, Over
  <2> QED BY <1>2, <2>2 DEF Killed
<1>3. ASSUME PowerFails, NEW v \in Writers PROVE pc'[v] \notin InLock
  BY <1>3, EndsSome DEF Aside, InLock, Ready, Publishing, Published, Restoring, Over
<1>4. CASE Edit \/ UNCHANGED vars
  BY <1>4 DEF Edit, vars
<1> QED BY <1>1, <1>2, <1>3, <1>4 DEF Next
-----------------------------------------------------------------------------
\* What a writer remembers of the files is what the names held.
LEMMA StepsRemember ==
  ASSUME TypeOK, NEW w \in Writers, Step(w), NEW v \in Writers
  PROVE  base'[v] \in {base[v], config, None} /\ prior'[v] \in {prior[v], backup, None}
<1>1. CASE v # w
  BY <1>1, StepsAside DEF Aside
<1>2. CASE v = w
  <2> USE DEF TypeOK, planVars, keyVars, fileVars
  <2>1. CASE GiveUp(w) \/ Unlock(w)
    <3> DEFINE S == {w}
    <3>1. End(S) /\ w \in S
      BY <2>1 DEF GiveUp, Unlock
    <3> HIDE DEF S
    <3> QED BY <1>2, <3>1, Ends
  <2>2. CASE Load(w) \/ Stage(w)
    BY <1>2, <2>2 DEF Load, Stage
  <2>3. CASE Preflight(w) \/ AcquireLock(w) \/ Recheck(w) \/ Refuse(w) \/ NoNewKey(w)
             \/ StageKey(w) \/ Unchanged(w) \/ StageFails(w) \/ RenameKey(w) \/ SyncKey(w) \/ KeyFails(w)
    BY <1>2, <2>3 DEF Preflight, AcquireLock, Recheck, Refuse, NoNewKey, StageKey, Unchanged, StageFails,
       RenameKey, SyncKey, KeyFails
  <2>4. CASE PublishBackup(w) \/ SyncBackup(w) \/ NoBackup(w) \/ FinalCheck(w) \/ PublishConfig(w) \/ SyncConfig(w)
             \/ SyncFails(w) \/ FailBeforeConfig(w)
    BY <1>2, <2>4 DEF PublishBackup, SyncBackup, NoBackup, FinalCheck, PublishConfig, SyncConfig, SyncFails,
       FailBeforeConfig
  <2>5. CASE RestoreBackup(w) \/ SyncRestored(w) \/ RestoreFails(w) \/ RollBackConfig(w) \/ SyncRolledBack(w)
             \/ RollBackFails(w) \/ Cleanup(w) \/ CleanKey(w)
    BY <1>2, <2>5 DEF RestoreBackup, SyncRestored, RestoreFails, RollBackConfig, SyncRolledBack,
       RollBackFails,
       Cleanup, CleanKey
  <2> QED BY <2>1, <2>2, <2>3, <2>4, <2>5, StepsOutside DEF Step
<1> QED BY <1>1, <1>2

LEMMA HoldImages ==
  ASSUME NEW c, NEW b, Hold(c, b), NEW d \in confDisk'
  PROVE  d \in confDisk \/ (d = <<c, b>> /\ d[1] = c /\ d[2] = b)
BY DEF Hold

\* The images of the disk are old ones, or made of what a writer knows.
LEMMA StepsImages ==
  ASSUME TypeOK, OnDisk, NEW w \in Writers, Step(w), NEW d \in confDisk'
  PROVE  \/ d \in confDisk
         \/ PublishConfig(w) /\ d = <<CandidateBody(w), backup>>
         \/ /\ d[1] \in {config, None} \/ (RollBackConfig(w) /\ d[1] = base[w])
            /\ d[2] \in {backup, base[w], prior[w], None}
<1>1. ConfMoves(w)
  BY StepsMoveConf
<1>2. CASE UNCHANGED <<config, backup, confDisk>> \/ (UNCHANGED <<config, backup>> /\ SyncDirectory)
  BY <1>2 DEF SyncDirectory, OnDisk
<1>3. CASE Cleanup(w) /\ \E c \in {config, None}, b \in {backup, None} : Hold(c, b)
  <2>1. PICK c \in {config, None}, b \in {backup, None} : Hold(c, b)
    BY <1>3
  <2> QED BY <2>1, HoldImages
<1>4. CASE PublishBackup(w) /\ Hold(config, base[w])
  BY <1>4, HoldImages
<1>5. CASE PublishConfig(w) /\ Hold(CandidateBody(w), backup)
  BY <1>5, HoldImages
<1>6. CASE RestoreBackup(w) /\ Hold(config, prior[w])
  BY <1>6, HoldImages
<1>7. CASE RollBackConfig(w) /\ Hold(base[w], backup)
  BY <1>7, HoldImages
<1> QED BY <1>1, <1>2, <1>3, <1>4, <1>5, <1>6, <1>7 DEF ConfMoves

LEMMA NowhereKept ==
  ASSUME TypeOK, OnDisk, NEW w \in Writers, Step(w), NEW v \in Writers, Nowhere(v),
         PublishConfig(w) => CandidateBody(w) # v
  PROVE  Nowhere(v)'
<1>1. v # None
  BY CommitAssumption
<1>2. config # v /\ backup # v /\ base[w] # v /\ prior[w] # v
  BY DEF OnDisk, Nowhere
<1>3. ASSUME NEW d \in confDisk' PROVE d[1] # v /\ d[2] # v
  BY <1>1, <1>2, <1>3, StepsImages DEF Nowhere
<1>4. ASSUME NEW u \in Writers PROVE base'[u] # v /\ prior'[u] # v
  BY <1>1, <1>2, <1>4, StepsRemember DEF Nowhere
<1> QED BY <1>3, <1>4 DEF Nowhere

\* A step that leaves a candidate unpublished found it so.
LEMMA StepsUnpublished ==
  ASSUME TypeOK, NEW w \in Writers, Step(w), Unpublished(w)'
  PROVE  Unpublished(w) /\ ~PublishConfig(w)
<1> USE DEF TypeOK, Unpublished, Go, Decide, InLock, Before, Ready, Publishing, Published, Restoring,
    Over, Early, planVars, keyVars, fileVars
<1>1. CASE GiveUp(w) \/ Unlock(w)
  <2> DEFINE S == {w}
  <2>1. End(S) /\ w \in S
    BY <1>1 DEF GiveUp, Unlock
  <2> HIDE DEF S
  <2> QED BY <2>1, Ends
<1>2. CASE PublishConfig(w) \/ SyncConfig(w) \/ SyncFails(w) \/ RollBackConfig(w) \/ SyncRolledBack(w)
           \/ RollBackFails(w)
  BY <1>2 DEF PublishConfig, SyncConfig, SyncFails, RollBackConfig, SyncRolledBack, RollBackFails
<1>3. CASE Cleanup(w) \/ CleanKey(w)
  BY <1>3 DEF Cleanup, CleanKey, PublishConfig
<1>4. CASE Load(w) \/ Preflight(w) \/ AcquireLock(w) \/ Recheck(w) \/ Refuse(w) \/ NoNewKey(w)
           \/ StageKey(w) \/ Unchanged(w) \/ Stage(w) \/ StageFails(w) \/ RenameKey(w) \/ SyncKey(w) \/ KeyFails(w)
  BY <1>4 DEF Load, Preflight, AcquireLock, Recheck, Refuse, NoNewKey, StageKey, Unchanged, Stage,
     StageFails,
     RenameKey, SyncKey, KeyFails, PublishConfig
<1>5. CASE PublishBackup(w) \/ SyncBackup(w) \/ NoBackup(w) \/ FinalCheck(w) \/ FailBeforeConfig(w)
           \/ RestoreBackup(w) \/ SyncRestored(w) \/ RestoreFails(w)
  <2>1. pc[w] \in (InLock \ (Published \cup Over)) \cup Before
    BY <1>5 DEF PublishBackup, SyncBackup, NoBackup, FinalCheck, FailBeforeConfig, RestoreBackup,
       SyncRestored, RestoreFails
  <2>2. CASE PublishConfig(w)
    BY <1>2, <2>2
  <2> QED BY <2>1, <2>2
<1> QED BY <1>1, <1>2, <1>3, <1>4, <1>5 DEF Step

LEMMA FreshStep ==
  ASSUME TypeOK, OnDisk, Fresh, Planned, [Next]_vars
  PROVE  Fresh'
<1>1. ASSUME NEW w \in Writers, Step(w), NEW v \in Writers, Unpublished(v)' PROVE Nowhere(v)'
  <2>1. CASE v = w
    BY <1>1, <2>1, StepsUnpublished, NowhereKept DEF Fresh
  <2>2. CASE v # w
    <3>1. Unpublished(v)
      BY <1>1, <2>2, StepsAside DEF Aside, Unpublished
    <3>2. Nowhere(v) /\ CandidateBody(w) # v
      BY <2>2, <3>1 DEF Fresh, Nowhere, CandidateBody
    <3> QED BY <1>1, <3>2, NowhereKept
  <2> QED BY <2>1, <2>2
<1>2. ASSUME PowerFails \/ \E w \in Writers : Killed(w), NEW v \in Writers,
    Unpublished(v)' PROVE Nowhere(v)'
  <2>1. Aside(v)
    BY <1>2, EndsSome DEF Unpublished, InLock, Before, Ready, Publishing, Published, Restoring, Over
  <2>2. Nowhere(v)
    BY <1>2, <2>1 DEF Aside, Unpublished, Fresh
  <2>3. \A u \in Writers : base'[u] # v /\ prior'[u] # v
    BY <1>2, <2>2, EndsSome, CommitAssumption DEF Nowhere, Aside
  <2>4. confDisk' \subseteq confDisk
    BY <1>2 DEF PowerFails, Killed, fileVars
  <2> QED BY <2>2, <2>3, <2>4 DEF Nowhere
<1>3. CASE Edit
  BY <1>3, CommitAssumption DEF Edit, Hold, Fresh, Nowhere, Unpublished, OnDisk, planVars
<1>4. CASE UNCHANGED vars
  BY <1>4 DEF vars, fileVars, planVars, Fresh, Nowhere, Unpublished
<1> QED BY <1>1, <1>2, <1>3, <1>4 DEF Next, Fresh
-----------------------------------------------------------------------------
LEMMA EndsSelf ==
  ASSUME NEW w \in Writers, GiveUp(w) \/ Unlock(w) \/ Killed(w)
  PROVE  /\ pc'[w] = "gone" /\ plan'[w] = NoPlan /\ base'[w] = None /\ prior'[w] = None
         /\ payload'[w] = FALSE /\ keyFile'[w] = "none" /\ result'[w] = "notCommitted"
         /\ staged'[w] = [t \in TransactionFiles |-> "none"]
         /\ UNCHANGED <<Files, keyUse>>
<1> DEFINE S == {w}
<1>1. End(S) /\ w \in S /\ UNCHANGED <<Files, keyUse>>
  BY DEF GiveUp, Unlock, Killed, Files, fileVars
<1> HIDE DEF S
<1> QED BY <1>1, Ends

\* A writer in its transaction is alone: the steps of others leave the files.
LEMMA Alone ==
  ASSUME TypeOK, Exclusive, NEW w \in Writers, Step(w), NEW v \in Writers \ {w}, pc[v] \in InLock
  PROVE  Aside(v) /\ UNCHANGED <<Files, windows, crashes, raced, keyUse>>
<1>1. pc[w] \notin InLock
  BY DEF Exclusive
<1>2. pc[w] \in Before
  BY <1>1, StepsOutside
<1> QED BY <1>2, StepsOutside, StepsAside

LEMMA StepsPlanned ==
  ASSUME TypeOK, OnDisk, Fresh, Planned, NEW w \in Writers, Step(w)
  PROVE  /\ base'[w] # w
         /\ plan'[w].same => base'[w] # None
         /\ pc'[w] \in Publishing \cup Published \cup Restoring => Changed(w)'
<1> USE DEF Planned, TypeOK, Go, Decide, Publishing, Published, Restoring, Changed, Exists,
    CandidateBody, planVars, keyVars, fileVars
<1>1. CASE GiveUp(w) \/ Unlock(w)
  <2>1. base'[w] = None /\ plan'[w] = NoPlan /\ pc'[w] = "gone"
    BY <1>1, EndsSelf
  <2> QED BY <2>1, CommitAssumption DEF NoPlan
<1>2. CASE Load(w)
  <2>1. Nowhere(w) /\ config # w
    BY <1>2 DEF Load, Fresh, Unpublished, Before, OnDisk, Nowhere
  <2> QED BY <1>2, <2>1 DEF Load
<1>3. CASE Preflight(w) \/ AcquireLock(w) \/ Recheck(w) \/ Refuse(w) \/ NoNewKey(w)
           \/ StageKey(w) \/ Unchanged(w) \/ StageFails(w) \/ RenameKey(w) \/ SyncKey(w) \/ KeyFails(w)
  BY <1>3 DEF Preflight, AcquireLock, Recheck, Refuse, NoNewKey, StageKey, Unchanged, StageFails,
     RenameKey, SyncKey,
     KeyFails
<1>4. CASE Stage(w)
  BY <1>4 DEF Stage
<1>5. CASE PublishBackup(w) \/ SyncBackup(w) \/ NoBackup(w) \/ FinalCheck(w) \/ PublishConfig(w) \/ SyncConfig(w)
           \/ SyncFails(w) \/ FailBeforeConfig(w)
  BY <1>5 DEF PublishBackup, SyncBackup, NoBackup, FinalCheck, PublishConfig, SyncConfig, SyncFails,
     FailBeforeConfig
<1>6. CASE RestoreBackup(w) \/ SyncRestored(w) \/ RestoreFails(w) \/ RollBackConfig(w) \/ SyncRolledBack(w)
           \/ RollBackFails(w) \/ Cleanup(w) \/ CleanKey(w)
  BY <1>6 DEF RestoreBackup, SyncRestored, RestoreFails, RollBackConfig, SyncRolledBack, RollBackFails,
     Cleanup,
     CleanKey
<1> QED BY <1>1, <1>2, <1>3, <1>4, <1>5, <1>6 DEF Step

LEMMA PlannedStep ==
  ASSUME TypeOK, OnDisk, Fresh, Planned, [Next]_vars
  PROVE  Planned'
<1> USE DEF Planned
<1>1. ASSUME NEW w \in Writers, Step(w) PROVE Planned'
  <2>1. \A v \in Writers \ {w} : Aside(v)
    BY <1>1, StepsAside
  <2> QED BY <1>1, <2>1, StepsPlanned DEF Aside, Changed, Exists, CandidateBody
<1>2. CASE PowerFails \/ \E w \in Writers : Killed(w)
  <2>1. ASSUME NEW v \in Writers PROVE Aside(v) \/ (pc'[v] = "gone" /\ base'[v] = None /\ plan'[v] = NoPlan)
    BY <1>2, EndsSome
  <2> QED BY <2>1, CommitAssumption
      DEF Aside, Changed, Exists, CandidateBody, NoPlan, Publishing, Published, Restoring
<1>3. CASE Edit \/ UNCHANGED vars
  BY <1>3 DEF Edit, vars, planVars, Changed, Exists, CandidateBody
<1> QED BY <1>1, <1>2, <1>3 DEF Next

LEMMA StepsMarked ==
  ASSUME TypeOK, NEW w \in Writers, MarkedOf(w), Step(w)
  PROVE  MarkedOf(w)'
<1> USE DEF MarkedOf, TypeOK, Go, Decide, TransactionFiles, Candidate, Backup, Rollback, Restore, Over,
    planVars, keyVars, fileVars
<1>1. CASE GiveUp(w) \/ Unlock(w)
  <2>1. staged'[w] = [t \in TransactionFiles |-> "none"]
    BY <1>1, EndsSelf
  <2> QED BY <2>1
<1>2. CASE Load(w) \/ Preflight(w) \/ AcquireLock(w) \/ Recheck(w) \/ Refuse(w) \/ NoNewKey(w)
           \/ StageKey(w) \/ Unchanged(w) \/ RenameKey(w) \/ SyncKey(w) \/ KeyFails(w)
  BY <1>2 DEF Load, Preflight, AcquireLock, Recheck, Refuse, NoNewKey, StageKey, Unchanged, RenameKey,
     SyncKey,
     KeyFails, Early
<1>3. CASE Stage(w)
  BY <1>3 DEF Stage, Mark, Needed
<1>4. CASE StageFails(w)
  <2>1. PICK some \in SUBSET Needed(w) : Mark(w, [t \in some |-> "temporary"])
    BY <1>4 DEF StageFails
  <2> QED BY <1>4, <2>1 DEF StageFails, Mark
<1>5. CASE PublishBackup(w) \/ PublishConfig(w)
  BY <1>5 DEF PublishBackup, PublishConfig, Mark
<1>6. CASE SyncBackup(w) \/ NoBackup(w) \/ FinalCheck(w) \/ SyncConfig(w) \/ SyncFails(w) \/ FailBeforeConfig(w)
  BY <1>6 DEF SyncBackup, NoBackup, FinalCheck, SyncConfig, SyncFails, FailBeforeConfig
<1>7. CASE RestoreBackup(w)
  BY <1>7 DEF RestoreBackup, Mark
<1>8. CASE RollBackConfig(w)
  BY <1>8 DEF RollBackConfig, Mark
<1>9. CASE SyncRestored(w) \/ RestoreFails(w) \/ SyncRolledBack(w) \/ RollBackFails(w) \/ CleanKey(w)
  BY <1>9 DEF SyncRestored, RestoreFails, SyncRolledBack, RollBackFails, CleanKey
<1>10. CASE Cleanup(w)
  BY <1>10 DEF Cleanup
<1> QED BY <1>1, <1>2, <1>3, <1>4, <1>5, <1>6, <1>7, <1>8, <1>9, <1>10 DEF Step

LEMMA MarkedStep ==
  ASSUME TypeOK, Marked, [Next]_vars
  PROVE  Marked'
<1>1. \A w \in Writers : MarkedOf(w)
  BY DEF Marked
<1>2. ASSUME NEW w \in Writers, Step(w), NEW v \in Writers PROVE MarkedOf(v)'
  BY <1>1, <1>2, StepsMarked, StepsAside DEF Aside, MarkedOf
<1>3. ASSUME PowerFails \/ \E w \in Writers : Killed(w), NEW v \in Writers PROVE MarkedOf(v)'
  <2>1. Aside(v) \/ staged'[v] = [t \in TransactionFiles |-> "none"]
    BY <1>3, EndsSome
  <2> QED BY <1>1, <2>1 DEF Aside, MarkedOf, TransactionFiles, Rollback, Restore, Backup
<1>4. CASE Edit \/ UNCHANGED vars
  BY <1>4 DEF Marked, MarkedOf, Edit, vars
<1> QED BY <1>2, <1>3, <1>4 DEF Next, Marked

LEMMA StepsKeepBase ==
  ASSUME TypeOK, Planned, NEW w \in Writers, BaseKept(w), Step(w)
  PROVE  BaseKept(w)'
<1> USE DEF BaseKept, TypeOK, Go, Decide, Exists, planVars, keyVars, fileVars, envVars
<1>1. CASE GiveUp(w) \/ Unlock(w)
  <2>1. pc'[w] = "gone"
    BY <1>1, EndsSelf
  <2> QED BY <2>1
<1>2. CASE Load(w) \/ Preflight(w) \/ AcquireLock(w) \/ Recheck(w) \/ Refuse(w) \/ NoNewKey(w)
           \/ StageKey(w) \/ Unchanged(w) \/ Stage(w) \/ StageFails(w) \/ RenameKey(w) \/ SyncKey(w) \/ KeyFails(w)
  BY <1>2 DEF Load, Preflight, AcquireLock, Recheck, Refuse, NoNewKey, StageKey, Unchanged, Stage,
     StageFails,
     RenameKey, SyncKey, KeyFails
<1>3. CASE PublishBackup(w) \/ SyncBackup(w) \/ NoBackup(w) \/ FinalCheck(w)
  BY <1>3 DEF PublishBackup, SyncBackup, NoBackup, FinalCheck, BaseIsCurrent, Hold
<1>4. CASE PublishConfig(w)
  <2>1. CandidateBody(w) = w
    BY <1>4 DEF Planned, PublishConfig, CandidateBody, Changed, Publishing
  <2> QED BY <1>4, <2>1 DEF PublishConfig, Hold
<1>5. CASE SyncConfig(w) \/ SyncFails(w) \/ FailBeforeConfig(w)
  BY <1>5 DEF SyncConfig, SyncFails, FailBeforeConfig
<1>6. CASE RestoreBackup(w) \/ SyncRestored(w) \/ RestoreFails(w) \/ RollBackConfig(w) \/ SyncRolledBack(w)
           \/ RollBackFails(w) \/ Cleanup(w) \/ CleanKey(w)
  BY <1>6 DEF RestoreBackup, SyncRestored, RestoreFails, RollBackConfig, SyncRolledBack, RollBackFails,
     Cleanup,
     CleanKey
<1> QED BY <1>1, <1>2, <1>3, <1>4, <1>5, <1>6 DEF Step

LEMMA BasesStep ==
  ASSUME TypeOK, Exclusive, Planned, BasesKept, [Next]_vars
  PROVE  BasesKept'
<1> USE DEF BasesKept
<1>1. ASSUME NEW w \in Writers, Step(w), NEW v \in Writers PROVE BaseKept(v)'
  <2>1. CASE v = w
    BY <1>1, <2>1, StepsKeepBase
  <2>2. CASE v # w /\ pc[v] \in InLock
    BY <1>1, <2>2, Alone DEF BaseKept, Aside, Files, Exists
  <2>3. CASE v # w /\ pc[v] \notin InLock
    <3>1. pc'[v] \notin InLock
      BY <1>1, <2>3, StepsAside DEF Aside
    <3> QED BY <3>1 DEF BaseKept, InLock, Ready, Publishing, Published
  <2> QED BY <2>1, <2>2, <2>3
<1>2. ASSUME PowerFails, NEW v \in Writers PROVE BaseKept(v)'
  <2>1. pc'[v] \in {"gone", "idle"}
    BY <1>2, EndsSome DEF Aside
  <2> QED BY <2>1 DEF BaseKept
<1>3. ASSUME NEW w \in Writers, Killed(w), NEW v \in Writers PROVE BaseKept(v)'
  <2>1. Aside(v) \/ pc'[v] = "gone"
    BY <1>3, EndsSome
  <2>2. UNCHANGED <<config, backup, raced>>
    BY <1>3 DEF Killed, fileVars, envVars
  <2> QED BY <2>1, <2>2 DEF BaseKept, Aside, Exists
<1>4. CASE Edit
  BY <1>4 DEF Edit, Hold, BaseKept, Exists, planVars
<1>5. CASE UNCHANGED vars
  BY <1>5 DEF vars, fileVars, planVars, envVars, BaseKept, Exists
<1> QED BY <1>1, <1>2, <1>3, <1>4, <1>5 DEF Next

LEMMA StepsReported ==
  ASSUME TypeOK, OnDisk, Planned, Marked, NEW w \in Writers, BaseKept(w), pc[w] \in Over => Reported(w),
         Step(w), pc'[w] \in Over
  PROVE  Reported(w)'
<1> USE DEF Reported, TypeOK, Go, Decide, Exists, Changed, CandidateBody, Over, planVars, keyVars,
    fileVars, envVars
<1>1. CASE GiveUp(w) \/ Unlock(w)
  BY <1>1, EndsSelf
<1>2. CASE Load(w) \/ Preflight(w) \/ AcquireLock(w) \/ Recheck(w) \/ NoNewKey(w) \/ StageKey(w) \/ Stage(w)
           \/ RenameKey(w) \/ SyncKey(w) \/ PublishBackup(w) \/ SyncBackup(w) \/ NoBackup(w) \/ FinalCheck(w)
           \/ SyncFails(w)
  BY <1>2 DEF Load, Preflight, AcquireLock, Recheck, NoNewKey, StageKey, Stage, RenameKey, SyncKey,
     PublishBackup,
     SyncBackup, NoBackup, FinalCheck, SyncFails
<1>3. CASE Refuse(w) \/ KeyFails(w) \/ FailBeforeConfig(w)
  BY <1>3 DEF Refuse, KeyFails, FailBeforeConfig, Marked, MarkedOf, Early
<1>4. CASE StageFails(w)
  <2>1. PICK some \in SUBSET Needed(w) : Mark(w, [t \in some |-> "temporary"])
    BY <1>4 DEF StageFails
  <2>2. staged'[w][Backup] # "unlinked"
    BY <1>4, <2>1 DEF StageFails, Mark, Marked, MarkedOf, TransactionFiles, Backup
  <2> QED BY <1>4, <2>2 DEF StageFails
<1>5. CASE Unchanged(w)
  BY <1>5 DEF Unchanged
<1>6. CASE PublishConfig(w) \/ RestoreBackup(w) \/ RollBackConfig(w) \/ RestoreFails(w) \/ RollBackFails(w)
  BY <1>6 DEF PublishConfig, RestoreBackup, RollBackConfig, RestoreFails, RollBackFails
<1>7. CASE SyncConfig(w)
  BY <1>7 DEF SyncConfig, SyncDirectory, BaseKept
<1>8. CASE SyncRestored(w)
  BY <1>8 DEF SyncRestored, SyncDirectory, BackupIsPrior
<1>9. CASE SyncRolledBack(w)
  BY <1>9 DEF SyncRolledBack, SyncDirectory, BaseIsCurrent
<1>10. CASE Cleanup(w)
  <2>1. result[w] \in {"committed", "rolledBack", "notCommitted"} => UNCHANGED <<config, backup, confDisk>>
    <3>1. PICK c \in {config, None}, b \in {backup, None} :
            /\ Hold(c, b)
            /\ c # config => staged[w][Rollback] = "renamed"
            /\ b # backup => staged[w][Restore] = "renamed"
      BY <1>10 DEF Cleanup
    <3>2. result[w] \in {"committed", "rolledBack", "notCommitted"} => c = config /\ b = backup
      BY <3>1 DEF Marked, MarkedOf
    <3>3. confDisk \cup {<<config, backup>>} = confDisk
      BY DEF OnDisk
    <3> QED BY <3>1, <3>2, <3>3 DEF Hold
  <2>2. staged'[w][Backup] = "unlinked" => staged[w][Backup] = "unlinked"
    BY <1>10 DEF Cleanup, TransactionFiles, Backup
  <2>3. UNCHANGED <<result, base, prior, plan, windows>>
    BY <1>10 DEF Cleanup
  <2>4. pc[w] \in Over
    BY <1>10 DEF Cleanup
  <2> QED BY <2>1, <2>2, <2>3, <2>4
<1>11. CASE CleanKey(w)
  BY <1>11 DEF CleanKey
<1> QED BY <1>1, <1>2, <1>3, <1>4, <1>5, <1>6, <1>7, <1>8, <1>9, <1>10, <1>11 DEF Step

LEMMA ReportsStep ==
  ASSUME TypeOK, OnDisk, Exclusive, Planned, Marked, BasesKept, Reports, [Next]_vars
  PROVE  Reports'
<1> USE DEF Reports
<1>1. ASSUME NEW w \in Writers, Step(w), NEW v \in Writers, pc'[v] \in Over PROVE Reported(v)'
  <2>1. CASE v = w
    BY <1>1, <2>1, StepsReported DEF BasesKept
  <2>2. CASE v # w
    <3>1. pc[v] \in Over
      BY <1>1, <2>2, StepsAside DEF Aside
    <3>2. Aside(v) /\ UNCHANGED <<Files, windows>>
      BY <1>1, <2>2, <3>1, Alone DEF InLock
    <3> QED BY <3>1, <3>2 DEF Aside, Files, Reported, Changed, Exists, CandidateBody
  <2> QED BY <2>1, <2>2
<1>2. ASSUME PowerFails, NEW v \in Writers PROVE pc'[v] \notin Over
  BY <1>2, EndsSome DEF Aside, Over
<1>3. ASSUME NEW w \in Writers, Killed(w), NEW v \in Writers, pc'[v] \in Over PROVE Reported(v)'
  <2>1. Aside(v)
    BY <1>3, EndsSome DEF Over
  <2>2. UNCHANGED <<config, backup, confDisk, windows>>
    BY <1>3 DEF Killed, fileVars, envVars
  <2>3. pc[v] \in Over
    BY <1>3, <2>1 DEF Aside
  <2> QED BY <2>1, <2>2, <2>3 DEF Aside, Reported, Changed, Exists, CandidateBody
<1>4. ASSUME Edit, NEW v \in Writers, pc'[v] \in Over PROVE Reported(v)'
  <2>1. UNCHANGED <<pc, plan, base, prior, result, staged, windows, backup>> /\ config' = "edited"
        /\ confDisk' = confDisk \cup {<<"edited", backup>>}
    BY <1>4 DEF Edit, Hold, planVars
  <2>2. Reported(v) /\ <<config, backup>> \in confDisk
    BY <1>4, <2>1 DEF OnDisk
  <2> QED BY <2>1, <2>2 DEF Reported, Changed, Exists, CandidateBody
<1>5. CASE UNCHANGED vars
  BY <1>5 DEF vars, fileVars, planVars, envVars, Reported, Changed, Exists, CandidateBody
<1> QED BY <1>1, <1>2, <1>3, <1>4, <1>5 DEF Next
-----------------------------------------------------------------------------
LEMMA KeyModes ==
  ASSUME NEW w \in Writers
  PROVE  /\ KeyMode(w) = "noop" => plan[w].intent = "none" /\ ~payload[w]
         /\ KeyMode(w) = "reuse" => key # None /\ ~payload[w]
         /\ KeyMode(w) = "create" => payload[w]
BY DEF KeyMode, KeyState

LEMMA StepsReadyKey ==
  ASSUME TypeOK, NEW w \in Writers, KeyReadyFor(w), Step(w)
  PROVE  KeyReadyFor(w)'
<1> USE DEF KeyReadyFor, TypeOK, Go, Decide, Before, Ready, Publishing, planVars, keyVars, fileVars, envVars
<1>1. CASE GiveUp(w) \/ Unlock(w)
  <2>1. pc'[w] = "gone" /\ keyFile'[w] = "none"
    BY <1>1, EndsSelf
  <2> QED BY <2>1
<1>2. CASE NoNewKey(w)
  BY <1>2, KeyModes DEF NoNewKey
<1>3. CASE StageKey(w) \/ RenameKey(w) \/ SyncKey(w)
  BY <1>3 DEF StageKey, RenameKey, SyncKey
<1>4. CASE KeyFails(w) \/ CleanKey(w)
  BY <1>4 DEF KeyFails, CleanKey, RollBackKey
<1>5. CASE Load(w) \/ Preflight(w) \/ AcquireLock(w) \/ Recheck(w) \/ Refuse(w) \/ Unchanged(w) \/ Stage(w)
           \/ StageFails(w)
  BY <1>5 DEF Load, Preflight, AcquireLock, Recheck, Refuse, Unchanged, Stage, StageFails, Early
<1>6. CASE PublishBackup(w) \/ SyncBackup(w) \/ NoBackup(w) \/ FinalCheck(w) \/ PublishConfig(w) \/ SyncConfig(w)
           \/ SyncFails(w) \/ FailBeforeConfig(w)
  BY <1>6 DEF PublishBackup, SyncBackup, NoBackup, FinalCheck, PublishConfig, SyncConfig, SyncFails,
     FailBeforeConfig
<1>7. CASE RestoreBackup(w) \/ SyncRestored(w) \/ RestoreFails(w) \/ RollBackConfig(w) \/ SyncRolledBack(w)
           \/ RollBackFails(w) \/ Cleanup(w)
  BY <1>7 DEF RestoreBackup, SyncRestored, RestoreFails, RollBackConfig, SyncRolledBack, RollBackFails,
     Cleanup
<1> QED BY <1>1, <1>2, <1>3, <1>4, <1>5, <1>6, <1>7 DEF Step

LEMMA KeyReadyStep ==
  ASSUME TypeOK, Exclusive, KeyReady, [Next]_vars
  PROVE  KeyReady'
<1> USE DEF KeyReady
<1>1. ASSUME NEW w \in Writers, Step(w), NEW v \in Writers PROVE KeyReadyFor(v)'
  <2>1. CASE v = w
    BY <1>1, <2>1, StepsReadyKey
  <2>2. CASE v # w /\ pc[v] \in InLock
    BY <1>1, <2>2, Alone DEF KeyReadyFor, Aside, Files
  <2>3. CASE v # w /\ pc[v] \notin InLock
    <3>1. Aside(v)
      BY <1>1, <2>3, StepsAside
    <3> QED BY <2>3, <3>1 DEF Aside, KeyReadyFor, InLock
  <2> QED BY <2>1, <2>2, <2>3
<1>2. ASSUME PowerFails, NEW v \in Writers PROVE KeyReadyFor(v)'
  <2>1. (pc'[v] = "gone" /\ keyFile'[v] = "none") \/ (Aside(v) /\ pc[v] = "idle")
    BY <1>2, EndsSome DEF Aside, KeyReadyFor
  <2> QED BY <2>1 DEF Aside, KeyReadyFor, Before, Ready, Publishing
<1>3. ASSUME NEW w \in Writers, Killed(w), NEW v \in Writers PROVE KeyReadyFor(v)'
  <2>1. (pc'[v] = "gone" /\ keyFile'[v] = "none") \/ Aside(v)
    BY <1>3, EndsSome
  <2>2. UNCHANGED <<key, keyDisk, windows>>
    BY <1>3 DEF Killed, envVars
  <2> QED BY <2>1, <2>2 DEF Aside, KeyReadyFor, Before, Ready, Publishing
<1>4. CASE Edit \/ UNCHANGED vars
  <2>1. UNCHANGED <<pc, plan, payload, keyFile, key, keyDisk, windows>>
    BY <1>4 DEF Edit, vars, keyVars, planVars, envVars
  <2> QED BY <2>1 DEF KeyReadyFor
<1> QED BY <1>1, <1>2, <1>3, <1>4 DEF Next

\* Where a configuration comes from that a step puts in place.
LEMMA StepsConfig ==
  ASSUME TypeOK, OnDisk, Planned, NEW u \in Writers, Step(u)
  PROVE  /\ config' \in {config, None} \/ (config' = u /\ PublishConfig(u))
              \/ (config' = base[u] /\ RollBackConfig(u))
         /\ \A c \in DiskConfigs' : c \in DiskConfigs \/ c = None \/ (c = u /\ PublishConfig(u))
              \/ (c = base[u] /\ RollBackConfig(u))
<1>1. PublishConfig(u) => CandidateBody(u) = u
  BY DEF Planned, PublishConfig, CandidateBody, Changed, Exists, Publishing, TypeOK
<1>2. config \in DiskConfigs
  <2>1. <<config, backup>>[1] = config
    OBVIOUS
  <2> QED BY <2>1 DEF OnDisk, DiskConfigs
<1>3. config' \in {config,
    None} \/ (config' = u /\ PublishConfig(u)) \/ (config' = base[u] /\ RollBackConfig(u))
  <2>1. ConfMoves(u)
    BY StepsMoveConf
  <2> QED BY <1>1, <2>1 DEF ConfMoves, Hold
<1>4. ASSUME NEW c \in DiskConfigs'
      PROVE  c \in DiskConfigs \/ c = None \/ (c = u /\ PublishConfig(u)) \/ (c = base[u] /\ RollBackConfig(u))
  <2>1. PICK d \in confDisk' : c = d[1]
    BY DEF DiskConfigs
  <2>2. d \in confDisk => c \in DiskConfigs
    BY <2>1 DEF DiskConfigs
  <2>3. d = <<CandidateBody(u), backup>> => c = CandidateBody(u)
    BY <2>1
  <2> QED BY <1>1, <1>2, <2>1, <2>2, <2>3, StepsImages
<1> QED BY <1>3, <1>4

\* A step that publishes or rolls back leaves the key as it is.
LEMMA ConfOrKey ==
  ASSUME NEW u \in Writers, PublishConfig(u) \/ RollBackConfig(u)
  PROVE  UNCHANGED <<key, keyDisk>>
BY DEF PublishConfig, RollBackConfig, keyVars

LEMMA KeyMovesKeepConf ==
  ASSUME NEW u \in Writers, RenameKey(u) \/ SyncKey(u) \/ KeyFails(u) \/ CleanKey(u)
  PROVE  UNCHANGED <<config, backup, confDisk, base, keyUse>>
BY DEF RenameKey, SyncKey, KeyFails, CleanKey, planVars, fileVars

\* The files of a writer that is rid of what it published.
LEMMA TakenBack ==
  ASSUME TypeOK, OnDisk, Fresh, Planned, Reports, NEW v \in Writers,
         KeyFails(v) \/ (CleanKey(v) /\ ~KeepKey(v))
  PROVE  config # v /\ (~windows => v \notin DiskConfigs)
<1>1. CASE Unpublished(v)
  BY <1>1 DEF Fresh, Nowhere, OnDisk, DiskConfigs
<1>2. CASE ~Unpublished(v)
  <2>1. pc[v] \in Over /\ result[v] = "rolledBack"
    BY <1>2 DEF KeyFails, CleanKey, KeepKey, Unpublished, InLock, Published, Restoring, Over, TypeOK, States
  <2>2. base[v] # v /\ "edited" # v
    BY CommitAssumption DEF Planned
  <2> QED BY <2>1, <2>2 DEF Reports, Reported, DiskConfigs
<1> QED BY <1>1, <1>2

LEMMA DiskNow ==
  ASSUME OnDisk
  PROVE  config \in DiskConfigs /\ key \in keyDisk
<1>1. <<config, backup>>[1] = config
  OBVIOUS
<1> QED BY <1>1 DEF OnDisk, DiskConfigs

LEMMA InTheLock ==
  ASSUME TypeOK, KeyReady, NEW v \in Writers, keyFile[v] = "published"
  PROVE  pc[v] \in InLock \ {"locked", "checked", "keyStaged", "unlock"}
BY DEF TypeOK, KeyReady, KeyReadyFor, Steps, Early, InLock, Before, Ready, Publishing, Published,
   Restoring, Over

LEMMA StepsKeepKey ==
  ASSUME IInv, NEW u \in Writers, Step(u), NEW w \in Writers
  PROVE  KeyKeptFor(w)'
<1>1. KeyKeptFor(w) /\ config \in DiskConfigs /\ key \in keyDisk /\ UNCHANGED <<crashes, windows>>
  BY DiskNow, StepsOutside DEF IInv, KeyKept
<1>2. CASE u = w /\ PublishConfig(u)
  <2>1. KeyReadyFor(w) /\ pc[w] \in Ready
    BY <1>2 DEF IInv, KeyReady, PublishConfig, Ready, Publishing
  <2>2. UNCHANGED <<key, keyDisk>>
    BY <1>2, ConfOrKey
  <2>3. keyUse'[w] = IF plan[w].intent = "none" THEN "none" ELSE IF payload[w] THEN "new" ELSE "reused"
    BY <1>2 DEF PublishConfig, IInv, TypeOK
  <2> QED BY <1>1, <2>1, <2>2, <2>3 DEF KeyKeptFor, KeyReadyFor, Asks
<1>3. CASE ~(u = w /\ PublishConfig(u))
  <2>1. keyUse'[w] = keyUse[w]
    <3>1. CASE u # w
      BY <3>1, StepsAside DEF Aside, IInv
    <3>2. CASE u = w
      BY <1>3, <3>2 DEF Step, Load, Preflight, GiveUp, AcquireLock, Recheck, Refuse, NoNewKey, StageKey,
         RenameKey,
         SyncKey, KeyFails, Unchanged, Stage, StageFails, PublishBackup, SyncBackup, NoBackup,
            FinalCheck, SyncConfig,
         SyncFails, FailBeforeConfig, RestoreBackup, SyncRestored, RestoreFails, RollBackConfig,
            SyncRolledBack,
         RollBackFails, Cleanup, CleanKey, Unlock, planVars
    <3> QED BY <3>1, <3>2
  <2>2. CASE UNCHANGED <<key, keyDisk>>
    <3>1. /\ config' = w => config = w \/ (RollBackConfig(u) /\ base[u] = w /\ u # w)
          /\ w \in DiskConfigs' => w \in DiskConfigs \/ (RollBackConfig(u) /\ base[u] = w /\ u # w)
      BY <1>3, StepsConfig, CommitAssumption DEF IInv, Planned
    <3>2. RollBackConfig(u) => pc[u] \in InLock \ ({"locked"} \cup Over)
      BY DEF RollBackConfig, InLock, Published, Over
    <3>3. RollBackConfig(u) /\ base[u] = w /\ u # w => Asks(w, key = "key", keyDisk = {"key"})
      BY <3>2 DEF IInv, BaseHasKey, HasKey
    <3> QED BY <1>1, <2>1, <2>2, <3>1, <3>3 DEF KeyKeptFor, Asks
  <2>3. CASE ~UNCHANGED <<key, keyDisk>>
    <3>1. KeyMoves(u)
      BY StepsMoveKey
    <3>2. CASE RenameKey(u)
      BY <1>1, <2>1, <3>2, KeyMovesKeepConf DEF RenameKey, KeyKeptFor, Asks, DiskConfigs
    <3>3. CASE SyncKey(u)
      BY <1>1, <2>1, <3>3, KeyMovesKeepConf DEF SyncKey, KeyKeptFor, Asks, DiskConfigs
    <3>4. CASE RollBackKey(u) /\ (KeyFails(u) \/ (CleanKey(u) /\ ~KeepKey(u)))
      <4>1. keyFile[u] = "published"
        BY <2>3, <3>4 DEF RollBackKey
      <4>2. u = w => config # w /\ (~windows => w \notin DiskConfigs)
        BY <3>4, TakenBack DEF IInv
      <4>3. u # w => Asks(w, config # w, w \notin DiskConfigs)
        BY <4>1 DEF IInv, KeyOwned, Owned, Asks
      <4> QED BY <1>1, <2>1, <3>4, <4>2, <4>3, KeyMovesKeepConf DEF KeyKeptFor, Asks, DiskConfigs
    <3> QED BY <2>3, <3>1, <3>2, <3>3, <3>4 DEF KeyMoves
  <2> QED BY <2>2, <2>3
<1> QED BY <1>2, <1>3

LEMMA KeyKeptStep ==
  ASSUME IInv, [Next]_vars
  PROVE  KeyKept'
<1>1. ASSUME NEW u \in Writers, Step(u) PROVE KeyKept'
  BY <1>1, StepsKeepKey DEF KeyKept
<1>2. ASSUME PowerFails, NEW w \in Writers PROVE KeyKeptFor(w)'
  <2>1. PICK d \in confDisk : config' = d[1] /\ confDisk' = {d}
    BY <1>2 DEF PowerFails
  <2>2. PICK k \in keyDisk : key' = k /\ keyDisk' = {k}
    BY <1>2 DEF PowerFails
  <2>3. keyUse' = keyUse /\ windows' = windows /\ crashes' # 0
    BY <1>2 DEF PowerFails, IInv, TypeOK
  <2>4. DiskConfigs' = {d[1]} /\ d[1] \in DiskConfigs
    BY <2>1 DEF DiskConfigs
  <2> QED BY <2>1, <2>2, <2>3, <2>4 DEF IInv, KeyKept, KeyKeptFor, Asks
<1>3. ASSUME NEW u \in Writers, Killed(u) PROVE KeyKept'
  BY <1>3 DEF Killed, fileVars, envVars, IInv, KeyKept, KeyKeptFor, Asks, DiskConfigs
<1>4. ASSUME Edit, NEW w \in Writers PROVE KeyKeptFor(w)'
  <2>1. config' = "edited" /\ confDisk' = confDisk \cup {<<"edited", backup>>}
        /\ UNCHANGED <<key, keyDisk, keyUse, crashes, windows>>
    BY <1>4 DEF Edit, Hold, keyVars, planVars
  <2>2. w # "edited"
    BY CommitAssumption
  <2>3. w \in DiskConfigs' => w \in DiskConfigs
    BY <2>1, <2>2 DEF DiskConfigs
  <2> QED BY <2>1, <2>2, <2>3 DEF IInv, KeyKept, KeyKeptFor, Asks
<1>5. CASE UNCHANGED vars
  BY <1>5 DEF vars, fileVars, keyVars, planVars, envVars, IInv, KeyKept, KeyKeptFor, Asks, DiskConfigs
<1> QED BY <1>1, <1>2, <1>3, <1>4, <1>5 DEF Next, KeyKept

\* A step of a writer that has published its key, or publishes it.
LEMMA StepsOwnKey ==
  ASSUME IInv, NEW v \in Writers, Step(v), NEW w \in Writers \ {v}
  PROVE  Owned(v, w)'
<1> SUFFICES ASSUME keyFile'[v] = "published" PROVE Owned(v, w)'
  BY DEF Owned
<1>1. keyUse'[w] = keyUse[w] /\ UNCHANGED <<crashes, windows>>
  BY StepsAside, StepsOutside DEF Aside, IInv
<1>2. CASE RenameKey(v)
  <2>1. key = None /\ pc[v] = "keyStaged" /\ None # "key" /\ UNCHANGED <<config, confDisk, base>>
    BY <1>2, KeyMovesKeepConf, CommitAssumption DEF RenameKey
  <2>2. HasKey(v, w) /\ KeyKeptFor(w) /\ key \in keyDisk
    BY DiskNow DEF IInv, BaseHasKey, KeyKept
  <2>3. pc[v] \in InLock \ ({"locked"} \cup Over)
    BY <2>1 DEF InLock, Over
  <2> QED BY <1>1, <2>1, <2>2, <2>3 DEF Owned, HasKey, KeyKeptFor, Asks, DiskConfigs
<1>3. CASE ~RenameKey(v)
  <2>1. keyFile[v] = "published" /\ base'[v] = base[v]
    <3> USE <1>3 DEF IInv, TypeOK, planVars, keyVars
    <3>1. CASE GiveUp(v) \/ Unlock(v)
      BY <3>1, EndsSelf
    <3>2. CASE Load(v)
      BY <3>2 DEF Load, KeyReady, KeyReadyFor, Before
    <3>3. CASE StageKey(v) \/ KeyFails(v) \/ CleanKey(v)
      BY <3>3 DEF StageKey, KeyFails, CleanKey, RollBackKey
    <3>4. CASE Preflight(v) \/ AcquireLock(v) \/ Recheck(v) \/ Refuse(v) \/ NoNewKey(v) \/ SyncKey(v)
               \/ Unchanged(v) \/ Stage(v) \/ StageFails(v)
      BY <3>4 DEF Preflight, AcquireLock, Recheck, Refuse, NoNewKey, SyncKey, Unchanged, Stage, StageFails
    <3>5. CASE PublishBackup(v) \/ SyncBackup(v) \/ NoBackup(v) \/ FinalCheck(v) \/ PublishConfig(v) \/ SyncConfig(v)
               \/ SyncFails(v) \/ FailBeforeConfig(v)
      BY <3>5 DEF PublishBackup, SyncBackup, NoBackup, FinalCheck, PublishConfig, SyncConfig, SyncFails,
         FailBeforeConfig
    <3>6. CASE RestoreBackup(v) \/ SyncRestored(v) \/ RestoreFails(v) \/ RollBackConfig(v) \/ SyncRolledBack(v)
               \/ RollBackFails(v) \/ Cleanup(v)
      BY <3>6 DEF RestoreBackup, SyncRestored, RestoreFails, RollBackConfig, SyncRolledBack,
         RollBackFails, Cleanup
    <3> QED BY <3>1, <3>2, <3>3, <3>4, <3>5, <3>6 DEF Step
  <2>2. Asks(w, config # w /\ base[v] # w, w \notin DiskConfigs /\ base[v] # w)
    BY <2>1 DEF IInv, KeyOwned, Owned
  <2>3. base[v] # w => (config' = w => config = w) /\ (w \in DiskConfigs' => w \in DiskConfigs)
    BY StepsConfig, CommitAssumption DEF IInv
  <2> QED BY <1>1, <2>1, <2>2, <2>3 DEF Owned, Asks
<1> QED BY <1>2, <1>3

LEMMA KeyOwnedStep ==
  ASSUME IInv, [Next]_vars
  PROVE  KeyOwned'
<1>1. ASSUME NEW u \in Writers, Step(u), NEW v \in Writers, NEW w \in Writers \ {v} PROVE Owned(v, w)'
  <2>1. CASE u = v
    BY <1>1, <2>1, StepsOwnKey
  <2>2. CASE u # v /\ keyFile[v] = "published"
    <3>1. pc[v] \in InLock
      BY <2>2, InTheLock DEF IInv
    <3>2. Aside(v) /\ UNCHANGED <<Files, windows, crashes, keyUse>>
      BY <1>1, <2>2, <3>1, Alone DEF IInv
    <3> QED BY <3>2 DEF Aside, Files, IInv, KeyOwned, Owned, Asks, DiskConfigs
  <2>3. CASE u # v /\ keyFile[v] # "published"
    BY <1>1, <2>3, StepsAside DEF Aside, Owned, IInv
  <2> QED BY <2>1, <2>2, <2>3
<1>2. ASSUME PowerFails, NEW v \in Writers PROVE keyFile'[v] # "published"
  <2>1. keyFile'[v] = "none" \/ (Aside(v) /\ pc[v] \in {"idle", "gone"})
    BY <1>2, EndsSome DEF Aside
  <2> QED BY <2>1 DEF Aside, IInv, KeyReady, KeyReadyFor, Before
<1>3. ASSUME NEW u \in Writers, Killed(u), NEW v \in Writers, NEW w \in Writers \ {v} PROVE Owned(v, w)'
  <2>1. keyFile'[v] = "none" \/ Aside(v)
    BY <1>3, EndsSome
  <2>2. UNCHANGED <<config, confDisk, keyUse, crashes, windows>>
    BY <1>3 DEF Killed, fileVars, envVars
  <2> QED BY <2>1, <2>2 DEF Aside, IInv, KeyOwned, Owned, Asks, DiskConfigs
<1>4. ASSUME Edit, NEW v \in Writers, NEW w \in Writers \ {v} PROVE Owned(v, w)'
  <2>1. config' = "edited" /\ confDisk' = confDisk \cup {<<"edited", backup>>}
        /\ UNCHANGED <<keyFile, base, keyUse, crashes, windows>>
    BY <1>4 DEF Edit, Hold, keyVars, planVars
  <2>2. w # "edited"
    BY CommitAssumption
  <2>3. w \in DiskConfigs' => w \in DiskConfigs
    BY <2>1, <2>2 DEF DiskConfigs
  <2> QED BY <2>1, <2>2, <2>3 DEF IInv, KeyOwned, Owned, Asks
<1>5. CASE UNCHANGED vars
  BY <1>5 DEF vars, fileVars, keyVars, planVars, envVars, IInv, KeyOwned, Owned, Asks, DiskConfigs
<1> QED BY <1>1, <1>2, <1>3, <1>4, <1>5 DEF Next, KeyOwned, Owned

LEMMA StepsHaveKey ==
  ASSUME IInv, NEW v \in Writers, Step(v), NEW w \in Writers \ {v}
  PROVE  HasKey(v, w)'
<1> SUFFICES ASSUME pc'[v] \in InLock \ ({"locked"} \cup Over), base'[v] = w PROVE Asks(w, key = "key",
    keyDisk = {"key"})'
  BY DEF HasKey
<1>1. keyUse'[w] = keyUse[w] /\ UNCHANGED <<crashes, windows>>
  BY StepsAside, StepsOutside DEF Aside, IInv
<1>2. CASE Recheck(v)
  <2>1. config = w /\ UNCHANGED <<key, keyDisk>>
    BY <1>2 DEF Recheck, BaseIsCurrent, planVars, keyVars
  <2>2. KeyKeptFor(w) /\ config \in DiskConfigs
    BY DiskNow DEF IInv, KeyKept
  <2> QED BY <1>1, <2>1, <2>2 DEF KeyKeptFor, Asks
<1>3. CASE ~Recheck(v)
  <2>1. pc[v] \in InLock \ ({"locked"} \cup Over) /\ base'[v] = base[v]
    <3> USE <1>3 DEF IInv, TypeOK, Go, Decide, planVars, InLock, Ready, Publishing, Published, Restoring,
        Over
    <3>1. CASE GiveUp(v) \/ Unlock(v)
      BY <3>1, EndsSelf
    <3>2. CASE Load(v) \/ Preflight(v) \/ AcquireLock(v) \/ Refuse(v) \/ NoNewKey(v) \/ StageKey(v) \/ RenameKey(v)
               \/ SyncKey(v) \/ KeyFails(v) \/ Unchanged(v) \/ Stage(v) \/ StageFails(v)
      BY <3>2 DEF Load, Preflight, AcquireLock, Refuse, NoNewKey, StageKey, RenameKey, SyncKey, KeyFails,
         Unchanged,
         Stage, StageFails
    <3>3. CASE PublishBackup(v) \/ SyncBackup(v) \/ NoBackup(v) \/ FinalCheck(v) \/ PublishConfig(v) \/ SyncConfig(v)
               \/ SyncFails(v) \/ FailBeforeConfig(v)
      BY <3>3 DEF PublishBackup, SyncBackup, NoBackup, FinalCheck, PublishConfig, SyncConfig, SyncFails,
         FailBeforeConfig
    <3>4. CASE RestoreBackup(v) \/ SyncRestored(v) \/ RestoreFails(v) \/ RollBackConfig(v) \/ SyncRolledBack(v)
               \/ RollBackFails(v) \/ Cleanup(v) \/ CleanKey(v)
      BY <3>4 DEF RestoreBackup, SyncRestored, RestoreFails, RollBackConfig, SyncRolledBack,
         RollBackFails, Cleanup,
         CleanKey
    <3> QED BY <1>3, <3>1, <3>2, <3>3, <3>4 DEF Step
  <2>2. Asks(w, key = "key", keyDisk = {"key"}) /\ key \in keyDisk
    BY <2>1, DiskNow DEF IInv, BaseHasKey, HasKey
  <2>3. ~KeyFails(v) /\ ~CleanKey(v)
    BY DEF KeyFails, CleanKey, Decide, Go, Over, IInv, TypeOK
  <2>4. UNCHANGED <<key, keyDisk>> \/ RenameKey(v) \/ SyncKey(v)
    BY <2>3, StepsMoveKey DEF KeyMoves
  <2> QED BY <1>1, <2>2, <2>4 DEF RenameKey, SyncKey, Asks
<1> QED BY <1>2, <1>3

LEMMA BaseHasKeyStep ==
  ASSUME IInv, [Next]_vars
  PROVE  BaseHasKey'
<1>1. ASSUME NEW u \in Writers, Step(u), NEW v \in Writers, NEW w \in Writers \ {v} PROVE HasKey(v, w)'
  <2>1. CASE u = v
    BY <1>1, <2>1, StepsHaveKey
  <2>2. CASE u # v /\ pc[v] \in InLock
    <3>1. Aside(v) /\ UNCHANGED <<Files, windows, crashes, keyUse>>
      BY <1>1, <2>2, Alone DEF IInv
    <3> QED BY <3>1 DEF Aside, Files, IInv, BaseHasKey, HasKey, Asks
  <2>3. CASE u # v /\ pc[v] \notin InLock
    BY <1>1, <2>3, StepsAside DEF Aside, HasKey, IInv
  <2> QED BY <2>1, <2>2, <2>3
<1>2. ASSUME PowerFails, NEW v \in Writers PROVE pc'[v] \notin InLock
  BY <1>2, EndsSome DEF Aside, InLock, Ready, Publishing, Published, Restoring, Over
<1>3. ASSUME NEW u \in Writers, Killed(u), NEW v \in Writers, NEW w \in Writers \ {v} PROVE HasKey(v, w)'
  <2>1. pc'[v] = "gone" \/ Aside(v)
    BY <1>3, EndsSome
  <2>2. UNCHANGED <<key, keyDisk, keyUse, crashes, windows>>
    BY <1>3 DEF Killed, envVars
  <2>3. "gone" \notin InLock
    BY DEF InLock, Ready, Publishing, Published, Restoring, Over
  <2> QED BY <2>1, <2>2, <2>3 DEF Aside, IInv, BaseHasKey, HasKey, Asks
<1>4. CASE Edit \/ UNCHANGED vars
  <2>1. UNCHANGED <<pc, base, key, keyDisk, keyUse, crashes, windows>>
    BY <1>4 DEF Edit, vars, keyVars, planVars, envVars
  <2> QED BY <2>1 DEF IInv, BaseHasKey, HasKey, Asks
<1> QED BY <1>1, <1>2, <1>3, <1>4 DEF Next, BaseHasKey, HasKey

LEMMA InitIInv == Init => IInv
<1> SUFFICES ASSUME Init PROVE IInv
  OBVIOUS
<1> USE CommitAssumption DEF Init
<1>1. TypeOK
  <2>1. NoPlan \in Plans
    BY DEF NoPlan, Plans, Intents
  <2>2. <<config, backup>> \in (Bodies \cup {None}) \X (Bodies \cup {None})
    BY DEF Bodies
  <2> QED BY <2>1, <2>2 DEF TypeOK, Bodies, Steps, States, TransactionFiles
<1>2. OnDisk
  BY DEF OnDisk
<1>3. Exclusive /\ BasesKept /\ Reports
  BY DEF Exclusive, BasesKept, BaseKept, Reports, InLock, Ready, Publishing, Published, Restoring, Over
<1>4. Fresh
  BY DEF Fresh, Nowhere
<1>5. Planned /\ Marked
  BY DEF Planned, Marked, MarkedOf, NoPlan, Publishing, Published, Restoring, TransactionFiles, Rollback,
     Restore,
     Backup
<1>6. KeyReady
  BY DEF KeyReady, KeyReadyFor, Before, Ready, Publishing
<1>7. KeyKept /\ KeyOwned /\ BaseHasKey
  BY DEF KeyKept, KeyKeptFor, KeyOwned, Owned, BaseHasKey, HasKey, Asks
<1> QED BY <1>1, <1>2, <1>3, <1>4, <1>5, <1>6, <1>7 DEF IInv

LEMMA IInvStep ==
  ASSUME IInv, [Next]_vars
  PROVE  IInv'
BY TypeStep, OnDiskStep, ExclusiveStep, FreshStep, PlannedStep, MarkedStep, BasesStep, ReportsStep,
   KeyReadyStep,
   KeyKeptStep, KeyOwnedStep, BaseHasKeyStep DEF IInv

\* What holds between any two steps of Commit, kill and power failure included.
THEOREM Inductive == Spec => []IInv
<1>1. IInv /\ [Next]_vars => IInv'
  BY IInvStep
<1> QED BY InitIInv, <1>1, PTL DEF Spec

-----------------------------------------------------------------------------
\* Commit reports what is so, also if the power fails right after it
\* (CommitState).
THEOREM CommitReportsTruth == Spec => []ReportIsTrue
<1>1. IInv => ReportIsTrue
  <2> SUFFICES ASSUME IInv, NEW w \in Writers, pc[w] = "unlock"
               PROVE  LET configs == {config} \cup (IF windows THEN {} ELSE DiskConfigs)
                          backups == {backup} \cup (IF windows THEN {} ELSE DiskBackups)
                      IN /\ result[w] = "committed" /\ Changed(w) =>
                              /\ configs \subseteq {w, "edited"}
                              /\ Exists(w) => backups = {base[w]}
                         /\ result[w] = "rolledBack" => configs \subseteq {base[w], "edited"}
                         /\ result[w] \in {"notCommitted", "recoveryRequired"} => w \notin configs
                         /\ result[w] = "notCommitted" /\ staged[w][Backup] = "unlinked" => backups = {prior[w]}
    BY DEF ReportIsTrue
  <2>1. Reported(w)
    BY DEF IInv, Reports, Over
  <2>2. result[w] \in {"notCommitted", "recoveryRequired"} => Nowhere(w)
    BY DEF IInv, Fresh, Unpublished, Over
  <2>3. windows \in BOOLEAN /\ <<config, backup>> \in confDisk
    BY DEF IInv, TypeOK, OnDisk
  <2> QED BY <2>1, <2>2, <2>3 DEF Reported, Nowhere, DiskConfigs, DiskBackups
<1> QED BY <1>1, Inductive, PTL

\* No configuration that Commit put in place stands without its key
\* (publishNewKey before the configuration, stagedKey.rollback).
THEOREM KeysComeFirst == Spec => []KeyBeforeConfig
<1>1. IInv => KeyBeforeConfig
  <2> SUFFICES ASSUME IInv, NEW w \in Writers
               PROVE  /\ keyUse[w] # "none" /\ config = w /\ crashes = 0 => key = "key"
                      /\ keyUse[w] = "new" /\ ~windows =>
                           /\ config = w => key = "key"
                           /\ w \in DiskConfigs => keyDisk = {"key"}
    BY DEF KeyBeforeConfig
  <2>1. KeyKeptFor(w) /\ config \in DiskConfigs /\ key \in keyDisk
    BY DiskNow DEF IInv, KeyKept
  <2> QED BY <2>1 DEF KeyKeptFor, Asks
<1> QED BY <1>1, Inductive, PTL

\* A Commit replaces the configuration its candidate was made from
\* (the checks of the base in Commit).
THEOREM OnlyTheBaseIsReplaced == Spec => ReplacesItsBase
<1>1. IInv => (\A w \in Writers : pc[w] = "publishing" => config = base[w] \/ raced)
  BY DEF IInv, BasesKept, BaseKept
<1>2. IInv /\ [Next]_vars =>
        [\A w \in Writers : pc[w] = "publishing" /\ config' # config /\ pc'[w] # pc[w] => config = base[w] \/ raced]_vars
  BY <1>1
<1> QED BY <1>2, Inductive, PTL DEF Spec, ReplacesItsBase
=============================================================================
