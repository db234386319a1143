----------------------------- MODULE InitCommand -----------------------------
(***************************************************************************)
(* The command init (internal/app/init.go, internal/initconfig) in the      *)
(* process of App: it collects what the configuration should say, plans the *)
(* change, lets the user decide about everything it would replace, looks at *)
(* the key file, asks for a last confirmation, commits through configstore  *)
(* and ends with the diagnosis of App.                                      *)
(*                                                                          *)
(* An entry is the table of a provider or the mapping of an alias; an alias *)
(* keeps its provider.  Of a value is kept whether it is new: a plan is the *)
(* set of entries to which it gives a new value.  Store.Commit appears as    *)
(* what ConfigCommit shows of it.                                            *)
(***************************************************************************)
EXTENDS App

CONSTANTS
  Names, Entries,  \* providers; provider tables and aliases
  Owner, Tables,   \* the provider of an entry; the entries that are tables
  Bases,           \* configurations that may exist: [exists, has, auth]
  CommandLines     \* flags: [interactive, dryRun, selected, asked, replace, auth]

Of(names) == {e \in Entries : Owner[e] \in names}

ASSUME InitAssumption ==
  /\ Owner \in [Entries -> Names] /\ Tables \subseteq Entries
  /\ "key" \notin Entries
  /\ \A b \in Bases : /\ b.has \subseteq Entries /\ b.auth \in {"none", "file"}
                      /\ b.exists \/ (b.has = {} /\ b.auth = "none")
  \* ValidateOptions.
  /\ \A c \in CommandLines :
       /\ c.selected \subseteq Names /\ (c.interactive \/ c.selected # {})
       /\ c.asked \cup c.replace \subseteq Of(c.selected)
       /\ c.replace \ Tables \subseteq c.asked
       /\ c.auth \in {"keep", "none", "file", "explicit"}

VARIABLES
  flags, base,             \* the command line; the Snapshot of the store
  selected, asked, auth,   \* working options: providers, new values, gateway key
  replace,                 \* ReplaceProviders and ReplaceModels
  resumed,                 \* PlanInteractive is called again
  keyAction, allowExisting, keyState,  \* KeyAction, KeyAllowExisting, preflight's KeyState
  keyFile, disk,           \* is there a key file; "base", or "candidate" once committed
  saved, outcome,          \* InitResult
  agreed                   \* what the user, or a flag, allowed: entries and "key"

planVars == <<selected, asked, auth, replace, resumed, agreed>>
keyVars == <<keyAction, allowExisting, keyState>>
initVars == <<flags, base, planVars, keyVars, keyFile, disk, saved, outcome>>
cliVars == <<appVars, initVars>>

NoFlags == [interactive |-> FALSE, dryRun |-> FALSE, selected |-> {}, asked |-> {},
            replace |-> {}, auth |-> "keep"]
NoBase == [exists |-> FALSE, has |-> {}, auth |-> "none"]

\* runContext.
CliInit ==
  /\ \/ (\E c \in {"serve", "doctor"} : AppStarts(c, "start"))
        /\ flags = NoFlags /\ base = NoBase
     \/ AppStarts("init", "init") /\ flags \in CommandLines /\ base \in Bases
  /\ selected = flags.selected /\ asked = flags.asked /\ auth = flags.auth
  /\ replace = flags.replace /\ agreed = flags.replace /\ resumed = FALSE
  /\ keyAction = "none" /\ allowExisting = FALSE /\ keyState = "none"
  /\ keyFile \in IF command = "init" THEN BOOLEAN ELSE {FALSE}
  /\ disk = "base" /\ saved = FALSE /\ outcome = "none"

\* What init leaves alone of App, and what a step of its planning leaves alone.
Still == UNCHANGED <<fileGroup, root, diagVars, ownVars, netVars, outVars, workVars, httpVars>>
Turns(where) == To(where) /\ Still /\ UNCHANGED <<flags, base, keyFile, disk, saved, outcome>>

\* The plan is done with.
Forget ==
  /\ flags' = NoFlags /\ base' = NoBase
  /\ selected' = {} /\ asked' = {} /\ auth' = "keep" /\ replace' = {} /\ agreed' = {}
  /\ resumed' = FALSE
  /\ keyAction' = "none" /\ allowExisting' = FALSE /\ keyState' = "none" /\ keyFile' = FALSE

Ends(result) == outcome' = result /\ To("ended") /\ Forget /\ Still
Stops(result) == Ends(result) /\ UNCHANGED <<disk, saved>>

Prompts == {"select", "collect", "review", "confirmKey", "collectKey", "confirm"}
Planning == Prompts \cup {"init", "plan", "preflight", "write", "commit", "committing"}

\* The context is looked at after every prompt and before every effect; the user may
\* cancel a prompt.
CancelInit ==
  /\ \/ pc \in Prompts
     \/ ctxDone /\ pc \in {"init", "preflight", "write", "commit"}
     \/ ctxDone /\ pc = "plan" /\ flags.interactive
  /\ Stops("canceled")

\* One of the effects fails: store, discovery, terminal, output, entropy.
FailInit ==
  /\ pc \in Planning \ {"committing"}
  /\ ~ctxDone \/ pc = "write"
  /\ Stops("failed")

\* There is no terminal, or the configuration, as it is or would be, is invalid.
RefuseInit == pc \in {"init", "preflight"} /\ ~ctxDone /\ Stops("usage")

-----------------------------------------------------------------------------
(* PlanInteractive and PlanNonInteractive.                                   *)

\* The flags fix the selection, the first time.
Locked == ~resumed /\ flags.selected # {}
Selection == IF Locked THEN "collect" ELSE "select"

BeginInit ==
  /\ pc = "init" /\ ~ctxDone
  /\ Turns(IF flags.interactive THEN Selection ELSE "plan")
  /\ UNCHANGED <<planVars, keyVars>>

\* optionsForSelection: what belongs to another provider is dropped.
Select(names) ==
  /\ pc = "select" /\ ~ctxDone /\ names # {}
  /\ selected' = names
  /\ asked' = asked \cap Of(names)
  /\ replace' = replace \cap Of(names) \cap (Tables \cup asked)
  /\ Turns("collect")
  /\ UNCHANGED <<auth, resumed, agreed, keyVars>>

SelectBack ==
  /\ pc = "select" /\ ~ctxDone
  /\ \/ selected = {} /\ Stops("declined")
     \/ selected # {} /\ Turns("collect") /\ UNCHANGED <<planVars, keyVars>>

\* Every selected provider has its table and an alias.
Complete(new) ==
  \A n \in selected : /\ \E e \in Tables \cap Of({n}) : e \in base.has \cup new
                      /\ \E e \in Of({n}) \ Tables : e \in base.has \cup new

\* collectCandidate: a flag wins over the answer, the first time; none of the flags is
\* compatible with a key file that was answered.
Overlaid(a) ==
  IF resumed \/ flags.auth = "keep" THEN a
  ELSE IF a = "explicit" THEN (IF flags.auth = "none" THEN "clash" ELSE a)
  ELSE flags.auth

\* The tables are asked for anew, aliases are only ever added; authority to replace
\* is not given here.
Collect(new, a) ==
  /\ pc = "collect" /\ ~ctxDone
  /\ new \subseteq Of(selected) /\ asked \ Tables \subseteq new
  /\ resumed \/ flags.asked \subseteq new
  /\ Complete(new)
  /\ \/ Overlaid(a) = "clash" /\ Stops("failed")
     \/ /\ Overlaid(a) # "clash"
        /\ asked' = new /\ auth' = Overlaid(a)
        /\ Turns("plan")
        /\ UNCHANGED <<selected, replace, resumed, agreed, keyVars>>

CollectBack ==
  /\ pc = "collect" /\ ~ctxDone
  /\ Turns(Selection)
  /\ UNCHANGED <<planVars, keyVars>>

\* The question for the gateway's key alone; it knows no way back.
CollectKey(a) ==
  /\ pc = "collectKey" /\ ~ctxDone
  /\ auth' = a
  /\ Turns("plan")
  /\ UNCHANGED <<selected, asked, replace, resumed, agreed, keyVars>>

CollectKeyBack == pc = "collectKey" /\ ~ctxDone /\ Stops("failed")

-----------------------------------------------------------------------------
(* PlanMerge.                                                                *)

Collisions == asked \cap base.has

\* planGateway: a fresh configuration has a key file.
PlannedAuth ==
  IF auth = "keep" THEN (IF base.exists THEN base.auth ELSE "file")
  ELSE IF auth = "none" THEN "none" ELSE "file"

Changed == asked # {} \/ PlannedAuth # base.auth

\* setKeyPlan; what was agreed about the key of an earlier plan is void.
SetKeyPlan ==
  /\ keyAction' = IF PlannedAuth = "none" THEN "none"
                  ELSE IF base.auth = "file" THEN "inspect" ELSE "ensure"
  /\ allowExisting' = (keyAction' = "ensure" /\ auth = "explicit")
  /\ UNCHANGED keyState

Plan ==
  /\ pc = "plan" /\ (~ctxDone \/ ~flags.interactive)
  /\ Complete(asked) /\ Collisions \subseteq replace
  /\ SetKeyPlan
  /\ agreed' = agreed \ {"key"}
  /\ Turns("preflight")
  /\ UNCHANGED <<selected, asked, auth, replace, resumed>>

\* ErrUsage, or ErrCollision without anyone to decide.
PlanRefused ==
  /\ pc = "plan" /\ ~flags.interactive
  /\ ~Complete(asked) \/ ~(Collisions \subseteq replace)
  /\ Stops("usage")

PlanCollides ==
  /\ pc = "plan" /\ flags.interactive /\ ~ctxDone
  /\ ~(Collisions \subseteq replace)
  /\ Turns("review")
  /\ UNCHANGED <<planVars, keyVars>>

\* Slip: an entry is kept, but the authority to replace it too.
ReviewLenient(granted) ==
  /\ pc = "review" /\ ~ctxDone /\ granted \subseteq Collisions
  /\ asked' = asked \ (Collisions \ granted)
  /\ replace' = replace \cup granted
  /\ agreed' = (agreed \ Collisions) \cup granted
  /\ SetKeyPlan
  /\ Turns("preflight")
  /\ UNCHANGED <<selected, auth, resumed>>

\* applyCollisionDecisions: of all collisions some are replaced, the others kept, and
\* the plan is made again.
Review(granted) ==
  /\ pc = "review" /\ ~ctxDone /\ granted \subseteq Collisions
  /\ asked' = asked \ (Collisions \ granted)
  /\ replace' = (replace \ Collisions) \cup granted
  /\ agreed' = ((agreed \ Collisions) \cup granted) \ {"key"}
  /\ SetKeyPlan
  /\ Turns("preflight")
  /\ UNCHANGED <<selected, auth, resumed>>

ReviewBack ==
  /\ pc = "review" /\ ~ctxDone
  /\ Turns(Selection)
  /\ UNCHANGED <<planVars, keyVars>>

-----------------------------------------------------------------------------
(* Init.                                                                     *)

Decline == pc \in {"review", "confirmKey", "confirm"} /\ ~ctxDone /\ Stops("declined")

\* Store.Preflight; a key nobody refers to, or a missing one that is referred to, needs
\* the user's word.
Preflight ==
  /\ pc = "preflight" /\ ~ctxDone
  /\ keyState' = IF keyAction = "none" THEN "none"
                 ELSE IF ~keyFile THEN "missing"
                 ELSE IF keyAction = "ensure" /\ ~allowExisting THEN "unconfirmed"
                 ELSE "reusable"
  /\ Turns(IF ~flags.interactive THEN "write"
           ELSE IF keyState' = "unconfirmed" \/ (keyAction = "inspect" /\ keyState' = "missing")
           THEN "confirmKey" ELSE "confirm")
  /\ UNCHANGED <<planVars, keyAction, allowExisting>>

ConfirmKey ==
  /\ pc = "confirmKey" /\ ~ctxDone
  /\ IF keyState = "unconfirmed" THEN allowExisting' = TRUE /\ UNCHANGED keyAction
                                 ELSE keyAction' = "ensure" /\ UNCHANGED allowExisting
  /\ agreed' = agreed \cup {"key"}
  /\ Turns("preflight")
  /\ UNCHANGED <<selected, asked, auth, replace, resumed, keyState>>

\* PlanInteractive again, for the key or for everything.
PlanAgain ==
  /\ \/ pc = "confirmKey" /\ Turns("collectKey")
     \/ pc = "confirm" /\ Turns("select")
  /\ ~ctxDone
  /\ resumed' = TRUE
  /\ UNCHANGED <<selected, asked, auth, replace, agreed, keyVars>>

\* validFinalKeyPlan: an existing key is allowed only for a new reference.
Final == allowExisting => base.auth # "file"

\* ConfirmInteractive.
Confirm ==
  /\ pc = "confirm" /\ ~ctxDone
  /\ \/ ~Final /\ Stops("failed")
     \/ Final /\ Turns("write") /\ UNCHANGED <<planVars, keyVars>>

DryRun == pc = "write" /\ ~ctxDone /\ flags.dryRun /\ Stops("dryRun")

KeyUnconfirmed ==
  /\ pc = "write" /\ ~ctxDone /\ ~flags.dryRun
  /\ keyState = "unconfirmed"
  /\ Stops("usage")

NeedsCommit == Changed \/ ~base.exists \/ (keyAction = "ensure" /\ keyState = "missing")

GoesOn == pc = "write" /\ ~ctxDone /\ ~flags.dryRun /\ keyState # "unconfirmed"

BeginCommit ==
  /\ \/ GoesOn /\ NeedsCommit /\ Turns("commit")
     \/ pc = "commit" /\ ~ctxDone /\ Turns("committing")
  /\ UNCHANGED <<planVars, keyVars>>

\* A semantic no-op is only diagnosed.
NothingToDo ==
  /\ GoesOn /\ ~NeedsCommit
  /\ To("start") /\ Forget /\ Still /\ UNCHANGED <<disk, saved, outcome>>

\* validateKeyCommitMatrix: Commit looks at the key again, and makes one only if asked to.
KeyAgrees == \/ keyState = "none"
             \/ keyState = "reusable" /\ keyFile
             \/ keyState = "missing" /\ ~keyFile /\ keyAction = "ensure"

\* Slip: a commit that is followed by a cancellation is taken for none.
CommittedUnnoticed ==
  /\ pc = "committing" /\ KeyAgrees
  /\ disk' = "candidate" /\ saved' = ~ctxDone
  /\ Forget /\ Still
  /\ IF ctxDone THEN outcome' = "canceled" /\ To("ended")
                ELSE UNCHANGED outcome /\ To("start")

\* interpretInitCommit of CommitCommitted: diagnosed, canceled, or with a failed cleanup.
Committed ==
  /\ pc = "committing" /\ KeyAgrees
  /\ disk' = "candidate" /\ saved' = TRUE
  /\ Forget /\ Still
  /\ \/ ctxDone /\ outcome' = "canceled" /\ To("ended")
     \/ ~ctxDone /\ outcome' = "failed" /\ To("ended")
     \/ ~ctxDone /\ UNCHANGED outcome /\ To("start")

\* interpretInitCommit of every other state.
NotCommitted ==
  /\ pc = "committing"
  /\ \/ Ends(IF ctxDone THEN "canceled" ELSE "failed") /\ UNCHANGED disk
     \/ Ends("recovery") /\ UNCHANGED disk
     \/ Ends("unknown") /\ disk' \in {"base"} \cup IF KeyAgrees THEN {"candidate"} ELSE {}
  /\ UNCHANGED saved

\* diagnose returned an error.
Undiagnosed ==
  /\ pc = "undiagnosed"
  /\ Stops(IF ctxDone THEN "canceled" ELSE "failed")

\* The report is printed and the root closed; the providers of this run are ready, or
\* they are not.
InitReport(written, closes, allReady) ==
  /\ pc = "report" /\ command = "init"
  /\ allReady => CoreReady
  /\ root' = IF root = "open" THEN "closed" ELSE root
  /\ outcome' = IF ~written THEN "failed"
                ELSE IF ctxDone THEN "canceled"
                ELSE IF failed \/ (root = "open" /\ ~closes) THEN "failed"
                ELSE IF allReady THEN "ready" ELSE "notReady"
  /\ To("ended")
  /\ NoFile /\ NoDiag /\ NoServer
  /\ UNCHANGED <<ownVars, outVars, workVars, flags, base, planVars, keyVars, keyFile, disk, saved>>

-----------------------------------------------------------------------------
(* The environment, and the whole.                                           *)

\* Another process makes a key.
KeyAppears ==
  /\ pc \in Planning /\ pc # "init" /\ ~keyFile
  /\ keyFile' = TRUE
  /\ UNCHANGED <<appVars, flags, base, planVars, keyVars, disk, saved, outcome>>

InitMain ==
  \/ CancelInit \/ FailInit \/ RefuseInit \/ BeginInit \/ SelectBack \/ CollectBack
  \/ CollectKeyBack \/ Plan \/ PlanRefused \/ PlanCollides \/ ReviewBack \/ Decline
  \/ Preflight \/ ConfirmKey \/ PlanAgain \/ Confirm \/ DryRun \/ KeyUnconfirmed
  \/ BeginCommit \/ NothingToDo \/ Committed \/ NotCommitted \/ Undiagnosed
  \/ \E names \in SUBSET Names : Select(names)
  \/ \E granted \in SUBSET Entries : Review(granted)
  \/ \E a \in {"none", "file", "explicit"} :
       CollectKey(a) \/ \E new \in SUBSET Entries : Collect(new, a)
  \/ \E w, c, r \in BOOLEAN : InitReport(w, c, r)

CliNext == (AppNext /\ UNCHANGED initVars) \/ InitMain \/ KeyAppears

CliSpec == CliInit /\ [][CliNext]_cliVars

\* As in App; a terminal's prompt returns when its context ends.
CliFair ==
  /\ WF_cliVars((AppMain /\ UNCHANGED initVars) \/ (ctxDone /\ InitMain))
  /\ OthersRun

CliFairSpec == CliSpec /\ CliFair

InitTypeOK ==
  /\ pc \notin Planning => AppTypeOK
  /\ flags \in CommandLines \cup {NoFlags} /\ base \in Bases \cup {NoBase}
  /\ selected \subseteq Names /\ {asked, replace} \subseteq SUBSET Entries
  /\ agreed \subseteq Entries \cup {"key"}
  /\ auth \in {"keep", "none", "file", "explicit"}
  /\ keyAction \in {"none", "inspect", "ensure"}
  /\ keyState \in {"none", "missing", "unconfirmed", "reusable"}
  /\ {resumed, allowExisting, keyFile, saved} \subseteq BOOLEAN
  /\ disk \in {"base", "candidate"}
  /\ outcome \in {"none", "ready", "notReady", "failed", "recovery", "unknown", "usage",
                  "canceled", "declined", "dryRun"}

-----------------------------------------------------------------------------
(* Properties.                                                               *)

\* The word of the user or of a flag is needed for a key that is reused without being
\* named, and for one that is made although the configuration referred to it before.
KeyAgreed ==
  PlannedAuth = "file" /\ keyAction = "ensure"
    => \/ "key" \in agreed
       \/ base.auth # "file" /\ (~keyFile \/ auth = "explicit")

(* A commit changes only entries of the selected providers, replaces only what a    *)
(* flag or the user's last decision about it allowed, never in a dry run, and never  *)
(* takes or makes a key nobody agreed to - whatever way back and forth led there.    *)
CommitsOnlyTheAgreed ==
  [][disk' # disk => /\ ~flags.dryRun
                     /\ asked \subseteq Of(selected)
                     /\ Collisions \subseteq agreed
                     /\ KeyAgreed]_cliVars

(* What init reports of the files is what happened to them, on every way out.        *)
OutcomeIsTrue ==
  pc = "ended" /\ command = "init" /\ outcome # "unknown"
    => /\ saved <=> disk = "candidate"
       /\ outcome \in {"declined", "dryRun", "usage", "recovery"} => ~saved
       /\ outcome = "ready" => CoreReady /\ root = "closed" /\ ~failed
=============================================================================
