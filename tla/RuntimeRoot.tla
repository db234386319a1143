----------------------------- MODULE RuntimeRoot -----------------------------
(***************************************************************************)
(* The runtime root of internal/process/root.go: one directory per request, *)
(* owned by one gateway process through the lock file.  A directory is      *)
(* request-<id> while it is in use; Cleanup renames it to quarantine-<id>    *)
(* and removes it; Janitor removes what no live record owns, among it what   *)
(* an earlier process left.                                                  *)
(*                                                                         *)
(* Locks: every operation holds lifecycle.RLock, Close holds lifecycle.Lock; *)
(* recordsMu is always taken before a record's mutex.  An operation that     *)
(* holds recordsMu throughout (Prepare, retireRecord) is one step; the steps *)
(* of Cleanup and Janitor are what a crash or the other actors can see.      *)
(* Directory identities are generations: the inode a record was made for.    *)
(***************************************************************************)
EXTENDS Naturals, FiniteSets

CONSTANTS Ids,         \* request ids
          Cleaners,    \* goroutines that call Cleanup
          MaxGen,      \* bound: runtimes ever prepared
          MaxRestarts  \* bound: crashes or restarts of the gateway

Gens == 1..MaxGen
None == 0
Leftover == MaxGen + 1     \* a directory without a record in this process
Names == {"request", "quarantine"} \X Ids
Nowhere == <<"none", None>>
Janitor == "janitor"
Closer == "closer"
Actors == Cleaners \cup {Janitor, Closer}

ASSUME RootAssumption ==
  /\ MaxGen \in Nat /\ MaxRestarts \in Nat
  /\ None \notin Ids
  /\ Cleaners \cap {Janitor, Closer, "free"} = {}

VARIABLES
  records,    \* Root.records: the generation registered for an id
  idOf,       \* the id of a generation's record
  state,      \* the state of its record
  open,       \* the generations whose handles are open
  next,       \* Root.generation
  entry,      \* the root directory: the inode each name has
  recordsMu,  \* who holds Root.recordsMu
  recMu,      \* who holds a record's mutex
  pc,         \* where an actor is
  target,     \* the generation an actor is working on
  todo,       \* names the janitor has read and not visited
  seen,       \* names the janitor has read
  at,         \* the name the janitor visits
  failed,     \* the operation of an actor has an error to return
  gone,       \* generations a Cleanup has answered nil for
  owed,       \* leftovers from before the janitor began that are still there
  closed,     \* Root.closed
  restarts

recVars == <<records, idOf, state, open, next>>
lockVars == <<recordsMu, recMu>>
janVars == <<todo, seen, at, owed>>
vars == <<recVars, entry, lockVars, pc, target, janVars, failed, gone, closed, restarts>>

TypeOK ==
  /\ records \in [Ids -> Gens \cup {None}]
  /\ idOf \in [Gens -> Ids \cup {None}]
  /\ state \in [Gens -> {"unused", "active", "pending", "quarantined", "removed"}]
  /\ open \subseteq Gens
  /\ next \in 0..MaxGen
  /\ entry \in [Names -> Gens \cup {None, Leftover}]
  /\ recordsMu \in Actors \cup {"free"}
  /\ recMu \in [Gens -> Actors \cup {"free"}]
  /\ pc \in [Actors -> {"idle", "lookup", "locking", "marked", "moved", "retire", "scan", "visit",
                        "waiting", "end"}]
  /\ todo \subseteq seen /\ seen \subseteq Names /\ owed \subseteq Names
  /\ at \in Names \cup {Nowhere}
  /\ target \in [Actors -> Gens \cup {None}]
  /\ failed \in [Actors -> BOOLEAN]
  /\ gone \subseteq Gens
  /\ closed \in BOOLEAN
  /\ restarts \in 0..MaxRestarts

\* OpenRoot: an empty registry over whatever the directory holds.
Init ==
  /\ records = [i \in Ids |-> None]
  /\ idOf = [g \in Gens |-> None]
  /\ state = [g \in Gens |-> "unused"]
  /\ open = {}
  /\ next = 0
  /\ entry \in [Names -> {None, Leftover}]
  /\ recordsMu = "free"
  /\ recMu = [g \in Gens |-> "free"]
  /\ pc = [a \in Actors |-> "idle"]
  /\ target = [a \in Actors |-> None]
  /\ todo = {} /\ seen = {} /\ owed = {}
  /\ at = Nowhere
  /\ failed = [a \in Actors |-> FALSE]
  /\ gone = {}
  /\ closed = FALSE
  /\ restarts = 0

-----------------------------------------------------------------------------
(* beginOperation: the read lock is granted unless the root is closed or    *)
(* Close holds or waits for the write lock.                                 *)
MayBegin == ~closed /\ pc[Closer] = "idle"

Go(a, where) == pc' = [pc EXCEPT ![a] = where]
Answer(a, bad) == Go(a, "idle") /\ failed' = [failed EXCEPT ![a] = bad]

-----------------------------------------------------------------------------
(* Prepare, wholly under recordsMu.                                         *)

Admissible(id) ==
  /\ MayBegin /\ recordsMu = "free"
  /\ records[id] = None
  /\ entry[<<"quarantine", id>>] = None
  /\ entry[<<"request", id>>] = None

\* Slip: Prepare does not take recordsMu.
PrepareUnlocked(id) ==
  /\ MayBegin /\ next < MaxGen
  /\ records[id] = None
  /\ entry[<<"quarantine", id>>] = None /\ entry[<<"request", id>>] = None
  /\ next' = next + 1
  /\ idOf' = [idOf EXCEPT ![next + 1] = id]
  /\ state' = [state EXCEPT ![next + 1] = "active"]
  /\ open' = open \cup {next + 1}
  /\ records' = [records EXCEPT ![id] = next + 1]
  /\ entry' = [entry EXCEPT ![<<"request", id>>] = next + 1]
  /\ UNCHANGED <<lockVars, pc, target, janVars, failed, gone, closed, restarts>>

\* mkdir succeeded and every later validation too.
Prepare(id) ==
  /\ Admissible(id) /\ next < MaxGen
  /\ next' = next + 1
  /\ idOf' = [idOf EXCEPT ![next + 1] = id]
  /\ state' = [state EXCEPT ![next + 1] = "active"]
  /\ open' = open \cup {next + 1}
  /\ records' = [records EXCEPT ![id] = next + 1]
  /\ entry' = [entry EXCEPT ![<<"request", id>>] = next + 1]
  /\ UNCHANGED <<lockVars, pc, target, janVars, failed, gone, closed, restarts>>

\* A step after mkdir failed and the directory could not be removed again (or,
\* when Lstat failed, was not): it stays without a record.
PrepareFails(id) ==
  /\ Admissible(id)
  /\ entry' = [entry EXCEPT ![<<"request", id>>] = Leftover]
  /\ UNCHANGED <<recVars, lockVars, pc, target, janVars, failed, gone, closed, restarts>>

-----------------------------------------------------------------------------
(* Cleanup(runtime): c works for the holder of generation g.                *)

CleanupBegins(c, g) ==
  /\ pc[c] = "idle" /\ MayBegin
  /\ state[g] # "unused"
  /\ target' = [target EXCEPT ![c] = g]
  /\ Go(c, "lookup")
  /\ UNCHANGED <<recVars, entry, lockVars, janVars, failed, gone, closed, restarts>>

\* lockRuntimeRecord: recordsMu, and the record must be registered or retired.
CleanupLooksUp(c) ==
  LET g == target[c] IN
  /\ pc[c] = "lookup" /\ recordsMu = "free"
  /\ IF records[idOf[g]] \in {g, None}
     THEN recordsMu' = c /\ Go(c, "locking") /\ UNCHANGED failed
     ELSE UNCHANGED recordsMu /\ Answer(c, TRUE)
  /\ UNCHANGED <<recVars, entry, recMu, target, janVars, gone, closed, restarts>>

\* ... then its mutex.  A removed runtime answers nil, an unregistered one that
\* is not removed is refused, any other is marked cleanup-pending.
CleanupLocks(c) ==
  LET g == target[c] IN
  /\ pc[c] = "locking" /\ recMu[g] = "free"
  /\ recordsMu' = "free"
  /\ \/ /\ state[g] = "removed"
        /\ gone' = gone \cup {g}
        /\ Answer(c, FALSE)
        /\ UNCHANGED <<recMu, state>>
     \/ /\ state[g] # "removed" /\ records[idOf[g]] = None
        /\ Answer(c, TRUE)
        /\ UNCHANGED <<recMu, state, gone>>
     \/ /\ state[g] \in {"active", "pending"} /\ records[idOf[g]] = g
        /\ recMu' = [recMu EXCEPT ![g] = c]
        /\ state' = [state EXCEPT ![g] = "pending"]
        /\ Go(c, "marked")
        /\ UNCHANGED <<failed, gone>>
     \/ /\ state[g] = "quarantined" /\ records[idOf[g]] = g
        /\ recMu' = [recMu EXCEPT ![g] = c]
        /\ Go(c, "moved")
        /\ UNCHANGED <<state, failed, gone>>
  /\ UNCHANGED <<records, idOf, open, next, entry, target, janVars, closed, restarts>>

Unlock(g) == recMu' = [recMu EXCEPT ![g] = "free"]

\* quarantineRecordedRuntime: find the inode, rename it without replacing.
CleanupRenames(c) ==
  LET g == target[c]
      id == idOf[g] IN
  /\ pc[c] = "marked"
  /\ entry[<<"request", id>>] = g /\ entry[<<"quarantine", id>>] = None
  /\ entry' = [entry EXCEPT ![<<"request", id>>] = None, ![<<"quarantine", id>>] = g]
  /\ state' = [state EXCEPT ![g] = "quarantined"]
  /\ \/ Go(c, "moved") /\ UNCHANGED <<recMu, failed>>
     \/ Answer(c, TRUE) /\ Unlock(g)       \* the renamed entry cannot be inspected
  /\ UNCHANGED <<records, idOf, open, next, recordsMu, target, janVars, gone, closed, restarts>>

\* The rename or a look-up before it failed, or the time is up: still pending.
CleanupRenameFails(c) ==
  /\ pc[c] = "marked"
  /\ Answer(c, TRUE) /\ Unlock(target[c])
  /\ UNCHANGED <<recVars, entry, recordsMu, target, janVars, gone, closed, restarts>>

\* Slip: retireRecord runs before the record's mutex is released.
CleanupRemovesHolding(c) ==
  LET g == target[c] IN
  /\ pc[c] = "moved"
  /\ entry[<<"quarantine", idOf[g]>>] = g
  /\ entry' = [entry EXCEPT ![<<"quarantine", idOf[g]>>] = None]
  /\ state' = [state EXCEPT ![g] = "removed"]
  /\ open' = open \ {g}
  /\ Go(c, "retire")
  /\ UNCHANGED <<records, idOf, next, lockVars, target, janVars, failed, gone, closed, restarts>>

\* removeRecordedRuntime, closeRuntimeRecord; the mutex is released.
CleanupRemoves(c) ==
  LET g == target[c] IN
  /\ pc[c] = "moved"
  /\ entry[<<"quarantine", idOf[g]>>] = g
  /\ entry' = [entry EXCEPT ![<<"quarantine", idOf[g]>>] = None]
  /\ state' = [state EXCEPT ![g] = "removed"]
  /\ open' = open \ {g}
  /\ Unlock(g)
  /\ Go(c, "retire")
  /\ UNCHANGED <<records, idOf, next, recordsMu, target, janVars, failed, gone, closed, restarts>>

\* Slip: the runtime counts as removed although the removal failed.
CleanupRemoveFailsRemoved(c) ==
  /\ pc[c] = "moved"
  /\ state' = [state EXCEPT ![target[c]] = "removed"]
  /\ open' = open \ {target[c]}
  /\ Answer(c, TRUE) /\ Unlock(target[c])
  /\ UNCHANGED <<records, idOf, next, entry, recordsMu, target, janVars, gone, closed, restarts>>

\* The contents or the directory could not be removed: still quarantined.
CleanupRemoveFails(c) ==
  /\ pc[c] = "moved"
  /\ Answer(c, TRUE) /\ Unlock(target[c])
  /\ UNCHANGED <<recVars, entry, recordsMu, target, janVars, gone, closed, restarts>>

\* retireRecord, wholly under recordsMu and the record's mutex; the answer is
\* an error if a handle could not be closed properly.
CleanupRetires(c) ==
  LET g == target[c] IN
  /\ pc[c] = "retire" /\ recordsMu = "free"
  /\ recMu[g] \in {"free", c}
  /\ records' = [records EXCEPT ![idOf[g]] = IF @ = g THEN None ELSE @]
  /\ Unlock(g)
  /\ \/ gone' = gone \cup {g} /\ Answer(c, FALSE)
     \/ Answer(c, TRUE) /\ UNCHANGED gone
  /\ UNCHANGED <<idOf, state, open, next, entry, recordsMu, target, janVars, closed, restarts>>

-----------------------------------------------------------------------------
(* Janitor.                                                                 *)

JanitorBegins ==
  /\ pc[Janitor] = "idle" /\ MayBegin
  /\ todo' = {n \in Names : entry[n] # None}
  /\ seen' = todo'
  /\ owed' = {n \in Names : entry[n] = Leftover}
  /\ failed' = [failed EXCEPT ![Janitor] = FALSE]
  /\ Go(Janitor, "scan")
  /\ UNCHANGED <<recVars, entry, lockVars, target, at, gone, closed, restarts>>

\* Slip: a name read again is visited again.
JanitorReadsAgain(n) ==
  /\ pc[Janitor] = "scan"
  /\ entry[n] # None /\ n \notin seen
  /\ todo' = todo \cup {n}
  /\ UNCHANGED <<recVars, entry, lockVars, pc, target, seen, at, owed, failed, gone, closed, restarts>>

\* ReadDir also returns an entry made after the scan began.
JanitorReads(n) ==
  /\ pc[Janitor] = "scan"
  /\ entry[n] # None /\ n \notin seen
  /\ todo' = todo \cup {n} /\ seen' = seen \cup {n}
  /\ UNCHANGED <<recVars, entry, lockVars, pc, target, at, owed, failed, gone, closed, restarts>>

\* lockStaleRuntime: recordsMu ...
JanitorLooksUp(n) ==
  /\ pc[Janitor] = "scan" /\ recordsMu = "free"
  /\ n \in todo
  /\ todo' = todo \ {n}
  /\ at' = n
  /\ recordsMu' = Janitor
  /\ Go(Janitor, "locking")
  /\ UNCHANGED <<recVars, entry, recMu, target, seen, owed, failed, gone, closed, restarts>>

\* ... then the record's mutex, if there is a record.  A live runtime is left
\* alone; for the others both mutexes are kept.
JanitorLocks ==
  LET g == records[at[2]]
      live == g # None /\ at[1] = "request" /\ state[g] = "active" IN
  /\ pc[Janitor] = "locking"
  /\ g # None => recMu[g] = "free"
  /\ target' = [target EXCEPT ![Janitor] = g]
  /\ IF live
     THEN recordsMu' = "free" /\ Go(Janitor, "scan") /\ UNCHANGED recMu
     ELSE /\ recMu' = IF g = None THEN recMu ELSE [recMu EXCEPT ![g] = Janitor]
          /\ Go(Janitor, "visit")
          /\ UNCHANGED recordsMu
  /\ UNCHANGED <<recVars, entry, janVars, failed, gone, closed, restarts>>

\* unlockStaleRuntime after a visit.
Leave(bad) ==
  /\ recordsMu' = "free"
  /\ recMu' = [g \in Gens |-> IF recMu[g] = Janitor THEN "free" ELSE recMu[g]]
  /\ failed' = [failed EXCEPT ![Janitor] = @ \/ bad]
  /\ owed' = IF entry'[at] = None THEN owed \ {at} ELSE owed
  /\ Go(Janitor, "scan")
  /\ UNCHANGED <<target, todo, seen, at, gone, closed, restarts>>

\* Slip: the record is dropped and its handles stay open.
JanitorRemovesOpen ==
  LET g == target[Janitor] IN
  /\ pc[Janitor] = "visit" /\ entry[at] # None
  /\ g = None \/ (entry[at] = g /\ state[g] \in {"pending", "quarantined"})
  /\ entry' = [entry EXCEPT ![at] = None]
  /\ IF g = None THEN UNCHANGED <<records, state, open>>
     ELSE /\ state' = [state EXCEPT ![g] = "removed"] /\ UNCHANGED open
          /\ records' = [records EXCEPT ![at[2]] = None]
  /\ Leave(FALSE)
  /\ UNCHANGED <<idOf, next>>

\* The directory is removed, with it the record that is not active and whose
\* inode it is.
JanitorRemoves ==
  LET g == target[Janitor] IN
  /\ pc[Janitor] = "visit" /\ entry[at] # None
  /\ g = None \/ (entry[at] = g /\ state[g] \in {"pending", "quarantined"})
  /\ entry' = [entry EXCEPT ![at] = None]
  /\ IF g = None THEN UNCHANGED <<records, state, open>>
     ELSE /\ state' = [state EXCEPT ![g] = "removed"] /\ open' = open \ {g}
          /\ records' = [records EXCEPT ![at[2]] = None]
  /\ Leave(FALSE) \/ (g # None /\ Leave(TRUE))
  /\ UNCHANGED <<idOf, next>>

\* The entry has gone in the meantime.
JanitorFindsNothing ==
  /\ pc[Janitor] = "visit" /\ entry[at] = None
  /\ UNCHANGED <<recVars, entry>>
  /\ Leave(FALSE)

\* Slip: what could not be removed is not an error.
JanitorSkipsSilently ==
  /\ pc[Janitor] = "visit" /\ entry[at] # None
  /\ UNCHANGED <<recVars, entry>>
  /\ Leave(FALSE)

\* Another inode or state than the record's, or the removal failed.
JanitorSkips ==
  /\ pc[Janitor] = "visit" /\ entry[at] # None
  /\ UNCHANGED <<recVars, entry>>
  /\ Leave(TRUE)

\* The end of the directory, or of the janitor's time.
JanitorEnds ==
  /\ pc[Janitor] = "scan"
  /\ failed' = [failed EXCEPT ![Janitor] = @ \/ todo # {}]
  /\ Go(Janitor, "end")
  /\ UNCHANGED <<recVars, entry, lockVars, target, janVars, gone, closed, restarts>>

JanitorReturns ==
  /\ pc[Janitor] = "end"
  /\ Go(Janitor, "idle")
  /\ owed' = {}
  /\ UNCHANGED <<recVars, entry, lockVars, target, todo, seen, at, failed, gone, closed, restarts>>

-----------------------------------------------------------------------------
(* Close and the end of the process.                                        *)

CloseBegins ==
  /\ pc[Closer] = "idle" /\ ~closed
  /\ Go(Closer, "waiting")
  /\ UNCHANGED <<recVars, entry, lockVars, target, janVars, failed, gone, closed, restarts>>

\* The write lock is granted: every registered record's handles are closed.
Close ==
  /\ pc[Closer] = "waiting"
  /\ \A a \in Actors \ {Closer} : pc[a] = "idle"
  /\ closed' = TRUE
  /\ open' = {g \in open : \A id \in Ids : records[id] # g}
  /\ Go(Closer, "idle")
  /\ UNCHANGED <<records, idOf, state, next, entry, lockVars, target, janVars, failed, gone, restarts>>

\* Operations on a closed root and a second Close change nothing.
Refused == closed /\ UNCHANGED vars

\* The gateway dies, or exits after Close, and a new process opens the root:
\* the directories stay, every record, lock and handle is lost.
Restart ==
  /\ restarts < MaxRestarts
  /\ restarts' = restarts + 1
  /\ records' = [i \in Ids |-> None]
  /\ idOf' = [g \in Gens |-> None]
  /\ state' = [g \in Gens |-> "unused"]
  /\ open' = {}
  /\ entry' = [n \in Names |-> IF entry[n] = None THEN None ELSE Leftover]
  /\ recordsMu' = "free"
  /\ recMu' = [g \in Gens |-> "free"]
  /\ pc' = [a \in Actors |-> "idle"]
  /\ target' = [a \in Actors |-> None]
  /\ todo' = {} /\ seen' = {} /\ owed' = {}
  /\ failed' = [a \in Actors |-> FALSE]
  /\ gone' = {}
  /\ closed' = FALSE
  /\ UNCHANGED <<next, at>>

CleanerStep(c) ==
  \/ CleanupLooksUp(c) \/ CleanupLocks(c) \/ CleanupRenames(c) \/ CleanupRenameFails(c)
  \/ CleanupRemoves(c) \/ CleanupRemoveFails(c) \/ CleanupRetires(c)

JanitorStep ==
  \/ \E n \in Names : JanitorLooksUp(n)
  \/ JanitorLocks \/ JanitorRemoves \/ JanitorFindsNothing \/ JanitorSkips
  \/ JanitorEnds \/ JanitorReturns

Next ==
  \/ \E id \in Ids : Prepare(id) \/ PrepareFails(id)
  \/ \E c \in Cleaners : CleanerStep(c) \/ \E g \in Gens : CleanupBegins(c, g)
  \/ JanitorBegins \/ JanitorStep \/ \E n \in Names : JanitorReads(n)
  \/ CloseBegins \/ Close \/ Refused
  \/ Restart

Spec == Init /\ [][Next]_vars

-----------------------------------------------------------------------------
(* What must hold.                                                          *)

\* The directory of a live runtime is never taken away by a janitor that read
\* its name earlier, by a cleanup of an older runtime with the same id, or by
\* anything else in this process (lockStaleRuntime, lockRuntimeRecord).
LiveKept ==
  \A id \in Ids :
    LET g == records[id] IN
    g # None /\ state[g] = "active" => entry[<<"request", id>>] = g

\* A runtime whose cleanup was answered with nil has no directory left, under
\* neither name (Cleanup).
CleanedIsGone == \A g \in gone, n \in Names : entry[n] # g

\* Every open directory handle belongs to a registered record, where Cleanup,
\* Janitor or Close will find it; a closed root has none open.
HandlesFound ==
  \A g \in Gens : g \in open => records[idOf[g]] = g /\ ~closed

\* A janitor that ends without an error has removed every leftover that was
\* there when it began (Janitor).
LeftoversReclaimed ==
  pc[Janitor] = "end" /\ ~failed[Janitor] => owed = {}
\* Cleanups and the janitor hold recordsMu while they wait for a record's
\* mutex, so whoever holds a record's mutex never waits for recordsMu: Cleanup
\* gives it up before it retires the record (Cleanup, retireRecord).
NoLockCycle ==
  \A g \in Gens, c \in Cleaners : recMu[g] = c => pc[c] \in {"marked", "moved"}
=============================================================================
