-------------------------- MODULE RuntimeRootProofs --------------------------
(* For any ids, cleaners and number of runtimes and restarts: the root keeps live  *)
(* directories, answers nil only for what is gone and loses no handle.            *)
EXTENDS RuntimeRoot, TLAPS

Registered == {"active", "pending", "quarantined"}

\* A generation has its id from the moment it is prepared.
Known ==
  /\ \A g \in Gens : state[g] = "unused" <=> idOf[g] = None
  /\ \A g \in Gens : g > next => state[g] = "unused"
  /\ \A g \in Gens : g \in open => state[g] \in Registered /\ ~closed

\* The registry and the directory agree on every runtime that is not removed.
Filed(g) ==
  /\ state[g] \in Registered => records[idOf[g]] = g
  /\ \A i \in Ids : records[i] = g => idOf[g] = i
  /\ \A k \in {"request", "quarantine"}, i \in Ids :
       entry[<<k, i>>] = g =>
         idOf[g] = i /\ state[g] \in Registered /\ (k = "quarantine" <=> state[g] = "quarantined")
  /\ state[g] = "active" => entry[<<"request", idOf[g]>>] = g
  /\ g \in gone => state[g] = "removed"
Files == \A g \in Gens : Filed(g)

\* What a cleaner holds and knows depends on where it is.
Cleaning(c) ==
  /\ pc[c] \in {"idle", "lookup", "locking", "marked", "moved", "retire"}
  /\ pc[c] # "idle" => target[c] \in Gens /\ state[target[c]] # "unused"
  /\ pc[c] = "locking" <=> recordsMu = c
  /\ pc[c] = "marked" => recMu[target[c]] = c /\ state[target[c]] = "pending"
  /\ pc[c] = "moved" => recMu[target[c]] = c /\ state[target[c]] = "quarantined"
  /\ pc[c] = "retire" => state[target[c]] = "removed"
Cleanings == \A c \in Cleaners : Cleaning(c)

Visiting ==
  /\ pc[Janitor] \in {"idle", "scan", "locking", "visit", "end"}
  /\ pc[Janitor] \in {"locking", "visit"} <=> recordsMu = Janitor
  /\ pc[Janitor] \in {"locking", "visit"} => at \in Names
  /\ pc[Janitor] = "visit" =>
       /\ target[Janitor] = records[at[2]]
       /\ target[Janitor] # None => recMu[target[Janitor]] = Janitor

\* A record's mutex is held by who works on it.
Held(g) ==
  /\ recMu[g] \in Cleaners => pc[recMu[g]] \in {"marked", "moved"} /\ target[recMu[g]] = g
  /\ recMu[g] = Janitor => pc[Janitor] = "visit" /\ target[Janitor] = g
  /\ recMu[g] # Closer
Holds == \A g \in Gens : Held(g)

\* The janitor still has before it what it owes, or has an error to return.
Owing ==
  /\ \A n \in owed : entry[n] = Leftover
  /\ pc[Janitor] \in {"scan", "locking", "visit"} /\ ~failed[Janitor] =>
       owed \subseteq todo \cup (IF pc[Janitor] = "scan" THEN {} ELSE {at})
  /\ pc[Janitor] = "end" /\ ~failed[Janitor] => owed = {}

IInv == TypeOK /\ Known /\ Files /\ Cleanings /\ Visiting /\ Holds /\ Owing

-----------------------------------------------------------------------------
\* A name is a kind and an id.
LEMMA NameFacts ==
  /\ \A k \in {"request", "quarantine"}, i \in Ids : <<k, i>> \in Names
  /\ \A n \in Names : n[1] \in {"request", "quarantine"} /\ n[2] \in Ids /\ n = <<n[1], n[2]>>
BY DEF Names

LEMMA GenFacts == Gens \subseteq Nat /\ None \notin Gens /\ Leftover \notin Gens /\ None # Leftover
                  /\ \A m \in 0..MaxGen : m < MaxGen => m + 1 \in Gens /\ m + 1 \in 0..MaxGen
BY RootAssumption DEF Gens, None, Leftover

\* Every step keeps the types.
LEMMA TypeStep ==
  ASSUME TypeOK, Known, Cleanings, Visiting, [Next]_vars
  PROVE  TypeOK'
<1> USE RootAssumption, NameFacts, GenFacts DEF TypeOK, Janitor, Closer, Actors, Visiting, Known, Go,
    Answer, Unlock, Leave, Admissible, recVars, lockVars, janVars
<1>1. ASSUME NEW id \in Ids, Prepare(id) PROVE TypeOK'
  BY <1>1 DEF Prepare
<1>2. ASSUME NEW id \in Ids, PrepareFails(id) PROVE TypeOK'
  BY <1>2 DEF PrepareFails
<1>3. ASSUME NEW c \in Cleaners, CleanupLooksUp(c) PROVE TypeOK'
  <2>1. Cleaning(c)
    BY DEF Cleanings
  <2>2. target[c] \in Gens /\ idOf[target[c]] \in Ids
    BY <2>1, <1>3 DEF Cleaning, CleanupLooksUp
  <2>3. /\ records' \in [Ids -> Gens \cup {None}] /\ idOf' \in [Gens -> Ids \cup {None}]
        /\ state' \in [Gens -> {"unused", "active", "pending", "quarantined", "removed"}]
        /\ open' \subseteq Gens /\ next' \in 0..MaxGen
    BY <1>3, <2>2 DEF CleanupLooksUp
  <2>4. entry' \in [Names -> Gens \cup {None, Leftover}]
    BY <1>3, <2>2 DEF CleanupLooksUp
  <2>5. recordsMu' \in Actors \cup {"free"} /\ recMu' \in [Gens -> Actors \cup {"free"}]
    BY <1>3, <2>2 DEF CleanupLooksUp
  <2>6. pc' \in [Actors -> {"idle", "lookup", "locking", "marked", "moved", "retire", "scan", "visit",
                               "waiting", "end"}]
    BY <1>3, <2>2 DEF CleanupLooksUp
  <2>7. failed' \in [Actors -> BOOLEAN]
    <3>1. failed' = failed \/ failed' = [failed EXCEPT ![c] = TRUE]
      BY <1>3 DEF CleanupLooksUp
    <3> QED BY <3>1
  <2>8. UNCHANGED <<todo, seen, owed, at, target, gone, closed, restarts>>
    BY <1>3 DEF CleanupLooksUp
  <2> QED BY <2>3, <2>4, <2>5, <2>6, <2>7, <2>8
<1>4. ASSUME NEW c \in Cleaners, CleanupLocks(c) PROVE TypeOK'
  <2>1. Cleaning(c)
    BY DEF Cleanings
  <2>2. target[c] \in Gens /\ idOf[target[c]] \in Ids
    BY <2>1, <1>4 DEF Cleaning, CleanupLocks
  <2>3. /\ records' \in [Ids -> Gens \cup {None}] /\ idOf' \in [Gens -> Ids \cup {None}]
        /\ state' \in [Gens -> {"unused", "active", "pending", "quarantined", "removed"}]
        /\ open' \subseteq Gens /\ next' \in 0..MaxGen
    BY <1>4, <2>2 DEF CleanupLocks
  <2>4. entry' \in [Names -> Gens \cup {None, Leftover}]
    BY <1>4, <2>2 DEF CleanupLocks
  <2>5. recordsMu' \in Actors \cup {"free"} /\ recMu' \in [Gens -> Actors \cup {"free"}]
    BY <1>4, <2>2 DEF CleanupLocks
  <2>6. pc' \in [Actors -> {"idle", "lookup", "locking", "marked", "moved", "retire", "scan", "visit",
                               "waiting", "end"}]
    BY <1>4, <2>2 DEF CleanupLocks
  <2>7. failed' \in [Actors -> BOOLEAN]
    BY <1>4, <2>2 DEF CleanupLocks
  <2>8. /\ todo' \subseteq seen' /\ seen' \subseteq Names /\ owed' \subseteq Names
        /\ at' \in Names \cup {Nowhere} /\ target' \in [Actors -> Gens \cup {None}]
        /\ gone' \subseteq Gens /\ closed' \in BOOLEAN /\ restarts' \in 0..MaxRestarts
    BY <1>4, <2>2 DEF CleanupLocks
  <2> QED BY <2>3, <2>4, <2>5, <2>6, <2>7, <2>8
<1>5. ASSUME NEW c \in Cleaners, CleanupRenames(c) PROVE TypeOK'
  <2>1. Cleaning(c)
    BY DEF Cleanings
  <2>2. target[c] \in Gens /\ idOf[target[c]] \in Ids
    BY <2>1, <1>5 DEF Cleaning, CleanupRenames
  <2>3. /\ records' \in [Ids -> Gens \cup {None}] /\ idOf' \in [Gens -> Ids \cup {None}]
        /\ state' \in [Gens -> {"unused", "active", "pending", "quarantined", "removed"}]
        /\ open' \subseteq Gens /\ next' \in 0..MaxGen
    BY <1>5, <2>2 DEF CleanupRenames
  <2>4. entry' \in [Names -> Gens \cup {None, Leftover}]
    BY <1>5, <2>2 DEF CleanupRenames
  <2>5. recordsMu' \in Actors \cup {"free"} /\ recMu' \in [Gens -> Actors \cup {"free"}]
    BY <1>5, <2>2 DEF CleanupRenames
  <2>6. pc' \in [Actors -> {"idle", "lookup", "locking", "marked", "moved", "retire", "scan", "visit",
                               "waiting", "end"}]
    BY <1>5, <2>2 DEF CleanupRenames
  <2>7. failed' \in [Actors -> BOOLEAN]
    BY <1>5, <2>2 DEF CleanupRenames
  <2>8. /\ todo' \subseteq seen' /\ seen' \subseteq Names /\ owed' \subseteq Names
        /\ at' \in Names \cup {Nowhere} /\ target' \in [Actors -> Gens \cup {None}]
        /\ gone' \subseteq Gens /\ closed' \in BOOLEAN /\ restarts' \in 0..MaxRestarts
    BY <1>5, <2>2 DEF CleanupRenames
  <2> QED BY <2>3, <2>4, <2>5, <2>6, <2>7, <2>8
<1>6. ASSUME NEW c \in Cleaners, CleanupRenameFails(c) PROVE TypeOK'
  <2>1. Cleaning(c)
    BY DEF Cleanings
  <2> QED BY <1>6, <2>1 DEF CleanupRenameFails, Cleaning
<1>7. ASSUME NEW c \in Cleaners, CleanupRemoves(c) PROVE TypeOK'
  <2>1. Cleaning(c)
    BY DEF Cleanings
  <2> QED BY <1>7, <2>1 DEF CleanupRemoves, Cleaning
<1>8. ASSUME NEW c \in Cleaners, CleanupRemoveFails(c) PROVE TypeOK'
  <2>1. Cleaning(c)
    BY DEF Cleanings
  <2> QED BY <1>8, <2>1 DEF CleanupRemoveFails, Cleaning
<1>9. ASSUME NEW c \in Cleaners, CleanupRetires(c) PROVE TypeOK'
  <2>1. Cleaning(c)
    BY DEF Cleanings
  <2>2. target[c] \in Gens /\ idOf[target[c]] \in Ids
    BY <2>1, <1>9 DEF Cleaning, CleanupRetires
  <2>3. /\ records' \in [Ids -> Gens \cup {None}] /\ idOf' \in [Gens -> Ids \cup {None}]
        /\ state' \in [Gens -> {"unused", "active", "pending", "quarantined", "removed"}]
        /\ open' \subseteq Gens /\ next' \in 0..MaxGen
    BY <1>9, <2>2 DEF CleanupRetires
  <2>4. entry' \in [Names -> Gens \cup {None, Leftover}]
    BY <1>9, <2>2 DEF CleanupRetires
  <2>5. recordsMu' \in Actors \cup {"free"} /\ recMu' \in [Gens -> Actors \cup {"free"}]
    BY <1>9, <2>2 DEF CleanupRetires
  <2>6. pc' \in [Actors -> {"idle", "lookup", "locking", "marked", "moved", "retire", "scan", "visit",
                               "waiting", "end"}]
    BY <1>9, <2>2 DEF CleanupRetires
  <2>7. failed' \in [Actors -> BOOLEAN]
    BY <1>9, <2>2 DEF CleanupRetires
  <2>8. /\ todo' \subseteq seen' /\ seen' \subseteq Names /\ owed' \subseteq Names
        /\ at' \in Names \cup {Nowhere} /\ target' \in [Actors -> Gens \cup {None}]
        /\ gone' \subseteq Gens /\ closed' \in BOOLEAN /\ restarts' \in 0..MaxRestarts
    BY <1>9, <2>2 DEF CleanupRetires
  <2> QED BY <2>3, <2>4, <2>5, <2>6, <2>7, <2>8
<1>10. ASSUME NEW c \in Cleaners, NEW g \in Gens, CleanupBegins(c, g) PROVE TypeOK'
  <2>1. Cleaning(c)
    BY DEF Cleanings
  <2> QED BY <1>10, <2>1 DEF CleanupBegins, Cleaning
<1>11. ASSUME NEW n \in Names, JanitorLooksUp(n) PROVE TypeOK'
  BY <1>11 DEF JanitorLooksUp
<1>12. ASSUME NEW n \in Names, JanitorReads(n) PROVE TypeOK'
  BY <1>12 DEF JanitorReads
<1>13. ASSUME JanitorBegins PROVE TypeOK'
  BY <1>13 DEF JanitorBegins
<1>14. ASSUME JanitorLocks PROVE TypeOK'
  BY <1>14 DEF JanitorLocks
<1>15. ASSUME JanitorRemoves PROVE TypeOK'
  <2>3. /\ records' \in [Ids -> Gens \cup {None}] /\ idOf' \in [Gens -> Ids \cup {None}]
        /\ state' \in [Gens -> {"unused", "active", "pending", "quarantined", "removed"}]
        /\ open' \subseteq Gens /\ next' \in 0..MaxGen
    <3>1. at[2] \in Ids
      BY <1>15 DEF JanitorRemoves
    <3>2. CASE target[Janitor] = None
      BY <1>15, <3>2 DEF JanitorRemoves
    <3>3. CASE target[Janitor] # None
      <4>1. target[Janitor] \in Gens
        BY <3>3
      <4>2. /\ records' = [records EXCEPT ![at[2]] = None]
            /\ state' = [state EXCEPT ![target[Janitor]] = "removed"]
            /\ open' \subseteq open /\ idOf' = idOf /\ next' = next
        BY <1>15, <3>3 DEF JanitorRemoves
      <4> QED BY <3>1, <4>1, <4>2
    <3> QED BY <3>2, <3>3
  <2>4. entry' \in [Names -> Gens \cup {None, Leftover}]
    BY <1>15 DEF JanitorRemoves
  <2>5. recordsMu' \in Actors \cup {"free"} /\ recMu' \in [Gens -> Actors \cup {"free"}]
    BY <1>15 DEF JanitorRemoves
  <2>6. pc' \in [Actors -> {"idle", "lookup", "locking", "marked", "moved", "retire", "scan", "visit",
                               "waiting", "end"}]
    BY <1>15 DEF JanitorRemoves
  <2>7. failed' \in [Actors -> BOOLEAN]
    <3>1. PICK b \in BOOLEAN : failed' = [failed EXCEPT ![Janitor] = failed[Janitor] \/ b]
      BY <1>15 DEF JanitorRemoves
    <3>2. (failed[Janitor] \/ b) \in BOOLEAN
      OBVIOUS
    <3> HIDE DEF Leave
    <3> QED BY <3>1, <3>2
  <2>8. /\ todo' \subseteq seen' /\ seen' \subseteq Names /\ owed' \subseteq Names
        /\ at' \in Names \cup {Nowhere} /\ target' \in [Actors -> Gens \cup {None}]
        /\ gone' \subseteq Gens /\ closed' \in BOOLEAN /\ restarts' \in 0..MaxRestarts
    BY <1>15 DEF JanitorRemoves
  <2> QED BY <2>3, <2>4, <2>5, <2>6, <2>7, <2>8
<1>16. ASSUME JanitorFindsNothing PROVE TypeOK'
  BY <1>16 DEF JanitorFindsNothing
<1>17. ASSUME JanitorSkips PROVE TypeOK'
  BY <1>17 DEF JanitorSkips
<1>18. ASSUME JanitorEnds PROVE TypeOK'
  BY <1>18 DEF JanitorEnds
<1>19. ASSUME JanitorReturns PROVE TypeOK'
  BY <1>19 DEF JanitorReturns
<1>20. ASSUME CloseBegins PROVE TypeOK'
  BY <1>20 DEF CloseBegins
<1>21. ASSUME Close PROVE TypeOK'
  BY <1>21 DEF Close
<1>22. ASSUME Refused PROVE TypeOK'
  BY <1>22 DEF Refused, vars
<1>23. ASSUME Restart PROVE TypeOK'
  <2>3. /\ records' \in [Ids -> Gens \cup {None}] /\ idOf' \in [Gens -> Ids \cup {None}]
        /\ state' \in [Gens -> {"unused", "active", "pending", "quarantined", "removed"}]
        /\ open' \subseteq Gens /\ next' \in 0..MaxGen
    BY <1>23 DEF Restart
  <2>4. entry' \in [Names -> Gens \cup {None, Leftover}]
    BY <1>23 DEF Restart
  <2>5. recordsMu' \in Actors \cup {"free"} /\ recMu' \in [Gens -> Actors \cup {"free"}]
    BY <1>23 DEF Restart
  <2>6. pc' \in [Actors -> {"idle", "lookup", "locking", "marked", "moved", "retire", "scan", "visit",
                               "waiting", "end"}]
    BY <1>23 DEF Restart
  <2>7. failed' \in [Actors -> BOOLEAN]
    BY <1>23 DEF Restart
  <2>8. /\ todo' \subseteq seen' /\ seen' \subseteq Names /\ owed' \subseteq Names
        /\ at' \in Names \cup {Nowhere} /\ target' \in [Actors -> Gens \cup {None}]
        /\ gone' \subseteq Gens /\ closed' \in BOOLEAN /\ restarts' \in 0..MaxRestarts
    <3>1. restarts' \in 0..MaxRestarts
      BY <1>23 DEF Restart
    <3>2. target' \in [Actors -> Gens \cup {None}]
      BY <1>23 DEF Restart
    <3> QED BY <1>23, <3>1, <3>2 DEF Restart
  <2> QED BY <2>3, <2>4, <2>5, <2>6, <2>7, <2>8
<1>24. CASE UNCHANGED vars
  BY <1>24 DEF vars
<1> QED BY <1>1, <1>2, <1>3, <1>4, <1>5, <1>6, <1>7, <1>8, <1>9, <1>10, <1>11, <1>12, <1>13, <1>14,
    <1>15, <1>16, <1>17, <1>18, <1>19, <1>20, <1>21, <1>22, <1>23, <1>24 DEF Next, CleanerStep, JanitorStep

\* Generations are given out in order, and only a prepared one has handles.
LEMMA KnownStep ==
  ASSUME TypeOK, Known, Files, Cleanings, [Next]_vars
  PROVE  Known'
<1> USE RootAssumption, NameFacts, GenFacts DEF TypeOK, Janitor, Closer, Actors, Known, Registered,
    MayBegin, Go, Answer, Unlock, Leave, Admissible, recVars, lockVars, janVars
<1>1. ASSUME NEW id \in Ids, Prepare(id) PROVE Known'
  BY <1>1 DEF Prepare
<1>2. ASSUME NEW id \in Ids, PrepareFails(id) PROVE Known'
  BY <1>2 DEF PrepareFails
<1>3. ASSUME NEW c \in Cleaners, CleanupLooksUp(c) PROVE Known'
  <2>1. Cleaning(c)
    BY DEF Cleanings
  <2> QED BY <1>3, <2>1 DEF CleanupLooksUp, Cleaning
<1>4. ASSUME NEW c \in Cleaners, CleanupLocks(c) PROVE Known'
  <2>1. Cleaning(c)
    BY DEF Cleanings
  <2> QED BY <1>4, <2>1 DEF CleanupLocks, Cleaning
<1>5. ASSUME NEW c \in Cleaners, CleanupRenames(c) PROVE Known'
  <2>1. Cleaning(c)
    BY DEF Cleanings
  <2> QED BY <1>5, <2>1 DEF CleanupRenames, Cleaning
<1>6. ASSUME NEW c \in Cleaners, CleanupRenameFails(c) PROVE Known'
  <2>1. Cleaning(c)
    BY DEF Cleanings
  <2> QED BY <1>6, <2>1 DEF CleanupRenameFails, Cleaning
<1>7. ASSUME NEW c \in Cleaners, CleanupRemoves(c) PROVE Known'
  <2>1. Cleaning(c)
    BY DEF Cleanings
  <2> QED BY <1>7, <2>1 DEF CleanupRemoves, Cleaning
<1>8. ASSUME NEW c \in Cleaners, CleanupRemoveFails(c) PROVE Known'
  <2>1. Cleaning(c)
    BY DEF Cleanings
  <2> QED BY <1>8, <2>1 DEF CleanupRemoveFails, Cleaning
<1>9. ASSUME NEW c \in Cleaners, CleanupRetires(c) PROVE Known'
  <2>1. Cleaning(c)
    BY DEF Cleanings
  <2> QED BY <1>9, <2>1 DEF CleanupRetires, Cleaning
<1>10. ASSUME NEW c \in Cleaners, NEW g \in Gens, CleanupBegins(c, g) PROVE Known'
  <2>1. Cleaning(c)
    BY DEF Cleanings
  <2> QED BY <1>10, <2>1 DEF CleanupBegins, Cleaning
<1>11. ASSUME NEW n \in Names, JanitorLooksUp(n) PROVE Known'
  BY <1>11 DEF JanitorLooksUp
<1>12. ASSUME NEW n \in Names, JanitorReads(n) PROVE Known'
  BY <1>12 DEF JanitorReads
<1>13. ASSUME JanitorBegins PROVE Known'
  BY <1>13 DEF JanitorBegins
<1>14. ASSUME JanitorLocks PROVE Known'
  BY <1>14 DEF JanitorLocks
<1>15. ASSUME JanitorRemoves PROVE Known'
  BY <1>15 DEF JanitorRemoves
<1>16. ASSUME JanitorFindsNothing PROVE Known'
  BY <1>16 DEF JanitorFindsNothing
<1>17. ASSUME JanitorSkips PROVE Known'
  BY <1>17 DEF JanitorSkips
<1>18. ASSUME JanitorEnds PROVE Known'
  BY <1>18 DEF JanitorEnds
<1>19. ASSUME JanitorReturns PROVE Known'
  BY <1>19 DEF JanitorReturns
<1>20. ASSUME CloseBegins PROVE Known'
  BY <1>20 DEF CloseBegins
<1>21. ASSUME Close PROVE Known'
  <2>1. open' = {}
    <3> SUFFICES ASSUME NEW g \in open PROVE idOf[g] \in Ids /\ records[idOf[g]] = g
      BY <1>21 DEF Close
    <3>1. g \in Gens /\ state[g] \in Registered /\ Filed(g)
      BY DEF Files
    <3> QED BY <3>1 DEF Filed
  <2> QED BY <1>21, <2>1 DEF Close
<1>22. ASSUME Refused PROVE Known'
  BY <1>22 DEF Refused, vars
<1>23. ASSUME Restart PROVE Known'
  BY <1>23 DEF Restart
<1>24. CASE UNCHANGED vars
  BY <1>24 DEF vars
<1> QED BY <1>1, <1>2, <1>3, <1>4, <1>5, <1>6, <1>7, <1>8, <1>9, <1>10, <1>11, <1>12, <1>13, <1>14,
    <1>15, <1>16, <1>17, <1>18, <1>19, <1>20, <1>21, <1>22, <1>23, <1>24 DEF Next, CleanerStep, JanitorStep

\* The registry and the directory change together.
LEMMA FilesStep ==
  ASSUME TypeOK, Known, Files, Cleanings, Visiting, Holds, [Next]_vars
  PROVE  Files'
<1> USE RootAssumption, NameFacts, GenFacts DEF TypeOK, Janitor, Closer, Actors, Known, Registered,
    Visiting, Go, Answer, Unlock, Leave, Admissible, recVars, lockVars, janVars
<1> SUFFICES ASSUME NEW h \in Gens PROVE Filed(h)'
  BY DEF Files
<1>0. Filed(h)
  BY DEF Files
<1>1. ASSUME NEW id \in Ids, Prepare(id) PROVE Filed(h)'
  BY <1>0, <1>1 DEF Prepare, Filed
<1>2. ASSUME NEW id \in Ids, PrepareFails(id) PROVE Filed(h)'
  BY <1>0, <1>2 DEF PrepareFails, Filed
<1>3. ASSUME NEW c \in Cleaners, CleanupLooksUp(c) PROVE Filed(h)'
  <2>1. Cleaning(c)
    BY DEF Cleanings
  <2> QED BY <1>0, <1>3, <2>1 DEF CleanupLooksUp, Cleaning, Filed
<1>4. ASSUME NEW c \in Cleaners, CleanupLocks(c) PROVE Filed(h)'
  <2>1. Cleaning(c)
    BY DEF Cleanings
  <2> QED BY <1>0, <1>4, <2>1 DEF CleanupLocks, Cleaning, Filed
<1>5. ASSUME NEW c \in Cleaners, CleanupRenames(c) PROVE Filed(h)'
  <2>1. Cleaning(c)
    BY DEF Cleanings
  <2> DEFINE g == target[c]
             i == idOf[g]
  <2>2. g \in Gens /\ i \in Ids /\ state[g] = "pending"
    BY <1>5, <2>1 DEF CleanupRenames, Cleaning
  <2>3. entry[<<"request", i>>] = g /\ entry[<<"quarantine", i>>] = None
    BY <1>5 DEF CleanupRenames
  <2>4. /\ entry'[<<"request", i>>] = None /\ entry'[<<"quarantine", i>>] = g
        /\ \A n \in Names \ {<<"request", i>>, <<"quarantine", i>>} : entry'[n] = entry[n]
    BY <1>5, <2>2 DEF CleanupRenames
  <2>5. state' = [state EXCEPT ![g] = "quarantined"] /\ UNCHANGED <<records, idOf, gone>>
    BY <1>5 DEF CleanupRenames
  <2>6. CASE h = g
    BY <1>0, <2>2, <2>3, <2>4, <2>5, <2>6 DEF Filed
  <2>7. CASE h # g
    <3>1. \A n \in Names : entry'[n] = h <=> entry[n] = h
      <4> SUFFICES ASSUME NEW n \in Names PROVE entry'[n] = h <=> entry[n] = h
        OBVIOUS
      <4>1. h # None
        OBVIOUS
      <4>2. CASE n = <<"request", i>>
        BY <2>3, <2>4, <2>7, <4>1, <4>2
      <4>3. CASE n = <<"quarantine", i>>
        BY <2>3, <2>4, <2>7, <4>1, <4>3
      <4>4. CASE n \notin {<<"request", i>>, <<"quarantine", i>>}
        BY <2>4, <4>4
      <4> QED BY <4>2, <4>3, <4>4
    <3>2. state'[h] = state[h] /\ UNCHANGED <<records, idOf, gone>>
      BY <2>2, <2>5, <2>7
    <3>3. state[h] = "active" => idOf[h] \in Ids
      OBVIOUS
    <3> HIDE DEF TypeOK, Known, Visiting, Go, Answer, Unlock
    <3> QED BY <1>0, <3>1, <3>2, <3>3, NameFacts DEF Filed
  <2> QED BY <2>6, <2>7
<1>6. ASSUME NEW c \in Cleaners, CleanupRenameFails(c) PROVE Filed(h)'
  <2>1. Cleaning(c)
    BY DEF Cleanings
  <2> QED BY <1>0, <1>6, <2>1 DEF CleanupRenameFails, Cleaning, Filed
<1>7. ASSUME NEW c \in Cleaners, CleanupRemoves(c) PROVE Filed(h)'
  <2>1. Cleaning(c)
    BY DEF Cleanings
  <2> QED BY <1>0, <1>7, <2>1 DEF CleanupRemoves, Cleaning, Filed
<1>8. ASSUME NEW c \in Cleaners, CleanupRemoveFails(c) PROVE Filed(h)'
  <2>1. Cleaning(c)
    BY DEF Cleanings
  <2> QED BY <1>0, <1>8, <2>1 DEF CleanupRemoveFails, Cleaning, Filed
<1>9. ASSUME NEW c \in Cleaners, CleanupRetires(c) PROVE Filed(h)'
  <2>1. Cleaning(c)
    BY DEF Cleanings
  <2> QED BY <1>0, <1>9, <2>1 DEF CleanupRetires, Cleaning, Filed
<1>10. ASSUME NEW c \in Cleaners, NEW g \in Gens, CleanupBegins(c, g) PROVE Filed(h)'
  <2>1. Cleaning(c)
    BY DEF Cleanings
  <2> QED BY <1>0, <1>10, <2>1 DEF CleanupBegins, Cleaning, Filed
<1>11. ASSUME NEW n \in Names, JanitorLooksUp(n) PROVE Filed(h)'
  BY <1>0, <1>11 DEF JanitorLooksUp, Filed
<1>12. ASSUME NEW n \in Names, JanitorReads(n) PROVE Filed(h)'
  BY <1>0, <1>12 DEF JanitorReads, Filed
<1>13. ASSUME JanitorBegins PROVE Filed(h)'
  BY <1>0, <1>13 DEF JanitorBegins, Filed
<1>14. ASSUME JanitorLocks PROVE Filed(h)'
  BY <1>0, <1>14 DEF JanitorLocks, Filed
<1>15. ASSUME JanitorRemoves PROVE Filed(h)'
  BY <1>0, <1>15 DEF JanitorRemoves, Filed
<1>16. ASSUME JanitorFindsNothing PROVE Filed(h)'
  BY <1>0, <1>16 DEF JanitorFindsNothing, Filed
<1>17. ASSUME JanitorSkips PROVE Filed(h)'
  BY <1>0, <1>17 DEF JanitorSkips, Filed
<1>18. ASSUME JanitorEnds PROVE Filed(h)'
  BY <1>0, <1>18 DEF JanitorEnds, Filed
<1>19. ASSUME JanitorReturns PROVE Filed(h)'
  BY <1>0, <1>19 DEF JanitorReturns, Filed
<1>20. ASSUME CloseBegins PROVE Filed(h)'
  BY <1>0, <1>20 DEF CloseBegins, Filed
<1>21. ASSUME Close PROVE Filed(h)'
  BY <1>0, <1>21 DEF Close, Filed
<1>22. ASSUME Refused PROVE Filed(h)'
  BY <1>0, <1>22 DEF Refused, vars, Filed
<1>23. ASSUME Restart PROVE Filed(h)'
  BY <1>0, <1>23 DEF Restart, Filed
<1>24. CASE UNCHANGED vars
  BY <1>0, <1>24 DEF vars, Filed
<1> QED BY <1>1, <1>2, <1>3, <1>4, <1>5, <1>6, <1>7, <1>8, <1>9, <1>10, <1>11, <1>12, <1>13, <1>14,
    <1>15, <1>16, <1>17, <1>18, <1>19, <1>20, <1>21, <1>22, <1>23, <1>24 DEF Next, CleanerStep, JanitorStep

\* Nobody else changes the record whose mutex a cleaner holds.
LEMMA CleaningsStep ==
  ASSUME TypeOK, Known, Cleanings, Visiting, Holds, [Next]_vars
  PROVE  Cleanings'
<1> USE RootAssumption, NameFacts, GenFacts DEF TypeOK, Janitor, Closer, Actors, Known, Registered,
    Visiting, Holds, Held, Go, Answer, Unlock, Leave, Admissible, recVars, lockVars, janVars
<1> SUFFICES ASSUME NEW d \in Cleaners PROVE Cleaning(d)'
  BY DEF Cleanings
<1>0. Cleaning(d)
  BY DEF Cleanings
<1>1. ASSUME NEW id \in Ids, Prepare(id) PROVE Cleaning(d)'
  BY <1>0, <1>1 DEF Prepare, Cleaning
<1>2. ASSUME NEW id \in Ids, PrepareFails(id) PROVE Cleaning(d)'
  BY <1>0, <1>2 DEF PrepareFails, Cleaning
<1>3. ASSUME NEW c \in Cleaners, CleanupLooksUp(c) PROVE Cleaning(d)'
  <2>1. Cleaning(c)
    BY DEF Cleanings
  <2> QED BY <1>0, <1>3, <2>1 DEF CleanupLooksUp, Cleaning
<1>4. ASSUME NEW c \in Cleaners, CleanupLocks(c) PROVE Cleaning(d)'
  <2>1. Cleaning(c)
    BY DEF Cleanings
  <2> QED BY <1>0, <1>4, <2>1 DEF CleanupLocks, Cleaning
<1>5. ASSUME NEW c \in Cleaners, CleanupRenames(c) PROVE Cleaning(d)'
  <2>1. Cleaning(c)
    BY DEF Cleanings
  <2> QED BY <1>0, <1>5, <2>1 DEF CleanupRenames, Cleaning
<1>6. ASSUME NEW c \in Cleaners, CleanupRenameFails(c) PROVE Cleaning(d)'
  <2>1. Cleaning(c)
    BY DEF Cleanings
  <2> QED BY <1>0, <1>6, <2>1 DEF CleanupRenameFails, Cleaning
<1>7. ASSUME NEW c \in Cleaners, CleanupRemoves(c) PROVE Cleaning(d)'
  <2>1. Cleaning(c)
    BY DEF Cleanings
  <2> QED BY <1>0, <1>7, <2>1 DEF CleanupRemoves, Cleaning
<1>8. ASSUME NEW c \in Cleaners, CleanupRemoveFails(c) PROVE Cleaning(d)'
  <2>1. Cleaning(c)
    BY DEF Cleanings
  <2> QED BY <1>0, <1>8, <2>1 DEF CleanupRemoveFails, Cleaning
<1>9. ASSUME NEW c \in Cleaners, CleanupRetires(c) PROVE Cleaning(d)'
  <2>1. Cleaning(c)
    BY DEF Cleanings
  <2> QED BY <1>0, <1>9, <2>1 DEF CleanupRetires, Cleaning
<1>10. ASSUME NEW c \in Cleaners, NEW g \in Gens, CleanupBegins(c, g) PROVE Cleaning(d)'
  <2>1. Cleaning(c)
    BY DEF Cleanings
  <2> QED BY <1>0, <1>10, <2>1 DEF CleanupBegins, Cleaning
<1>11. ASSUME NEW n \in Names, JanitorLooksUp(n) PROVE Cleaning(d)'
  BY <1>0, <1>11 DEF JanitorLooksUp, Cleaning
<1>12. ASSUME NEW n \in Names, JanitorReads(n) PROVE Cleaning(d)'
  BY <1>0, <1>12 DEF JanitorReads, Cleaning
<1>13. ASSUME JanitorBegins PROVE Cleaning(d)'
  BY <1>0, <1>13 DEF JanitorBegins, Cleaning
<1>14. ASSUME JanitorLocks PROVE Cleaning(d)'
  BY <1>0, <1>14 DEF JanitorLocks, Cleaning
<1>15. ASSUME JanitorRemoves PROVE Cleaning(d)'
  BY <1>0, <1>15 DEF JanitorRemoves, Cleaning
<1>16. ASSUME JanitorFindsNothing PROVE Cleaning(d)'
  BY <1>0, <1>16 DEF JanitorFindsNothing, Cleaning
<1>17. ASSUME JanitorSkips PROVE Cleaning(d)'
  BY <1>0, <1>17 DEF JanitorSkips, Cleaning
<1>18. ASSUME JanitorEnds PROVE Cleaning(d)'
  BY <1>0, <1>18 DEF JanitorEnds, Cleaning
<1>19. ASSUME JanitorReturns PROVE Cleaning(d)'
  BY <1>0, <1>19 DEF JanitorReturns, Cleaning
<1>20. ASSUME CloseBegins PROVE Cleaning(d)'
  BY <1>0, <1>20 DEF CloseBegins, Cleaning
<1>21. ASSUME Close PROVE Cleaning(d)'
  BY <1>0, <1>21 DEF Close, Cleaning
<1>22. ASSUME Refused PROVE Cleaning(d)'
  BY <1>0, <1>22 DEF Refused, vars, Cleaning
<1>23. ASSUME Restart PROVE Cleaning(d)'
  BY <1>0, <1>23 DEF Restart, Cleaning
<1>24. CASE UNCHANGED vars
  BY <1>0, <1>24 DEF vars, Cleaning
<1> QED BY <1>1, <1>2, <1>3, <1>4, <1>5, <1>6, <1>7, <1>8, <1>9, <1>10, <1>11, <1>12, <1>13, <1>14,
    <1>15, <1>16, <1>17, <1>18, <1>19, <1>20, <1>21, <1>22, <1>23, <1>24 DEF Next, CleanerStep, JanitorStep

\* The registry does not change while the janitor holds recordsMu.
LEMMA VisitingStep ==
  ASSUME TypeOK, Cleanings, Visiting, Holds, [Next]_vars
  PROVE  Visiting'
<1> USE RootAssumption, NameFacts, GenFacts DEF TypeOK, Janitor, Closer, Actors, Visiting, Holds, Held,
    Go, Answer, Unlock, Leave, Admissible, recVars, lockVars, janVars
<1>1. ASSUME NEW id \in Ids, Prepare(id) PROVE Visiting'
  BY <1>1 DEF Prepare
<1>2. ASSUME NEW id \in Ids, PrepareFails(id) PROVE Visiting'
  BY <1>2 DEF PrepareFails
<1>3. ASSUME NEW c \in Cleaners, CleanupLooksUp(c) PROVE Visiting'
  <2>1. Cleaning(c)
    BY DEF Cleanings
  <2> QED BY <1>3, <2>1 DEF CleanupLooksUp, Cleaning
<1>4. ASSUME NEW c \in Cleaners, CleanupLocks(c) PROVE Visiting'
  <2>1. Cleaning(c)
    BY DEF Cleanings
  <2> QED BY <1>4, <2>1 DEF CleanupLocks, Cleaning
<1>5. ASSUME NEW c \in Cleaners, CleanupRenames(c) PROVE Visiting'
  <2>1. Cleaning(c)
    BY DEF Cleanings
  <2> QED BY <1>5, <2>1 DEF CleanupRenames, Cleaning
<1>6. ASSUME NEW c \in Cleaners, CleanupRenameFails(c) PROVE Visiting'
  <2>1. Cleaning(c)
    BY DEF Cleanings
  <2> QED BY <1>6, <2>1 DEF CleanupRenameFails, Cleaning
<1>7. ASSUME NEW c \in Cleaners, CleanupRemoves(c) PROVE Visiting'
  <2>1. Cleaning(c)
    BY DEF Cleanings
  <2> QED BY <1>7, <2>1 DEF CleanupRemoves, Cleaning
<1>8. ASSUME NEW c \in Cleaners, CleanupRemoveFails(c) PROVE Visiting'
  <2>1. Cleaning(c)
    BY DEF Cleanings
  <2> QED BY <1>8, <2>1 DEF CleanupRemoveFails, Cleaning
<1>9. ASSUME NEW c \in Cleaners, CleanupRetires(c) PROVE Visiting'
  <2>1. Cleaning(c)
    BY DEF Cleanings
  <2> QED BY <1>9, <2>1 DEF CleanupRetires, Cleaning
<1>10. ASSUME NEW c \in Cleaners, NEW g \in Gens, CleanupBegins(c, g) PROVE Visiting'
  <2>1. Cleaning(c)
    BY DEF Cleanings
  <2> QED BY <1>10, <2>1 DEF CleanupBegins, Cleaning
<1>11. ASSUME NEW n \in Names, JanitorLooksUp(n) PROVE Visiting'
  BY <1>11 DEF JanitorLooksUp
<1>12. ASSUME NEW n \in Names, JanitorReads(n) PROVE Visiting'
  BY <1>12 DEF JanitorReads
<1>13. ASSUME JanitorBegins PROVE Visiting'
  BY <1>13 DEF JanitorBegins
<1>14. ASSUME JanitorLocks PROVE Visiting'
  BY <1>14 DEF JanitorLocks
<1>15. ASSUME JanitorRemoves PROVE Visiting'
  BY <1>15 DEF JanitorRemoves
<1>16. ASSUME JanitorFindsNothing PROVE Visiting'
  BY <1>16 DEF JanitorFindsNothing
<1>17. ASSUME JanitorSkips PROVE Visiting'
  BY <1>17 DEF JanitorSkips
<1>18. ASSUME JanitorEnds PROVE Visiting'
  BY <1>18 DEF JanitorEnds
<1>19. ASSUME JanitorReturns PROVE Visiting'
  BY <1>19 DEF JanitorReturns
<1>20. ASSUME CloseBegins PROVE Visiting'
  BY <1>20 DEF CloseBegins
<1>21. ASSUME Close PROVE Visiting'
  BY <1>21 DEF Close
<1>22. ASSUME Refused PROVE Visiting'
  BY <1>22 DEF Refused, vars
<1>23. ASSUME Restart PROVE Visiting'
  BY <1>23 DEF Restart
<1>24. CASE UNCHANGED vars
  BY <1>24 DEF vars
<1> QED BY <1>1, <1>2, <1>3, <1>4, <1>5, <1>6, <1>7, <1>8, <1>9, <1>10, <1>11, <1>12, <1>13, <1>14,
    <1>15, <1>16, <1>17, <1>18, <1>19, <1>20, <1>21, <1>22, <1>23, <1>24 DEF Next, CleanerStep, JanitorStep

\* Every mutex is released by who locked it.
LEMMA HoldsStep ==
  ASSUME TypeOK, Cleanings, Visiting, Holds, [Next]_vars
  PROVE  Holds'
<1> USE RootAssumption, NameFacts, GenFacts DEF TypeOK, Janitor, Closer, Actors, Go, Answer, Unlock,
    Leave, Admissible, recVars, lockVars, janVars
<1> SUFFICES ASSUME NEW h \in Gens PROVE Held(h)'
  BY DEF Holds
<1>0. Held(h)
  BY DEF Holds
<1>1. ASSUME NEW id \in Ids, Prepare(id) PROVE Held(h)'
  BY <1>0, <1>1 DEF Prepare, Held
<1>2. ASSUME NEW id \in Ids, PrepareFails(id) PROVE Held(h)'
  BY <1>0, <1>2 DEF PrepareFails, Held
<1>3. ASSUME NEW c \in Cleaners, CleanupLooksUp(c) PROVE Held(h)'
  <2>1. Cleaning(c)
    BY DEF Cleanings
  <2> QED BY <1>0, <1>3, <2>1 DEF CleanupLooksUp, Cleaning, Held
<1>4. ASSUME NEW c \in Cleaners, CleanupLocks(c) PROVE Held(h)'
  <2>1. Cleaning(c)
    BY DEF Cleanings
  <2> QED BY <1>0, <1>4, <2>1 DEF CleanupLocks, Cleaning, Held
<1>5. ASSUME NEW c \in Cleaners, CleanupRenames(c) PROVE Held(h)'
  <2>1. Cleaning(c)
    BY DEF Cleanings
  <2> QED BY <1>0, <1>5, <2>1 DEF CleanupRenames, Cleaning, Held
<1>6. ASSUME NEW c \in Cleaners, CleanupRenameFails(c) PROVE Held(h)'
  <2>1. Cleaning(c)
    BY DEF Cleanings
  <2> QED BY <1>0, <1>6, <2>1 DEF CleanupRenameFails, Cleaning, Held
<1>7. ASSUME NEW c \in Cleaners, CleanupRemoves(c) PROVE Held(h)'
  <2>1. Cleaning(c)
    BY DEF Cleanings
  <2> QED BY <1>0, <1>7, <2>1 DEF CleanupRemoves, Cleaning, Held
<1>8. ASSUME NEW c \in Cleaners, CleanupRemoveFails(c) PROVE Held(h)'
  <2>1. Cleaning(c)
    BY DEF Cleanings
  <2> QED BY <1>0, <1>8, <2>1 DEF CleanupRemoveFails, Cleaning, Held
<1>9. ASSUME NEW c \in Cleaners, CleanupRetires(c) PROVE Held(h)'
  <2>1. Cleaning(c)
    BY DEF Cleanings
  <2> QED BY <1>0, <1>9, <2>1 DEF CleanupRetires, Cleaning, Held
<1>10. ASSUME NEW c \in Cleaners, NEW g \in Gens, CleanupBegins(c, g) PROVE Held(h)'
  <2>1. Cleaning(c)
    BY DEF Cleanings
  <2> QED BY <1>0, <1>10, <2>1 DEF CleanupBegins, Cleaning, Held
<1>11. ASSUME NEW n \in Names, JanitorLooksUp(n) PROVE Held(h)'
  BY <1>0, <1>11 DEF JanitorLooksUp, Held
<1>12. ASSUME NEW n \in Names, JanitorReads(n) PROVE Held(h)'
  BY <1>0, <1>12 DEF JanitorReads, Held
<1>13. ASSUME JanitorBegins PROVE Held(h)'
  BY <1>0, <1>13 DEF JanitorBegins, Held
<1>14. ASSUME JanitorLocks PROVE Held(h)'
  BY <1>0, <1>14 DEF JanitorLocks, Held
<1>15. ASSUME JanitorRemoves PROVE Held(h)'
  BY <1>0, <1>15 DEF JanitorRemoves, Held
<1>16. ASSUME JanitorFindsNothing PROVE Held(h)'
  BY <1>0, <1>16 DEF JanitorFindsNothing, Held
<1>17. ASSUME JanitorSkips PROVE Held(h)'
  BY <1>0, <1>17 DEF JanitorSkips, Held
<1>18. ASSUME JanitorEnds PROVE Held(h)'
  BY <1>0, <1>18 DEF JanitorEnds, Held
<1>19. ASSUME JanitorReturns PROVE Held(h)'
  BY <1>0, <1>19 DEF JanitorReturns, Held
<1>20. ASSUME CloseBegins PROVE Held(h)'
  BY <1>0, <1>20 DEF CloseBegins, Held
<1>21. ASSUME Close PROVE Held(h)'
  BY <1>0, <1>21 DEF Close, Held
<1>22. ASSUME Refused PROVE Held(h)'
  BY <1>0, <1>22 DEF Refused, vars, Held
<1>23. ASSUME Restart PROVE Held(h)'
  BY <1>0, <1>23 DEF Restart, Held
<1>24. CASE UNCHANGED vars
  BY <1>0, <1>24 DEF vars, Held
<1> QED BY <1>1, <1>2, <1>3, <1>4, <1>5, <1>6, <1>7, <1>8, <1>9, <1>10, <1>11, <1>12, <1>13, <1>14,
    <1>15, <1>16, <1>17, <1>18, <1>19, <1>20, <1>21, <1>22, <1>23, <1>24 DEF Next, CleanerStep, JanitorStep

\* A leftover goes only by the janitor's hand.
LEMMA OwingStep ==
  ASSUME TypeOK, Known, Files, Cleanings, Visiting, Owing, [Next]_vars
  PROVE  Owing'
<1> USE RootAssumption, NameFacts, GenFacts DEF TypeOK, Janitor, Closer, Actors, Known, Owing, Visiting,
    Go, Answer, Unlock, Leave, Admissible, recVars, lockVars, janVars
<1>1. ASSUME NEW id \in Ids, Prepare(id) PROVE Owing'
  <2>1. \A n \in owed : entry'[n] = Leftover
    BY <1>1 DEF Prepare
  <2>2. UNCHANGED <<pc, owed, todo, at, failed>>
    BY <1>1 DEF Prepare
  <2> QED BY <2>1, <2>2
<1>2. ASSUME NEW id \in Ids, PrepareFails(id) PROVE Owing'
  BY <1>2 DEF PrepareFails
<1>3. ASSUME NEW c \in Cleaners, CleanupLooksUp(c) PROVE Owing'
  <2>1. Cleaning(c)
    BY DEF Cleanings
  <2> QED BY <1>3, <2>1 DEF CleanupLooksUp, Cleaning
<1>4. ASSUME NEW c \in Cleaners, CleanupLocks(c) PROVE Owing'
  <2>1. Cleaning(c)
    BY DEF Cleanings
  <2> QED BY <1>4, <2>1 DEF CleanupLocks, Cleaning
<1>5. ASSUME NEW c \in Cleaners, CleanupRenames(c) PROVE Owing'
  <2>1. Cleaning(c)
    BY DEF Cleanings
  <2> DEFINE g == target[c]
             i == idOf[g]
  <2>2. g \in Gens /\ i \in Ids /\ state[g] = "pending"
    BY <1>5, <2>1 DEF CleanupRenames, Cleaning
  <2>3. entry[<<"request", i>>] = g /\ entry[<<"quarantine", i>>] = None
    BY <1>5 DEF CleanupRenames
  <2>4. /\ entry'[<<"request", i>>] = None /\ entry'[<<"quarantine", i>>] = g
        /\ \A n \in Names \ {<<"request", i>>, <<"quarantine", i>>} : entry'[n] = entry[n]
    BY <1>5, <2>2 DEF CleanupRenames
  <2>5. pc'[Janitor] = pc[Janitor] /\ failed'[Janitor] = failed[Janitor] /\ UNCHANGED <<owed, todo, at>>
    BY <1>5 DEF CleanupRenames
  <2>6. \A n \in owed : entry'[n] = entry[n]
    BY <2>2, <2>3, <2>4
  <2> QED BY <2>5, <2>6
<1>6. ASSUME NEW c \in Cleaners, CleanupRenameFails(c) PROVE Owing'
  <2>1. Cleaning(c)
    BY DEF Cleanings
  <2> QED BY <1>6, <2>1 DEF CleanupRenameFails, Cleaning
<1>7. ASSUME NEW c \in Cleaners, CleanupRemoves(c) PROVE Owing'
  <2>1. Cleaning(c)
    BY DEF Cleanings
  <2> QED BY <1>7, <2>1 DEF CleanupRemoves, Cleaning
<1>8. ASSUME NEW c \in Cleaners, CleanupRemoveFails(c) PROVE Owing'
  <2>1. Cleaning(c)
    BY DEF Cleanings
  <2> QED BY <1>8, <2>1 DEF CleanupRemoveFails, Cleaning
<1>9. ASSUME NEW c \in Cleaners, CleanupRetires(c) PROVE Owing'
  <2>1. Cleaning(c)
    BY DEF Cleanings
  <2> QED BY <1>9, <2>1 DEF CleanupRetires, Cleaning
<1>10. ASSUME NEW c \in Cleaners, NEW g \in Gens, CleanupBegins(c, g) PROVE Owing'
  <2>1. Cleaning(c)
    BY DEF Cleanings
  <2> QED BY <1>10, <2>1 DEF CleanupBegins, Cleaning
<1>11. ASSUME NEW n \in Names, JanitorLooksUp(n) PROVE Owing'
  BY <1>11 DEF JanitorLooksUp
<1>12. ASSUME NEW n \in Names, JanitorReads(n) PROVE Owing'
  BY <1>12 DEF JanitorReads
<1>13. ASSUME JanitorBegins PROVE Owing'
  BY <1>13 DEF JanitorBegins
<1>14. ASSUME JanitorLocks PROVE Owing'
  <2> DEFINE g == records[at[2]]
  <2>1. CASE g # None /\ at[1] = "request" /\ state[g] = "active"
    <3>1. g \in Gens /\ at[2] \in Ids /\ Filed(g)
      BY <1>14, <2>1 DEF JanitorLocks, Files
    <3>2. entry[at] = g
      BY <1>14, <2>1, <3>1 DEF JanitorLocks, Filed
    <3>3. at \notin owed
      BY <3>1, <3>2
    <3> QED BY <1>14, <2>1, <3>3 DEF JanitorLocks
  <2>2. CASE ~(g # None /\ at[1] = "request" /\ state[g] = "active")
    BY <1>14, <2>2 DEF JanitorLocks
  <2> QED BY <2>1, <2>2
<1>15. ASSUME JanitorRemoves PROVE Owing'
  BY <1>15 DEF JanitorRemoves
<1>16. ASSUME JanitorFindsNothing PROVE Owing'
  BY <1>16 DEF JanitorFindsNothing
<1>17. ASSUME JanitorSkips PROVE Owing'
  BY <1>17 DEF JanitorSkips
<1>18. ASSUME JanitorEnds PROVE Owing'
  BY <1>18 DEF JanitorEnds
<1>19. ASSUME JanitorReturns PROVE Owing'
  BY <1>19 DEF JanitorReturns
<1>20. ASSUME CloseBegins PROVE Owing'
  BY <1>20 DEF CloseBegins
<1>21. ASSUME Close PROVE Owing'
  BY <1>21 DEF Close
<1>22. ASSUME Refused PROVE Owing'
  BY <1>22 DEF Refused, vars
<1>23. ASSUME Restart PROVE Owing'
  BY <1>23 DEF Restart
<1>24. CASE UNCHANGED vars
  BY <1>24 DEF vars
<1> QED BY <1>1, <1>2, <1>3, <1>4, <1>5, <1>6, <1>7, <1>8, <1>9, <1>10, <1>11, <1>12, <1>13, <1>14,
    <1>15, <1>16, <1>17, <1>18, <1>19, <1>20, <1>21, <1>22, <1>23, <1>24 DEF Next, CleanerStep, JanitorStep

(* The invariant of the root, kept by every step of runtimes, cleanups, the
   janitor, Close and a restart. *)
THEOREM Inductive == Spec => []IInv
<1>1. Init => IInv
  <2> USE RootAssumption, NameFacts, GenFacts DEF Janitor, Closer, Actors
  <2> SUFFICES ASSUME Init PROVE IInv
    OBVIOUS
  <2>1. TypeOK
    <3>1. 0 \in 0..MaxGen /\ 0 \in 0..MaxRestarts
      OBVIOUS
    <3>2. entry \in [Names -> Gens \cup {None, Leftover}]
      BY DEF Init
    <3> QED BY <3>1, <3>2 DEF Init, TypeOK, Nowhere
  <2>2. Known /\ Files
    BY DEF Init, Known, Files, Filed, Registered
  <2>3. Cleanings /\ Visiting /\ Holds /\ Owing
    BY DEF Init, Cleanings, Cleaning, Visiting, Holds, Held, Owing
  <2> QED BY <2>1, <2>2, <2>3 DEF IInv
<1>2. IInv /\ [Next]_vars => IInv'
  BY TypeStep, KnownStep, FilesStep, CleaningsStep, VisitingStep, HoldsStep, OwingStep DEF IInv
<1> QED BY <1>1, <1>2, PTL DEF Spec

\* No janitor and no cleanup of an older runtime takes a live runtime's directory.
THEOREM TheLiveAreKept == Spec => []LiveKept
<1>1. IInv => LiveKept
  <2> SUFFICES ASSUME IInv, NEW id \in Ids, records[id] # None, state[records[id]] = "active"
               PROVE  entry[<<"request", id>>] = records[id]
    BY DEF LiveKept
  <2>1. records[id] \in Gens
    BY DEF IInv, TypeOK
  <2>2. Filed(records[id])
    BY <2>1 DEF IInv, Files
  <2>3. idOf[records[id]] = id
    BY <2>2 DEF Filed
  <2> QED BY <2>2, <2>3 DEF Filed
<1> QED BY <1>1, Inductive, PTL

\* A cleanup that answered nil left nothing behind.
THEOREM NilMeansGone == Spec => []CleanedIsGone
<1>1. IInv => CleanedIsGone
  <2> SUFFICES ASSUME IInv, NEW g \in gone, NEW n \in Names, entry[n] = g PROVE FALSE
    BY DEF CleanedIsGone
  <2>1. g \in Gens /\ Filed(g)
    BY DEF IInv, TypeOK, Files
  <2> QED BY <2>1, NameFacts DEF Filed, Registered
<1> QED BY <1>1, Inductive, PTL

\* No handle is open that a cleanup, a janitor or Close would not find.
THEOREM NoHandleIsLost == Spec => []HandlesFound
<1>1. IInv => HandlesFound
  BY DEF IInv, Known, Files, Filed, HandlesFound
<1> QED BY <1>1, Inductive, PTL

\* A janitor without an error leaves none of the leftovers it found.
THEOREM JanitorIsThorough == Spec => []LeftoversReclaimed
<1>1. IInv => LeftoversReclaimed
  BY DEF IInv, Owing, LeftoversReclaimed
<1> QED BY <1>1, Inductive, PTL

\* recordsMu is never awaited by who holds a record's mutex.
THEOREM LocksAreOrdered == Spec => []NoLockCycle
<1>1. IInv => NoLockCycle
  BY DEF IInv, Holds, Held, NoLockCycle
<1> QED BY <1>1, Inductive, PTL
=============================================================================
