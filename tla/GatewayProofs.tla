---------------------------- MODULE GatewayProofs ----------------------------
(* For any requests, providers and width: Shutdown drains the gateway, a failed   *)
(* cleanup degrades its provider, and a stop is blamed on the one who caused it.  *)
EXTENDS Gateway, Adapters, FiniteSetTheorems, SequenceTheorems, TLAPS

Before == {"idle", "entered", "do", "queued", "recheck", "prepare", "build", "execute", "discard"}

\* What a request holds depends on how far it is.
OnItsWay(r) ==
  /\ lease[r] = "held" => at[r] \in {"build", "execute", "discard"}
  /\ at[r] \in Before => executed[r] = "none"
  /\ at[r] \in {"idle", "entered", "do", "queued"} => workErr[r] = "none"
  /\ at[r] = "classify" => executed[r] # "none"
  /\ r \in invariant => at[r] \in {"discard", "worked", "after", "answered"}
  /\ answer[r] # "none" => at[r] = "answered"
  /\ at[r] \in {"discard", "worked"} => workErr[r] # "none"
  /\ at[r] = "after" => doErr[r] # "none"
Paths == \A r \in Requests : OnItsWay(r)

\* What is noted of a stop has a cause that lasts.
Blamed(r) ==
  /\ executed[r] = "canceled" => r \in gone \/ closing
  /\ r \in invariant => executed[r] # "canceled"
  /\ doErr[r] = "canceled" => r \in gone
  /\ doErr[r] = "shuttingDown" => closing
  /\ cause[r] = "canceled" => r \in gone
  /\ cause[r] = "shutting_down" => closing
  /\ at[r] = "discard" /\ workErr[r] = "response" => r \in invariant
  /\ at[r] \in {"worked", "after"} /\ workErr[r] = "response" => cause[r] # "none" \/ r \in invariant
  /\ at[r] = "after" /\ doErr[r] \in {"response", "abnormal"} => workErr[r] = doErr[r]
Blames == \A r \in Requests : Blamed(r)

\* Only Shutdown closes a scheduler, and it stores closing first.
ClosingFirst ==
  /\ sd # "idle" => closing
  /\ closed # {} => closing

\* With a width of one, requests of a provider run one at a time, and the one
\* about to prepare has seen its provider ready.
Alone ==
  Width = 1 =>
    /\ \A r, q \in Requests :
         at[r] \in Working /\ at[q] \in Working /\ Serves[r] = Serves[q] => r = q
    /\ \A r \in Requests : at[r] = "prepare" => Serves[r] \in ready

\* One step takes a lease only on a provider that is ready.
LeasesReady ==
  \A r \in Requests :
    lease[r] = "none" /\ lease'[r] = "held" => Serves[r] \in ready \/ Width > 1

IInv ==
  /\ TypeOK /\ Paths /\ Blames /\ ClosingFirst /\ Alone
  /\ DrainedAfterShutdown /\ CleanupFailureDegrades /\ StopsAreHonest

-----------------------------------------------------------------------------
\* Every step keeps the types.
LEMMA TypeStep ==
  ASSUME TypeOK, Paths, [Next]_vars
  PROVE  TypeOK'
<1> USE GatewayAssumption DEF TypeOK, Causes, Answers, Working, attempt, Go, Moves, Answered, DoReturns,
    Ends, Degrade, FailsCleanup
<1>1. ASSUME NEW r \in Requests, RefusedClosing(r) PROVE TypeOK'
  BY <1>1 DEF RefusedClosing
<1>2. ASSUME NEW r \in Requests, Rejected(r) PROVE TypeOK'
  BY <1>2 DEF Rejected
<1>3. ASSUME NEW r \in Requests, Enters(r) PROVE TypeOK'
  BY <1>3 DEF Enters
<1>4. ASSUME NEW r \in Requests, FindsNotReady(r) PROVE TypeOK'
  BY <1>4 DEF FindsNotReady
<1>5. ASSUME NEW r \in Requests, FindsReady(r) PROVE TypeOK'
  BY <1>5 DEF FindsReady
<1>6. ASSUME NEW r \in Requests, TurnedAway(r) PROVE TypeOK'
  BY <1>6 DEF TurnedAway
<1>7. ASSUME NEW r \in Requests, Accepted(r) PROVE TypeOK'
  BY <1>7 DEF Accepted
<1>8. ASSUME NEW r \in Requests, Activated(r) PROVE TypeOK'
  BY <1>8 DEF Activated
<1>9. ASSUME NEW r \in Requests, Finishes(r) PROVE TypeOK'
  BY <1>9 DEF Finishes
<1>10. ASSUME NEW r \in Requests, HealthHasChanged(r) PROVE TypeOK'
  BY <1>10 DEF HealthHasChanged
<1>11. ASSUME NEW r \in Requests, HealthHolds(r) PROVE TypeOK'
  BY <1>11 DEF HealthHolds
<1>12. ASSUME NEW r \in Requests, NoID(r) PROVE TypeOK'
  BY <1>12 DEF NoID
<1>13. ASSUME NEW r \in Requests, PrepareFails(r) PROVE TypeOK'
  BY <1>13 DEF PrepareFails
<1>14. ASSUME NEW r \in Requests, Prepares(r) PROVE TypeOK'
  BY <1>14 DEF Prepares
<1>15. ASSUME NEW r \in Requests, Builds(r) PROVE TypeOK'
  BY <1>15 DEF Builds
<1>16. ASSUME NEW r \in Requests, BuildPanics(r) PROVE TypeOK'
  BY <1>16 DEF BuildPanics
<1>17. ASSUME NEW r \in Requests, BuildFails(r) PROVE TypeOK'
  BY <1>17 DEF BuildFails
<1>18. ASSUME NEW r \in Requests, Discards(r) PROVE TypeOK'
  BY <1>18 DEF Discards
<1>19. ASSUME NEW r \in Requests, DiscardFails(r) PROVE TypeOK'
  BY <1>19 DEF DiscardFails
<1>20. ASSUME NEW r \in Requests, Executes(r) PROVE TypeOK'
  BY <1>20 DEF Executes
<1>21. ASSUME NEW r \in Requests, Classifies(r) PROVE TypeOK'
  <2>1. CASE Unclassifiable(r)
    BY <1>21, <2>1 DEF Classifies
  <2>2. CASE ~Unclassifiable(r)
    <3>1. executed[r] \notin {"ok", "nonzero", "killed", "none"}
      BY <1>21, <2>2 DEF Classifies, Unclassifiable, Paths, OnItsWay
    <3>2. CauseOf(r) \in Causes
      BY <3>1 DEF CauseOf
    <3> QED BY <1>21, <2>2, <3>2 DEF Classifies
  <2> QED BY <2>1, <2>2
<1>22. ASSUME NEW r \in Requests, Parses(r) PROVE TypeOK'
  BY <1>22 DEF Parses
<1>23. ASSUME NEW r \in Requests, Responds(r) PROVE TypeOK'
  <2>1. AnswerOf(r) \in Answers
    BY DEF AnswerOf
  <2> QED BY <1>23, <2>1 DEF Responds
<1>24. ASSUME NEW r \in Requests, CallerLeaves(r) PROVE TypeOK'
  BY <1>24 DEF CallerLeaves
<1>25. ASSUME NEW p \in Providers, SchedulerCloses(p) PROVE TypeOK'
  BY <1>25 DEF SchedulerCloses
<1>26. ASSUME ShutdownBegins PROVE TypeOK'
  BY <1>26 DEF ShutdownBegins
<1>27. ASSUME ShutdownReturns PROVE TypeOK'
  BY <1>27 DEF ShutdownReturns
<1>28. ASSUME ShutdownExpires PROVE TypeOK'
  BY <1>28 DEF ShutdownExpires
<1>29. CASE UNCHANGED vars
  BY <1>29 DEF vars, attempt
<1> QED BY <1>1, <1>2, <1>3, <1>4, <1>5, <1>6, <1>7, <1>8, <1>9, <1>10, <1>11, <1>12, <1>13, <1>14,
    <1>15, <1>16, <1>17, <1>18, <1>19, <1>20, <1>21, <1>22, <1>23, <1>24, <1>25, <1>26, <1>27, <1>28,
        <1>29 DEF Next, Step, ShutdownStep

\* A request gives up and takes on what its next place calls for.
LEMMA PathsStep ==
  ASSUME TypeOK, Paths, [Next]_vars
  PROVE  Paths'
<1> USE GatewayAssumption DEF TypeOK, Before, Working, attempt, Go, Moves, Answered, DoReturns, Ends,
    Degrade, FailsCleanup
<1> SUFFICES ASSUME NEW q \in Requests PROVE OnItsWay(q)'
  BY DEF Paths
<1>0. OnItsWay(q)
  BY DEF Paths
<1>1. ASSUME NEW r \in Requests, RefusedClosing(r) PROVE OnItsWay(q)'
  BY <1>0, <1>1 DEF RefusedClosing, OnItsWay
<1>2. ASSUME NEW r \in Requests, Rejected(r) PROVE OnItsWay(q)'
  BY <1>0, <1>2 DEF Rejected, OnItsWay
<1>3. ASSUME NEW r \in Requests, Enters(r) PROVE OnItsWay(q)'
  BY <1>0, <1>3 DEF Enters, OnItsWay
<1>4. ASSUME NEW r \in Requests, FindsNotReady(r) PROVE OnItsWay(q)'
  BY <1>0, <1>4 DEF FindsNotReady, OnItsWay
<1>5. ASSUME NEW r \in Requests, FindsReady(r) PROVE OnItsWay(q)'
  BY <1>0, <1>5 DEF FindsReady, OnItsWay
<1>6. ASSUME NEW r \in Requests, TurnedAway(r) PROVE OnItsWay(q)'
  BY <1>0, <1>6 DEF TurnedAway, OnItsWay
<1>7. ASSUME NEW r \in Requests, Accepted(r) PROVE OnItsWay(q)'
  BY <1>0, <1>7 DEF Accepted, OnItsWay
<1>8. ASSUME NEW r \in Requests, Activated(r) PROVE OnItsWay(q)'
  BY <1>0, <1>8 DEF Activated, OnItsWay
<1>9. ASSUME NEW r \in Requests, Finishes(r) PROVE OnItsWay(q)'
  BY <1>0, <1>9 DEF Finishes, OnItsWay
<1>10. ASSUME NEW r \in Requests, HealthHasChanged(r) PROVE OnItsWay(q)'
  BY <1>0, <1>10 DEF HealthHasChanged, OnItsWay
<1>11. ASSUME NEW r \in Requests, HealthHolds(r) PROVE OnItsWay(q)'
  BY <1>0, <1>11 DEF HealthHolds, OnItsWay
<1>12. ASSUME NEW r \in Requests, NoID(r) PROVE OnItsWay(q)'
  BY <1>0, <1>12 DEF NoID, OnItsWay
<1>13. ASSUME NEW r \in Requests, PrepareFails(r) PROVE OnItsWay(q)'
  BY <1>0, <1>13 DEF PrepareFails, OnItsWay
<1>14. ASSUME NEW r \in Requests, Prepares(r) PROVE OnItsWay(q)'
  BY <1>0, <1>14 DEF Prepares, OnItsWay
<1>15. ASSUME NEW r \in Requests, Builds(r) PROVE OnItsWay(q)'
  BY <1>0, <1>15 DEF Builds, OnItsWay
<1>16. ASSUME NEW r \in Requests, BuildPanics(r) PROVE OnItsWay(q)'
  BY <1>0, <1>16 DEF BuildPanics, OnItsWay
<1>17. ASSUME NEW r \in Requests, BuildFails(r) PROVE OnItsWay(q)'
  BY <1>0, <1>17 DEF BuildFails, OnItsWay
<1>18. ASSUME NEW r \in Requests, Discards(r) PROVE OnItsWay(q)'
  BY <1>0, <1>18 DEF Discards, OnItsWay
<1>19. ASSUME NEW r \in Requests, DiscardFails(r) PROVE OnItsWay(q)'
  BY <1>0, <1>19 DEF DiscardFails, OnItsWay
<1>20. ASSUME NEW r \in Requests, Executes(r) PROVE OnItsWay(q)'
  BY <1>0, <1>20 DEF Executes, OnItsWay
<1>21. ASSUME NEW r \in Requests, Classifies(r) PROVE OnItsWay(q)'
  BY <1>0, <1>21 DEF Classifies, OnItsWay
<1>22. ASSUME NEW r \in Requests, Parses(r) PROVE OnItsWay(q)'
  BY <1>0, <1>22 DEF Parses, OnItsWay
<1>23. ASSUME NEW r \in Requests, Responds(r) PROVE OnItsWay(q)'
  BY <1>0, <1>23 DEF Responds, OnItsWay
<1>24. ASSUME NEW r \in Requests, CallerLeaves(r) PROVE OnItsWay(q)'
  BY <1>0, <1>24 DEF CallerLeaves, OnItsWay
<1>25. ASSUME NEW p \in Providers, SchedulerCloses(p) PROVE OnItsWay(q)'
  BY <1>0, <1>25 DEF SchedulerCloses, OnItsWay
<1>26. ASSUME ShutdownBegins PROVE OnItsWay(q)'
  BY <1>0, <1>26 DEF ShutdownBegins, OnItsWay
<1>27. ASSUME ShutdownReturns PROVE OnItsWay(q)'
  BY <1>0, <1>27 DEF ShutdownReturns, OnItsWay
<1>28. ASSUME ShutdownExpires PROVE OnItsWay(q)'
  BY <1>0, <1>28 DEF ShutdownExpires, OnItsWay
<1>29. CASE UNCHANGED vars
  BY <1>0, <1>29 DEF vars, attempt, OnItsWay
<1> QED BY <1>1, <1>2, <1>3, <1>4, <1>5, <1>6, <1>7, <1>8, <1>9, <1>10, <1>11, <1>12, <1>13, <1>14,
    <1>15, <1>16, <1>17, <1>18, <1>19, <1>20, <1>21, <1>22, <1>23, <1>24, <1>25, <1>26, <1>27, <1>28,
        <1>29 DEF Next, Step, ShutdownStep

\* Contexts stay done and closing stays stored.
LEMMA BlamesStep ==
  ASSUME TypeOK, Paths, Blames, ClosingFirst, [Next]_vars
  PROVE  Blames'
<1> USE GatewayAssumption DEF TypeOK, Before, Working, ClosingFirst, attempt, Go, Moves, Answered,
    DoReturns, Ends, Degrade, FailsCleanup
<1> SUFFICES ASSUME NEW q \in Requests PROVE Blamed(q)'
  BY DEF Blames
<1>0. Blamed(q)
  BY DEF Blames
<1>1. ASSUME NEW r \in Requests, RefusedClosing(r) PROVE Blamed(q)'
  BY <1>0, <1>1 DEF RefusedClosing, Blamed, Paths, OnItsWay
<1>2. ASSUME NEW r \in Requests, Rejected(r) PROVE Blamed(q)'
  BY <1>0, <1>2 DEF Rejected, Blamed, Paths, OnItsWay
<1>3. ASSUME NEW r \in Requests, Enters(r) PROVE Blamed(q)'
  BY <1>0, <1>3 DEF Enters, Blamed, Paths, OnItsWay
<1>4. ASSUME NEW r \in Requests, FindsNotReady(r) PROVE Blamed(q)'
  BY <1>0, <1>4 DEF FindsNotReady, Blamed, Paths, OnItsWay
<1>5. ASSUME NEW r \in Requests, FindsReady(r) PROVE Blamed(q)'
  BY <1>0, <1>5 DEF FindsReady, Blamed, Paths, OnItsWay
<1>6. ASSUME NEW r \in Requests, TurnedAway(r) PROVE Blamed(q)'
  <2> PICK err \in {"shuttingDown", "canceled", "queueFull", "queueTimeout"} :
            /\ err = "shuttingDown" <=> Serves[r] \in closed
            /\ err = "canceled" <=> Serves[r] \notin closed /\ r \in gone
            /\ DoReturns(r, err)
    BY <1>6 DEF TurnedAway
  <2>1. /\ err = "shuttingDown" => closing
        /\ err = "canceled" => r \in gone
    OBVIOUS
  <2>2. CASE q = r
    <3>1. /\ at[r] \in {"do", "queued"} /\ at'[r] = "after" /\ doErr'[r] = err
          /\ UNCHANGED <<gone, closing, executed, cause, invariant, workErr>>
      BY <1>6 DEF TurnedAway
    <3>2. executed[r] = "none" /\ workErr[r] = "none" /\ r \notin invariant
      BY <3>1 DEF Paths, OnItsWay
    <3>3. err \notin {"response", "abnormal"}
      OBVIOUS
    <3>4. Blamed(r)
      BY <1>0, <2>2
    <3>5. Blamed(r)'
      <4> HIDE DEF TypeOK, DoReturns, ClosingFirst
      <4> QED BY <2>1, <3>1, <3>2, <3>3, <3>4 DEF Blamed
    <3> QED BY <2>2, <3>5
  <2>3. CASE q # r
    BY <1>0, <2>3 DEF Blamed
  <2> QED BY <2>2, <2>3
<1>7. ASSUME NEW r \in Requests, Accepted(r) PROVE Blamed(q)'
  BY <1>0, <1>7 DEF Accepted, Blamed, Paths, OnItsWay
<1>8. ASSUME NEW r \in Requests, Activated(r) PROVE Blamed(q)'
  BY <1>0, <1>8 DEF Activated, Blamed, Paths, OnItsWay
<1>9. ASSUME NEW r \in Requests, Finishes(r) PROVE Blamed(q)'
  BY <1>0, <1>9 DEF Finishes, Blamed, Paths, OnItsWay
<1>10. ASSUME NEW r \in Requests, HealthHasChanged(r) PROVE Blamed(q)'
  BY <1>0, <1>10 DEF HealthHasChanged, Blamed, Paths, OnItsWay
<1>11. ASSUME NEW r \in Requests, HealthHolds(r) PROVE Blamed(q)'
  BY <1>0, <1>11 DEF HealthHolds, Blamed, Paths, OnItsWay
<1>12. ASSUME NEW r \in Requests, NoID(r) PROVE Blamed(q)'
  BY <1>0, <1>12 DEF NoID, Blamed, Paths, OnItsWay
<1>13. ASSUME NEW r \in Requests, PrepareFails(r) PROVE Blamed(q)'
  BY <1>0, <1>13 DEF PrepareFails, Blamed, Paths, OnItsWay
<1>14. ASSUME NEW r \in Requests, Prepares(r) PROVE Blamed(q)'
  BY <1>0, <1>14 DEF Prepares, Blamed, Paths, OnItsWay
<1>15. ASSUME NEW r \in Requests, Builds(r) PROVE Blamed(q)'
  BY <1>0, <1>15 DEF Builds, Blamed, Paths, OnItsWay
<1>16. ASSUME NEW r \in Requests, BuildPanics(r) PROVE Blamed(q)'
  BY <1>0, <1>16 DEF BuildPanics, Blamed, Paths, OnItsWay
<1>17. ASSUME NEW r \in Requests, BuildFails(r) PROVE Blamed(q)'
  BY <1>0, <1>17 DEF BuildFails, Blamed, Paths, OnItsWay
<1>18. ASSUME NEW r \in Requests, Discards(r) PROVE Blamed(q)'
  BY <1>0, <1>18 DEF Discards, Blamed, Paths, OnItsWay
<1>19. ASSUME NEW r \in Requests, DiscardFails(r) PROVE Blamed(q)'
  BY <1>0, <1>19 DEF DiscardFails, Blamed, Paths, OnItsWay
<1>20. ASSUME NEW r \in Requests, Executes(r) PROVE Blamed(q)'
  BY <1>0, <1>20 DEF Executes, Blamed, Paths, OnItsWay
<1>21. ASSUME NEW r \in Requests, Classifies(r) PROVE Blamed(q)'
  <2>1. CASE Unclassifiable(r)
    BY <1>0, <1>21, <2>1 DEF Classifies, Unclassifiable, Blamed
  <2>2. CASE ~Unclassifiable(r)
    <3>1. executed[r] \notin {"ok", "nonzero", "killed", "none"}
      BY <1>21, <2>2 DEF Classifies, Unclassifiable, Paths, OnItsWay
    <3>2. /\ CauseOf(r) # "none"
          /\ CauseOf(r) = "canceled" => r \in gone
          /\ CauseOf(r) = "shutting_down" => closing
      BY <2>2, <3>1 DEF CauseOf, Unclassifiable
    <3> QED BY <1>0, <1>21, <2>2, <3>2 DEF Classifies, Blamed
  <2> QED BY <2>1, <2>2
<1>22. ASSUME NEW r \in Requests, Parses(r) PROVE Blamed(q)'
  BY <1>0, <1>22 DEF Parses, Blamed, Paths, OnItsWay
<1>23. ASSUME NEW r \in Requests, Responds(r) PROVE Blamed(q)'
  BY <1>0, <1>23 DEF Responds, Blamed, Paths, OnItsWay
<1>24. ASSUME NEW r \in Requests, CallerLeaves(r) PROVE Blamed(q)'
  BY <1>0, <1>24 DEF CallerLeaves, Blamed, Paths, OnItsWay
<1>25. ASSUME NEW p \in Providers, SchedulerCloses(p) PROVE Blamed(q)'
  BY <1>0, <1>25 DEF SchedulerCloses, Blamed, Paths, OnItsWay
<1>26. ASSUME ShutdownBegins PROVE Blamed(q)'
  BY <1>0, <1>26 DEF ShutdownBegins, Blamed, Paths, OnItsWay
<1>27. ASSUME ShutdownReturns PROVE Blamed(q)'
  BY <1>0, <1>27 DEF ShutdownReturns, Blamed, Paths, OnItsWay
<1>28. ASSUME ShutdownExpires PROVE Blamed(q)'
  BY <1>0, <1>28 DEF ShutdownExpires, Blamed, Paths, OnItsWay
<1>29. CASE UNCHANGED vars
  BY <1>0, <1>29 DEF vars, attempt, Blamed, Paths, OnItsWay
<1> QED BY <1>1, <1>2, <1>3, <1>4, <1>5, <1>6, <1>7, <1>8, <1>9, <1>10, <1>11, <1>12, <1>13, <1>14,
    <1>15, <1>16, <1>17, <1>18, <1>19, <1>20, <1>21, <1>22, <1>23, <1>24, <1>25, <1>26, <1>27, <1>28,
        <1>29 DEF Next, Step, ShutdownStep

\* closing is stored before a scheduler is told.
LEMMA ClosingStep ==
  ASSUME TypeOK, ClosingFirst, [Next]_vars
  PROVE  ClosingFirst'
<1> USE GatewayAssumption DEF TypeOK, ClosingFirst, attempt, Go, Moves, Answered, DoReturns, Ends,
    Degrade, FailsCleanup
<1>1. ASSUME NEW r \in Requests, RefusedClosing(r) PROVE ClosingFirst'
  BY <1>1 DEF RefusedClosing
<1>2. ASSUME NEW r \in Requests, Rejected(r) PROVE ClosingFirst'
  BY <1>2 DEF Rejected
<1>3. ASSUME NEW r \in Requests, Enters(r) PROVE ClosingFirst'
  BY <1>3 DEF Enters
<1>4. ASSUME NEW r \in Requests, FindsNotReady(r) PROVE ClosingFirst'
  BY <1>4 DEF FindsNotReady
<1>5. ASSUME NEW r \in Requests, FindsReady(r) PROVE ClosingFirst'
  BY <1>5 DEF FindsReady
<1>6. ASSUME NEW r \in Requests, TurnedAway(r) PROVE ClosingFirst'
  BY <1>6 DEF TurnedAway
<1>7. ASSUME NEW r \in Requests, Accepted(r) PROVE ClosingFirst'
  BY <1>7 DEF Accepted
<1>8. ASSUME NEW r \in Requests, Activated(r) PROVE ClosingFirst'
  BY <1>8 DEF Activated
<1>9. ASSUME NEW r \in Requests, Finishes(r) PROVE ClosingFirst'
  BY <1>9 DEF Finishes
<1>10. ASSUME NEW r \in Requests, HealthHasChanged(r) PROVE ClosingFirst'
  BY <1>10 DEF HealthHasChanged
<1>11. ASSUME NEW r \in Requests, HealthHolds(r) PROVE ClosingFirst'
  BY <1>11 DEF HealthHolds
<1>12. ASSUME NEW r \in Requests, NoID(r) PROVE ClosingFirst'
  BY <1>12 DEF NoID
<1>13. ASSUME NEW r \in Requests, PrepareFails(r) PROVE ClosingFirst'
  BY <1>13 DEF PrepareFails
<1>14. ASSUME NEW r \in Requests, Prepares(r) PROVE ClosingFirst'
  BY <1>14 DEF Prepares
<1>15. ASSUME NEW r \in Requests, Builds(r) PROVE ClosingFirst'
  BY <1>15 DEF Builds
<1>16. ASSUME NEW r \in Requests, BuildPanics(r) PROVE ClosingFirst'
  BY <1>16 DEF BuildPanics
<1>17. ASSUME NEW r \in Requests, BuildFails(r) PROVE ClosingFirst'
  BY <1>17 DEF BuildFails
<1>18. ASSUME NEW r \in Requests, Discards(r) PROVE ClosingFirst'
  BY <1>18 DEF Discards
<1>19. ASSUME NEW r \in Requests, DiscardFails(r) PROVE ClosingFirst'
  BY <1>19 DEF DiscardFails
<1>20. ASSUME NEW r \in Requests, Executes(r) PROVE ClosingFirst'
  BY <1>20 DEF Executes
<1>21. ASSUME NEW r \in Requests, Classifies(r) PROVE ClosingFirst'
  BY <1>21 DEF Classifies
<1>22. ASSUME NEW r \in Requests, Parses(r) PROVE ClosingFirst'
  BY <1>22 DEF Parses
<1>23. ASSUME NEW r \in Requests, Responds(r) PROVE ClosingFirst'
  BY <1>23 DEF Responds
<1>24. ASSUME NEW r \in Requests, CallerLeaves(r) PROVE ClosingFirst'
  BY <1>24 DEF CallerLeaves
<1>25. ASSUME NEW p \in Providers, SchedulerCloses(p) PROVE ClosingFirst'
  BY <1>25 DEF SchedulerCloses
<1>26. ASSUME ShutdownBegins PROVE ClosingFirst'
  BY <1>26 DEF ShutdownBegins
<1>27. ASSUME ShutdownReturns PROVE ClosingFirst'
  BY <1>27 DEF ShutdownReturns
<1>28. ASSUME ShutdownExpires PROVE ClosingFirst'
  BY <1>28 DEF ShutdownExpires
<1>29. CASE UNCHANGED vars
  BY <1>29 DEF vars, attempt
<1> QED BY <1>1, <1>2, <1>3, <1>4, <1>5, <1>6, <1>7, <1>8, <1>9, <1>10, <1>11, <1>12, <1>13, <1>14,
    <1>15, <1>16, <1>17, <1>18, <1>19, <1>20, <1>21, <1>22, <1>23, <1>24, <1>25, <1>26, <1>27, <1>28,
        <1>29 DEF Next, Step, ShutdownStep

\* A second request of the provider is not activated beside the first.
LEMMA AloneStep ==
  ASSUME TypeOK, Alone, [Next]_vars
  PROVE  Alone'
<1> USE GatewayAssumption DEF TypeOK, Alone, Working, attempt, Go, Moves, Answered, DoReturns, Ends,
    Degrade, FailsCleanup
<1>1. ASSUME NEW r \in Requests, RefusedClosing(r) PROVE Alone'
  BY <1>1 DEF RefusedClosing
<1>2. ASSUME NEW r \in Requests, Rejected(r) PROVE Alone'
  BY <1>2 DEF Rejected
<1>3. ASSUME NEW r \in Requests, Enters(r) PROVE Alone'
  BY <1>3 DEF Enters
<1>4. ASSUME NEW r \in Requests, FindsNotReady(r) PROVE Alone'
  BY <1>4 DEF FindsNotReady
<1>5. ASSUME NEW r \in Requests, FindsReady(r) PROVE Alone'
  BY <1>5 DEF FindsReady
<1>6. ASSUME NEW r \in Requests, TurnedAway(r) PROVE Alone'
  BY <1>6 DEF TurnedAway
<1>7. ASSUME NEW r \in Requests, Accepted(r) PROVE Alone'
  BY <1>7 DEF Accepted
<1>8. ASSUME NEW r \in Requests, Activated(r) PROVE Alone'
  <2> SUFFICES ASSUME Width = 1 PROVE Alone'
    BY <1>8 DEF Activated
  <2>1. IsFiniteSet(Active(Serves[r]))
    BY GatewayAssumption, FS_Subset DEF Active
  <2>2. Cardinality(Active(Serves[r])) = 0
    BY <1>8, <2>1, FS_CardinalityType DEF Activated
  <2>3. Active(Serves[r]) = {}
    BY <2>1, <2>2, FS_EmptySet
  <2> QED BY <1>8, <2>3 DEF Activated, Active
<1>9. ASSUME NEW r \in Requests, Finishes(r) PROVE Alone'
  BY <1>9 DEF Finishes
<1>10. ASSUME NEW r \in Requests, HealthHasChanged(r) PROVE Alone'
  BY <1>10 DEF HealthHasChanged
<1>11. ASSUME NEW r \in Requests, HealthHolds(r) PROVE Alone'
  BY <1>11 DEF HealthHolds
<1>12. ASSUME NEW r \in Requests, NoID(r) PROVE Alone'
  BY <1>12 DEF NoID
<1>13. ASSUME NEW r \in Requests, PrepareFails(r) PROVE Alone'
  BY <1>13 DEF PrepareFails
<1>14. ASSUME NEW r \in Requests, Prepares(r) PROVE Alone'
  BY <1>14 DEF Prepares
<1>15. ASSUME NEW r \in Requests, Builds(r) PROVE Alone'
  BY <1>15 DEF Builds
<1>16. ASSUME NEW r \in Requests, BuildPanics(r) PROVE Alone'
  BY <1>16 DEF BuildPanics
<1>17. ASSUME NEW r \in Requests, BuildFails(r) PROVE Alone'
  BY <1>17 DEF BuildFails
<1>18. ASSUME NEW r \in Requests, Discards(r) PROVE Alone'
  BY <1>18 DEF Discards
<1>19. ASSUME NEW r \in Requests, DiscardFails(r) PROVE Alone'
  BY <1>19 DEF DiscardFails
<1>20. ASSUME NEW r \in Requests, Executes(r) PROVE Alone'
  BY <1>20 DEF Executes
<1>21. ASSUME NEW r \in Requests, Classifies(r) PROVE Alone'
  BY <1>21 DEF Classifies
<1>22. ASSUME NEW r \in Requests, Parses(r) PROVE Alone'
  BY <1>22 DEF Parses
<1>23. ASSUME NEW r \in Requests, Responds(r) PROVE Alone'
  BY <1>23 DEF Responds
<1>24. ASSUME NEW r \in Requests, CallerLeaves(r) PROVE Alone'
  BY <1>24 DEF CallerLeaves
<1>25. ASSUME NEW p \in Providers, SchedulerCloses(p) PROVE Alone'
  BY <1>25 DEF SchedulerCloses
<1>26. ASSUME ShutdownBegins PROVE Alone'
  BY <1>26 DEF ShutdownBegins
<1>27. ASSUME ShutdownReturns PROVE Alone'
  BY <1>27 DEF ShutdownReturns
<1>28. ASSUME ShutdownExpires PROVE Alone'
  BY <1>28 DEF ShutdownExpires
<1>29. CASE UNCHANGED vars
  BY <1>29 DEF vars, attempt
<1> QED BY <1>1, <1>2, <1>3, <1>4, <1>5, <1>6, <1>7, <1>8, <1>9, <1>10, <1>11, <1>12, <1>13, <1>14,
    <1>15, <1>16, <1>17, <1>18, <1>19, <1>20, <1>21, <1>22, <1>23, <1>24, <1>25, <1>26, <1>27, <1>28,
        <1>29 DEF Next, Step, ShutdownStep

\* No scheduler is opened again, and a closed one activates nothing.
LEMMA DrainedStep ==
  ASSUME TypeOK, Paths, DrainedAfterShutdown, [Next]_vars
  PROVE  DrainedAfterShutdown'
<1> USE GatewayAssumption DEF TypeOK, Paths, OnItsWay, DrainedAfterShutdown, Working, attempt, Go, Moves,
    Answered, DoReturns, Ends, Degrade, FailsCleanup
<1>1. ASSUME NEW r \in Requests, RefusedClosing(r) PROVE DrainedAfterShutdown'
  BY <1>1 DEF RefusedClosing
<1>2. ASSUME NEW r \in Requests, Rejected(r) PROVE DrainedAfterShutdown'
  BY <1>2 DEF Rejected
<1>3. ASSUME NEW r \in Requests, Enters(r) PROVE DrainedAfterShutdown'
  BY <1>3 DEF Enters
<1>4. ASSUME NEW r \in Requests, FindsNotReady(r) PROVE DrainedAfterShutdown'
  BY <1>4 DEF FindsNotReady
<1>5. ASSUME NEW r \in Requests, FindsReady(r) PROVE DrainedAfterShutdown'
  BY <1>5 DEF FindsReady
<1>6. ASSUME NEW r \in Requests, TurnedAway(r) PROVE DrainedAfterShutdown'
  BY <1>6 DEF TurnedAway
<1>7. ASSUME NEW r \in Requests, Accepted(r) PROVE DrainedAfterShutdown'
  BY <1>7 DEF Accepted
<1>8. ASSUME NEW r \in Requests, Activated(r) PROVE DrainedAfterShutdown'
  BY <1>8 DEF Activated
<1>9. ASSUME NEW r \in Requests, Finishes(r) PROVE DrainedAfterShutdown'
  BY <1>9 DEF Finishes
<1>10. ASSUME NEW r \in Requests, HealthHasChanged(r) PROVE DrainedAfterShutdown'
  BY <1>10 DEF HealthHasChanged
<1>11. ASSUME NEW r \in Requests, HealthHolds(r) PROVE DrainedAfterShutdown'
  BY <1>11 DEF HealthHolds
<1>12. ASSUME NEW r \in Requests, NoID(r) PROVE DrainedAfterShutdown'
  BY <1>12 DEF NoID
<1>13. ASSUME NEW r \in Requests, PrepareFails(r) PROVE DrainedAfterShutdown'
  BY <1>13 DEF PrepareFails
<1>14. ASSUME NEW r \in Requests, Prepares(r) PROVE DrainedAfterShutdown'
  BY <1>14 DEF Prepares
<1>15. ASSUME NEW r \in Requests, Builds(r) PROVE DrainedAfterShutdown'
  BY <1>15 DEF Builds
<1>16. ASSUME NEW r \in Requests, BuildPanics(r) PROVE DrainedAfterShutdown'
  BY <1>16 DEF BuildPanics
<1>17. ASSUME NEW r \in Requests, BuildFails(r) PROVE DrainedAfterShutdown'
  BY <1>17 DEF BuildFails
<1>18. ASSUME NEW r \in Requests, Discards(r) PROVE DrainedAfterShutdown'
  BY <1>18 DEF Discards
<1>19. ASSUME NEW r \in Requests, DiscardFails(r) PROVE DrainedAfterShutdown'
  BY <1>19 DEF DiscardFails
<1>20. ASSUME NEW r \in Requests, Executes(r) PROVE DrainedAfterShutdown'
  BY <1>20 DEF Executes
<1>21. ASSUME NEW r \in Requests, Classifies(r) PROVE DrainedAfterShutdown'
  BY <1>21 DEF Classifies
<1>22. ASSUME NEW r \in Requests, Parses(r) PROVE DrainedAfterShutdown'
  BY <1>22 DEF Parses
<1>23. ASSUME NEW r \in Requests, Responds(r) PROVE DrainedAfterShutdown'
  BY <1>23 DEF Responds
<1>24. ASSUME NEW r \in Requests, CallerLeaves(r) PROVE DrainedAfterShutdown'
  BY <1>24 DEF CallerLeaves
<1>25. ASSUME NEW p \in Providers, SchedulerCloses(p) PROVE DrainedAfterShutdown'
  BY <1>25 DEF SchedulerCloses
<1>26. ASSUME ShutdownBegins PROVE DrainedAfterShutdown'
  BY <1>26 DEF ShutdownBegins
<1>27. ASSUME ShutdownReturns PROVE DrainedAfterShutdown'
  BY <1>27 DEF ShutdownReturns, Drained, Active
<1>28. ASSUME ShutdownExpires PROVE DrainedAfterShutdown'
  BY <1>28 DEF ShutdownExpires
<1>29. CASE UNCHANGED vars
  BY <1>29 DEF vars, attempt
<1> QED BY <1>1, <1>2, <1>3, <1>4, <1>5, <1>6, <1>7, <1>8, <1>9, <1>10, <1>11, <1>12, <1>13, <1>14,
    <1>15, <1>16, <1>17, <1>18, <1>19, <1>20, <1>21, <1>22, <1>23, <1>24, <1>25, <1>26, <1>27, <1>28,
        <1>29 DEF Next, Step, ShutdownStep

\* Health does not come back.
LEMMA DegradesStep ==
  ASSUME TypeOK, CleanupFailureDegrades, [Next]_vars
  PROVE  CleanupFailureDegrades'
<1> USE GatewayAssumption DEF TypeOK, CleanupFailureDegrades, Active, Working, attempt, Go, Moves,
    Answered, DoReturns, Ends, Degrade, FailsCleanup
<1>1. ASSUME NEW r \in Requests, RefusedClosing(r) PROVE CleanupFailureDegrades'
  BY <1>1 DEF RefusedClosing
<1>2. ASSUME NEW r \in Requests, Rejected(r) PROVE CleanupFailureDegrades'
  BY <1>2 DEF Rejected
<1>3. ASSUME NEW r \in Requests, Enters(r) PROVE CleanupFailureDegrades'
  BY <1>3 DEF Enters
<1>4. ASSUME NEW r \in Requests, FindsNotReady(r) PROVE CleanupFailureDegrades'
  BY <1>4 DEF FindsNotReady
<1>5. ASSUME NEW r \in Requests, FindsReady(r) PROVE CleanupFailureDegrades'
  BY <1>5 DEF FindsReady
<1>6. ASSUME NEW r \in Requests, TurnedAway(r) PROVE CleanupFailureDegrades'
  BY <1>6 DEF TurnedAway
<1>7. ASSUME NEW r \in Requests, Accepted(r) PROVE CleanupFailureDegrades'
  BY <1>7 DEF Accepted
<1>8. ASSUME NEW r \in Requests, Activated(r) PROVE CleanupFailureDegrades'
  BY <1>8 DEF Activated
<1>9. ASSUME NEW r \in Requests, Finishes(r) PROVE CleanupFailureDegrades'
  BY <1>9 DEF Finishes
<1>10. ASSUME NEW r \in Requests, HealthHasChanged(r) PROVE CleanupFailureDegrades'
  BY <1>10 DEF HealthHasChanged
<1>11. ASSUME NEW r \in Requests, HealthHolds(r) PROVE CleanupFailureDegrades'
  BY <1>11 DEF HealthHolds
<1>12. ASSUME NEW r \in Requests, NoID(r) PROVE CleanupFailureDegrades'
  BY <1>12 DEF NoID
<1>13. ASSUME NEW r \in Requests, PrepareFails(r) PROVE CleanupFailureDegrades'
  BY <1>13 DEF PrepareFails
<1>14. ASSUME NEW r \in Requests, Prepares(r) PROVE CleanupFailureDegrades'
  BY <1>14 DEF Prepares
<1>15. ASSUME NEW r \in Requests, Builds(r) PROVE CleanupFailureDegrades'
  BY <1>15 DEF Builds
<1>16. ASSUME NEW r \in Requests, BuildPanics(r) PROVE CleanupFailureDegrades'
  BY <1>16 DEF BuildPanics
<1>17. ASSUME NEW r \in Requests, BuildFails(r) PROVE CleanupFailureDegrades'
  BY <1>17 DEF BuildFails
<1>18. ASSUME NEW r \in Requests, Discards(r) PROVE CleanupFailureDegrades'
  BY <1>18 DEF Discards
<1>19. ASSUME NEW r \in Requests, DiscardFails(r) PROVE CleanupFailureDegrades'
  BY <1>19 DEF DiscardFails
<1>20. ASSUME NEW r \in Requests, Executes(r) PROVE CleanupFailureDegrades'
  BY <1>20 DEF Executes
<1>21. ASSUME NEW r \in Requests, Classifies(r) PROVE CleanupFailureDegrades'
  <2>1. ready' \subseteq ready /\ dirty' = dirty
    BY <1>21 DEF Classifies
  <2>2. executed[r] = "cleanup" => Serves[r] \notin ready'
    BY <1>21 DEF Classifies, Unclassifiable
  <2>3. at' = [at EXCEPT ![r] = "worked"] /\ executed' = executed
    BY <1>21 DEF Classifies
  <2> SUFFICES ASSUME NEW p \in dirty, p \in ready'
               PROVE  \E q \in Active(p)' : at'[q] = "classify" /\ executed'[q] = "cleanup"
    BY <2>1
  <2>4. PICK q \in Active(p) : at[q] = "classify" /\ executed[q] = "cleanup"
    BY <2>1
  <2>5. q # r
    BY <2>2, <2>4
  <2> QED BY <2>3, <2>4, <2>5
<1>22. ASSUME NEW r \in Requests, Parses(r) PROVE CleanupFailureDegrades'
  BY <1>22 DEF Parses
<1>23. ASSUME NEW r \in Requests, Responds(r) PROVE CleanupFailureDegrades'
  BY <1>23 DEF Responds
<1>24. ASSUME NEW r \in Requests, CallerLeaves(r) PROVE CleanupFailureDegrades'
  BY <1>24 DEF CallerLeaves
<1>25. ASSUME NEW p \in Providers, SchedulerCloses(p) PROVE CleanupFailureDegrades'
  BY <1>25 DEF SchedulerCloses
<1>26. ASSUME ShutdownBegins PROVE CleanupFailureDegrades'
  BY <1>26 DEF ShutdownBegins
<1>27. ASSUME ShutdownReturns PROVE CleanupFailureDegrades'
  BY <1>27 DEF ShutdownReturns
<1>28. ASSUME ShutdownExpires PROVE CleanupFailureDegrades'
  BY <1>28 DEF ShutdownExpires
<1>29. CASE UNCHANGED vars
  BY <1>29 DEF vars, attempt
<1> QED BY <1>1, <1>2, <1>3, <1>4, <1>5, <1>6, <1>7, <1>8, <1>9, <1>10, <1>11, <1>12, <1>13, <1>14,
    <1>15, <1>16, <1>17, <1>18, <1>19, <1>20, <1>21, <1>22, <1>23, <1>24, <1>25, <1>26, <1>27, <1>28,
        <1>29 DEF Next, Step, ShutdownStep

\* An answer is final.
LEMMA HonestStep ==
  ASSUME TypeOK, Paths, Blames, StopsAreHonest, [Next]_vars
  PROVE  StopsAreHonest'
<1> USE GatewayAssumption DEF TypeOK, Paths, OnItsWay, Working, Before, StopsAreHonest, attempt, Go,
    Moves, Answered, DoReturns, Ends, Degrade, FailsCleanup
<1>1. ASSUME NEW r \in Requests, RefusedClosing(r) PROVE StopsAreHonest'
  BY <1>1 DEF RefusedClosing
<1>2. ASSUME NEW r \in Requests, Rejected(r) PROVE StopsAreHonest'
  BY <1>2 DEF Rejected
<1>3. ASSUME NEW r \in Requests, Enters(r) PROVE StopsAreHonest'
  BY <1>3 DEF Enters
<1>4. ASSUME NEW r \in Requests, FindsNotReady(r) PROVE StopsAreHonest'
  BY <1>4 DEF FindsNotReady
<1>5. ASSUME NEW r \in Requests, FindsReady(r) PROVE StopsAreHonest'
  BY <1>5 DEF FindsReady
<1>6. ASSUME NEW r \in Requests, TurnedAway(r) PROVE StopsAreHonest'
  BY <1>6 DEF TurnedAway
<1>7. ASSUME NEW r \in Requests, Accepted(r) PROVE StopsAreHonest'
  BY <1>7 DEF Accepted
<1>8. ASSUME NEW r \in Requests, Activated(r) PROVE StopsAreHonest'
  BY <1>8 DEF Activated
<1>9. ASSUME NEW r \in Requests, Finishes(r) PROVE StopsAreHonest'
  BY <1>9 DEF Finishes
<1>10. ASSUME NEW r \in Requests, HealthHasChanged(r) PROVE StopsAreHonest'
  BY <1>10 DEF HealthHasChanged
<1>11. ASSUME NEW r \in Requests, HealthHolds(r) PROVE StopsAreHonest'
  BY <1>11 DEF HealthHolds
<1>12. ASSUME NEW r \in Requests, NoID(r) PROVE StopsAreHonest'
  BY <1>12 DEF NoID
<1>13. ASSUME NEW r \in Requests, PrepareFails(r) PROVE StopsAreHonest'
  BY <1>13 DEF PrepareFails
<1>14. ASSUME NEW r \in Requests, Prepares(r) PROVE StopsAreHonest'
  BY <1>14 DEF Prepares
<1>15. ASSUME NEW r \in Requests, Builds(r) PROVE StopsAreHonest'
  BY <1>15 DEF Builds
<1>16. ASSUME NEW r \in Requests, BuildPanics(r) PROVE StopsAreHonest'
  BY <1>16 DEF BuildPanics
<1>17. ASSUME NEW r \in Requests, BuildFails(r) PROVE StopsAreHonest'
  BY <1>17 DEF BuildFails
<1>18. ASSUME NEW r \in Requests, Discards(r) PROVE StopsAreHonest'
  BY <1>18 DEF Discards
<1>19. ASSUME NEW r \in Requests, DiscardFails(r) PROVE StopsAreHonest'
  BY <1>19 DEF DiscardFails
<1>20. ASSUME NEW r \in Requests, Executes(r) PROVE StopsAreHonest'
  BY <1>20 DEF Executes
<1>21. ASSUME NEW r \in Requests, Classifies(r) PROVE StopsAreHonest'
  BY <1>21 DEF Classifies
<1>22. ASSUME NEW r \in Requests, Parses(r) PROVE StopsAreHonest'
  BY <1>22 DEF Parses
<1>23. ASSUME NEW r \in Requests, Responds(r) PROVE StopsAreHonest'
  <2>1. /\ AnswerOf(r) = "canceled" => r \in gone
        /\ AnswerOf(r) = "shutting_down" => closing
        /\ AnswerOf(r) = "internal" =>
             workErr[r] = "abnormal" \/ (r \in invariant /\ executed[r] # "canceled")
    <3> DEFINE d == doErr[r]
    <3>1. at[r] = "after" /\ Blamed(r)
      BY <1>23 DEF Responds, Blames
    <3>2. d # "none" /\ cause[r] \in Causes /\ workErr[r] \in {"none", "nil", "response", "abnormal"}
      BY <3>1
    <3>3. CASE r \in invariant
      BY <3>1, <3>3 DEF AnswerOf, Blamed
    <3>4. CASE r \notin invariant /\ d \in {"nil", "shuttingDown", "canceled", "queueFull", "queueTimeout"}
      BY <3>1, <3>4 DEF AnswerOf, Blamed
    <3>5. CASE r \notin invariant /\ d \in {"response", "abnormal"}
      <4>1. workErr[r] = d
        BY <3>1, <3>5 DEF Blamed
      <4>2. CASE cause[r] = "cleanup_failed"
        BY <3>5, <4>2 DEF AnswerOf
      <4>3. CASE cause[r] # "cleanup_failed" /\ d = "abnormal"
        BY <3>5, <4>1, <4>3 DEF AnswerOf
      <4>4. CASE cause[r] # "cleanup_failed" /\ d = "response"
        <5>1. cause[r] # "none"
          BY <3>1, <3>5, <4>1, <4>4 DEF Blamed
        <5>2. AnswerOf(r) = cause[r]
          BY <3>5, <4>4, <5>1 DEF AnswerOf
        <5> QED BY <3>1, <3>2, <5>2 DEF Blamed, Causes
      <4> QED BY <3>5, <4>2, <4>3, <4>4
    <3> QED BY <3>2, <3>3, <3>4, <3>5
  <2> QED BY <1>23, <2>1 DEF Responds
<1>24. ASSUME NEW r \in Requests, CallerLeaves(r) PROVE StopsAreHonest'
  BY <1>24 DEF CallerLeaves
<1>25. ASSUME NEW p \in Providers, SchedulerCloses(p) PROVE StopsAreHonest'
  BY <1>25 DEF SchedulerCloses
<1>26. ASSUME ShutdownBegins PROVE StopsAreHonest'
  BY <1>26 DEF ShutdownBegins
<1>27. ASSUME ShutdownReturns PROVE StopsAreHonest'
  BY <1>27 DEF ShutdownReturns
<1>28. ASSUME ShutdownExpires PROVE StopsAreHonest'
  BY <1>28 DEF ShutdownExpires
<1>29. CASE UNCHANGED vars
  BY <1>29 DEF vars, attempt
<1> QED BY <1>1, <1>2, <1>3, <1>4, <1>5, <1>6, <1>7, <1>8, <1>9, <1>10, <1>11, <1>12, <1>13, <1>14,
    <1>15, <1>16, <1>17, <1>18, <1>19, <1>20, <1>21, <1>22, <1>23, <1>24, <1>25, <1>26, <1>27, <1>28,
        <1>29 DEF Next, Step, ShutdownStep

\* Only Prepares takes a lease.
LEMMA LeaseStep ==
  ASSUME TypeOK, Alone, [Next]_vars
  PROVE  LeasesReady
<1> USE GatewayAssumption DEF TypeOK, Alone, LeasesReady, Working, attempt, Go, Moves, Answered,
    DoReturns, Ends, Degrade, FailsCleanup
<1>1. ASSUME NEW r \in Requests, RefusedClosing(r) PROVE LeasesReady
  BY <1>1 DEF RefusedClosing
<1>2. ASSUME NEW r \in Requests, Rejected(r) PROVE LeasesReady
  BY <1>2 DEF Rejected
<1>3. ASSUME NEW r \in Requests, Enters(r) PROVE LeasesReady
  BY <1>3 DEF Enters
<1>4. ASSUME NEW r \in Requests, FindsNotReady(r) PROVE LeasesReady
  BY <1>4 DEF FindsNotReady
<1>5. ASSUME NEW r \in Requests, FindsReady(r) PROVE LeasesReady
  BY <1>5 DEF FindsReady
<1>6. ASSUME NEW r \in Requests, TurnedAway(r) PROVE LeasesReady
  BY <1>6 DEF TurnedAway
<1>7. ASSUME NEW r \in Requests, Accepted(r) PROVE LeasesReady
  BY <1>7 DEF Accepted
<1>8. ASSUME NEW r \in Requests, Activated(r) PROVE LeasesReady
  BY <1>8 DEF Activated
<1>9. ASSUME NEW r \in Requests, Finishes(r) PROVE LeasesReady
  BY <1>9 DEF Finishes
<1>10. ASSUME NEW r \in Requests, HealthHasChanged(r) PROVE LeasesReady
  BY <1>10 DEF HealthHasChanged
<1>11. ASSUME NEW r \in Requests, HealthHolds(r) PROVE LeasesReady
  BY <1>11 DEF HealthHolds
<1>12. ASSUME NEW r \in Requests, NoID(r) PROVE LeasesReady
  BY <1>12 DEF NoID
<1>13. ASSUME NEW r \in Requests, PrepareFails(r) PROVE LeasesReady
  BY <1>13 DEF PrepareFails
<1>14. ASSUME NEW r \in Requests, Prepares(r) PROVE LeasesReady
  BY <1>14 DEF Prepares
<1>15. ASSUME NEW r \in Requests, Builds(r) PROVE LeasesReady
  BY <1>15 DEF Builds
<1>16. ASSUME NEW r \in Requests, BuildPanics(r) PROVE LeasesReady
  BY <1>16 DEF BuildPanics
<1>17. ASSUME NEW r \in Requests, BuildFails(r) PROVE LeasesReady
  BY <1>17 DEF BuildFails
<1>18. ASSUME NEW r \in Requests, Discards(r) PROVE LeasesReady
  BY <1>18 DEF Discards
<1>19. ASSUME NEW r \in Requests, DiscardFails(r) PROVE LeasesReady
  BY <1>19 DEF DiscardFails
<1>20. ASSUME NEW r \in Requests, Executes(r) PROVE LeasesReady
  BY <1>20 DEF Executes
<1>21. ASSUME NEW r \in Requests, Classifies(r) PROVE LeasesReady
  BY <1>21 DEF Classifies
<1>22. ASSUME NEW r \in Requests, Parses(r) PROVE LeasesReady
  BY <1>22 DEF Parses
<1>23. ASSUME NEW r \in Requests, Responds(r) PROVE LeasesReady
  BY <1>23 DEF Responds
<1>24. ASSUME NEW r \in Requests, CallerLeaves(r) PROVE LeasesReady
  BY <1>24 DEF CallerLeaves
<1>25. ASSUME NEW p \in Providers, SchedulerCloses(p) PROVE LeasesReady
  BY <1>25 DEF SchedulerCloses
<1>26. ASSUME ShutdownBegins PROVE LeasesReady
  BY <1>26 DEF ShutdownBegins
<1>27. ASSUME ShutdownReturns PROVE LeasesReady
  BY <1>27 DEF ShutdownReturns
<1>28. ASSUME ShutdownExpires PROVE LeasesReady
  BY <1>28 DEF ShutdownExpires
<1>29. CASE UNCHANGED vars
  BY <1>29 DEF vars, attempt
<1> QED BY <1>1, <1>2, <1>3, <1>4, <1>5, <1>6, <1>7, <1>8, <1>9, <1>10, <1>11, <1>12, <1>13, <1>14,
    <1>15, <1>16, <1>17, <1>18, <1>19, <1>20, <1>21, <1>22, <1>23, <1>24, <1>25, <1>26, <1>27, <1>28,
        <1>29 DEF Next, Step, ShutdownStep

(* The invariant of Respond and Shutdown, kept by every step: requests,
   blame, the order of the closing and one worker at a time. *)
THEOREM Inductive == Spec => []IInv
<1>1. Init => IInv
  BY DEF Init, IInv, TypeOK, Causes, Answers, Working, Before, Paths, OnItsWay, Blames, Blamed,
     ClosingFirst,
         Alone, DrainedAfterShutdown, CleanupFailureDegrades, StopsAreHonest
<1>2. IInv /\ [Next]_vars => IInv'
  BY TypeStep, PathsStep, BlamesStep, ClosingStep, AloneStep, DrainedStep, DegradesStep, HonestStep DEF IInv
<1> QED BY <1>1, <1>2, PTL DEF Spec

\* When Gateway.Shutdown has answered nil nothing runs, holds a lease, or will.
THEOREM NilMeansDrained == Spec => []DrainedAfterShutdown
<1> QED BY Inductive, PTL DEF IInv

\* From the end of the work whose cleanup failed its provider is not ready.
THEOREM FailureDegrades == Spec => []CleanupFailureDegrades
<1> QED BY Inductive, PTL DEF IInv

\* Respond blames a stop on the client or on the shutdown, never on an invariant.
THEOREM BlameIsDue == Spec => []StopsAreHonest
<1> QED BY Inductive, PTL DEF IInv

\* With one request at a time a lease is taken only on a provider that is ready.
THEOREM DegradedTakesNoLease == Spec => NoLeaseOnDegraded
<1>1. IInv /\ [Next]_vars => [LeasesReady]_vars
  BY LeaseStep DEF IInv
<1>2. [LeasesReady]_vars =>
        [\A r \in Requests :
           lease[r] = "none" /\ lease'[r] = "held" => Serves[r] \in ready \/ Width > 1]_vars
  BY DEF LeasesReady
<1> QED BY <1>1, <1>2, Inductive, PTL DEF Spec, NoLeaseOnDegraded

-----------------------------------------------------------------------------
(* Replies.                                                                  *)

Params == Fields \cup {"", "query"}
Errors == [code : Codes, param : Params]
Checks == [bad : BOOLEAN, error : Errors]
\* A sequence of checks whose errors the tables of the response let through.
Public(checks) ==
  checks \in Seq(Checks) /\ \A i \in DOMAIN checks : PublicError(checks[i].error) = checks[i].error

\* Checks one after the other, and the first that is bad.
LEMMA PublicJoin ==
  ASSUME NEW s, NEW t, Public(s), Public(t)
  PROVE  /\ Public(s \o t)
         /\ Failing(s \o t) = {} => Failing(s) = {} /\ Failing(t) = {}
<1> USE DEF Public
<1>1. /\ s \o t \in Seq(Checks) /\ Len(s \o t) = Len(s) + Len(t)
      /\ \A i \in 1..Len(s) : (s \o t)[i] = s[i]
      /\ \A i \in 1..Len(t) : (s \o t)[i + Len(s)] = t[i]
  OBVIOUS
<1>2. ASSUME NEW i \in DOMAIN (s \o t) PROVE PublicError((s \o t)[i].error) = (s \o t)[i].error
  <2>1. CASE i =< Len(s)
    BY <1>1, <2>1
  <2>2. CASE i > Len(s)
    <3>1. i - Len(s) \in DOMAIN t /\ (s \o t)[i] = t[i - Len(s)]
      BY <1>1, <2>2
    <3> QED BY <3>1
  <2> QED BY <1>1, <2>1, <2>2
<1>3. ASSUME NEW i \in DOMAIN s, s[i].bad PROVE i \in Failing(s \o t)
  BY <1>1, <1>3 DEF Failing
<1>4. ASSUME NEW i \in DOMAIN t, t[i].bad PROVE i + Len(s) \in Failing(s \o t)
  BY <1>1, <1>4 DEF Failing
<1> QED BY <1>1, <1>2, <1>3, <1>4 DEF Failing

LEMMA PublicOne ==
  ASSUME NEW e \in Checks, PublicError(e.error) = e.error
  PROVE  Public(<<e>>) /\ (Failing(<<e>>) = {} <=> ~e.bad)
BY DEF Public, Failing

LEMMA PublicTwo ==
  ASSUME NEW e \in Checks, NEW f \in Checks, PublicError(e.error) = e.error, PublicError(f.error) = f.error
  PROVE  Public(<<e, f>>) /\ (Failing(<<e, f>>) = {} <=> ~e.bad /\ ~f.bad)
BY DEF Public, Failing

LEMMA PublicNone == Public(<<>>) /\ Failing(<<>>) = {}
BY DEF Public, Failing

LEMMA FirstIsPublic ==
  ASSUME NEW s, Public(s), NEW e \in FirstError(s)
  PROVE  e \in Errors /\ PublicError(e) = e
<1>1. PICK i \in Failing(s) : e = s[i].error
  BY DEF FirstError
<1>2. i \in DOMAIN s /\ s[i] \in Checks
  BY <1>1 DEF Public, Failing
<1> QED BY <1>1, <1>2 DEF Public, Checks

\* A check whose code the catalog holds and whose parameter its table allows.
LEMMA Refused ==
  ASSUME NEW bad \in BOOLEAN, NEW code \in Codes, NEW param \in Params,
         param = "" \/ param \in ParamsOf(code)
  PROVE  LET c == Refuse(bad, code, param) IN
         c \in Checks /\ PublicError(c.error) = c.error /\ c.bad = bad
BY DEF Refuse, Checks, Errors, Error, PublicError

LEMMA CodesUsed ==
  {"invalid_json", "invalid_request", "unsupported_parameter", "invalid_json_schema",
   "invalid_bearer_key", "not_found", "method_not_allowed", "request_timeout", "request_too_large",
   "unsupported_media_type", "server_busy", "internal_error"} \subseteq Codes
BY DEF Codes, StatusOf

LEMMA TablesDomain ==
  DOMAIN ParamTables = {"invalid_request", "unsupported_parameter", "invalid_json_schema", "request_too_large"}
BY DEF ParamTables

LEMMA FieldsAreParams ==
  /\ "" \in Params /\ "query" \in Params
  /\ \A f \in Fields : f \in Params /\ f \in ParamsOf("invalid_request")
BY TablesDomain DEF Params, ParamsOf, ParamTables

LEMMA Unsupported ==
  ASSUME NEW f
  PROVE  /\ f \in ParamsOf("unsupported_parameter") <=>
              f \in {"stream", "store", "tools", "tool_choice", "text", "text.format",
                     "text.format.type", "text.format.name", "text.format.strict", "query"}
         /\ f \in ParamsOf("unsupported_parameter") => f \in Params
<1>1. f \in ParamsOf("unsupported_parameter") <=>
        f \in {"stream", "store", "tools", "tool_choice", "text", "text.format", "text.format.type",
               "text.format.name", "text.format.strict", "query"}
  BY TablesDomain DEF ParamsOf, ParamTables
<1> QED BY <1>1 DEF Params, Fields, TopFields, SchemaFields

LEMMA TooLargeParams ==
  ASSUME NEW f
  PROVE  /\ f \in ParamsOf("request_too_large") <=> f \in {"input", "instructions", "text.format.schema"}
         /\ f \in ParamsOf("request_too_large") => f \in Fields /\ f \in Params
<1>1. f \in ParamsOf("request_too_large") <=> f \in {"input", "instructions", "text.format.schema"}
  BY TablesDomain DEF ParamsOf, ParamTables
<1> QED BY <1>1 DEF Params, Fields, TopFields, SchemaFields

\* The checks of each helper of DecodeRequest, for a field its tables know.
LEMMA HelpersArePublic ==
  ASSUME NEW b \in Bodies, NEW f \in Fields
  PROVE  /\ Public(RequiredTypedString(b, f)) /\ Public(RequiredString(b, f))
         /\ Public(OptionalStringOrNull(b, f)) /\ Public(OptionalString(b, f))
         /\ Failing(RequiredString(b, f)) = {} => b.at[f].is = "string" /\ b.at[f].bytes # 0
<1> DEFINE Bad(c) == Refuse(c, "invalid_request", f)
<1>1. ASSUME NEW c \in BOOLEAN PROVE Bad(c) \in Checks /\ PublicError(Bad(c).error) = Bad(c).error
  BY Refused, CodesUsed, FieldsAreParams, Unsupported
<1>2. ASSUME NEW c \in BOOLEAN PROVE Public(<<Bad(c)>>) /\ (Failing(<<Bad(c)>>) = {} <=> ~c)
  <2>1. Bad(c).bad = c
    BY DEF Refuse
  <2> HIDE DEF Bad
  <2> QED BY <1>1, <2>1, PublicOne
<1>3. /\ Public(RequiredTypedString(b, f)) /\ Public(<<Bad(b.at[f].bytes = 0)>>)
      /\ Failing(RequiredTypedString(b, f)) = {} => b.at[f].is = "string"
      /\ Failing(<<Bad(b.at[f].bytes = 0)>>) = {} => b.at[f].bytes # 0
  BY <1>2 DEF RequiredTypedString
<1>4. /\ Public(RequiredString(b, f))
      /\ Failing(RequiredString(b, f)) = {} => b.at[f].is = "string" /\ b.at[f].bytes # 0
  BY <1>3, PublicJoin DEF RequiredString
<1> QED BY <1>2, <1>3, <1>4 DEF OptionalStringOrNull, OptionalString

LEMMA ValuesArePublic ==
  ASSUME NEW b \in Bodies, NEW f \in Fields, f \in ParamsOf("unsupported_parameter")
  PROVE  /\ \A kind, want : Public(OptionalExact(b, f, kind, want))
         /\ \A want : Public(RequiredExactBool(b, f, want))
         /\ Public(OptionalEmptyArray(b, f))
<1> DEFINE Bad(c) == Refuse(c, "invalid_request", f)
<1> DEFINE Odd(c) == Refuse(c, "unsupported_parameter", f)
<1>1. ASSUME NEW c \in BOOLEAN PROVE Bad(c) \in Checks /\ PublicError(Bad(c).error) = Bad(c).error
  BY Refused, CodesUsed, FieldsAreParams, Unsupported
<1>2. ASSUME NEW c \in BOOLEAN PROVE Odd(c) \in Checks /\ PublicError(Odd(c).error) = Odd(c).error
  BY Refused, CodesUsed, FieldsAreParams, Unsupported
<1>3. ASSUME NEW c \in BOOLEAN, NEW d \in BOOLEAN PROVE Public(<<Bad(c), Odd(d)>>)
  <2> HIDE DEF Bad, Odd
  <2> QED BY <1>1, <1>2, PublicTwo
<1> QED BY <1>3 DEF OptionalExact, RequiredExactBool, OptionalEmptyArray

LEMMA SizesArePublic ==
  ASSUME NEW b \in Bodies, NEW f \in ParamsOf("request_too_large"), NEW limit
  PROVE  Public(TooLarge(b, f, limit))
<1>3. f \in Fields /\ f \in Params
  BY TooLargeParams
<1> DEFINE Big(c) == Refuse(c, "request_too_large", f)
<1>1. ASSUME NEW c \in BOOLEAN PROVE Big(c) \in Checks /\ PublicError(Big(c).error) = Big(c).error
  BY <1>3, Refused, CodesUsed
<1>2. ASSUME NEW c \in BOOLEAN PROVE Public(<<Big(c)>>)
  <2> HIDE DEF Big
  <2> QED BY <1>1, PublicOne
<1> QED BY <1>2 DEF TooLarge

\* One check, and three.
LEMMA CheckIsPublic ==
  ASSUME NEW bad \in BOOLEAN, NEW code \in Codes, NEW param \in Params,
         param = "" \/ param \in ParamsOf(code)
  PROVE  /\ Public(<<Refuse(bad, code, param)>>)
         /\ Failing(<<Refuse(bad, code, param)>>) = {} <=> ~bad
<1>1. LET c == Refuse(bad, code, param) IN
      c \in Checks /\ PublicError(c.error) = c.error /\ c.bad = bad
  BY Refused
<1> QED BY <1>1, PublicOne

LEMMA PublicThree ==
  ASSUME NEW e \in Checks, NEW f \in Checks, NEW g \in Checks, PublicError(e.error) = e.error,
         PublicError(f.error) = f.error, PublicError(g.error) = g.error
  PROVE  Public(<<e, f, g>>) /\ (Failing(<<e, f, g>>) = {} <=> ~e.bad /\ ~f.bad /\ ~g.bad)
BY DEF Public, Failing

\* A check that names no parameter, and one that names a parameter of its table.
LEMMA RefusedWhole ==
  ASSUME NEW bad \in BOOLEAN, NEW code \in Codes
  PROVE  LET c == Refuse(bad, code, "") IN
         c \in Checks /\ PublicError(c.error) = c.error /\ c.bad = bad
<1>1. "" \in Params
  BY FieldsAreParams
<1> QED BY <1>1, Refused

LEMMA RefusedOdd ==
  ASSUME NEW bad \in BOOLEAN, NEW param \in ParamsOf("unsupported_parameter")
  PROVE  LET c == Refuse(bad, "unsupported_parameter", param) IN
         c \in Checks /\ PublicError(c.error) = c.error /\ c.bad = bad
<1>1. param \in Params /\ "unsupported_parameter" \in Codes
  BY Unsupported, CodesUsed
<1> QED BY <1>1, Refused

\* The parts of DecodeRequest.
LEMMA ParsingIsPublic ==
  ASSUME NEW b \in Bodies
  PROVE  Public(Parsing(b)) /\ (Failing(Parsing(b)) = {} => b.parse = "ok")
<1> DEFINE One(c) == Refuse(c, "invalid_json", "")
<1> DEFINE Two(c) == Refuse(c, "invalid_request", "")
<1> DEFINE Three(c) == Refuse(c, "unsupported_parameter", "")
<1>1. ASSUME NEW c \in BOOLEAN
      PROVE /\ One(c) \in Checks /\ PublicError(One(c).error) = One(c).error
            /\ Two(c) \in Checks /\ PublicError(Two(c).error) = Two(c).error /\ Two(c).bad = c
            /\ Three(c) \in Checks /\ PublicError(Three(c).error) = Three(c).error
  <2>1. /\ "invalid_json" \in Codes /\ "invalid_request" \in Codes
        /\ "unsupported_parameter" \in Codes
    BY CodesUsed
  <2>2. One(c) \in Checks /\ PublicError(One(c).error) = One(c).error
    BY <2>1, RefusedWhole
  <2>3. Two(c) \in Checks /\ PublicError(Two(c).error) = Two(c).error /\ Two(c).bad = c
    BY <2>1, RefusedWhole
  <2>4. Three(c) \in Checks /\ PublicError(Three(c).error) = Three(c).error
    BY <2>1, RefusedWhole
  <2> QED BY <2>2, <2>3, <2>4
<1>2. ASSUME NEW c \in BOOLEAN, NEW d \in BOOLEAN, NEW e \in BOOLEAN
      PROVE  /\ Public(<<One(c), Two(d), Three(e)>>)
             /\ Failing(<<One(c), Two(d), Three(e)>>) = {} => ~d
  <2> HIDE DEF One, Two, Three
  <2> QED BY <1>1, PublicThree
<1> DEFINE malformed == b.parse \in {"syntax", "duplicate", "trailing"}
<1> DEFINE unparsed == b.parse # "ok"
<1> DEFINE strange == "" \in b.strange
<1>3. malformed \in BOOLEAN /\ unparsed \in BOOLEAN /\ strange \in BOOLEAN
  OBVIOUS
<1>4. Parsing(b) = <<One(malformed), Two(unparsed), Three(strange)>>
  BY DEF Parsing
<1>5. Public(Parsing(b)) /\ (Failing(Parsing(b)) = {} => ~unparsed)
  <2> HIDE DEF One, Two, Three, malformed, unparsed, strange
  <2> QED BY <1>2, <1>3, <1>4
<1> QED BY <1>5

LEMMA SchemaFormatIsPublic ==
  ASSUME NEW b \in Bodies
  PROVE  /\ Public(DecodeSchemaFormat(b))
         /\ Failing(DecodeSchemaFormat(b)) = {} =>
              b.at["text.format.name"].says \in FormatNames /\ b.at["text.format.schema"].is = "object"
<1> DEFINE Odd(c, f) == Refuse(c, "unsupported_parameter", f)
<1> DEFINE Bad(c, f) == Refuse(c, "invalid_request", f)
<1> DEFINE Big(c, f) == Refuse(c, "request_too_large", f)
<1>f. {"text.format.name", "text.format.description", "text.format.strict", "text.format.schema"} \subseteq Fields
  BY DEF Fields, SchemaFields
<1>1. ASSUME NEW c \in BOOLEAN, NEW f \in {"text.format", "text.format.name"}
      PROVE  Public(<<Odd(c, f)>>) /\ (Failing(<<Odd(c, f)>>) = {} <=> ~c)
  BY CheckIsPublic, CodesUsed, Unsupported
<1>2. ASSUME NEW c \in BOOLEAN, NEW d \in BOOLEAN, NEW f, f = "text.format.schema"
      PROVE  Public(<<Bad(c, f), Big(d, f)>>) /\ (Failing(<<Bad(c, f), Big(d, f)>>) = {} => ~c)
  <2>1. f \in Params /\ f \in ParamsOf("invalid_request") /\ "invalid_request" \in Codes
    BY <1>f, <1>2, FieldsAreParams, CodesUsed
  <2>2. Bad(c, f) \in Checks /\ PublicError(Bad(c, f).error) = Bad(c, f).error /\ Bad(c, f).bad = c
    BY <2>1, Refused
  <2>3. f \in ParamsOf("request_too_large")
    BY <1>2, TooLargeParams
  <2>4. Big(d, f) \in Checks /\ PublicError(Big(d, f).error) = Big(d, f).error /\ Big(d, f).bad = d
    BY <2>1, <2>3, Refused, CodesUsed
  <2> HIDE DEF Bad, Big
  <2> QED BY <2>2, <2>4, PublicTwo
<1> DEFINE strange == <<Odd("text.format" \in b.strange, "text.format")>>
<1> DEFINE name == RequiredTypedString(b, "text.format.name")
<1> DEFINE named == <<Odd(b.at["text.format.name"].says \notin FormatNames, "text.format.name")>>
<1> DEFINE description == OptionalString(b, "text.format.description")
<1> DEFINE strict == RequiredExactBool(b, "text.format.strict", "true")
<1> DEFINE schema == <<Bad(b.at["text.format.schema"].is # "object", "text.format.schema"),
                       Big(b.at["text.format.schema"].bytes > SchemaBytes, "text.format.schema")>>
<1>3. Public(strange)
  <2> DEFINE c == "text.format" \in b.strange
  <2>1. c \in BOOLEAN /\ strange = <<Odd(c, "text.format")>>
    OBVIOUS
  <2>2. Public(<<Odd(c, "text.format")>>)
    <3> HIDE DEF c, strange, Odd
    <3> QED BY <1>1, <2>1
  <2> HIDE DEF c, strange, Odd
  <2> QED BY <2>1, <2>2
<1>4. Public(named) /\ (Failing(named) = {} => b.at["text.format.name"].says \in FormatNames)
  BY <1>1
<1>5. Public(name) /\ Public(description)
  BY <1>f, HelpersArePublic
<1>6. Public(strict)
  BY <1>f, ValuesArePublic, Unsupported
<1>7. Public(schema) /\ (Failing(schema) = {} => b.at["text.format.schema"].is = "object")
  <2> DEFINE c == b.at["text.format.schema"].is # "object"
             d == b.at["text.format.schema"].bytes > SchemaBytes
  <2>1. c \in BOOLEAN /\ d \in BOOLEAN
        /\ schema = <<Bad(c, "text.format.schema"), Big(d, "text.format.schema")>>
    OBVIOUS
  <2>2. Public(schema) /\ (Failing(schema) = {} => ~c)
    <3> HIDE DEF c, d, schema, Bad, Big
    <3> QED BY <1>2, <2>1
  <2> QED BY <2>2
<1>8. DecodeSchemaFormat(b) = strange \o name \o named \o description \o strict \o schema
  BY DEF DecodeSchemaFormat
<1> QED
  <2> HIDE DEF strange, name, named, description, strict, schema
  <2>1. Public(strange \o name)
    BY <1>3, <1>5, PublicJoin
  <2>2. /\ Public(strange \o name \o named)
        /\ Failing(strange \o name \o named) = {} => Failing(named) = {}
    BY <2>1, <1>4, PublicJoin
  <2>3. /\ Public(strange \o name \o named \o description)
        /\ Failing(strange \o name \o named \o description) = {} => Failing(named) = {}
    BY <2>2, <1>5, PublicJoin
  <2>4. /\ Public(strange \o name \o named \o description \o strict)
        /\ Failing(strange \o name \o named \o description \o strict) = {} => Failing(named) = {}
    BY <2>3, <1>6, PublicJoin
  <2>5. /\ Public(strange \o name \o named \o description \o strict \o schema)
        /\ Failing(strange \o name \o named \o description \o strict \o schema) = {} =>
             Failing(named) = {} /\ Failing(schema) = {}
    BY <2>4, <1>7, PublicJoin
  <2> QED BY <2>5, <1>4, <1>7, <1>8

LEMMA TextIsPublic ==
  ASSUME NEW b \in Bodies
  PROVE  /\ Public(DecodeText(b))
         /\ Failing(DecodeText(b)) = {} =>
              \/ b.at["text.format.type"].says = "text"
              \/ /\ b.at["text.format.type"].says = "json_schema"
                 /\ b.at["text.format.name"].says \in FormatNames
                 /\ b.at["text.format.schema"].is = "object"
<1> DEFINE Odd(c, f) == Refuse(c, "unsupported_parameter", f)
<1> DEFINE Bad(c, f) == Refuse(c, "invalid_request", f)
<1>f. "text" \in Fields /\ "text.format" \in Fields /\ "text.format.type" \in Fields
  BY DEF Fields, SchemaFields, TopFields
<1>1. ASSUME NEW c \in BOOLEAN, NEW f \in {"text", "text.format", "text.format.type"}
      PROVE  /\ Odd(c, f) \in Checks /\ PublicError(Odd(c, f).error) = Odd(c, f).error /\ Odd(c, f).bad = c
             /\ Bad(c, f) \in Checks /\ PublicError(Bad(c, f).error) = Bad(c, f).error /\ Bad(c, f).bad = c
  <2>1. f \in Fields /\ f \in Params /\ f \in ParamsOf("invalid_request") /\ f \in ParamsOf("unsupported_parameter")
    BY <1>f, FieldsAreParams, Unsupported
  <2> QED BY <2>1, Refused, CodesUsed
<1>2. ASSUME NEW c \in BOOLEAN, NEW d \in BOOLEAN, NEW e \in BOOLEAN
      PROVE  /\ Public(<<Bad(c, "text"), Odd(d, "text"), Bad(e, "text.format")>>)
             /\ Public(<<Odd(c, "text.format.type"), Odd(d, "text.format")>>)
             /\ Failing(<<Odd(c, "text.format.type"), Odd(d, "text.format")>>) = {} => ~c
  <2> HIDE DEF Odd, Bad
  <2> QED BY <1>1, PublicTwo, PublicThree
<1> DEFINE shape == <<Bad(b.at["text"].is # "object", "text"), Odd("text" \in b.strange, "text"),
                      Bad(b.at["text.format"].is # "object", "text.format")>>
<1> DEFINE type == RequiredTypedString(b, "text.format.type")
<1> DEFINE plain == <<Odd(b.at["text.format.type"].says # "text", "text.format.type"),
                      Odd(Surplus(b), "text.format")>>
<1>3. Public(shape)
  <2> DEFINE c == b.at["text"].is # "object"
             d == "text" \in b.strange
             e == b.at["text.format"].is # "object"
  <2>1. c \in BOOLEAN /\ d \in BOOLEAN /\ e \in BOOLEAN
        /\ shape = <<Bad(c, "text"), Odd(d, "text"), Bad(e, "text.format")>>
    OBVIOUS
  <2> HIDE DEF c, d, e, shape, Bad, Odd
  <2> QED BY <1>2, <2>1
<1>4. Public(type)
  BY <1>f, HelpersArePublic
<1>5. Public(plain) /\ (Failing(plain) = {} => b.at["text.format.type"].says = "text")
  <2>1. Surplus(b) \in BOOLEAN
    BY DEF Surplus
  <2> QED BY <1>2, <2>1
<1>6. Public(shape \o type)
  <2> HIDE DEF shape, type
  <2> QED BY <1>3, <1>4, PublicJoin
<1>7. CASE b.at["text.format.type"].says = "json_schema"
  <2>1. DecodeText(b) = shape \o type \o DecodeSchemaFormat(b)
    BY <1>7 DEF DecodeText
  <2> HIDE DEF shape, type
  <2> QED BY <1>6, <1>7, <2>1, PublicJoin, SchemaFormatIsPublic
<1>8. CASE b.at["text.format.type"].says # "json_schema"
  <2>1. DecodeText(b) = shape \o type \o plain
    BY <1>8 DEF DecodeText
  <2> HIDE DEF shape, type, plain
  <2> QED BY <1>5, <1>6, <1>8, <2>1, PublicJoin
<1> QED BY <1>7, <1>8

LEMMA DecodingIsPublic ==
  ASSUME NEW b \in Bodies
  PROVE  /\ Public(Decoding(b))
         /\ Failing(Decoding(b)) = {} =>
              /\ b.at["model"].is = "string" /\ b.at["model"].bytes # 0
              /\ b.at["text"].is = "absent" \/ Failing(DecodeText(b)) = {}
<1>f. /\ {"model", "input", "instructions"} \subseteq Fields
      /\ {"stream", "store", "tools", "tool_choice"} \subseteq Fields
  BY DEF Fields, TopFields
<1> DEFINE model == RequiredString(b, "model")
<1> DEFINE input == RequiredString(b, "input")
<1> DEFINE inputSize == TooLarge(b, "input", InputBytes)
<1> DEFINE instructions == OptionalStringOrNull(b, "instructions")
<1> DEFINE instructionsSize == TooLarge(b, "instructions", InstructionsBytes)
<1> DEFINE stream == OptionalExact(b, "stream", "bool", "false")
<1> DEFINE store == OptionalExact(b, "store", "bool", "false")
<1> DEFINE tools == OptionalEmptyArray(b, "tools")
<1> DEFINE choice == OptionalExact(b, "tool_choice", "string", "none")
<1> DEFINE text == IF b.at["text"].is = "absent" THEN <<>> ELSE DecodeText(b)
<1>1. /\ Public(model) /\ Public(input) /\ Public(instructions)
      /\ Failing(model) = {} => b.at["model"].is = "string" /\ b.at["model"].bytes # 0
  BY <1>f, HelpersArePublic
<1>2. Public(inputSize) /\ Public(instructionsSize)
  BY SizesArePublic, TooLargeParams
<1>3. Public(stream) /\ Public(store) /\ Public(tools) /\ Public(choice)
  BY <1>f, ValuesArePublic, Unsupported
<1>4. Public(text) /\ (Failing(text) = {} => b.at["text"].is = "absent" \/ Failing(DecodeText(b)) = {})
  BY TextIsPublic, PublicNone
<1>5. Decoding(b) =
        Parsing(b) \o model \o input \o inputSize \o instructions \o instructionsSize \o stream \o store
        \o tools \o choice \o text
  BY DEF Decoding
<1> QED
  <2> HIDE DEF model, input, inputSize, instructions, instructionsSize, stream, store, tools, choice, text
  <2> DEFINE s1 == Parsing(b) \o model
             s2 == s1 \o input
             s3 == s2 \o inputSize
             s4 == s3 \o instructions
             s5 == s4 \o instructionsSize
             s6 == s5 \o stream
             s7 == s6 \o store
             s8 == s7 \o tools
             s9 == s8 \o choice
             all == s9 \o text
             Holds(s) == Public(s) /\ (Failing(s) = {} => Failing(model) = {})
  <2>1. ASSUME NEW s, NEW t, Holds(s), Public(t) PROVE Holds(s \o t)
    BY <2>1, PublicJoin
  <2>2. Holds(s1)
    BY <1>1, ParsingIsPublic, PublicJoin
  <2>3. Holds(s2) /\ Holds(s3)
    <3> HIDE DEF Holds, s1
    <3>1. Holds(s2)
      BY <1>1, <2>1, <2>2
    <3> HIDE DEF s2
    <3> QED BY <1>2, <2>1, <3>1
  <2>4. Holds(s4) /\ Holds(s5)
    <3> HIDE DEF Holds, s3
    <3>1. Holds(s4)
      BY <1>1, <2>1, <2>3
    <3> HIDE DEF s4
    <3> QED BY <1>2, <2>1, <3>1
  <2>5. Holds(s6) /\ Holds(s7)
    <3> HIDE DEF Holds, s5
    <3>1. Holds(s6)
      BY <1>3, <2>1, <2>4
    <3> HIDE DEF s6
    <3> QED BY <1>3, <2>1, <3>1
  <2>6. Holds(s8) /\ Holds(s9)
    <3> HIDE DEF Holds, s7
    <3>1. Holds(s8)
      BY <1>3, <2>1, <2>5
    <3> HIDE DEF s8
    <3> QED BY <1>3, <2>1, <3>1
  <2>7. /\ Public(all)
        /\ Failing(all) = {} => Failing(model) = {} /\ Failing(text) = {}
    <3> HIDE DEF s9
    <3> QED BY <1>4, <2>6, PublicJoin
  <2> QED BY <1>1, <1>4, <1>5, <2>7

(* The codes of a body that is not read whole, and of the rest of ServeHTTP. *)
LEMMA BareIsPublic ==
  ASSUME NEW bad \in BOOLEAN,
         NEW code \in {"server_busy", "invalid_request", "invalid_bearer_key", "not_found",
                       "method_not_allowed", "unsupported_media_type", "request_timeout",
                       "request_too_large", "invalid_json"}
  PROVE  /\ Refuse(bad, code, "") \in Checks
         /\ PublicError(Refuse(bad, code, "").error) = Refuse(bad, code, "").error
         /\ Refuse(bad, code, "").bad = bad
<1>1. code \in Codes
  BY CodesUsed
<1> QED BY <1>1, Refused, FieldsAreParams

LEMMA PublicFour ==
  ASSUME NEW e \in Checks, NEW f \in Checks, NEW g \in Checks, NEW h \in Checks,
         PublicError(e.error) = e.error, PublicError(f.error) = f.error,
         PublicError(g.error) = g.error, PublicError(h.error) = h.error
  PROVE  Public(<<e, f, g, h>>)
BY DEF Public

LEMMA UnreadIsPublic ==
  ASSUME NEW q \in Asked
  PROVE  Public(Unread(q))
<1> DEFINE R(c, code) == Refuse(c, code, "")
<1> DEFINE slot == ~q.slot
           host == ~q.host
           key == ~q.authorized
           path == q.path \notin {Responses, Models}
           method == q.method # IF q.path = Responses THEN "POST" ELSE "GET"
           encoding == ~q.encoding
           json == ~q.json
           reader == ~q.reader
<1>1. /\ slot \in BOOLEAN /\ host \in BOOLEAN /\ q.query \in BOOLEAN /\ key \in BOOLEAN
      /\ path \in BOOLEAN /\ method \in BOOLEAN /\ encoding \in BOOLEAN /\ json \in BOOLEAN
      /\ reader \in BOOLEAN
  BY DEF Asked
<1>2. ASSUME NEW c \in BOOLEAN
      PROVE  LET k == Refuse(c, "unsupported_parameter", "query") IN
             k \in Checks /\ PublicError(k.error) = k.error
  <2>1. "query" \in ParamsOf("unsupported_parameter")
    BY Unsupported
  <2> QED BY <2>1, RefusedOdd
<1>3. /\ Admission(q) = <<R(slot, "server_busy"), R(host, "invalid_request"),
                          Refuse(q.query, "unsupported_parameter", "query"),
                          R(key, "invalid_bearer_key")>>
      /\ Routing(q) = <<R(path, "not_found"), R(method, "method_not_allowed"),
                        R(encoding, "unsupported_media_type")>>
      /\ Unread(q) = Admission(q) \o Routing(q)
                     \o IF q.path # Responses THEN <<>>
                        ELSE <<R(json, "unsupported_media_type"), R(reader, "server_busy")>>
  BY DEF Admission, Routing, Unread
<1> HIDE DEF slot, host, key, path, method, encoding, json, reader
<1>4. Public(Admission(q))
  <2>1. /\ R(slot, "server_busy") \in Checks /\ PublicError(R(slot, "server_busy").error) = R(slot, "server_busy").error
        /\ R(host, "invalid_request") \in Checks /\ PublicError(R(host, "invalid_request").error) = R(host, "invalid_request").error
        /\ R(key, "invalid_bearer_key") \in Checks /\ PublicError(R(key, "invalid_bearer_key").error) = R(key, "invalid_bearer_key").error
    BY <1>1, BareIsPublic
  <2> HIDE DEF R
  <2> QED BY <1>1, <1>2, <1>3, <2>1, PublicFour
<1>5. Public(Routing(q))
  <2>1. /\ R(path, "not_found") \in Checks /\ PublicError(R(path, "not_found").error) = R(path, "not_found").error
        /\ R(method, "method_not_allowed") \in Checks
        /\ PublicError(R(method, "method_not_allowed").error) = R(method, "method_not_allowed").error
        /\ R(encoding, "unsupported_media_type") \in Checks
        /\ PublicError(R(encoding, "unsupported_media_type").error) = R(encoding, "unsupported_media_type").error
    BY <1>1, BareIsPublic
  <2> HIDE DEF R
  <2> QED BY <1>3, <2>1, PublicThree
<1>6. Public(<<R(json, "unsupported_media_type"), R(reader, "server_busy")>>)
  <2>1. /\ R(json, "unsupported_media_type") \in Checks
        /\ PublicError(R(json, "unsupported_media_type").error) = R(json, "unsupported_media_type").error
        /\ R(reader, "server_busy") \in Checks
        /\ PublicError(R(reader, "server_busy").error) = R(reader, "server_busy").error
    BY <1>1, BareIsPublic
  <2> HIDE DEF R
  <2> QED BY <2>1, PublicTwo
<1> HIDE DEF R
<1>7. Public(Admission(q) \o Routing(q))
  BY <1>4, <1>5, PublicJoin
<1> QED BY <1>3, <1>6, <1>7, PublicJoin, PublicNone

LEMMA ReadingIsPublic ==
  ASSUME NEW read \in Reads
  PROVE  Public(Reading(read))
<1> DEFINE R(c, code) == Refuse(c, code, "")
           late == read.failed /\ (read.ours \/ read.timeout)
           large == read.failed /\ read.tooLarge
<1>1. late \in BOOLEAN /\ large \in BOOLEAN /\ read.failed \in BOOLEAN
  BY DEF Reads
<1>2. Reading(read) = <<R(late, "request_timeout"), R(large, "request_too_large"),
                        R(read.failed, "invalid_json")>>
  BY DEF Reading
<1> HIDE DEF late, large
<1>3. /\ R(late, "request_timeout") \in Checks
      /\ PublicError(R(late, "request_timeout").error) = R(late, "request_timeout").error
      /\ R(large, "request_too_large") \in Checks
      /\ PublicError(R(large, "request_too_large").error) = R(large, "request_too_large").error
      /\ R(read.failed, "invalid_json") \in Checks
      /\ PublicError(R(read.failed, "invalid_json").error) = R(read.failed, "invalid_json").error
  BY <1>1, BareIsPublic
<1> HIDE DEF R
<1> QED BY <1>2, <1>3, PublicThree

LEMMA RefusalsArePublic ==
  ASSUME NEW q \in Asked, NEW e \in Refusals(q)
  PROVE  e \in Errors /\ PublicError(e) = e
<1>1. q.read \in Reads /\ q.body \in Bodies
  BY DEF Asked
<1>2. Public(Reading(q.read) \o Decoding(q.body))
  BY <1>1, ReadingIsPublic, DecodingIsPublic, PublicJoin
<1>3. e \in FirstError(Unread(q)) \/ e \in FirstError(Reading(q.read) \o Decoding(q.body))
  BY DEF Refusals
<1> QED BY <1>2, <1>3, UnreadIsPublic, FirstIsPublic

LEMMA NaturalsStartAtZero == \A n \in Nat : n >= 0
OBVIOUS

\* validRequestEvent, of the metadata and the code apart.
LEMMA MetaIsLogged ==
  ASSUME NEW endpoint \in {Responses, Models, "unmatched"}, NEW code, NEW status,
         (code = "" /\ status = 200) \/ (code # "" /\ code \in Codes /\ status = StatusOf[code]),
         NEW alias, NEW provider,
         (alias = "" /\ provider = "") \/ (alias \in AliasNames /\ provider \in ProviderNames),
         NEW sent \in Nat, NEW given \in Nat, NEW m, ValidMeta(m)
  PROVE  ValidEvent(Event(endpoint, status, code, alias, provider, sent, given, m))
<1> DEFINE e == Event(endpoint, status, code, alias, provider, sent, given, m)
<1>1. /\ e.endpoint = endpoint /\ e.status = status /\ e.code = code /\ e.alias = alias
      /\ e.provider = provider /\ e.input = sent /\ e.final = given
      /\ e.count = m.count /\ e.version = m.version /\ e.exit = m.exit /\ e.reason = m.reason
      /\ e.action = m.action
  BY DEF Event
<1>2. m.exit \in LoggedExits /\ m.reason \in LoggedReasons /\ m.action \in LoggedActions
  BY DEF ValidMeta, Exits, Reasons, Actions, LoggedExits, LoggedReasons, LoggedActions
<1>3. provider \in ProviderNames => provider \in LoggedProviders
  BY DEF ProviderNames, LoggedProviders
<1>4. (\A c \in Counts : m.count[c] >= 0) /\ m.version \in {""} \cup Versions
  BY DEF ValidMeta
<1> HIDE DEF e
<1>5. IF e.code = "" THEN e.status = 200 ELSE e.code \in Codes /\ e.status = StatusOf[e.code]
  BY <1>1
<1>6. \/ e.alias = "" /\ e.provider = ""
      \/ e.alias \in AliasNames /\ e.provider \in LoggedProviders
  BY <1>1, <1>3
<1>7. ValidEvent(e)
  <2>1. e.endpoint \in {Responses, Models, "unmatched"}
    BY <1>1, Zenon
  <2>4. sent >= 0 /\ given >= 0
    BY NaturalsStartAtZero, Zenon
  <2>5. e.input >= 0 /\ e.final >= 0
    BY <1>1, <2>4, Zenon
  <2>2. (\A c \in Counts : e.count[c] >= 0) /\ e.version \in {""} \cup Versions
    BY <1>1, <1>4
  <2>3. e.exit \in LoggedExits /\ e.reason \in LoggedReasons /\ e.action \in LoggedActions
    BY <1>1, <1>2
  <2> QED BY <1>5, <1>6, <2>1, <2>2, <2>3, <2>5 DEF ValidEvent
<1> QED BY <1>7 DEF e

LEMMA NoMetaIsValid == ValidMeta(NoMeta)
BY DEF ValidMeta, NoMeta, Exits, Reasons, Actions

LEMMA NamelessIsNoCode == "" \notin Codes
BY DEF Codes, StatusOf

\* The error that turns a request away reaches the client as it is: the response replaces
\* by internal_error no code and parameter that the decoder or the handler gives. The line
\* that is logged of it is one the logger accepts.
THEOREM RefusalsReachTheClient ==
  ASSUME NEW q \in Asked, NEW e \in Refusals(q)
  PROVE  PublicError(e) = e /\ Refusal(q, e).error = e /\ ValidEvent(Refusal(q, e).event)
<1>1. e \in Errors /\ PublicError(e) = e
  BY RefusalsArePublic
<1>2. e.code \in Codes /\ e.code # ""
  BY <1>1, NamelessIsNoCode DEF Errors
<1>3. Endpoint(q) \in {Responses, Models, "unmatched"}
  BY DEF Endpoint, Asked
<1>4. Refusal(q, e) = Reply(e, Event(Endpoint(q), StatusOf[e.code], e.code, "", "", 0, 0, NoMeta))
  BY <1>1 DEF Refusal
<1>5. ValidEvent(Event(Endpoint(q), StatusOf[e.code], e.code, "", "", 0, 0, NoMeta))
  <2> DEFINE point == Endpoint(q)
             status == StatusOf[e.code]
  <2>1. e.code # "" /\ e.code \in Codes /\ status = StatusOf[e.code]
    BY <1>2
  <2>2. point \in {Responses, Models, "unmatched"}
    BY <1>3
  <2> HIDE DEF point, status
  <2>3. ValidEvent(Event(point, status, e.code, "", "", 0, 0, NoMeta))
    BY <2>1, <2>2, MetaIsLogged, NoMetaIsValid, 0 \in Nat
  <2> QED BY <2>3 DEF point, status
<1> DEFINE event == Event(Endpoint(q), StatusOf[e.code], e.code, "", "", 0, 0, NoMeta)
<1> HIDE DEF event
<1>6. Refusal(q, e) = [error |-> e, event |-> event]
  BY <1>4 DEF Reply, event
<1>7. Refusal(q, e).error = e /\ Refusal(q, e).event = event
  BY <1>6
<1> QED BY <1>1, <1>5, <1>7 DEF event

LEMMA BytesOfValues ==
  ASSUME NEW v \in Values
  PROVE  v.bytes \in Nat /\ (v.is = "object" => v.bytes >= 2)
BY DEF Values

\* What DecodeRequest accepts is echoed: encodeSuccessResponse refuses no request that was
\* decoded, so no answer of a provider is lost to a format or a model that cannot be told.
THEOREM DecodedAreEchoed ==
  ASSUME NEW b \in Bodies, Failing(Decoding(b)) = {}
  PROVE  Echoes(Decoded(b))
<1>1. /\ b.at["model"].is = "string" /\ b.at["model"].bytes # 0
      /\ b.at["text"].is = "absent" \/ Failing(DecodeText(b)) = {}
  BY DecodingIsPublic
<1>2. "model" \in Fields /\ "text.format.schema" \in Fields
  BY DEF Fields, TopFields, SchemaFields
<1>3. b.at["model"] \in Values /\ b.at["text.format.schema"] \in Values
  BY <1>2 DEF Bodies
<1>4. b.at["model"].bytes > 0
  BY <1>1, <1>3, BytesOfValues
<1>5. b.at["text.format.schema"].is = "object" => b.at["text.format.schema"].bytes > 0
  <2>1. b.at["text.format.schema"].bytes \in Nat
        /\ (b.at["text.format.schema"].is = "object" => b.at["text.format.schema"].bytes >= 2)
    BY <1>3, BytesOfValues
  <2> QED BY <2>1
<1>6. Decoded(b).alias = b.at["model"]
  BY DEF Decoded
<1>7. CASE b.at["text"].is = "absent" \/ b.at["text.format.type"].says = "text"
  <2>1. Decoded(b).format = PlainText
    BY <1>7 DEF Decoded
  <2> QED BY <1>1, <1>4, <1>6, <2>1 DEF Echoes
<1>8. CASE ~(b.at["text"].is = "absent" \/ b.at["text.format.type"].says = "text")
  <2>1. b.at["text.format.name"].says \in FormatNames /\ b.at["text.format.schema"].is = "object"
    BY <1>1, <1>8, TextIsPublic
  <2>2. Decoded(b).format =
          [type |-> "json_schema", name |-> b.at["text.format.name"].says,
           description |-> b.at["text.format.description"], schema |-> b.at["text.format.schema"]]
    BY <1>8 DEF Decoded
  <2>3. /\ Decoded(b).format.type = "json_schema"
        /\ Decoded(b).format.name = b.at["text.format.name"].says
        /\ Decoded(b).format.schema = b.at["text.format.schema"]
    BY <2>2
  <2> QED BY <1>1, <1>4, <1>5, <1>6, <2>1, <2>3 DEF Echoes
<1> QED BY <1>7, <1>8

LEMMA ExitsAreKnown ==
  ASSUME NEW kind \in DOMAIN ExitOf
  PROVE  ExitOf[kind] \in Exits
<1>1. DOMAIN ExitOf = {"canceled", "timeout", "output_limit", "start", "cleanup"}
  BY DEF ExitOf
<1>2. /\ ExitOf["canceled"] = "canceled" /\ ExitOf["timeout"] = "timeout"
      /\ ExitOf["output_limit"] = "output_limit" /\ ExitOf["start"] = "start_failed"
      /\ ExitOf["cleanup"] = "cleanup_failed"
  BY DEF ExitOf
<1>3. \/ kind = "canceled" \/ kind = "timeout" \/ kind = "output_limit" \/ kind = "start" \/ kind = "cleanup"
  BY <1>1
<1>4. /\ "canceled" \in Exits /\ "timeout" \in Exits /\ "output_limit" \in Exits
      /\ "start_failed" \in Exits /\ "cleanup_failed" \in Exits
  BY DEF Exits
<1> QED BY <1>2, <1>3, <1>4

LEMMA ReasonsAreKnown ==
  ASSUME NEW reason \in DOMAIN ReasonOf
  PROVE  ReasonOf[reason] \in Reasons
<1>1. DOMAIN ReasonOf = {"normal_exit", "caller_cancellation", "supervisor_timeout", "output_overflow",
                        "cleanup_failure"}
  BY DEF ReasonOf
<1>2. /\ ReasonOf["normal_exit"] = "completed" /\ ReasonOf["caller_cancellation"] = "client_canceled"
      /\ ReasonOf["supervisor_timeout"] = "execution_timeout"
      /\ ReasonOf["output_overflow"] = "output_limit" /\ ReasonOf["cleanup_failure"] = "cleanup_failed"
  BY DEF ReasonOf
<1>3. \/ reason = "normal_exit" \/ reason = "caller_cancellation" \/ reason = "supervisor_timeout"
      \/ reason = "output_overflow" \/ reason = "cleanup_failure"
  BY <1>1
<1>4. /\ "completed" \in Reasons /\ "client_canceled" \in Reasons /\ "execution_timeout" \in Reasons
      /\ "output_limit" \in Reasons /\ "cleanup_failed" \in Reasons
  BY DEF Reasons
<1> QED BY <1>2, <1>3, <1>4

LEMMA TextsHold ==
  /\ \A x \in Exits : x \in Texts
  /\ \A x \in Reasons : x \in Texts
  /\ \A x \in Actions : x \in Texts
BY DEF Texts

\* What applyProcessMetadata writes of a run, and what a shutdown adds to it.
LEMMA AppliedIsValid ==
  ASSUME NEW m \in Metas, ValidMeta(m), NEW result \in Results, NEW kind, Applies(result, kind)
  PROVE  ValidMeta(Applied(m, result, kind)) /\ Applied(m, result, kind) \in Metas
<1> DEFINE exit == IF kind # "none" THEN ExitOf[kind] ELSE IF result.code = 0 THEN "completed" ELSE "nonzero_exit"
           reason == ReasonOf[result.reason]
           count == [m.count EXCEPT !["stdout"] = result.stdout, !["stderr"] = result.stderr]
           n == [provider |-> m.provider, count |-> count, version |-> m.version, exit |-> exit,
                 reason |-> reason, action |-> result.action]
<1>1. reason \in Reasons /\ result.action \in Actions
  BY ReasonsAreKnown DEF Applies
<1>2. exit \in Exits
  <2>1. CASE kind # "none"
    <3>1. kind \in DOMAIN ExitOf
      BY <2>1 DEF Applies
    <3> QED BY <2>1, <3>1, ExitsAreKnown
  <2>2. CASE kind = "none"
    BY <2>2 DEF Exits
  <2> QED BY <2>1, <2>2
<1>3. m.count \in [Counts -> Int] /\ (\A c \in Counts : m.count[c] >= 0)
  BY DEF Metas, ValidMeta
<1>4. result.stdout \in Int /\ result.stderr \in Int /\ result.heldOut \in Nat /\ result.heldErr \in Nat
      /\ result.stdout >= result.heldOut /\ result.stderr >= result.heldErr
  BY DEF Applies, Results
<1>5. count \in [Counts -> Int] /\ (\A c \in Counts : count[c] >= 0)
  <2>1. count \in [Counts -> Int]
    BY <1>3, <1>4
  <2>2. ASSUME NEW c \in Counts PROVE count[c] >= 0
    <3>1. CASE c = "stderr"
      BY <1>3, <1>4, <3>1
    <3>2. CASE c = "stdout"
      BY <1>3, <1>4, <3>2
    <3>3. CASE c # "stderr" /\ c # "stdout"
      BY <1>3, <3>3
    <3> QED BY <3>1, <3>2, <3>3
  <2> QED BY <2>1, <2>2
<1>6. Applied(m, result, kind) = [m EXCEPT !.count = count, !.reason = reason, !.action = result.action, !.exit = exit]
  BY DEF Applied
<1>7. m.provider \in Texts /\ m.version \in Texts
  BY DEF Metas
<1>8. m.provider \in {""} \cup ProviderNames /\ m.version \in {""} \cup Versions
  BY DEF ValidMeta
<1> HIDE DEF exit, reason, count
<1>9. Applied(m, result, kind) = n
  BY <1>6 DEF Metas
<1>10. n \in Metas
  BY <1>1, <1>2, <1>5, <1>7, TextsHold DEF Metas
<1>11. ValidMeta(n)
  <2>1. /\ n.provider = m.provider /\ n.count = count /\ n.version = m.version /\ n.exit = exit
        /\ n.reason = reason /\ n.action = result.action
    OBVIOUS
  <2> HIDE DEF n
  <2> QED BY <1>1, <1>2, <1>5, <1>8, <2>1 DEF ValidMeta
<1> HIDE DEF n
<1> QED BY <1>9, <1>10, <1>11

LEMMA NormalizedIsValid ==
  ASSUME NEW m \in Metas, ValidMeta(m), NEW admitted, NEW why
  PROVE  ValidMeta(Normalized(m, admitted, why))
<1> DEFINE n == [m EXCEPT !.reason = "gateway_shutdown"]
<1>1. /\ n.count = m.count /\ n.action = m.action /\ n.exit = m.exit /\ n.provider = m.provider
      /\ n.version = m.version /\ n.reason = "gateway_shutdown"
  BY DEF Metas
<1>2. "gateway_shutdown" \in Reasons
  BY DEF Reasons
<1>3. ValidMeta(n)
  <2> HIDE DEF n
  <2> QED BY <1>1, <1>2 DEF ValidMeta
<1> QED BY <1>3 DEF Normalized

\* No outcome of a process is lost to its metadata: the counts, the exit, the reason and
\* the action that the runner reports, together with the reason a shutdown puts in, pass the
\* checks of NewOutcomeError, so that Respond returns the cause it classified.
THEOREM RunsAreReported ==
  ASSUME NEW m \in Metas, ValidMeta(m), NEW result \in Results, NEW kind, Applies(result, kind),
         NEW why, NEW admitted \in BOOLEAN
  PROVE  LET n == Normalized(Applied(m, result, kind), admitted, why) IN
         Outcome(why, n) = [cause |-> why, metas |-> {n}]
<1>1. ValidMeta(Applied(m, result, kind)) /\ Applied(m, result, kind) \in Metas
  BY AppliedIsValid
<1>2. ValidMeta(Normalized(Applied(m, result, kind), admitted, why))
  BY <1>1, NormalizedIsValid
<1> QED BY <1>2 DEF Outcome

\* The error a client reads for a cause: its code is in the catalog.
LEMMA CausesArePublic ==
  ASSUME NEW why
  PROVE  /\ PublicCause(why).code \in Codes /\ PublicCause(why).param = ""
         /\ why \in Codes => PublicCause(why).code = why
<1>1. ASSUME NEW code \in Codes PROVE Error(code, "").code = code /\ Error(code, "").param = ""
  BY DEF Error
<1>2. "internal_error" \in Codes /\ "request_timeout" \in Codes /\ "context_deadline" \notin Codes
  BY DEF Codes, StatusOf
<1>3. ASSUME NEW code \in Codes PROVE PublicError(Error(code, "")) = Error(code, "")
  BY <1>1 DEF PublicError
<1>4. CASE why = "context_deadline"
  <2>1. PublicCause(why) = Error("request_timeout", "")
    BY <1>4 DEF PublicCause
  <2> QED BY <1>1, <1>2, <1>4, <2>1
<1>5. CASE why # "context_deadline" /\ why \in Codes
  <2>1. PublicCause(why) = Error(why, "")
    BY <1>3, <1>5 DEF PublicCause
  <2> QED BY <1>1, <1>5, <2>1
<1>6. CASE why # "context_deadline" /\ why \notin Codes
  <2>1. PublicCause(why) = Error("internal_error", "")
    BY <1>6 DEF PublicCause, InternalError
  <2> QED BY <1>1, <1>2, <1>6, <2>1
<1> QED BY <1>4, <1>5, <1>6

\* loggingIdentity gives both names or none.
LEMMA NamesAreKnown ==
  ASSUME NEW request
  PROVE  (Alias(request) = "" /\ Provider(request) = "")
         \/ (Alias(request) \in AliasNames /\ Provider(request) \in ProviderNames)
BY RepliesAssumption DEF Alias, Provider

LEMMA InputsAreCounted ==
  ASSUME NEW q \in Asked
  PROVE  Decoded(q.body).input.bytes \in Nat
<1>1. q.body \in Bodies /\ "input" \in Fields
  BY DEF Asked, Fields, TopFields
<1>2. q.body.at["input"] \in Values
  BY <1>1 DEF Bodies
<1>3. Decoded(q.body).input = q.body.at["input"]
  BY DEF Decoded
<1> QED BY <1>2, <1>3, BytesOfValues

\* The reply to an error of Respond: the line logged for it is one that the logger accepts,
\* with the status and the code that the client reads, and with what the cause says when it
\* is a code of the catalog. A status, a name or a value that the response and the log
\* would each hold in a list of their own is never in one of them only.
THEOREM FailuresAreReported ==
  ASSUME NEW q \in Asked, NEW outcome \in Outcomes
  PROVE  LET reply == Failure(q, outcome) IN
         /\ ValidEvent(reply.event)
         /\ reply.event.code = reply.error.code /\ reply.event.status = StatusOf[reply.error.code]
         /\ outcome.cause \in Codes => reply.error.code = outcome.cause
<1> DEFINE r == Decoded(q.body)
           e == PublicCause(outcome.cause)
           m == IF outcome.metas = {} THEN NoMeta ELSE CHOOSE x \in outcome.metas : TRUE
           event == Event(Responses, StatusOf[e.code], e.code, Alias(r), Provider(r), r.input.bytes, 0, m)
<1>1. Failure(q, outcome) = [error |-> e, event |-> event]
  BY DEF Failure, Reply
<1>2. e.code \in Codes /\ e.code # "" /\ (outcome.cause \in Codes => e.code = outcome.cause)
  BY CausesArePublic, NamelessIsNoCode
<1>3. ValidMeta(m)
  <2>1. CASE outcome.metas = {}
    BY <2>1, NoMetaIsValid
  <2>2. CASE outcome.metas # {}
    <3>1. PICK c \in LateCauses, n \in Metas : outcome = Outcome(c, n)
      BY <2>2 DEF Outcomes
    <3>2. ValidMeta(n) /\ outcome.metas = {n}
      BY <2>2, <3>1 DEF Outcome
    <3>3. m = n
      BY <3>2
    <3> QED BY <3>2, <3>3
  <2> QED BY <2>1, <2>2
<1>4. r.input.bytes \in Nat
  BY InputsAreCounted
<1>5. (Alias(r) = "" /\ Provider(r) = "") \/ (Alias(r) \in AliasNames /\ Provider(r) \in ProviderNames)
  BY NamesAreKnown
<1> HIDE DEF e, m, r
<1>6. ValidEvent(event)
  <2> DEFINE status == StatusOf[e.code]
  <2>1. e.code # "" /\ e.code \in Codes /\ status = StatusOf[e.code]
    BY <1>2
  <2>2. Responses \in {Responses, Models, "unmatched"} /\ 0 \in Nat
    OBVIOUS
  <2> HIDE DEF status
  <2>3. ValidEvent(Event(Responses, status, e.code, Alias(r), Provider(r), r.input.bytes, 0, m))
    BY <1>3, <1>4, <1>5, <2>1, <2>2, MetaIsLogged
  <2> QED BY <2>3 DEF status
<1>7. event.code = e.code /\ event.status = StatusOf[e.code]
  BY DEF Event
<1> HIDE DEF event
<1>8. Failure(q, outcome).error = e /\ Failure(q, outcome).event = event
  BY <1>1
<1> QED BY <1>2, <1>6, <1>7, <1>8

\* The reply to a result of Respond, whether it can be told or not: the line logged for it is
\* one that the logger accepts, with the code that the client reads, if there is one.
THEOREM ResultsAreReported ==
  ASSUME NEW q \in Asked, NEW text \in [utf8 : BOOLEAN, bytes : Nat], NEW ids \in BOOLEAN,
         NEW m \in Metas, ValidMeta(m)
  PROVE  LET reply == Success(q, text, ids, m) IN
         ValidEvent(reply.event) /\ reply.event.code = reply.error.code
<1> DEFINE r == Decoded(q.body)
           event == Event(Responses, 200, "", Alias(r), Provider(r), r.input.bytes, text.bytes, m)
<1>1. CASE Encodes(text, ids)
  <2>1. Success(q, text, ids, m) = [error |-> NoError, event |-> event]
    BY <1>1 DEF Success, Reply
  <2>2. r.input.bytes \in Nat /\ text.bytes \in Nat
    BY InputsAreCounted
  <2>3. (Alias(r) = "" /\ Provider(r) = "") \/ (Alias(r) \in AliasNames /\ Provider(r) \in ProviderNames)
    BY NamesAreKnown
  <2> HIDE DEF r
  <2>4. ValidEvent(event)
    <3> DEFINE alias == Alias(r)
               provider == Provider(r)
               sent == r.input.bytes
               given == text.bytes
               code == ""
               status == 200
    <3>1. Responses \in {Responses, Models, "unmatched"}
      OBVIOUS
    <3>2. /\ sent \in Nat /\ given \in Nat
          /\ (alias = "" /\ provider = "") \/ (alias \in AliasNames /\ provider \in ProviderNames)
      BY <2>2, <2>3
    <3>3. code = "" /\ status = 200
      OBVIOUS
    <3> HIDE DEF alias, provider, sent, given, code, status, event
    <3>4. ValidEvent(Event(Responses, status, code, alias, provider, sent, given, m))
      BY <3>1, <3>2, <3>3, MetaIsLogged, ZenonT(40)
    <3> QED BY <3>4 DEF alias, provider, sent, given, code, status, event
  <2>5. event.code = "" /\ NoError.code = ""
    BY DEF Event, NoError
  <2> HIDE DEF event
  <2>6. Success(q, text, ids, m).error = NoError /\ Success(q, text, ids, m).event = event
    BY <2>1
  <2> QED BY <2>4, <2>5, <2>6
<1>2. CASE ~Encodes(text, ids)
  <2> DEFINE lost == [cause |-> "internal_error", metas |-> {}]
  <2>1. lost \in Outcomes
    BY DEF Outcomes, EarlyCauses
  <2>2. Success(q, text, ids, m) = Failure(q, lost)
    BY <1>2 DEF Success
  <2> HIDE DEF lost
  <2> QED BY <2>1, <2>2, FailuresAreReported
<1> QED BY <1>1, <1>2

\* A request that is not answered with a result, from the gateway to its client: the client is
\* told what ended it, by a code of its own, unless something is wrong inside or nobody reads.
Told ==
  \A r \in Requests :
    answer[r] \notin {"none", "ok"} =>
      /\ answer[r] \in DOMAIN CausesOf
      /\ \A why \in CausesOf[answer[r]] :
           PublicCause(why).code = "internal_error" => answer[r] = "internal" \/ r \in gone

LEMMA TypedIsTold ==
  ASSUME TypeOK, StopsAreHonest
  PROVE  Told
<1>1. DOMAIN CausesOf =
        {"shutting_down", "rejected", "not_ready", "canceled", "queue_full", "queue_timeout", "timeout",
         "output_limit", "cleanup_failed", "provider", "internal"}
  BY DEF CausesOf
<1> SUFFICES ASSUME NEW r \in Requests, answer[r] \notin {"none", "ok"}
    PROVE  /\ answer[r] \in DOMAIN CausesOf
           /\ \A why \in CausesOf[answer[r]] :
                PublicCause(why).code = "internal_error" => answer[r] = "internal" \/ r \in gone
  BY DEF Told
<1>2. answer[r] \in DOMAIN CausesOf
  BY <1>1 DEF TypeOK, Answers, Causes
<1>3. CASE answer[r] \in {"internal", "canceled"}
  BY <1>2, <1>3 DEF StopsAreHonest
<1>4. CASE answer[r] \notin {"internal", "canceled"}
  <2>1. ASSUME NEW why \in CausesOf[answer[r]] PROVE why \in Codes /\ why # "internal_error"
    BY <1>1, <1>2, <1>4 DEF CausesOf, Codes, StatusOf
  <2> QED BY <1>2, <2>1, CausesArePublic
<1> QED BY <1>3, <1>4

\* Respond's outcomes and publicAPIError together: a busy queue, a timeout, a provider that is
\* not ready, a cleanup that failed or a shutdown is told to the client as what it is.
THEOREM StopsAreTold == Spec => []Told
<1>1. TypeOK /\ StopsAreHonest => Told
  BY TypedIsTold
<1>2. IInv => TypeOK /\ StopsAreHonest
  BY DEF IInv
<1> QED BY <1>1, <1>2, Inductive, PTL

-----------------------------------------------------------------------------
\* The adapters.

LEMMA FaultFields ==
  /\ \A c : Fault(c).category = (IF c \in ErrorCategories THEN c ELSE "failed")
  /\ \A t : Answer(t).category = "none" /\ Answer(t).text = t
BY DEF Fault, Answer

\* What Parse may say that a run failed for, by adapter.
Believed(p, o, category) ==
  /\ category \in ErrorCategories
  /\ category \in {"auth_required", "rate_limited"} => p = "claude" /\ o.envelope.at["is_error"].says # "false"

\* Parse: a text is an answer only if nothing in the output says that something went wrong, the exit
\* of the process included, and it is the text the provider calls its result; a login or a limit is
\* blamed on the provider only by an envelope that calls itself an error.
THEOREM AnswersAreWhole ==
  ASSUME NEW p \in ProviderNames, NEW o
  PROVE  IF Parse(p, o).category = "none"
         THEN ~Complains(p, o) /\ Parse(p, o).text = Final(p, o)
         ELSE Believed(p, o, Parse(p, o).category)
<1>1. CASE p = "codex"
  <2>1. Parse(p, o) = CodexParse(o)
    BY <1>1 DEF Parse
  <2> QED BY <1>1, <2>1, FaultFields DEF CodexParse, Believed, Complains, Final, ErrorCategories
<1>2. CASE p = "claude"
  <2>1. Parse(p, o) = ClaudeParse(o)
    BY <1>2 DEF Parse
  <2> DEFINE e == o.envelope
             kind == ParseEnvelope(e)
  <2>2. kind = "success" => /\ ~Has(e, "errors") /\ ~Has(e, "api_error_status")
                            /\ e.at["is_error"].says = "false"
    BY DEF ParseEnvelope, SuccessEnvelope
  <2>3. kind \in {"auth_required", "rate_limited"} => e.at["is_error"].says # "false"
    BY DEF ParseEnvelope, SuccessEnvelope
  <2> HIDE DEF kind
  <2>4. ClaudeParse(o) = IF kind \in {"auth_required", "rate_limited"} THEN Fault(kind)
                         ELSE IF o.exit # 0 \/ kind = "failed" THEN Fault("failed")
                         ELSE IF kind = "success" THEN Answer(e.at["result"].says) ELSE Fault("protocol")
    BY DEF ClaudeParse, kind
  <2>5. CASE kind \in {"auth_required", "rate_limited"}
    BY <1>2, <2>1, <2>3, <2>4, <2>5, FaultFields DEF Believed, ErrorCategories
  <2>6. CASE kind \notin {"auth_required", "rate_limited"}
    BY <1>2, <2>1, <2>2, <2>4, <2>6, FaultFields DEF Believed, ErrorCategories, Complains, Final
  <2> QED BY <2>5, <2>6
<1>3. CASE p = "gemini"
  <2>1. Parse(p, o) = GeminiParse(o)
    BY <1>3 DEF Parse
  <2> DEFINE e == o.envelope
             shaped == /\ Objects(e) /\ ~e.strange
                       /\ \A f \in EnvelopeFields :
                            IF f \in DOMAIN GeminiFields THEN e.at[f].is \in GeminiFields[f] ELSE ~Has(e, f)
  <2>2. GeminiParse(o) =
          IF o.exit # 0 THEN Fault("failed")
          ELSE IF ~shaped THEN Fault("protocol")
          ELSE IF Has(e, "error")
               THEN IF Is(e, "error", "object") /\ e.at["response"].is \in {"absent", "string"}
                    THEN Fault("failed") ELSE Fault("protocol")
          ELSE IF Is(e, "response", "string") THEN Answer(e.at["response"].says) ELSE Fault("protocol")
    BY DEF GeminiParse
  <2> HIDE DEF shaped
  <2> QED BY <1>3, <2>1, <2>2, FaultFields DEF Believed, ErrorCategories, Complains, Final
<1> QED BY <1>1, <1>2, <1>3 DEF ProviderNames

\* classifyProviderError: what Parse says is one of the causes Respond has for a provider, and the
\* client is told it by a code of its own.
THEOREM FaultsAreTold ==
  ASSUME NEW p \in ProviderNames, NEW o, Parse(p, o).category # "none"
  PROVE  /\ CauseOfFault[Parse(p, o).category] \in CausesOf["provider"]
         /\ PublicCause(CauseOfFault[Parse(p, o).category]).code = CauseOfFault[Parse(p, o).category]
<1> DEFINE c == Parse(p, o).category
<1>1. c \in ErrorCategories
  BY AnswersAreWhole DEF Believed
<1> HIDE DEF c
<1>2. CauseOfFault[c] \in CausesOf["provider"] /\ CauseOfFault[c] \in Codes
  BY <1>1 DEF ErrorCategories, CauseOfFault, CausesOf, Codes, StatusOf
<1>3. PublicCause(CauseOfFault[c]).code = CauseOfFault[c]
  BY <1>2, CausesArePublic
<1> QED BY <1>2, <1>3 DEF c

\* BuildEnv: the environment of the child has the values the adapter fixes, and what it looks up
\* by name; no other variable of the gateway has a part in it.
THEOREM EnvironmentsAreClosed ==
  ASSUME NEW p \in ProviderNames, NEW cfg, NEW other, NEW dir, NEW purpose,
         SameButLookup(cfg, other)
  PROVE  Environment(p, cfg, dir, purpose) = Environment(p, other, dir, purpose)
<1>1. Elements(cfg.credentials) = Elements(other.credentials)
  BY DEF SameButLookup
<1>2. Copied(p, cfg, purpose) = Copied(p, other, purpose) /\ Copied(p, cfg, purpose) \subseteq Visible(cfg)
  BY <1>1 DEF Copied, Visible
<1>3. Required(p, cfg) = Required(p, other) /\ Required(p, cfg) \subseteq Visible(cfg)
  BY <1>1 DEF Required, Visible, SameButLookup
<1>4. \A n \in Visible(cfg) : cfg.lookup[n] = other.lookup[n]
  BY DEF SameButLookup
<1>5. Own(p, cfg, dir) = Own(p, other, dir)
  BY DEF Own, SameButLookup
<1>6. [n \in Copied(p, cfg, purpose) |-> cfg.lookup[n]] = [n \in Copied(p, other, purpose) |-> other.lookup[n]]
  BY <1>2, <1>4
<1>7. Fixed(p, cfg, dir, purpose) = Fixed(p, other, dir, purpose)
  BY <1>5, <1>6 DEF Fixed
<1> DEFINE fixed == Fixed(p, cfg, dir, purpose)
           required == Required(p, cfg)
<1>8. Environment(p, cfg, dir, purpose) = EnvOf(fixed, cfg.path, required, cfg)
  BY DEF Environment
<1>9. Environment(p, other, dir, purpose) = EnvOf(fixed, cfg.path, required, other)
  BY <1>3, <1>7 DEF Environment, SameButLookup
<1>10. Looked(required) \subseteq Visible(cfg)
  BY <1>3 DEF Looked
<1> HIDE DEF fixed, required
<1>11. EnvOf(fixed, cfg.path, required, cfg) = EnvOf(fixed, cfg.path, required, other)
  BY <1>4, <1>10 DEF EnvOf
<1> QED BY <1>8, <1>9, <1>11

\* The names an adapter gives a value of its own.
Named(p, cfg, dir) == {"PATH"} \cup DOMAIN Own(p, cfg, dir) \cup DOMAIN Always(dir)

\* An environment has these, and what is copied or looked up is as the gateway has it.
Explained(p, cfg, dir, purpose) ==
  /\ DOMAIN Environment(p, cfg, dir, purpose)
       = Named(p, cfg, dir) \cup Copied(p, cfg, purpose) \cup Looked(Required(p, cfg))
  /\ \A n \in (Copied(p, cfg, purpose) \cup Looked(Required(p, cfg))) \ Named(p, cfg, dir) :
       Environment(p, cfg, dir, purpose)[n] = cfg.lookup[n]

LEMMA EnvironmentsAreExplained ==
  ASSUME NEW p \in ProviderNames, NEW cfg, NEW dir, NEW purpose
  PROVE  Explained(p, cfg, dir, purpose)
<1> DEFINE own == Own(p, cfg, dir)
           always == Always(dir)
           copied == Copied(p, cfg, purpose)
           copy == [n \in copied |-> cfg.lookup[n]]
           looked == Looked(Required(p, cfg))
           fixed == Fixed(p, cfg, dir, purpose)
           env == Environment(p, cfg, dir, purpose)
<1>1. /\ env = [n \in {"PATH"} \cup DOMAIN fixed \cup looked |->
                 IF n = "PATH" THEN cfg.path ELSE IF n \in DOMAIN fixed THEN fixed[n] ELSE cfg.lookup[n]]
  BY DEF Environment, EnvOf
<1>2. fixed = [n \in (DOMAIN own \cup DOMAIN always) \cup copied |->
                IF n \in DOMAIN own \cup DOMAIN always
                THEN (IF n \in DOMAIN own THEN own[n] ELSE always[n]) ELSE cfg.lookup[n]]
  <2> DEFINE both == Over(own, always)
  <2>1. fixed = Over(both, copy)
    BY DEF Fixed
  <2> HIDE DEF own, always, fixed, copied
  <2>2. /\ DOMAIN both = DOMAIN own \cup DOMAIN always
        /\ \A n \in DOMAIN both : both[n] = IF n \in DOMAIN own THEN own[n] ELSE always[n]
    BY DEF Over
  <2>3. DOMAIN copy = copied /\ \A n \in copied : copy[n] = cfg.lookup[n]
    OBVIOUS
  <2> HIDE DEF both, copy
  <2> QED BY <2>1, <2>2, <2>3 DEF Over
<1> HIDE DEF own, always, copied, looked, fixed, env
<1> DEFINE named == {"PATH"} \cup DOMAIN own \cup DOMAIN always
<1>3. /\ DOMAIN env = named \cup copied \cup looked
      /\ \A n \in (copied \cup looked) \ named : env[n] = cfg.lookup[n]
  BY <1>1, <1>2
<1> QED BY <1>3 DEF Explained, Named, own, always, copied, looked, env

LEMMA OwnIsNoCredential ==
  ASSUME NEW p \in ProviderNames, NEW cfg, NEW dir
  PROVE  ({"SystemRoot"} \cup Named(p, cfg, dir)) \cap CredentialNames = {}
<1>1. CredentialNames = {"ANTHROPIC_API_KEY", "GEMINI_API_KEY", "GOOGLE_API_KEY",
                         "GOOGLE_APPLICATION_CREDENTIALS", "GOOGLE_CLOUD_PROJECT", "GOOGLE_CLOUD_LOCATION"}
  BY DEF CredentialNames, Profiles, ServiceAccount
<1>2. DOMAIN Always(dir) = {"HOME", "TEMP", "TMP", "TMPDIR", "NO_COLOR"}
  BY DEF Always, Over
<1>3. DOMAIN Own(p, cfg, dir) \in
        {{"CODEX_HOME"},
         {"CLAUDE_CODE_DISABLE_NONESSENTIAL_TRAFFIC", "CLAUDE_CODE_DISABLE_OFFICIAL_MARKETPLACE_AUTOINSTALL",
          "CLAUDE_CODE_DISABLE_TERMINAL_TITLE", "CLAUDE_CODE_SKIP_PROMPT_HISTORY",
          "CLAUDE_CODE_TMPDIR", "CLAUDE_CONFIG_DIR"},
         {"GEMINI_CLI_HOME", "GEMINI_CLI_SYSTEM_DEFAULTS_PATH", "GEMINI_CLI_SYSTEM_SETTINGS_PATH"}}
  <2>1. CASE p = "codex"
    BY <2>1 DEF Own
  <2>2. CASE p = "claude"
    BY <2>2 DEF Own, Over
  <2>3. CASE p = "gemini"
    BY <2>3 DEF Own
  <2> QED BY <2>1, <2>2, <2>3 DEF ProviderNames
<1> QED BY <1>1, <1>2, <1>3 DEF Named

LEMMA ChosenAreCredentials ==
  ASSUME NEW p \in ProviderNames, NEW names, CredentialSelection(p, names)
  PROVE  Elements(names) \subseteq CredentialNames /\ (p = "codex" => Elements(names) = {})
<1>1. CASE p = "codex"
  BY <1>1 DEF CredentialSelection, Elements
<1>2. CASE p = "claude"
  BY <1>2 DEF CredentialSelection, Elements, CredentialNames
<1>3. CASE p = "gemini"
  BY <1>3 DEF CredentialSelection, SelectsProfile, CredentialNames
<1> QED BY <1>1, <1>2, <1>3 DEF ProviderNames

\* Build: a child gets the credentials the configuration names for its provider, as the gateway
\* has them, and no other.
THEOREM CredentialsAreChosen ==
  ASSUME NEW p \in ProviderNames, NEW q, NEW model, NEW cfg, NEW dir,
         NEW command \in Build(p, q, model, cfg, dir)
  PROVE  /\ DOMAIN command.env \cap CredentialNames = Elements(cfg.credentials)
         /\ \A n \in Elements(cfg.credentials) : command.env[n] = cfg.lookup[n]
<1> DEFINE env == Environment(p, cfg, dir, "run")
           chosen == Elements(cfg.credentials)
           named == Named(p, cfg, dir)
           copied == Copied(p, cfg, "run")
           looked == Looked(Required(p, cfg))
<1>1. command.env = env /\ CredentialSelection(p, cfg.credentials)
  <2>1. Buildable(p, q, model, cfg, dir)
    BY DEF Build
  <2>2. PICK stdin : command = [executable |-> cfg.executable, args |-> Args(p, q, model, cfg, dir), dir |-> dir,
                                env |-> env, stdin |-> stdin, files |-> FilesOf(p, q, cfg)]
    BY DEF Build
  <2> HIDE DEF env
  <2> QED BY <2>1, <2>2 DEF Buildable
<1>2. /\ DOMAIN env = named \cup copied \cup looked
      /\ \A n \in (copied \cup looked) \ named : env[n] = cfg.lookup[n]
  <2>1. Explained(p, cfg, dir, "run")
    BY EnvironmentsAreExplained
  <2> QED BY ONLY <2>1 DEF Explained
<1>3. ({"SystemRoot"} \cup named) \cap CredentialNames = {}
  BY OwnIsNoCredential
<1>4. chosen \subseteq CredentialNames /\ (p = "codex" => chosen = {})
  BY <1>1, ChosenAreCredentials
<1>5. /\ p = "gemini" => copied = chosen /\ looked \subseteq {"SystemRoot"}
      /\ p = "claude" => copied = {} /\ looked \ {"SystemRoot"} = chosen \ {"PATH", "SystemRoot"}
      /\ p = "codex" => copied = {} /\ looked \subseteq {"SystemRoot"}
  BY DEF Copied, Required, Looked
<1>6. "PATH" \in named
  BY DEF Named
<1> HIDE DEF env, chosen, named, copied, looked
<1>7. DOMAIN env \cap CredentialNames = chosen /\ \A n \in chosen : env[n] = cfg.lookup[n]
  BY <1>2, <1>3, <1>4, <1>5, <1>6 DEF ProviderNames
<1> QED BY <1>1, <1>7 DEF chosen

LEMMA ElementsOfTwo ==
  ASSUME NEW S, NEW a, NEW b, a \in Seq(S), b \in Seq(S)
  PROVE  a \o b \in Seq(S) /\ Elements(a \o b) = Elements(a) \cup Elements(b)
<1>1. /\ a \o b \in Seq(S) /\ Len(a \o b) = Len(a) + Len(b)
      /\ \A i \in 1..Len(a) : (a \o b)[i] = a[i]
      /\ \A i \in 1..Len(b) : (a \o b)[Len(a) + i] = b[i]
  BY ConcatProperties
<1>2. /\ DOMAIN a = 1..Len(a) /\ DOMAIN b = 1..Len(b) /\ DOMAIN (a \o b) = 1..Len(a \o b)
      /\ Len(a) \in Nat /\ Len(b) \in Nat
  BY <1>1, LenProperties
<1> DEFINE ab == a \o b
<1>3. ab \in Seq(S) /\ Len(ab) = Len(a) + Len(b) /\ DOMAIN ab = 1..Len(ab)
  BY <1>1, <1>2
<1>4. /\ \A i \in 1..Len(a) : ab[i] = a[i]
      /\ \A i \in 1..Len(b) : ab[Len(a) + i] = b[i]
  BY <1>1
<1> HIDE DEF ab
<1>5. Elements(ab) \subseteq Elements(a) \cup Elements(b)
  <2> SUFFICES ASSUME NEW i \in 1..Len(ab) PROVE ab[i] \in Elements(a) \cup Elements(b)
    BY <1>3 DEF Elements
  <2>1. CASE i \in 1..Len(a)
    BY <1>2, <1>4, <2>1 DEF Elements
  <2>2. CASE i \notin 1..Len(a)
    <3>1. i - Len(a) \in 1..Len(b) /\ Len(a) + (i - Len(a)) = i
      BY <1>2, <1>3, <2>2
    <3>2. ab[i] = b[i - Len(a)]
      BY <1>4, <3>1
    <3> QED BY <1>2, <3>1, <3>2 DEF Elements
  <2> QED BY <2>1, <2>2
<1>6. Elements(a) \subseteq Elements(ab) /\ Elements(b) \subseteq Elements(ab)
  <2>1. ASSUME NEW i \in 1..Len(a) PROVE a[i] \in Elements(ab)
    <3>1. i \in 1..Len(ab) /\ ab[i] = a[i]
      BY <1>2, <1>3, <1>4
    <3> QED BY <1>3, <3>1 DEF Elements
  <2>2. ASSUME NEW i \in 1..Len(b) PROVE b[i] \in Elements(ab)
    <3>1. Len(a) + i \in 1..Len(ab) /\ ab[Len(a) + i] = b[i]
      BY <1>2, <1>3, <1>4
    <3> QED BY <1>3, <3>1 DEF Elements
  <2> QED BY <1>2, <2>1, <2>2 DEF Elements
<1> QED BY <1>3, <1>5, <1>6 DEF ab

LEMMA DisabledAreHardened == DOMAIN Disabled = 1..16 /\ Elements(Disabled) = HardeningFeatures
<1>1. DOMAIN Disabled = 1..16
  BY DEF Disabled
<1>2. \A i \in 1..16 : i \in {1, 2, 3, 4, 5, 6, 7, 8, 9, 10, 11, 12, 13, 14, 15, 16}
  OBVIOUS
<1>3. Elements(Disabled) \subseteq HardeningFeatures
  BY <1>1, <1>2 DEF Elements, Disabled, HardeningFeatures
<1>4. HardeningFeatures \subseteq Elements(Disabled)
  BY <1>1, <1>2 DEF Elements, Disabled, HardeningFeatures
<1> QED BY <1>1, <1>3, <1>4

\* The options of a list are among these, whose flags Probe has seen.
Seen(p, args, S) == args \in Seq(S) /\ Elements(args) \subseteq S /\ \A option \in S : option[1] \in Probed(p)
AllSeen(p, args) == \E S : Seen(p, args, S)

LEMMA SeenTwice ==
  ASSUME NEW p, NEW a, NEW b, AllSeen(p, a), AllSeen(p, b)
  PROVE  /\ AllSeen(p, a \o b)
         /\ \A x : x \in Elements(a) \/ x \in Elements(b) => x \in Elements(a \o b)
<1>1. PICK S : Seen(p, a, S)
  BY DEF AllSeen
<1>2. PICK T : Seen(p, b, T)
  BY DEF AllSeen
<1> DEFINE U == S \cup T
<1>3. a \in Seq(U) /\ b \in Seq(U)
  BY <1>1, <1>2, SeqMonotonic DEF Seen
<1> HIDE DEF U
<1>4. a \o b \in Seq(U) /\ Elements(a \o b) = Elements(a) \cup Elements(b)
  BY <1>3, ElementsOfTwo
<1>5. Seen(p, a \o b, U)
  BY <1>1, <1>2, <1>4 DEF U, Seen
<1> QED BY <1>4, <1>5 DEF AllSeen

LEMMA ClaudeOptions ==
  \E S : /\ FixedArgs["claude"] \in Seq(S) /\ Elements(FixedArgs["claude"]) \subseteq S
         /\ <<"-p">> \in Elements(FixedArgs["claude"])
         /\ \A option \in S : option[1] \in {"-p"} \cup HelpTokens["claude"]
<1> DEFINE o1 == <<"-p">>
           o2 == <<"--output-format", "json">>
           o3 == <<"--no-session-persistence">>
           o4 == <<"--safe-mode">>
           o5 == <<"--setting-sources", "">>
           o6 == <<"--tools", "">>
           o7 == <<"--strict-mcp-config">>
           o8 == <<"--permission-mode", "dontAsk">>
           o9 == <<"--disable-slash-commands">>
           o10 == <<"--no-chrome">>
           a == <<o1, o2, o3, o4, o5, o6, o7, o8, o9, o10>>
           S == {o1, o2, o3, o4, o5, o6, o7, o8, o9, o10}
<1>1. FixedArgs["claude"] = a
  BY DEF FixedArgs
<1>2. /\ o1[1] = "-p" /\ {o2[1], o3[1], o4[1]} \subseteq HelpTokens["claude"]
      /\ {o5[1], o6[1], o7[1]} \subseteq HelpTokens["claude"]
      /\ {o8[1], o9[1], o10[1]} \subseteq HelpTokens["claude"]
  BY DEF HelpTokens
<1>3. o1 = <<"-p">>
  OBVIOUS
<1> HIDE DEF o1, o2, o3, o4, o5, o6, o7, o8, o9, o10
<1>4. a \in Seq(S)
  OBVIOUS
<1>5. Elements(a) \subseteq S /\ o1 \in Elements(a)
  BY DEF Elements
<1>6. \A option \in S : option[1] \in {"-p"} \cup HelpTokens["claude"]
  BY <1>2
<1> HIDE DEF a, S
<1> QED BY <1>1, <1>3, <1>4, <1>5, <1>6

LEMMA HelpFlags ==
  /\ Flags(HelpArgs["codex"]) = {"--ask-for-approval", "exec", "--help"}
  /\ "-p" \in Flags(HelpArgs["claude"])
<1>1. Flags(HelpArgs["codex"]) = {"--ask-for-approval", "exec", "--help"}
  <2> DEFINE h == <<<<"--ask-for-approval", "never">>, <<"exec">>, <<"--help">>>>
  <2>1. HelpArgs["codex"] = h
    BY DEF HelpArgs
  <2>2. Elements(h) = {<<"--ask-for-approval", "never">>, <<"exec">>, <<"--help">>}
    BY DEF Elements
  <2>3. /\ <<"--ask-for-approval", "never">>[1] = "--ask-for-approval"
        /\ <<"exec">>[1] = "exec" /\ <<"--help">>[1] = "--help"
    OBVIOUS
  <2> QED BY <2>1, <2>2, <2>3 DEF Flags
<1>2. "-p" \in Flags(HelpArgs["claude"])
  <2> DEFINE f == FixedArgs["claude"]
             e1 == <<"--model", "sonnet">>
             e2 == <<"--help">>
             e == <<e1, e2>>
  <2>1. HelpArgs["claude"] = f \o e
    BY DEF HelpArgs, FixedArgs
  <2>2. PICK S : f \in Seq(S) /\ <<"-p">> \in Elements(f)
    BY ClaudeOptions
  <2> DEFINE T == S \cup {e1, e2}
  <2> HIDE DEF f, e1, e2
  <2>3. e \in Seq(T)
    OBVIOUS
  <2>4. f \in Seq(T)
    BY <2>2, SeqMonotonic
  <2> HIDE DEF e, T
  <2>5. <<"-p">> \in Elements(HelpArgs["claude"])
    BY <2>1, <2>2, <2>3, <2>4, ElementsOfTwo
  <2> QED BY <2>5 DEF Flags
<1> QED BY <1>1, <1>2

LEMMA FixedArgsAreSeen ==
  ASSUME NEW p \in ProviderNames
  PROVE  /\ \E S : Seen(p, FixedArgs[p], S)
         /\ p = "codex" => \A f \in HardeningFeatures : <<"--disable", f>> \in Elements(FixedArgs[p])
<1>1. CASE p = "gemini"
  <2> DEFINE a == <<<<"--output-format", "json">>, <<"--approval-mode", "default">>, <<"-e", "none">>>>
             S == {<<"--output-format", "json">>, <<"--approval-mode", "default">>, <<"-e", "none">>}
  <2>1. FixedArgs[p] = a
    BY <1>1 DEF FixedArgs
  <2>2. a \in Seq(S) /\ Elements(a) \subseteq S
    BY DEF Elements
  <2>3. \A option \in S : option[1] \in HelpTokens["gemini"]
    BY DEF HelpTokens
  <2> HIDE DEF a, S
  <2>4. Seen(p, a, S)
    BY <1>1, <2>2, <2>3 DEF Seen, Probed
  <2> QED BY <1>1, <2>1, <2>4
<1>2. CASE p = "claude"
  <2>1. PICK S : /\ FixedArgs[p] \in Seq(S) /\ Elements(FixedArgs[p]) \subseteq S
                 /\ \A option \in S : option[1] \in {"-p"} \cup HelpTokens[p]
    BY <1>2, ClaudeOptions
  <2>2. Seen(p, FixedArgs[p], S)
    BY <1>2, <2>1, HelpFlags DEF Seen, Probed
  <2> QED BY <1>2, <2>2
<1>3. CASE p = "codex"
  <2> DEFINE a == <<<<"--ask-for-approval", "never">>, <<"exec">>, <<"--ephemeral">>, <<"--ignore-user-config">>,
       <<"--ignore-rules">>, <<"--strict-config">>, <<"--sandbox", "read-only">>,
       <<"--skip-git-repo-check">>, <<"--color", "never">>>>
             A == {<<"--ask-for-approval", "never">>, <<"exec">>, <<"--ephemeral">>, <<"--ignore-user-config">>,
       <<"--ignore-rules">>, <<"--strict-config">>, <<"--sandbox", "read-only">>,
       <<"--skip-git-repo-check">>, <<"--color", "never">>}
             d == [i \in DOMAIN Disabled |-> <<"--disable", Disabled[i]>>]
             D == {<<"--disable", f>> : f \in HardeningFeatures}
             c == <<<<"-c", "web_search=disabled">>>>
             C == {<<"-c", "web_search=disabled">>}
  <2>1. FixedArgs[p] = (a \o d) \o c
    BY <1>3 DEF FixedArgs
  <2>2. Seen(p, a, A)
    <3>1. a \in Seq(A) /\ Elements(a) \subseteq A
      BY DEF Elements
    <3>2. \A option \in A : option[1] \in {"--ask-for-approval", "exec"} \cup HelpTokens["codex"]
      BY DEF HelpTokens
    <3> HIDE DEF a, A
    <3> QED BY <1>3, <3>1, <3>2, HelpFlags DEF Seen, Probed
  <2>3. Seen(p, d, D) /\ Elements(d) = D
    <3>1. /\ DOMAIN d = 1..16 /\ \A i \in 1..16 : d[i] = <<"--disable", Disabled[i]>>
          /\ d = [i \in 1..16 |-> d[i]]
      BY DisabledAreHardened
    <3>2. \A i \in 1..16 : Disabled[i] \in HardeningFeatures
      BY DisabledAreHardened DEF Elements
    <3>3. \A f \in HardeningFeatures : \E i \in 1..16 : Disabled[i] = f
      BY DisabledAreHardened DEF Elements
    <3>4. \A i \in 1..16 : d[i] \in D
      BY <3>1, <3>2
    <3>5. \A option \in D : option[1] = "--disable"
      OBVIOUS
    <3>6. D \subseteq Elements(d)
      BY <3>1, <3>3 DEF Elements
    <3> HIDE DEF d, D
    <3>7. d \in [1..16 -> D]
      BY <3>1, <3>4
    <3>8. d \in Seq(D)
      BY <3>7, SeqDef
    <3>9. Elements(d) = D
      BY <3>1, <3>4, <3>6 DEF Elements
    <3>10. "--disable" \in HelpTokens["codex"]
      BY DEF HelpTokens
    <3> QED BY <1>3, <3>5, <3>8, <3>9, <3>10 DEF Seen, Probed
  <2>4. Seen(p, c, C)
    <3>1. c \in Seq(C) /\ Elements(c) \subseteq C
      BY DEF Elements
    <3>2. \A option \in C : option[1] \in HelpTokens["codex"]
      BY DEF HelpTokens
    <3> HIDE DEF c, C
    <3> QED BY <1>3, <3>1, <3>2 DEF Seen, Probed
  <2>5. \A f \in HardeningFeatures : <<"--disable", f>> \in D
    OBVIOUS
  <2> HIDE DEF a, A, d, D, c, C
  <2>6. AllSeen(p, a) /\ AllSeen(p, d) /\ AllSeen(p, c)
    BY <2>2, <2>3, <2>4 DEF AllSeen
  <2>7. AllSeen(p, a \o d) /\ AllSeen(p, (a \o d) \o c)
    BY <2>6, SeenTwice
  <2>8. \A f \in HardeningFeatures : <<"--disable", f>> \in Elements((a \o d) \o c)
    <3> SUFFICES ASSUME NEW f \in HardeningFeatures
                 PROVE  <<"--disable", f>> \in Elements((a \o d) \o c)
      OBVIOUS
    <3> DEFINE x == <<"--disable", f>>
    <3>1. x \in Elements(d)
      BY <2>3, <2>5
    <3> HIDE DEF x
    <3>2. x \in Elements(a \o d)
      BY <2>6, <3>1, SeenTwice
    <3>3. x \in Elements((a \o d) \o c)
      BY <2>6, <2>7, <3>2, SeenTwice
    <3> QED BY <3>3 DEF x
  <2> QED BY <2>1, <2>7, <2>8 DEF AllSeen
<1> QED BY <1>1, <1>2, <1>3 DEF ProviderNames

\* Build: a run is given no option that its help, or the command that asked for it, did not have when
\* it was probed, and Codex turns off every feature that a probe requires it to know.
THEOREM RunsAreProbed ==
  ASSUME NEW p \in ProviderNames, NEW q, NEW model, NEW cfg, NEW dir,
         NEW P, cfg.prefix \in Seq(P), NEW command \in Build(p, q, model, cfg, dir)
  PROVE  /\ Flags(command.args) \subseteq Flags(cfg.prefix) \cup Probed(p)
         /\ p = "codex" => \A f \in HardeningFeatures : <<"--disable", f>> \in Elements(command.args)
<1> DEFINE prefix == cfg.prefix
           fixed == FixedArgs[p]
           m == <<"--model", model.name>>
           o == <<"--output-schema", SchemaFile(dir)>>
           e == <<"-">>
           schema == IF Schema(p, q) THEN <<o>> ELSE <<>>
           last == IF p = "codex" THEN <<e>> ELSE <<>>
<1>1. command.args = (((prefix \o fixed) \o <<m>>) \o schema) \o last
  <2>1. PICK stdin : command = [executable |-> cfg.executable, args |-> Args(p, q, model, cfg, dir), dir |-> dir,
                                env |-> Environment(p, cfg, dir, "run"), stdin |-> stdin, files |-> FilesOf(p, q, cfg)]
    BY DEF Build
  <2>2. command.args = Args(p, q, model, cfg, dir)
    BY <2>1
  <2> QED BY <2>2 DEF Args
<1>2. PICK S : Seen(p, fixed, S)
  BY FixedArgsAreSeen
<1>3. m[1] \in Probed(p)
  <2>1. "--model" \in HelpTokens[p]
    BY DEF HelpTokens, ProviderNames
  <2> QED BY <2>1 DEF Probed
<1>4. Schema(p, q) => o[1] \in Probed(p)
  <2>1. p = "codex" => "--output-schema" \in HelpTokens[p]
    BY DEF HelpTokens
  <2> QED BY <2>1 DEF Probed, Schema
<1>5. p = "codex" => e[1] \in Probed(p)
  <2>1. p = "codex" => "-" \in HelpTokens[p]
    BY DEF HelpTokens
  <2> QED BY <2>1 DEF Probed
<1>6. p = "codex" => \A f \in HardeningFeatures : <<"--disable", f>> \in Elements(fixed)
  BY FixedArgsAreSeen
<1> HIDE DEF fixed, m, o, e
<1>7. ASSUME NEW x PROVE <<x>> \in Seq({x}) /\ Elements(<<x>>) = {x}
  BY DEF Elements
<1>8. <<>> \in Seq({}) /\ Elements(<<>>) = {}
  BY DEF Elements
<1>9. Seen(p, <<m>>, {m})
  BY <1>3, <1>7 DEF Seen
<1>10. PICK T : Seen(p, schema, T)
  <2>1. CASE Schema(p, q)
    <3>1. Seen(p, <<o>>, {o})
      BY <1>4, <1>7, <2>1 DEF Seen
    <3> QED BY <2>1, <3>1
  <2>2. CASE ~Schema(p, q)
    BY <1>8, <2>2 DEF Seen
  <2> QED BY <2>1, <2>2
<1>11. PICK L : Seen(p, last, L)
  <2>1. CASE p = "codex"
    BY <1>5, <1>7, <2>1 DEF Seen
  <2>2. CASE p # "codex"
    BY <1>8, <2>2 DEF Seen
  <2> QED BY <2>1, <2>2
<1> DEFINE one == <<m>>
           U == P \cup S \cup {m} \cup T \cup L
<1>12. /\ prefix \in Seq(U) /\ fixed \in Seq(U) /\ one \in Seq(U) /\ schema \in Seq(U) /\ last \in Seq(U)
  <2>1. /\ prefix \in Seq(P) /\ fixed \in Seq(S) /\ one \in Seq({m})
        /\ schema \in Seq(T) /\ last \in Seq(L)
    BY <1>2, <1>9, <1>10, <1>11 DEF Seen
  <2>2. P \subseteq U /\ S \subseteq U /\ {m} \subseteq U /\ T \subseteq U /\ L \subseteq U
    OBVIOUS
  <2> HIDE DEF prefix, schema, last, one, U
  <2> QED BY ONLY <2>1, <2>2, SeqMonotonic
<1> HIDE DEF prefix, schema, last, one, U
<1> DEFINE pf == prefix \o fixed
<1>13. pf \in Seq(U) /\ Elements(pf) = Elements(prefix) \cup Elements(fixed)
  BY <1>12, ElementsOfTwo
<1> HIDE DEF pf
<1> DEFINE pm == pf \o one
<1>14. pm \in Seq(U) /\ Elements(pm) = Elements(pf) \cup Elements(one)
  BY <1>12, <1>13, ElementsOfTwo
<1> HIDE DEF pm
<1> DEFINE ps == pm \o schema
<1>15. ps \in Seq(U) /\ Elements(ps) = Elements(pm) \cup Elements(schema)
  BY <1>12, <1>14, ElementsOfTwo
<1> HIDE DEF ps
<1>16. Elements(ps \o last) = Elements(ps) \cup Elements(last)
  BY <1>12, <1>15, ElementsOfTwo
<1>17. command.args = ps \o last
  BY <1>1 DEF ps, pm, pf, one
<1>18. Elements(command.args)
         = Elements(prefix) \cup Elements(fixed) \cup Elements(one) \cup Elements(schema) \cup Elements(last)
  BY <1>13, <1>14, <1>15, <1>16, <1>17
<1>19. \A x \in Elements(fixed) \cup Elements(one) \cup Elements(schema) \cup Elements(last) : x[1] \in Probed(p)
  BY <1>2, <1>9, <1>10, <1>11 DEF Seen, one
<1>20. Flags(command.args) \subseteq Flags(prefix) \cup Probed(p)
  BY <1>18, <1>19 DEF Flags
<1> QED BY <1>6, <1>18, <1>20 DEF prefix

LEMMA ConcatAt ==
  ASSUME NEW S, NEW a \in Seq(S), NEW b \in Seq(S)
  PROVE  /\ a \o b \in Seq(S) /\ Len(a \o b) = Len(a) + Len(b)
         /\ \A i \in 1..Len(a) : (a \o b)[i] = a[i]
         /\ \A i \in 1..Len(b) : (a \o b)[Len(a) + i] = b[i]
BY ConcatProperties

\* What comes before two equal ends of one length is equal.
LEMMA SplitAtLength ==
  ASSUME NEW S, NEW a \in Seq(S), NEW b \in Seq(S), NEW r \in Seq(S), NEW s \in Seq(S),
         a \o r = b \o s, Len(a) = Len(b)
  PROVE  a = b /\ r = s
<1>1. Len(r) = Len(s)
  BY ConcatAt
<1>2. \A i \in 1..Len(a) : a[i] = b[i]
  BY ConcatAt
<1>3. \A i \in 1..Len(r) : r[i] = s[i]
  <2> TAKE i \in 1..Len(r)
  <2>1. (a \o r)[Len(a) + i] = r[i]
    <3>1. \A j \in 1..Len(r) : (a \o r)[Len(a) + j] = r[j]
      BY ONLY ConcatAt, a \in Seq(S), r \in Seq(S)
    <3> QED BY <3>1
  <2>2. (b \o s)[Len(b) + i] = s[i]
    <3>1. \A j \in 1..Len(s) : (b \o s)[Len(b) + j] = s[j]
      BY ConcatAt
    <3> QED BY <3>1, <1>1
  <2> QED BY <2>1, <2>2
<1> QED BY <1>1, <1>2, <1>3, SeqEqual

\* The mark is not among the bytes.
Without(a, mark) == \A i \in 1..Len(a) : a[i] # mark

\* Two beginnings without the mark that follows them are equal.
LEMMA SplitAtMark ==
  ASSUME NEW S, NEW mark, NEW a, NEW b, NEW u, NEW v,
         a \in Seq(S), b \in Seq(S), u \in Seq(S), v \in Seq(S), a \o u = b \o v,
         Without(a, mark), Without(b, mark),
         Len(u) >= 1, u[1] = mark, Len(v) >= 1, v[1] = mark
  PROVE  a = b /\ u = v
<1>1. ASSUME NEW c, NEW d, NEW w, NEW x,
             c \in Seq(S), d \in Seq(S), w \in Seq(S), x \in Seq(S), c \o w = d \o x,
             Without(d, mark), Len(w) >= 1, w[1] = mark, Len(c) < Len(d)
      PROVE  FALSE
  <2>1. (c \o w)[Len(c) + 1] = mark
    <3>1. \A j \in 1..Len(w) : (c \o w)[Len(c) + j] = w[j]
      BY ONLY <1>1, ConcatAt
    <3>2. 1 \in 1..Len(w)
      BY <1>1, LenProperties
    <3> QED BY <1>1, <3>1, <3>2
  <2>2. (d \o x)[Len(c) + 1] = d[Len(c) + 1]
    <3>1. \A j \in 1..Len(d) : (d \o x)[j] = d[j]
      BY ONLY <1>1, ConcatAt
    <3> QED BY <1>1, <3>1, LenProperties
  <2>3. d[Len(c) + 1] # mark
    BY <1>1, LenProperties DEF Without
  <2> QED BY <1>1, <2>1, <2>2, <2>3
<1>2. Len(a) = Len(b)
  <2>1. ~(Len(a) < Len(b)) /\ ~(Len(b) < Len(a))
    BY <1>1
  <2> QED BY <2>1, LenProperties
<1> QED BY <1>2, SplitAtLength

\* A section is read back: its length says where it ends.
LEMMA SectionIsRead ==
  ASSUME NEW tag, NEW x, NEW y, NEW r, NEW s, tag \in Tags,
         x \in Seq(Bytes), y \in Seq(Bytes), r \in Seq(Bytes), s \in Seq(Bytes),
         {Len(x), Len(y)} \subseteq DOMAIN Decimal, Section(tag, x, r) = Section(tag, y, s)
  PROVE  x = y /\ r = s
<1> DEFINE N == <<Newline>>
           T == <<tag>>
           dx == Decimal[Len(x)]
           dy == Decimal[Len(y)]
           tx == x \o (N \o r)
           ty == y \o (N \o s)
<1>1. N \in Seq(Bytes) /\ T \in Seq(Bytes) /\ Len(N) = 1 /\ N[1] = Newline
  BY AdaptersAssumption
<1>2. /\ dx \in Seq(Bytes) /\ Without(dx, Newline)
      /\ dy \in Seq(Bytes) /\ Without(dy, Newline)
  <2>1. Digits \subseteq Bytes /\ Newline \notin Digits
    BY AdaptersAssumption
  <2>2. dx \in Seq(Digits) /\ dy \in Seq(Digits)
    BY AdaptersAssumption
  <2> HIDE DEF dx, dy
  <2> QED BY <2>1, <2>2, SeqMonotonic, ElementOfSeq DEF Without
<1>3. T \o (dx \o (N \o tx)) = T \o (dy \o (N \o ty))
  BY DEF Section
<1> HIDE DEF N, T, dx, dy
<1>4. N \o r \in Seq(Bytes) /\ N \o s \in Seq(Bytes)
  BY <1>1, ConcatAt
<1>5. tx \in Seq(Bytes) /\ ty \in Seq(Bytes)
  BY <1>4, ConcatAt
<1> HIDE DEF tx, ty
<1>6. /\ N \o tx \in Seq(Bytes) /\ Len(N \o tx) >= 1 /\ (N \o tx)[1] = Newline
      /\ N \o ty \in Seq(Bytes) /\ Len(N \o ty) >= 1 /\ (N \o ty)[1] = Newline
  <2>1. ASSUME NEW u, u \in Seq(Bytes)
        PROVE  N \o u \in Seq(Bytes) /\ Len(N \o u) >= 1 /\ (N \o u)[1] = Newline
    BY ONLY <1>1, <2>1, ConcatAt, LenProperties
  <2> QED BY <1>5, <2>1
<1>7. dx \o (N \o tx) \in Seq(Bytes) /\ dy \o (N \o ty) \in Seq(Bytes)
  BY ONLY <1>2, <1>6, ConcatAt
<1>8. dx \o (N \o tx) = dy \o (N \o ty)
  <2> DEFINE ux == dx \o (N \o tx)
             uy == dy \o (N \o ty)
  <2>1. ux \in Seq(Bytes) /\ uy \in Seq(Bytes) /\ T \o ux = T \o uy
    BY ONLY <1>3, <1>7
  <2> HIDE DEF ux, uy
  <2>2. ux = uy
    BY ONLY <1>1, <2>1, SplitAtLength
  <2> QED BY ONLY <2>2 DEF ux, uy
<1>9. dx = dy /\ tx = ty
  <2>1. dx = dy /\ N \o tx = N \o ty
    BY ONLY <1>2, <1>6, <1>8, SplitAtMark
  <2> QED BY ONLY <1>1, <1>5, <2>1, SplitAtLength
<1>10. Len(x) = Len(y)
  BY <1>9, AdaptersAssumption DEF dx, dy
<1>11. x = y /\ N \o r = N \o s
  BY ONLY x \in Seq(Bytes), y \in Seq(Bytes), <1>4, <1>9, <1>10, SplitAtLength DEF tx, ty
<1>12. r = s
  BY ONLY r \in Seq(Bytes), s \in Seq(Bytes), <1>1, <1>11, SplitAtLength
<1> QED BY <1>11, <1>12

LEMMA SectionsAreBytes ==
  ASSUME NEW tag \in Tags, NEW x \in Seq(Bytes), NEW r \in Seq(Bytes), Len(x) \in DOMAIN Decimal
  PROVE  Section(tag, x, r) \in Seq(Bytes)
<1> DEFINE N == <<Newline>>
           T == <<tag>>
           d == Decimal[Len(x)]
           xr == x \o (N \o r)
<1>1. N \in Seq(Bytes) /\ T \in Seq(Bytes) /\ d \in Seq(Bytes)
  <2>1. Digits \subseteq Bytes /\ tag \in Bytes /\ Newline \in Bytes
    BY AdaptersAssumption
  <2>2. d \in Seq(Digits)
    BY AdaptersAssumption
  <2> QED BY <2>1, <2>2, SeqMonotonic
<1>2. Section(tag, x, r) = T \o (d \o (N \o xr))
  BY DEF Section
<1> HIDE DEF N, T, d
<1>3. N \o r \in Seq(Bytes)
  BY <1>1, ConcatAt
<1>4. xr \in Seq(Bytes)
  BY <1>3, ConcatAt
<1> HIDE DEF xr
<1>5. N \o xr \in Seq(Bytes)
  BY <1>1, <1>4, ConcatAt
<1>6. d \o (N \o xr) \in Seq(Bytes)
  BY <1>1, <1>5, ConcatAt
<1> QED BY <1>1, <1>2, <1>6, ConcatAt

\* The first byte after a tag is a digit, or of NULL.
LEMMA SectionsAreToldApart ==
  ASSUME NEW tag \in Tags, NEW x \in Seq(Bytes), NEW r \in Seq(Bytes), NEW s \in Seq(Bytes),
         Len(x) \in DOMAIN Decimal
  PROVE  Section(tag, x, r) # NullSection(tag, s)
<1> DEFINE T == <<tag>>
           d == Decimal[Len(x)]
           u == <<Newline>> \o (x \o (<<Newline>> \o r))
           null == <<"NULL", Newline>>
<1>1. /\ T \in Seq(Bytes) /\ d \in Seq(Digits) /\ d \in Seq(Bytes) /\ d # <<>> /\ null \in Seq(Bytes)
      /\ <<Newline>> \in Seq(Bytes)
  <2>1. Digits \subseteq Bytes /\ tag \in Bytes /\ Newline \in Bytes /\ "NULL" \in Bytes
    BY AdaptersAssumption DEF Tags
  <2>2. d \in Seq(Digits) /\ d # <<>>
    BY AdaptersAssumption
  <2> QED BY <2>1, <2>2, SeqMonotonic
<1>2. Section(tag, x, r) = T \o (d \o u) /\ NullSection(tag, s) = T \o (null \o s)
  BY DEF Section, NullSection
<1>3. null[1] = "NULL" /\ Len(null) = 2
  OBVIOUS
<1>4. d[1] \in Digits /\ 1 \in 1..Len(d)
  BY <1>1, EmptySeq, LenProperties, ElementOfSeq
<1> HIDE DEF T, d, null
<1>5. u \in Seq(Bytes)
  <2>1. <<Newline>> \o r \in Seq(Bytes)
    BY <1>1, ConcatAt
  <2>2. x \o (<<Newline>> \o r) \in Seq(Bytes)
    BY <2>1, ConcatAt
  <2> QED BY <1>1, <2>2, ConcatAt
<1> HIDE DEF u
<1>6. /\ d \o u \in Seq(Bytes) /\ (d \o u)[1] = d[1]
      /\ null \o s \in Seq(Bytes) /\ (null \o s)[1] = null[1]
  BY <1>1, <1>3, <1>4, <1>5, ConcatAt
<1>7. "NULL" \notin Digits
  BY AdaptersAssumption DEF Tags
<1>8. d \o u # null \o s
  BY <1>3, <1>4, <1>6, <1>7
<1> QED BY ONLY <1>1, <1>2, <1>6, <1>8, SplitAtLength

LEMMA NullSectionIsRead ==
  ASSUME NEW tag \in Tags, NEW r \in Seq(Bytes), NEW s \in Seq(Bytes),
         NullSection(tag, r) = NullSection(tag, s)
  PROVE  r = s
<1> DEFINE T == <<tag>>
           null == <<"NULL", Newline>>
<1>1. T \in Seq(Bytes) /\ null \in Seq(Bytes)
  BY AdaptersAssumption DEF Tags
<1>2. T \o (null \o r) = T \o (null \o s)
  BY DEF NullSection
<1> HIDE DEF T, null
<1>3. null \o r \in Seq(Bytes) /\ null \o s \in Seq(Bytes)
  BY <1>1, ConcatAt
<1>4. null \o r = null \o s
  BY ONLY <1>1, <1>2, <1>3, SplitAtLength
<1> QED BY ONLY r \in Seq(Bytes), s \in Seq(Bytes), <1>1, <1>4, SplitAtLength

\* BuildPrompt: nothing that a client puts into its instructions or its input, the tag of a section
\* and a length among it, makes two requests the same prompt, so that one section is never read as
\* another.
THEOREM FramingIsInjective ==
  ASSUME NEW told \in BOOLEAN, NEW i \in Seq(Bytes), NEW x \in Seq(Bytes), NEW c \in Seq(Bytes),
         NEW told2 \in BOOLEAN, NEW i2 \in Seq(Bytes), NEW x2 \in Seq(Bytes), NEW c2 \in Seq(Bytes),
         {Len(i), Len(x), Len(c), Len(i2), Len(x2), Len(c2)} \subseteq DOMAIN Decimal,
         Framed(told, i, x, c) = Framed(told2, i2, x2, c2)
  PROVE  told = told2 /\ x = x2 /\ c = c2 /\ (told => i = i2)
<1> DEFINE nothing == <<>>
           magic == <<"AI_CLI_GATEWAY/1", Newline>>
           end == Section("OUTPUT_CONTRACT", c, nothing)
           end2 == Section("OUTPUT_CONTRACT", c2, nothing)
           rest == Section("INPUT", x, end)
           rest2 == Section("INPUT", x2, end2)
           first == Section("INSTRUCTIONS", i, rest)
           first2 == Section("INSTRUCTIONS", i2, rest2)
           none == NullSection("INSTRUCTIONS", rest)
           none2 == NullSection("INSTRUCTIONS", rest2)
           all == IF told THEN first ELSE none
           all2 == IF told2 THEN first2 ELSE none2
<1>1. /\ "INSTRUCTIONS" \in Tags /\ "INPUT" \in Tags /\ "OUTPUT_CONTRACT" \in Tags
      /\ magic \in Seq(Bytes) /\ <<"NULL", Newline>> \in Seq(Bytes)
      /\ <<"INSTRUCTIONS">> \in Seq(Bytes) /\ nothing \in Seq(Bytes)
  BY AdaptersAssumption DEF Tags
<1>2. magic \o all = magic \o all2
  BY DEF Framed
<1> HIDE DEF magic, nothing
<1>3. end \in Seq(Bytes) /\ end2 \in Seq(Bytes)
  BY <1>1, SectionsAreBytes
<1> HIDE DEF end, end2
<1>4. rest \in Seq(Bytes) /\ rest2 \in Seq(Bytes)
  BY <1>1, <1>3, SectionsAreBytes
<1> HIDE DEF rest, rest2
<1>5. /\ first \in Seq(Bytes) /\ first2 \in Seq(Bytes)
      /\ none \in Seq(Bytes) /\ none2 \in Seq(Bytes)
  <2>1. first \in Seq(Bytes) /\ first2 \in Seq(Bytes)
    BY <1>1, <1>4, SectionsAreBytes
  <2>2. ASSUME NEW r \in Seq(Bytes) PROVE NullSection("INSTRUCTIONS", r) \in Seq(Bytes)
    <3>1. <<"NULL", Newline>> \o r \in Seq(Bytes)
      BY ONLY <1>1, r \in Seq(Bytes), ConcatAt
    <3> DEFINE u == <<"NULL", Newline>> \o r
    <3> HIDE DEF u
    <3>2. <<"INSTRUCTIONS">> \o u \in Seq(Bytes)
      BY ONLY <1>1, <3>1, ConcatAt DEF u
    <3> QED BY <3>2 DEF NullSection, u
  <2> QED BY <1>4, <2>1, <2>2
<1>6. told # told2 => all # all2
  <2>1. first # none2 /\ first2 # none
    BY <1>1, <1>4, SectionsAreToldApart
  <2> QED BY <2>1
<1> HIDE DEF first, first2, none, none2
<1>7. all \in Seq(Bytes) /\ all2 \in Seq(Bytes)
  BY <1>5
<1>8. all = all2
  BY ONLY <1>1, <1>2, <1>7, SplitAtLength
<1>9. told = told2
  BY <1>6, <1>8
<1>10. rest = rest2 /\ (told => i = i2)
  <2>1. CASE told
    <3>1. first = first2
      BY <1>8, <1>9, <2>1
    <3>2. i = i2 /\ rest = rest2
      BY <1>1, <1>4, <3>1, SectionIsRead DEF first, first2
    <3> QED BY <3>2
  <2>2. CASE ~told
    <3>1. none = none2
      BY <1>8, <1>9, <2>2
    <3> QED BY <1>1, <1>4, <2>2, <3>1, NullSectionIsRead DEF none, none2
  <2> QED BY <2>1, <2>2
<1>11. x = x2 /\ end = end2
  BY <1>1, <1>3, <1>10, SectionIsRead DEF rest, rest2
<1>12. c = c2
  <2>1. Section("OUTPUT_CONTRACT", c, nothing) = Section("OUTPUT_CONTRACT", c2, nothing)
    BY <1>11 DEF end, end2
  <2>2. {Len(c), Len(c2)} \subseteq DOMAIN Decimal
    OBVIOUS
  <2> QED BY ONLY c \in Seq(Bytes), c2 \in Seq(Bytes), <1>1, <2>1, <2>2, SectionIsRead
<1> QED BY <1>9, <1>10, <1>11, <1>12
=============================================================================
