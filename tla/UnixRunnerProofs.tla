--------------------------- MODULE UnixRunnerProofs ---------------------------
(* For any descendants, streams and bounds: the Unix runner signals no stranger,  *)
(* and a return that is not a cleanup failure leaves nothing behind.              *)
EXTENDS UnixRunner, TLAPS

Signaling == {"init", "verify", "watch", "term", "grace", "kill", "release"}

\* While signals are sent nobody waits for the leader, so its number is not free.
Retained ==
  /\ pc \in Signaling => wait = "off"
  /\ wait = "off" => root # "reaped"
  /\ recycled => root = "reaped"
  /\ ~harmed

\* The goroutines that use the pipes run between Verify and the joins.
PipesUsed ==
  /\ pc \in {"init", "verify", "unverified"} =>
       writer = "off" /\ \A s \in Streams : reader[s] = "off"
  /\ pc \in {"probe", "close", "returned"} => Joined
  /\ pc \in {"init", "unverified", "returned"} => ~stdinOpen /\ ~outOpen
  /\ pc \notin {"verify", "watch", "term"} => ~stdinOpen

\* A wait that is handed on, and a group that remains, are cleanup failures.
FailuresKept ==
  /\ pc = "init" => root = "none" /\ ~failed
  /\ root = "none" => Members = {} /\ pc \in {"init", "returned"}
  /\ pc = "unverified" => kind = "cleanup"
  /\ pc = "owners" \/ deferred => failed
  /\ pc = "returned" /\ failed => kind = "cleanup"
  /\ pc = "close" /\ ~failed => root \in {"none", "reaped"} /\ Members = {}

IInv == TypeOK /\ Retained /\ PipesUsed /\ FailuresKept /\ ContainedOnReturn

-----------------------------------------------------------------------------
\* The flags, one by one.
LEMMA Flags ==
  ASSUME TypeOK
  PROVE  /\ stdinOpen \in BOOLEAN /\ outOpen \in BOOLEAN /\ ctxDone \in BOOLEAN
         /\ expired \in BOOLEAN /\ deferred \in BOOLEAN /\ overdue \in BOOLEAN
         /\ recycled \in BOOLEAN /\ harmed \in BOOLEAN /\ failed \in BOOLEAN
BY DEF TypeOK

\* Every step keeps the types.
LEMMA TypeStep ==
  ASSUME TypeOK, [Next]_vars
  PROVE  TypeOK'
<1> USE RunnerAssumption DEF TypeOK, Kinds, KidKinds, Members, Running, procVars, pipeVars, eventVars,
    waitVars, outVars
<1>1. ASSUME StartFails PROVE TypeOK'
  BY <1>1 DEF StartFails
<1>2. ASSUME StartCanceled PROVE TypeOK'
  BY <1>2 DEF StartCanceled
<1>3. ASSUME Start PROVE TypeOK'
  BY <1>3 DEF Start
<1>4. ASSUME Verify PROVE TypeOK'
  BY <1>4 DEF Verify
<1>5. ASSUME VerifyFails PROVE TypeOK'
  BY <1>5 DEF VerifyFails
<1>6. ASSUME UnverifiedDone PROVE TypeOK'
  BY <1>6 DEF UnverifiedDone
<1>7. ASSUME CommitOverflow PROVE TypeOK'
  BY <1>7 DEF CommitOverflow, Commit
<1>8. ASSUME CommitCanceled PROVE TypeOK'
  BY <1>8 DEF CommitCanceled, Commit
<1>9. ASSUME CommitTimeout PROVE TypeOK'
  BY <1>9 DEF CommitTimeout, Commit
<1>10. ASSUME CommitExit PROVE TypeOK'
  BY <1>10 DEF CommitExit, Commit
<1>11. ASSUME CommitObserverError PROVE TypeOK'
  BY <1>11 DEF CommitObserverError
<1>12. ASSUME Term PROVE TypeOK'
  <2>1. /\ stdinOpen' \in BOOLEAN /\ outOpen' \in BOOLEAN /\ ctxDone' \in BOOLEAN
        /\ expired' \in BOOLEAN /\ deferred' \in BOOLEAN /\ overdue' \in BOOLEAN
        /\ recycled' \in BOOLEAN /\ harmed' \in BOOLEAN /\ failed' \in BOOLEAN
    BY <1>12, Flags DEF Term, Signaled, Refused, Absent
  <2>2. {stdinOpen', outOpen', ctxDone', expired', deferred', overdue', recycled', harmed', failed'}
          \subseteq BOOLEAN
    BY <2>1
  <2>3. Members \subseteq Kids
    OBVIOUS
  <2>4. killed' \subseteq Kids \cup {"root"} /\ action' \in {"none", "term", "kill"}
    <3>1. CASE Signaled("term")
      BY <3>1, <2>3 DEF Signaled
    <3>2. CASE UNCHANGED <<killed, action>>
      BY <3>2
    <3> QED BY <1>12, <3>1, <3>2 DEF Term, Refused, Absent
  <2>5. pc' \in {"grace", "release"} /\ UNCHANGED <<darwin, root, kid, inPipe, total, reader, writer,
      observer, wait, kind>>
    BY <1>12 DEF Term
  <2> QED BY <2>2, <2>4, <2>5
<1>13. ASSUME GraceEnough PROVE TypeOK'
  BY <1>13 DEF GraceEnough
<1>14. ASSUME GraceOver PROVE TypeOK'
  BY <1>14 DEF GraceOver
<1>15. ASSUME Kill PROVE TypeOK'
  <2>1. /\ stdinOpen' \in BOOLEAN /\ outOpen' \in BOOLEAN /\ ctxDone' \in BOOLEAN
        /\ expired' \in BOOLEAN /\ deferred' \in BOOLEAN /\ overdue' \in BOOLEAN
        /\ recycled' \in BOOLEAN /\ harmed' \in BOOLEAN /\ failed' \in BOOLEAN
    BY <1>15, Flags DEF Kill, Signaled, Refused, Absent
  <2>2. {stdinOpen', outOpen', ctxDone', expired', deferred', overdue', recycled', harmed', failed'}
          \subseteq BOOLEAN
    BY <2>1
  <2>3. Members \subseteq Kids
    OBVIOUS
  <2>4. killed' \subseteq Kids \cup {"root"} /\ action' \in {"none", "term", "kill"}
    <3>1. CASE Signaled("kill")
      BY <3>1, <2>3 DEF Signaled
    <3>2. CASE UNCHANGED <<killed, action>>
      BY <3>2
    <3> QED BY <1>15, <3>1, <3>2 DEF Kill, Refused, Absent
  <2>5. pc' \in {"release"} /\ UNCHANGED <<darwin, root, kid, inPipe, total, reader, writer, observer,
      wait, kind>>
    BY <1>15 DEF Kill
  <2> QED BY <2>2, <2>4, <2>5
<1>16. ASSUME Release PROVE TypeOK'
  BY <1>16 DEF Release
<1>17. ASSUME JoinComplete PROVE TypeOK'
  BY <1>17 DEF JoinComplete
<1>18. ASSUME JoinOverdue PROVE TypeOK'
  <2>1. /\ stdinOpen' \in BOOLEAN /\ outOpen' \in BOOLEAN /\ ctxDone' \in BOOLEAN
        /\ expired' \in BOOLEAN /\ deferred' \in BOOLEAN /\ overdue' \in BOOLEAN
        /\ recycled' \in BOOLEAN /\ harmed' \in BOOLEAN /\ failed' \in BOOLEAN
    BY <1>18, Flags DEF JoinOverdue
  <2>2. {stdinOpen', outOpen', ctxDone', expired', deferred', overdue', recycled', harmed', failed'}
          \subseteq BOOLEAN
    BY <2>1
  <2> QED BY <1>18, <2>2 DEF JoinOverdue
<1>19. ASSUME OwnersJoined PROVE TypeOK'
  BY <1>19 DEF OwnersJoined
<1>20. ASSUME ProbeGone PROVE TypeOK'
  BY <1>20 DEF ProbeGone
<1>21. ASSUME ProbeRemains PROVE TypeOK'
  BY <1>21 DEF ProbeRemains
<1>22. ASSUME Return PROVE TypeOK'
  <2>1. /\ stdinOpen' \in BOOLEAN /\ outOpen' \in BOOLEAN /\ ctxDone' \in BOOLEAN
        /\ expired' \in BOOLEAN /\ deferred' \in BOOLEAN /\ overdue' \in BOOLEAN
        /\ recycled' \in BOOLEAN /\ harmed' \in BOOLEAN /\ failed' \in BOOLEAN
    BY <1>22, Flags DEF Return
  <2>2. {stdinOpen', outOpen', ctxDone', expired', deferred', overdue', recycled', harmed', failed'}
          \subseteq BOOLEAN
    BY <2>1
  <2> QED BY <1>22, <2>2 DEF Return
<1>23. ASSUME ObserveExit PROVE TypeOK'
  BY <1>23 DEF ObserveExit
<1>24. ASSUME Reap PROVE TypeOK'
  BY <1>24 DEF Reap
<1>25. ASSUME WriterEnds PROVE TypeOK'
  <2>1. /\ stdinOpen' \in BOOLEAN /\ outOpen' \in BOOLEAN /\ ctxDone' \in BOOLEAN
        /\ expired' \in BOOLEAN /\ deferred' \in BOOLEAN /\ overdue' \in BOOLEAN
        /\ recycled' \in BOOLEAN /\ harmed' \in BOOLEAN /\ failed' \in BOOLEAN
    BY <1>25, Flags DEF WriterEnds
  <2>2. {stdinOpen', outOpen', ctxDone', expired', deferred', overdue', recycled', harmed', failed'}
          \subseteq BOOLEAN
    BY <2>1
  <2> QED BY <1>25, <2>2 DEF WriterEnds
<1>26. ASSUME CallerCancels PROVE TypeOK'
  BY <1>26 DEF CallerCancels
<1>27. ASSUME ExecutionTimerFires PROVE TypeOK'
  BY <1>27 DEF ExecutionTimerFires
<1>28. ASSUME CleanupTimerFires PROVE TypeOK'
  BY <1>28 DEF CleanupTimerFires
<1>29. ASSUME ObserverFails PROVE TypeOK'
  BY <1>29 DEF ObserverFails
<1>30. ASSUME RootExits PROVE TypeOK'
  BY <1>30 DEF RootExits
<1>31. ASSUME NumberRecycled PROVE TypeOK'
  BY <1>31 DEF NumberRecycled
<1>32. ASSUME NEW s \in Streams, Read(s) PROVE TypeOK'
  <2>1. inPipe[s] \in 1..MaxWritten /\ total[s] \in 0..MaxWritten /\ inPipe[s] + total[s] <= MaxWritten
    BY <1>32 DEF Read
  <2>2. inPipe[s] - 1 \in 0..MaxWritten /\ total[s] + 1 \in 0..MaxWritten
        /\ (inPipe[s] - 1) + (total[s] + 1) \in 0..MaxWritten
    BY <2>1
  <2>3. inPipe' = [inPipe EXCEPT ![s] = inPipe[s] - 1] /\ total' = [total EXCEPT ![s] = total[s] + 1]
    BY <1>32 DEF Read
  <2>4. inPipe' \in [Streams -> 0..MaxWritten] /\ total' \in [Streams -> 0..MaxWritten]
        /\ \A t \in Streams : inPipe'[t] + total'[t] \in 0..MaxWritten
    BY <2>2, <2>3
  <2> QED BY <1>32, <2>4 DEF Read
<1>33. ASSUME NEW s \in Streams, ReaderEnds(s) PROVE TypeOK'
  BY <1>33 DEF ReaderEnds
<1>34. ASSUME NEW s \in Streams, Writes(s) PROVE TypeOK'
  <2>1. inPipe[s] \in 0..MaxWritten /\ total[s] \in 0..MaxWritten /\ inPipe[s] + total[s] < MaxWritten
    BY <1>34 DEF Writes
  <2>2. inPipe[s] + 1 \in 0..MaxWritten /\ (inPipe[s] + 1) + total[s] \in 0..MaxWritten
    BY <2>1
  <2>3. inPipe' = [inPipe EXCEPT ![s] = inPipe[s] + 1] /\ total' = total
    BY <1>34 DEF Writes
  <2>4. inPipe' \in [Streams -> 0..MaxWritten]
        /\ \A t \in Streams : inPipe'[t] + total'[t] \in 0..MaxWritten
    BY <2>2, <2>3
  <2> QED BY <1>34, <2>4 DEF Writes
<1>35. ASSUME NEW k \in Kids, Forks(k) PROVE TypeOK'
  BY <1>35 DEF Forks
<1>36. ASSUME NEW k \in Kids, KidExits(k) PROVE TypeOK'
  BY <1>36 DEF KidExits
<1>37. CASE UNCHANGED vars
  BY <1>37 DEF vars
<1> QED BY <1>1, <1>2, <1>3, <1>4, <1>5, <1>6, <1>7, <1>8, <1>9, <1>10, <1>11, <1>12, <1>13, <1>14,
    <1>15, <1>16, <1>17, <1>18, <1>19, <1>20, <1>21, <1>22, <1>23, <1>24, <1>25, <1>26, <1>27, <1>28,
        <1>29, <1>30, <1>31, <1>32, <1>33, <1>34, <1>35, <1>36, <1>37 DEF Next, RunnerStep, Environment

\* terminateUnix sends its last signal before startCommandWait.
LEMMA RetainedStep ==
  ASSUME TypeOK, Retained, [Next]_vars
  PROVE  Retained'
<1> USE RunnerAssumption DEF TypeOK, Retained, Signaling, Members, Running, procVars, pipeVars,
    eventVars, waitVars, outVars
<1>1. ASSUME StartFails PROVE Retained'
  BY <1>1 DEF StartFails
<1>2. ASSUME StartCanceled PROVE Retained'
  BY <1>2 DEF StartCanceled
<1>3. ASSUME Start PROVE Retained'
  BY <1>3 DEF Start
<1>4. ASSUME Verify PROVE Retained'
  BY <1>4 DEF Verify
<1>5. ASSUME VerifyFails PROVE Retained'
  BY <1>5 DEF VerifyFails
<1>6. ASSUME UnverifiedDone PROVE Retained'
  BY <1>6 DEF UnverifiedDone
<1>7. ASSUME CommitOverflow PROVE Retained'
  BY <1>7 DEF CommitOverflow, Commit
<1>8. ASSUME CommitCanceled PROVE Retained'
  BY <1>8 DEF CommitCanceled, Commit
<1>9. ASSUME CommitTimeout PROVE Retained'
  BY <1>9 DEF CommitTimeout, Commit
<1>10. ASSUME CommitExit PROVE Retained'
  BY <1>10 DEF CommitExit, Commit
<1>11. ASSUME CommitObserverError PROVE Retained'
  BY <1>11 DEF CommitObserverError
<1>12. ASSUME Term PROVE Retained'
  <2>1. pc \in Signaling /\ ~recycled /\ ~harmed
    BY <1>12 DEF Term
  <2>2. ~harmed'
    BY <1>12, <2>1 DEF Term, Signaled, Refused, Absent
  <2>3. UNCHANGED <<wait, root, recycled>> /\ pc' \in {"grace", "release"}
    BY <1>12 DEF Term
  <2> QED BY <2>1, <2>2, <2>3
<1>13. ASSUME GraceEnough PROVE Retained'
  BY <1>13 DEF GraceEnough
<1>14. ASSUME GraceOver PROVE Retained'
  BY <1>14 DEF GraceOver
<1>15. ASSUME Kill PROVE Retained'
  <2>1. pc \in Signaling /\ ~recycled /\ ~harmed
    BY <1>15 DEF Kill
  <2>2. ~harmed'
    BY <1>15, <2>1 DEF Kill, Signaled, Refused, Absent
  <2>3. UNCHANGED <<wait, root, recycled>> /\ pc' \in {"grace", "release"}
    BY <1>15 DEF Kill
  <2> QED BY <2>1, <2>2, <2>3
<1>16. ASSUME Release PROVE Retained'
  BY <1>16 DEF Release
<1>17. ASSUME JoinComplete PROVE Retained'
  BY <1>17 DEF JoinComplete
<1>18. ASSUME JoinOverdue PROVE Retained'
  BY <1>18 DEF JoinOverdue
<1>19. ASSUME OwnersJoined PROVE Retained'
  BY <1>19 DEF OwnersJoined
<1>20. ASSUME ProbeGone PROVE Retained'
  BY <1>20 DEF ProbeGone
<1>21. ASSUME ProbeRemains PROVE Retained'
  BY <1>21 DEF ProbeRemains
<1>22. ASSUME Return PROVE Retained'
  BY <1>22 DEF Return
<1>23. ASSUME ObserveExit PROVE Retained'
  BY <1>23 DEF ObserveExit
<1>24. ASSUME Reap PROVE Retained'
  BY <1>24 DEF Reap
<1>25. ASSUME WriterEnds PROVE Retained'
  BY <1>25 DEF WriterEnds
<1>26. ASSUME CallerCancels PROVE Retained'
  BY <1>26 DEF CallerCancels
<1>27. ASSUME ExecutionTimerFires PROVE Retained'
  BY <1>27 DEF ExecutionTimerFires
<1>28. ASSUME CleanupTimerFires PROVE Retained'
  BY <1>28 DEF CleanupTimerFires
<1>29. ASSUME ObserverFails PROVE Retained'
  BY <1>29 DEF ObserverFails
<1>30. ASSUME RootExits PROVE Retained'
  BY <1>30 DEF RootExits
<1>31. ASSUME NumberRecycled PROVE Retained'
  BY <1>31 DEF NumberRecycled
<1>32. ASSUME NEW s \in Streams, Read(s) PROVE Retained'
  BY <1>32 DEF Read
<1>33. ASSUME NEW s \in Streams, ReaderEnds(s) PROVE Retained'
  BY <1>33 DEF ReaderEnds
<1>34. ASSUME NEW s \in Streams, Writes(s) PROVE Retained'
  BY <1>34 DEF Writes
<1>35. ASSUME NEW k \in Kids, Forks(k) PROVE Retained'
  BY <1>35 DEF Forks
<1>36. ASSUME NEW k \in Kids, KidExits(k) PROVE Retained'
  BY <1>36 DEF KidExits
<1>37. CASE UNCHANGED vars
  BY <1>37 DEF vars
<1> QED BY <1>1, <1>2, <1>3, <1>4, <1>5, <1>6, <1>7, <1>8, <1>9, <1>10, <1>11, <1>12, <1>13, <1>14,
    <1>15, <1>16, <1>17, <1>18, <1>19, <1>20, <1>21, <1>22, <1>23, <1>24, <1>25, <1>26, <1>27, <1>28,
        <1>29, <1>30, <1>31, <1>32, <1>33, <1>34, <1>35, <1>36, <1>37 DEF Next, RunnerStep, Environment

\* No reader or writer starts again, and every path closes the parent ends.
LEMMA PipesStep ==
  ASSUME TypeOK, PipesUsed, [Next]_vars
  PROVE  PipesUsed'
<1> USE RunnerAssumption DEF TypeOK, PipesUsed, Joined, procVars, pipeVars, eventVars, waitVars, outVars
<1>1. ASSUME StartFails PROVE PipesUsed'
  BY <1>1 DEF StartFails
<1>2. ASSUME StartCanceled PROVE PipesUsed'
  BY <1>2 DEF StartCanceled
<1>3. ASSUME Start PROVE PipesUsed'
  BY <1>3 DEF Start
<1>4. ASSUME Verify PROVE PipesUsed'
  BY <1>4 DEF Verify
<1>5. ASSUME VerifyFails PROVE PipesUsed'
  BY <1>5 DEF VerifyFails
<1>6. ASSUME UnverifiedDone PROVE PipesUsed'
  BY <1>6 DEF UnverifiedDone
<1>7. ASSUME CommitOverflow PROVE PipesUsed'
  BY <1>7 DEF CommitOverflow, Commit
<1>8. ASSUME CommitCanceled PROVE PipesUsed'
  BY <1>8 DEF CommitCanceled, Commit
<1>9. ASSUME CommitTimeout PROVE PipesUsed'
  BY <1>9 DEF CommitTimeout, Commit
<1>10. ASSUME CommitExit PROVE PipesUsed'
  BY <1>10 DEF CommitExit, Commit
<1>11. ASSUME CommitObserverError PROVE PipesUsed'
  BY <1>11 DEF CommitObserverError
<1>12. ASSUME Term PROVE PipesUsed'
  BY <1>12 DEF Term, Signaled, Refused, Absent
<1>13. ASSUME GraceEnough PROVE PipesUsed'
  BY <1>13 DEF GraceEnough
<1>14. ASSUME GraceOver PROVE PipesUsed'
  BY <1>14 DEF GraceOver
<1>15. ASSUME Kill PROVE PipesUsed'
  BY <1>15 DEF Kill, Signaled, Refused, Absent
<1>16. ASSUME Release PROVE PipesUsed'
  BY <1>16 DEF Release
<1>17. ASSUME JoinComplete PROVE PipesUsed'
  BY <1>17 DEF JoinComplete
<1>18. ASSUME JoinOverdue PROVE PipesUsed'
  BY <1>18 DEF JoinOverdue
<1>19. ASSUME OwnersJoined PROVE PipesUsed'
  BY <1>19 DEF OwnersJoined
<1>20. ASSUME ProbeGone PROVE PipesUsed'
  BY <1>20 DEF ProbeGone
<1>21. ASSUME ProbeRemains PROVE PipesUsed'
  BY <1>21 DEF ProbeRemains
<1>22. ASSUME Return PROVE PipesUsed'
  BY <1>22 DEF Return
<1>23. ASSUME ObserveExit PROVE PipesUsed'
  BY <1>23 DEF ObserveExit
<1>24. ASSUME Reap PROVE PipesUsed'
  BY <1>24 DEF Reap
<1>25. ASSUME WriterEnds PROVE PipesUsed'
  BY <1>25 DEF WriterEnds
<1>26. ASSUME CallerCancels PROVE PipesUsed'
  BY <1>26 DEF CallerCancels
<1>27. ASSUME ExecutionTimerFires PROVE PipesUsed'
  BY <1>27 DEF ExecutionTimerFires
<1>28. ASSUME CleanupTimerFires PROVE PipesUsed'
  BY <1>28 DEF CleanupTimerFires
<1>29. ASSUME ObserverFails PROVE PipesUsed'
  BY <1>29 DEF ObserverFails
<1>30. ASSUME RootExits PROVE PipesUsed'
  BY <1>30 DEF RootExits
<1>31. ASSUME NumberRecycled PROVE PipesUsed'
  BY <1>31 DEF NumberRecycled
<1>32. ASSUME NEW s \in Streams, Read(s) PROVE PipesUsed'
  BY <1>32 DEF Read
<1>33. ASSUME NEW s \in Streams, ReaderEnds(s) PROVE PipesUsed'
  BY <1>33 DEF ReaderEnds
<1>34. ASSUME NEW s \in Streams, Writes(s) PROVE PipesUsed'
  BY <1>34 DEF Writes
<1>35. ASSUME NEW k \in Kids, Forks(k) PROVE PipesUsed'
  BY <1>35 DEF Forks
<1>36. ASSUME NEW k \in Kids, KidExits(k) PROVE PipesUsed'
  BY <1>36 DEF KidExits
<1>37. CASE UNCHANGED vars
  BY <1>37 DEF vars
<1> QED BY <1>1, <1>2, <1>3, <1>4, <1>5, <1>6, <1>7, <1>8, <1>9, <1>10, <1>11, <1>12, <1>13, <1>14,
    <1>15, <1>16, <1>17, <1>18, <1>19, <1>20, <1>21, <1>22, <1>23, <1>24, <1>25, <1>26, <1>27, <1>28,
        <1>29, <1>30, <1>31, <1>32, <1>33, <1>34, <1>35, <1>36, <1>37 DEF Next, RunnerStep, Environment

\* What fails on the way is still known at the return.
LEMMA FailuresStep ==
  ASSUME TypeOK, PipesUsed, FailuresKept, [Next]_vars
  PROVE  FailuresKept'
<1> USE RunnerAssumption DEF TypeOK, PipesUsed, FailuresKept, GroupExists, Members, Running, KidKinds,
    procVars, pipeVars, eventVars, waitVars, outVars
<1>1. ASSUME StartFails PROVE FailuresKept'
  BY <1>1 DEF StartFails
<1>2. ASSUME StartCanceled PROVE FailuresKept'
  BY <1>2 DEF StartCanceled
<1>3. ASSUME Start PROVE FailuresKept'
  BY <1>3 DEF Start
<1>4. ASSUME Verify PROVE FailuresKept'
  BY <1>4 DEF Verify
<1>5. ASSUME VerifyFails PROVE FailuresKept'
  BY <1>5 DEF VerifyFails
<1>6. ASSUME UnverifiedDone PROVE FailuresKept'
  BY <1>6 DEF UnverifiedDone
<1>7. ASSUME CommitOverflow PROVE FailuresKept'
  BY <1>7 DEF CommitOverflow, Commit
<1>8. ASSUME CommitCanceled PROVE FailuresKept'
  BY <1>8 DEF CommitCanceled, Commit
<1>9. ASSUME CommitTimeout PROVE FailuresKept'
  BY <1>9 DEF CommitTimeout, Commit
<1>10. ASSUME CommitExit PROVE FailuresKept'
  BY <1>10 DEF CommitExit, Commit
<1>11. ASSUME CommitObserverError PROVE FailuresKept'
  BY <1>11 DEF CommitObserverError
<1>12. ASSUME Term PROVE FailuresKept'
  BY <1>12 DEF Term, Signaled, Refused, Absent
<1>13. ASSUME GraceEnough PROVE FailuresKept'
  BY <1>13 DEF GraceEnough
<1>14. ASSUME GraceOver PROVE FailuresKept'
  BY <1>14 DEF GraceOver
<1>15. ASSUME Kill PROVE FailuresKept'
  BY <1>15 DEF Kill, Signaled, Refused, Absent
<1>16. ASSUME Release PROVE FailuresKept'
  BY <1>16 DEF Release
<1>17. ASSUME JoinComplete PROVE FailuresKept'
  BY <1>17 DEF JoinComplete
<1>18. ASSUME JoinOverdue PROVE FailuresKept'
  BY <1>18 DEF JoinOverdue
<1>19. ASSUME OwnersJoined PROVE FailuresKept'
  BY <1>19 DEF OwnersJoined
<1>20. ASSUME ProbeGone PROVE FailuresKept'
  BY <1>20 DEF ProbeGone
<1>21. ASSUME ProbeRemains PROVE FailuresKept'
  BY <1>21 DEF ProbeRemains
<1>22. ASSUME Return PROVE FailuresKept'
  BY <1>22 DEF Return
<1>23. ASSUME ObserveExit PROVE FailuresKept'
  BY <1>23 DEF ObserveExit
<1>24. ASSUME Reap PROVE FailuresKept'
  BY <1>24 DEF Reap
<1>25. ASSUME WriterEnds PROVE FailuresKept'
  BY <1>25 DEF WriterEnds
<1>26. ASSUME CallerCancels PROVE FailuresKept'
  BY <1>26 DEF CallerCancels
<1>27. ASSUME ExecutionTimerFires PROVE FailuresKept'
  BY <1>27 DEF ExecutionTimerFires
<1>28. ASSUME CleanupTimerFires PROVE FailuresKept'
  BY <1>28 DEF CleanupTimerFires
<1>29. ASSUME ObserverFails PROVE FailuresKept'
  BY <1>29 DEF ObserverFails
<1>30. ASSUME RootExits PROVE FailuresKept'
  BY <1>30 DEF RootExits
<1>31. ASSUME NumberRecycled PROVE FailuresKept'
  BY <1>31 DEF NumberRecycled
<1>32. ASSUME NEW s \in Streams, Read(s) PROVE FailuresKept'
  BY <1>32 DEF Read
<1>33. ASSUME NEW s \in Streams, ReaderEnds(s) PROVE FailuresKept'
  BY <1>33 DEF ReaderEnds
<1>34. ASSUME NEW s \in Streams, Writes(s) PROVE FailuresKept'
  BY <1>34 DEF Writes
<1>35. ASSUME NEW k \in Kids, Forks(k) PROVE FailuresKept'
  BY <1>35 DEF Forks
<1>36. ASSUME NEW k \in Kids, KidExits(k) PROVE FailuresKept'
  BY <1>36 DEF KidExits
<1>37. CASE UNCHANGED vars
  BY <1>37 DEF vars
<1> QED BY <1>1, <1>2, <1>3, <1>4, <1>5, <1>6, <1>7, <1>8, <1>9, <1>10, <1>11, <1>12, <1>13, <1>14,
    <1>15, <1>16, <1>17, <1>18, <1>19, <1>20, <1>21, <1>22, <1>23, <1>24, <1>25, <1>26, <1>27, <1>28,
        <1>29, <1>30, <1>31, <1>32, <1>33, <1>34, <1>35, <1>36, <1>37 DEF Next, RunnerStep, Environment

\* The group is empty and the wait done when a return says so, and stays so.
LEMMA ContainedStep ==
  ASSUME TypeOK, PipesUsed, FailuresKept, ContainedOnReturn, [Next]_vars
  PROVE  ContainedOnReturn'
<1> USE RunnerAssumption DEF TypeOK, PipesUsed, FailuresKept, ContainedOnReturn, Joined, Members,
    Running, KidKinds, procVars, pipeVars, eventVars, waitVars, outVars
<1>1. ASSUME StartFails PROVE ContainedOnReturn'
  BY <1>1 DEF StartFails
<1>2. ASSUME StartCanceled PROVE ContainedOnReturn'
  BY <1>2 DEF StartCanceled
<1>3. ASSUME Start PROVE ContainedOnReturn'
  BY <1>3 DEF Start
<1>4. ASSUME Verify PROVE ContainedOnReturn'
  BY <1>4 DEF Verify
<1>5. ASSUME VerifyFails PROVE ContainedOnReturn'
  BY <1>5 DEF VerifyFails
<1>6. ASSUME UnverifiedDone PROVE ContainedOnReturn'
  BY <1>6 DEF UnverifiedDone
<1>7. ASSUME CommitOverflow PROVE ContainedOnReturn'
  BY <1>7 DEF CommitOverflow, Commit
<1>8. ASSUME CommitCanceled PROVE ContainedOnReturn'
  BY <1>8 DEF CommitCanceled, Commit
<1>9. ASSUME CommitTimeout PROVE ContainedOnReturn'
  BY <1>9 DEF CommitTimeout, Commit
<1>10. ASSUME CommitExit PROVE ContainedOnReturn'
  BY <1>10 DEF CommitExit, Commit
<1>11. ASSUME CommitObserverError PROVE ContainedOnReturn'
  BY <1>11 DEF CommitObserverError
<1>12. ASSUME Term PROVE ContainedOnReturn'
  BY <1>12 DEF Term, Signaled, Refused, Absent
<1>13. ASSUME GraceEnough PROVE ContainedOnReturn'
  BY <1>13 DEF GraceEnough
<1>14. ASSUME GraceOver PROVE ContainedOnReturn'
  BY <1>14 DEF GraceOver
<1>15. ASSUME Kill PROVE ContainedOnReturn'
  BY <1>15 DEF Kill, Signaled, Refused, Absent
<1>16. ASSUME Release PROVE ContainedOnReturn'
  BY <1>16 DEF Release
<1>17. ASSUME JoinComplete PROVE ContainedOnReturn'
  BY <1>17 DEF JoinComplete
<1>18. ASSUME JoinOverdue PROVE ContainedOnReturn'
  BY <1>18 DEF JoinOverdue
<1>19. ASSUME OwnersJoined PROVE ContainedOnReturn'
  BY <1>19 DEF OwnersJoined
<1>20. ASSUME ProbeGone PROVE ContainedOnReturn'
  BY <1>20 DEF ProbeGone
<1>21. ASSUME ProbeRemains PROVE ContainedOnReturn'
  BY <1>21 DEF ProbeRemains
<1>22. ASSUME Return PROVE ContainedOnReturn'
  BY <1>22 DEF Return
<1>23. ASSUME ObserveExit PROVE ContainedOnReturn'
  BY <1>23 DEF ObserveExit
<1>24. ASSUME Reap PROVE ContainedOnReturn'
  BY <1>24 DEF Reap
<1>25. ASSUME WriterEnds PROVE ContainedOnReturn'
  BY <1>25 DEF WriterEnds
<1>26. ASSUME CallerCancels PROVE ContainedOnReturn'
  BY <1>26 DEF CallerCancels
<1>27. ASSUME ExecutionTimerFires PROVE ContainedOnReturn'
  BY <1>27 DEF ExecutionTimerFires
<1>28. ASSUME CleanupTimerFires PROVE ContainedOnReturn'
  BY <1>28 DEF CleanupTimerFires
<1>29. ASSUME ObserverFails PROVE ContainedOnReturn'
  BY <1>29 DEF ObserverFails
<1>30. ASSUME RootExits PROVE ContainedOnReturn'
  BY <1>30 DEF RootExits
<1>31. ASSUME NumberRecycled PROVE ContainedOnReturn'
  BY <1>31 DEF NumberRecycled
<1>32. ASSUME NEW s \in Streams, Read(s) PROVE ContainedOnReturn'
  BY <1>32 DEF Read
<1>33. ASSUME NEW s \in Streams, ReaderEnds(s) PROVE ContainedOnReturn'
  BY <1>33 DEF ReaderEnds
<1>34. ASSUME NEW s \in Streams, Writes(s) PROVE ContainedOnReturn'
  BY <1>34 DEF Writes
<1>35. ASSUME NEW k \in Kids, Forks(k) PROVE ContainedOnReturn'
  BY <1>35 DEF Forks
<1>36. ASSUME NEW k \in Kids, KidExits(k) PROVE ContainedOnReturn'
  BY <1>36 DEF KidExits
<1>37. CASE UNCHANGED vars
  BY <1>37 DEF vars
<1> QED BY <1>1, <1>2, <1>3, <1>4, <1>5, <1>6, <1>7, <1>8, <1>9, <1>10, <1>11, <1>12, <1>13, <1>14,
    <1>15, <1>16, <1>17, <1>18, <1>19, <1>20, <1>21, <1>22, <1>23, <1>24, <1>25, <1>26, <1>27, <1>28,
        <1>29, <1>30, <1>31, <1>32, <1>33, <1>34, <1>35, <1>36, <1>37 DEF Next, RunnerStep, Environment

-----------------------------------------------------------------------------
\* The inductive invariant: who waits for the leader, who uses the pipes, and what
\* has failed so far.
THEOREM Inductive == Spec => []IInv
<1>1. Init => IInv
  <2> SUFFICES ASSUME Init PROVE IInv
    OBVIOUS
  <2>1. TypeOK
    <3>1. 0 \in 0..MaxWritten /\ 0 + 0 \in 0..MaxWritten
      BY RunnerAssumption
    <3>2. inPipe \in [Streams -> 0..MaxWritten] /\ total \in [Streams -> 0..MaxWritten]
          /\ \A s \in Streams : inPipe[s] + total[s] \in 0..MaxWritten
      BY <3>1 DEF Init
    <3> QED BY <3>2 DEF Init, TypeOK, Kinds, KidKinds
  <2>2. Members = {}
    BY DEF Init, Members
  <2> QED BY <2>1, <2>2
          DEF Init, IInv, Retained, Signaling, PipesUsed, FailuresKept, ContainedOnReturn
<1>2. IInv /\ [Next]_vars => IInv'
  BY TypeStep, RetainedStep, PipesStep, FailuresStep, ContainedStep DEF IInv
<1> QED BY <1>1, <1>2, PTL DEF Spec

\* No signal of the runner reaches a group that took over the number of its own.
THEOREM StrangersAreSafe == Spec => []NoForeignSignal
<1>1. IInv => NoForeignSignal
  BY DEF IInv, Retained, NoForeignSignal
<1> QED BY <1>1, Inductive, PTL

\* A return leaves no goroutine and no pipe, and without a cleanup failure nothing.
THEOREM ReturnContains == Spec => []ContainedOnReturn
<1>1. IInv => ContainedOnReturn
  BY DEF IInv
<1> QED BY <1>1, Inductive, PTL
=============================================================================
