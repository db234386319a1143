-------------------------- MODULE WindowsRunnerProofs --------------------------
(* For any descendants, streams and bounds: what a return of the Windows runner  *)
(* leaves is owed, and output beyond its bound is reported.                       *)
EXTENDS WindowsRunner, TLAPS

Launching == {"suspended", "assigned", "resumed", "abort", "abortWait"}
Watching == {"watch", "stop", "finish", "unfinished"}

\* Before there is a process there is nothing else; a process that runs, and its
\* descendants, are in the Job.
Launched ==
  /\ pc = "init" => root = "none"
  /\ root = "none" => /\ pc \in {"init", "returned"}
                      /\ ~handle /\ ~assigned /\ job = "none" /\ wait = "off" /\ owed = {}
                      /\ ~terminated
  /\ pc = "suspended" => ~assigned
  /\ pc \in {"suspended", "assigned"} => root = "suspended"
  /\ pc \in {"suspended", "assigned", "resumed"} => ~terminated
  /\ ~terminated => killed = {}
  /\ "root" \in killed => Live
  /\ root = "running" \/ Members # {} => assigned

\* The Job is closed when it is empty, and otherwise open or handed on.
InJob ==
  /\ pc \in {"assigned", "resumed", "join"} \cup Watching => assigned
  /\ assigned => job # "none"
  /\ assigned /\ job = "closed" => ~Live /\ Members = {}
  /\ pc \in {"assigned", "resumed"} \cup Watching => job = "open"
  /\ pc = "join" => job = "closed" \/ "job" \in owed

\* The handle of the root is open until somebody has waited for it.
Waited ==
  /\ wait = "off" => /\ \A w \in Workers : worker[w] = "off"
                     /\ \A s \in Streams : total[s] = 0
  /\ pc \in {"init", "abortJob"} \cup Launching => wait = "off"
  /\ pc \in {"join"} \cup Watching => wait # "off"
  /\ wait = "waiting" => handle
  /\ wait = "done" => ~handle
  /\ "kill" \in owed => wait = "off"
  /\ pc \in Launching => handle

\* Nothing is owed before the end, and nothing at all unless something failed.
Owing ==
  /\ pc \in Launching \cup Watching => owed = {}
  /\ pc = "join" /\ ~failed => owed = {}
  /\ pc \in {"abort", "abortWait", "abortJob"} => kind = "cleanup"
  /\ pc = "abortJob" => /\ handle => owed \cap {"process", "kill"} # {}
                        /\ Live /\ ~assigned => "kill" \in owed \/ "root" \in killed
  /\ terminated /\ ~assigned /\ Live => "root" \in killed

\* The provider's chunks are bounded in the pipe and in the capture together.
Typed == TypeOK /\ \A s \in Streams : inPipe[s] + total[s] <= MaxWritten

\* The flags of TypeOK.
FlagsTyped ==
  {handle, assigned, cancelIO, ctxDone, expired, primaryOver, overdue, terminated, failed}
    \subseteq BOOLEAN

IInv == Typed /\ Launched /\ InJob /\ Waited /\ Owing /\ NothingLost /\ OverflowIsReported

-----------------------------------------------------------------------------
\* TerminateJobObject and TerminateProcess reach the root if it lives.
LEMMA TerminatesRoot ==
  ASSUME Terminates(Everyone) \/ Terminates({p \in {"root"} : Live}), root' = root
  PROVE  terminated' /\ ("root" \in killed' => "root" \in killed \/ Live')
<1>1. "root" \in Everyone => Live
  BY WindowsAssumption DEF Everyone, Members
<1>2. Live' = Live
  BY DEF Live
<1> QED BY <1>1, <1>2 DEF Terminates

\* Every step keeps the types.
LEMMA TypedStep ==
  ASSUME Typed, [Next]_vars
  PROVE  Typed'
<1> USE WindowsAssumption DEF Typed, TypeOK, Workers, ReturnsKind, procVars, pipeVars, eventVars,
    endVars, Main, Aside, Outside, Terminates, Refused, Live, Members, Everyone, JobEmpty
<1>1. ASSUME StartFails PROVE Typed'
  BY <1>1 DEF StartFails
<1>2. ASSUME Create PROVE Typed'
  BY <1>2 DEF Create
<1>3. ASSUME Assign PROVE Typed'
  BY <1>3 DEF Assign
<1>4. ASSUME Resume PROVE Typed'
  BY <1>4 DEF Resume
<1>5. ASSUME LaunchFails PROVE Typed'
  BY <1>5 DEF LaunchFails
<1>6. ASSUME Abort PROVE Typed'
  BY <1>6 DEF Abort
<1>7. ASSUME AbortWaited PROVE Typed'
  BY <1>7 DEF AbortWaited
<1>8. ASSUME AbortUnwaited PROVE Typed'
  BY <1>8 DEF AbortUnwaited
<1>9. ASSUME AbortJobClosed PROVE Typed'
  BY <1>9 DEF AbortJobClosed
<1>10. ASSUME AbortJobOwed PROVE Typed'
  BY <1>10 DEF AbortJobOwed
<1>11. ASSUME AbortFails PROVE Typed'
  BY <1>11 DEF AbortFails
<1>12. ASSUME Watch PROVE Typed'
  BY <1>12 DEF Watch
<1>13. ASSUME Commit PROVE Typed'
  BY <1>13 DEF Commit
<1>14. ASSUME Stop PROVE Typed'
  BY <1>14 DEF Stop
<1>15. ASSUME FinishEmpty PROVE Typed'
  BY <1>15 DEF FinishEmpty
<1>16. ASSUME FinishTerminates PROVE Typed'
  BY <1>16 DEF FinishTerminates
<1>17. ASSUME FinishExpires PROVE Typed'
  BY <1>17 DEF FinishExpires
<1>18. ASSUME FinishFails PROVE Typed'
  BY <1>18 DEF FinishFails
<1>19. ASSUME Unfinished PROVE Typed'
  BY <1>19 DEF Unfinished
<1>20. ASSUME JoinForced PROVE Typed'
  BY <1>20 DEF JoinForced
<1>21. ASSUME JoinComplete PROVE Typed'
  BY <1>21 DEF JoinComplete
<1>22. ASSUME JoinOverdue PROVE Typed'
  BY <1>22 DEF JoinOverdue
<1>23. ASSUME RootWaited PROVE Typed'
  BY <1>23 DEF RootWaited
<1>24. ASSUME RootWaitFails PROVE Typed'
  BY <1>24 DEF RootWaitFails
<1>25. ASSUME OwedKill PROVE Typed'
  BY <1>25 DEF OwedKill
<1>26. ASSUME OwedProcess PROVE Typed'
  <2>1. FlagsTyped'
    BY <1>26 DEF OwedProcess, FlagsTyped
  <2>2. killed' \subseteq Kids \cup {"root"} /\ owed' \subseteq {"process", "kill", "job", "io"}
    BY <1>26 DEF OwedProcess
  <2> QED BY <1>26, <2>1, <2>2 DEF OwedProcess, FlagsTyped
<1>27. ASSUME OwedJob PROVE Typed'
  <2>1. FlagsTyped'
    BY <1>27 DEF OwedJob, FlagsTyped
  <2>2. killed' \subseteq Kids \cup {"root"} /\ owed' \subseteq {"process", "kill", "job", "io"}
    BY <1>27 DEF OwedJob
  <2> QED BY <1>27, <2>1, <2>2 DEF OwedJob, FlagsTyped
<1>28. ASSUME OwedIO PROVE Typed'
  BY <1>28 DEF OwedIO
<1>29. ASSUME CallerCancels PROVE Typed'
  BY <1>29 DEF CallerCancels
<1>30. ASSUME ExecutionTimerFires PROVE Typed'
  BY <1>30 DEF ExecutionTimerFires
<1>31. ASSUME CleanupTimerFires PROVE Typed'
  <2>1. FlagsTyped'
    BY <1>31 DEF CleanupTimerFires, FlagsTyped
  <2>2. killed' \subseteq Kids \cup {"root"} /\ owed' \subseteq {"process", "kill", "job", "io"}
    BY <1>31 DEF CleanupTimerFires
  <2> QED BY <1>31, <2>1, <2>2 DEF CleanupTimerFires, FlagsTyped
<1>32. ASSUME RootExits PROVE Typed'
  BY <1>32 DEF RootExits
<1>33. ASSUME NEW s \in Streams, Read(s) PROVE Typed'
  <2>1. inPipe[s] \in 1..MaxWritten /\ total[s] \in 0..MaxWritten /\ inPipe[s] + total[s] <= MaxWritten
    BY <1>33 DEF Read
  <2>2. inPipe[s] - 1 \in 0..MaxWritten /\ total[s] + 1 \in 0..MaxWritten
        /\ (inPipe[s] - 1) + (total[s] + 1) <= MaxWritten
    BY <2>1
  <2>3. inPipe' = [inPipe EXCEPT ![s] = inPipe[s] - 1] /\ total' = [total EXCEPT ![s] = total[s] + 1]
    BY <1>33 DEF Read
  <2>4. inPipe' \in [Streams -> 0..MaxWritten] /\ total' \in [Streams -> 0..MaxWritten]
        /\ \A t \in Streams : inPipe'[t] + total'[t] <= MaxWritten
    BY <2>2, <2>3
  <2> QED BY <1>33, <2>4 DEF Read
<1>34. ASSUME NEW s \in Streams, Writes(s) PROVE Typed'
  <2>1. inPipe[s] \in 0..MaxWritten /\ total[s] \in 0..MaxWritten /\ inPipe[s] + total[s] < MaxWritten
    BY <1>34 DEF Writes
  <2>2. inPipe[s] + 1 \in 0..MaxWritten /\ (inPipe[s] + 1) + total[s] <= MaxWritten
    BY <2>1
  <2>3. inPipe' = [inPipe EXCEPT ![s] = inPipe[s] + 1] /\ total' = total
    BY <1>34 DEF Writes
  <2>4. inPipe' \in [Streams -> 0..MaxWritten]
        /\ \A t \in Streams : inPipe'[t] + total'[t] <= MaxWritten
    BY <2>2, <2>3
  <2> QED BY <1>34, <2>4 DEF Writes
<1>35. ASSUME NEW w \in Workers, WorkerEnds(w) PROVE Typed'
  BY <1>35 DEF WorkerEnds
<1>36. ASSUME NEW k \in Kids, Forks(k) PROVE Typed'
  BY <1>36 DEF Forks
<1>37. ASSUME NEW k \in Kids, KidExits(k) PROVE Typed'
  BY <1>37 DEF KidExits
<1>38. CASE UNCHANGED vars
  BY <1>38 DEF vars
<1> QED BY <1>1, <1>2, <1>3, <1>4, <1>5, <1>6, <1>7, <1>8, <1>9, <1>10, <1>11, <1>12, <1>13, <1>14,
    <1>15, <1>16, <1>17, <1>18, <1>19, <1>20, <1>21, <1>22, <1>23, <1>24, <1>25, <1>26, <1>27, <1>28,
        <1>29, <1>30, <1>31, <1>32, <1>33, <1>34, <1>35, <1>36, <1>37, <1>38 DEF Next, Runner, Faults

\* Only Create makes the root and only Resume lets it run, in its Job.
LEMMA LaunchedStep ==
  ASSUME Typed, Launched, InJob, Owing, [Next]_vars
  PROVE  Launched'
<1> USE WindowsAssumption DEF Typed, TypeOK, Launched, InJob, Owing, Launching, Watching, ReturnsKind,
    procVars, pipeVars, eventVars, endVars, Main, Aside, Outside, Terminates, Refused, Live, Members,
    Everyone, JobEmpty
<1>1. ASSUME StartFails PROVE Launched'
  BY <1>1 DEF StartFails
<1>2. ASSUME Create PROVE Launched'
  BY <1>2 DEF Create
<1>3. ASSUME Assign PROVE Launched'
  BY <1>3 DEF Assign
<1>4. ASSUME Resume PROVE Launched'
  BY <1>4 DEF Resume
<1>5. ASSUME LaunchFails PROVE Launched'
  BY <1>5 DEF LaunchFails
<1>6. ASSUME Abort PROVE Launched'
  BY <1>6 DEF Abort
<1>7. ASSUME AbortWaited PROVE Launched'
  BY <1>7 DEF AbortWaited
<1>8. ASSUME AbortUnwaited PROVE Launched'
  BY <1>8 DEF AbortUnwaited
<1>9. ASSUME AbortJobClosed PROVE Launched'
  BY <1>9 DEF AbortJobClosed
<1>10. ASSUME AbortJobOwed PROVE Launched'
  BY <1>10 DEF AbortJobOwed
<1>11. ASSUME AbortFails PROVE Launched'
  BY <1>11 DEF AbortFails
<1>12. ASSUME Watch PROVE Launched'
  BY <1>12 DEF Watch
<1>13. ASSUME Commit PROVE Launched'
  BY <1>13 DEF Commit
<1>14. ASSUME Stop PROVE Launched'
  BY <1>14 DEF Stop
<1>15. ASSUME FinishEmpty PROVE Launched'
  BY <1>15 DEF FinishEmpty
<1>16. ASSUME FinishTerminates PROVE Launched'
  BY <1>16 DEF FinishTerminates
<1>17. ASSUME FinishExpires PROVE Launched'
  BY <1>17 DEF FinishExpires
<1>18. ASSUME FinishFails PROVE Launched'
  BY <1>18 DEF FinishFails
<1>19. ASSUME Unfinished PROVE Launched'
  BY <1>19 DEF Unfinished
<1>20. ASSUME JoinForced PROVE Launched'
  BY <1>20 DEF JoinForced
<1>21. ASSUME JoinComplete PROVE Launched'
  BY <1>21 DEF JoinComplete
<1>22. ASSUME JoinOverdue PROVE Launched'
  BY <1>22 DEF JoinOverdue
<1>23. ASSUME RootWaited PROVE Launched'
  BY <1>23 DEF RootWaited
<1>24. ASSUME RootWaitFails PROVE Launched'
  BY <1>24 DEF RootWaitFails
<1>25. ASSUME OwedKill PROVE Launched'
  <2>1. root' = root /\ kid' = kid /\ pc' = pc /\ handle' = handle /\ assigned' = assigned
        /\ job' = job /\ wait' = wait /\ root # "none"
    BY <1>25 DEF OwedKill
  <2>2. terminated' /\ ("root" \in killed' => "root" \in killed \/ Live')
    BY <1>25, <2>1, TerminatesRoot DEF OwedKill
  <2>3. Live' = Live /\ Members' = Members
    BY <2>1
  <2>4. pc \notin {"suspended", "assigned", "resumed"}
    BY <1>25 DEF OwedKill
  <2> QED BY <2>1, <2>2, <2>3, <2>4
<1>26. ASSUME OwedProcess PROVE Launched'
  BY <1>26 DEF OwedProcess
<1>27. ASSUME OwedJob PROVE Launched'
  <2>1. root' = root /\ kid' = kid /\ pc' = pc /\ handle' = handle /\ assigned' = assigned
        /\ wait' = wait /\ root # "none"
    BY <1>27 DEF OwedJob
  <2>2. Live' = Live /\ Members' = Members
    BY <2>1
  <2>3. CASE JobEmpty
    BY <1>27, <2>1, <2>2, <2>3 DEF OwedJob
  <2>4. CASE ~JobEmpty
    <3>1. terminated' /\ ("root" \in killed' => "root" \in killed \/ Live')
      BY <1>27, <2>1, <2>4, TerminatesRoot DEF OwedJob
    <3>2. pc \notin {"suspended", "assigned", "resumed"}
      BY <1>27 DEF OwedJob
    <3> QED BY <2>1, <2>2, <3>1, <3>2
  <2> QED BY <2>3, <2>4
<1>28. ASSUME OwedIO PROVE Launched'
  BY <1>28 DEF OwedIO
<1>29. ASSUME CallerCancels PROVE Launched'
  BY <1>29 DEF CallerCancels
<1>30. ASSUME ExecutionTimerFires PROVE Launched'
  BY <1>30 DEF ExecutionTimerFires
<1>31. ASSUME CleanupTimerFires PROVE Launched'
  BY <1>31 DEF CleanupTimerFires
<1>32. ASSUME RootExits PROVE Launched'
  BY <1>32 DEF RootExits
<1>33. ASSUME NEW s \in Streams, Read(s) PROVE Launched'
  BY <1>33 DEF Read
<1>34. ASSUME NEW s \in Streams, Writes(s) PROVE Launched'
  BY <1>34 DEF Writes
<1>35. ASSUME NEW w \in Workers, WorkerEnds(w) PROVE Launched'
  BY <1>35 DEF WorkerEnds
<1>36. ASSUME NEW k \in Kids, Forks(k) PROVE Launched'
  BY <1>36 DEF Forks
<1>37. ASSUME NEW k \in Kids, KidExits(k) PROVE Launched'
  BY <1>37 DEF KidExits
<1>38. CASE UNCHANGED vars
  BY <1>38 DEF vars
<1> QED BY <1>1, <1>2, <1>3, <1>4, <1>5, <1>6, <1>7, <1>8, <1>9, <1>10, <1>11, <1>12, <1>13, <1>14,
    <1>15, <1>16, <1>17, <1>18, <1>19, <1>20, <1>21, <1>22, <1>23, <1>24, <1>25, <1>26, <1>27, <1>28,
        <1>29, <1>30, <1>31, <1>32, <1>33, <1>34, <1>35, <1>36, <1>37, <1>38 DEF Next, Runner, Faults

\* finishWindowsJob and deferJobContainment close the Job only when it is empty.
LEMMA InJobStep ==
  ASSUME Typed, Launched, InJob, Owing, [Next]_vars
  PROVE  InJob'
<1> USE WindowsAssumption DEF Typed, TypeOK, Launched, InJob, Owing, Launching, Watching, ReturnsKind,
    procVars, pipeVars, eventVars, endVars, Main, Aside, Outside, Terminates, Refused, Live, Members,
    Everyone, JobEmpty
<1>1. ASSUME StartFails PROVE InJob'
  BY <1>1 DEF StartFails
<1>2. ASSUME Create PROVE InJob'
  BY <1>2 DEF Create
<1>3. ASSUME Assign PROVE InJob'
  BY <1>3 DEF Assign
<1>4. ASSUME Resume PROVE InJob'
  BY <1>4 DEF Resume
<1>5. ASSUME LaunchFails PROVE InJob'
  BY <1>5 DEF LaunchFails
<1>6. ASSUME Abort PROVE InJob'
  BY <1>6 DEF Abort
<1>7. ASSUME AbortWaited PROVE InJob'
  BY <1>7 DEF AbortWaited
<1>8. ASSUME AbortUnwaited PROVE InJob'
  BY <1>8 DEF AbortUnwaited
<1>9. ASSUME AbortJobClosed PROVE InJob'
  BY <1>9 DEF AbortJobClosed
<1>10. ASSUME AbortJobOwed PROVE InJob'
  BY <1>10 DEF AbortJobOwed
<1>11. ASSUME AbortFails PROVE InJob'
  BY <1>11 DEF AbortFails
<1>12. ASSUME Watch PROVE InJob'
  BY <1>12 DEF Watch
<1>13. ASSUME Commit PROVE InJob'
  BY <1>13 DEF Commit
<1>14. ASSUME Stop PROVE InJob'
  BY <1>14 DEF Stop
<1>15. ASSUME FinishEmpty PROVE InJob'
  BY <1>15 DEF FinishEmpty
<1>16. ASSUME FinishTerminates PROVE InJob'
  BY <1>16 DEF FinishTerminates
<1>17. ASSUME FinishExpires PROVE InJob'
  BY <1>17 DEF FinishExpires
<1>18. ASSUME FinishFails PROVE InJob'
  BY <1>18 DEF FinishFails
<1>19. ASSUME Unfinished PROVE InJob'
  BY <1>19 DEF Unfinished
<1>20. ASSUME JoinForced PROVE InJob'
  BY <1>20 DEF JoinForced
<1>21. ASSUME JoinComplete PROVE InJob'
  BY <1>21 DEF JoinComplete
<1>22. ASSUME JoinOverdue PROVE InJob'
  BY <1>22 DEF JoinOverdue
<1>23. ASSUME RootWaited PROVE InJob'
  BY <1>23 DEF RootWaited
<1>24. ASSUME RootWaitFails PROVE InJob'
  BY <1>24 DEF RootWaitFails
<1>25. ASSUME OwedKill PROVE InJob'
  BY <1>25 DEF OwedKill
<1>26. ASSUME OwedProcess PROVE InJob'
  BY <1>26 DEF OwedProcess
<1>27. ASSUME OwedJob PROVE InJob'
  BY <1>27 DEF OwedJob
<1>28. ASSUME OwedIO PROVE InJob'
  BY <1>28 DEF OwedIO
<1>29. ASSUME CallerCancels PROVE InJob'
  BY <1>29 DEF CallerCancels
<1>30. ASSUME ExecutionTimerFires PROVE InJob'
  BY <1>30 DEF ExecutionTimerFires
<1>31. ASSUME CleanupTimerFires PROVE InJob'
  BY <1>31 DEF CleanupTimerFires
<1>32. ASSUME RootExits PROVE InJob'
  BY <1>32 DEF RootExits
<1>33. ASSUME NEW s \in Streams, Read(s) PROVE InJob'
  BY <1>33 DEF Read
<1>34. ASSUME NEW s \in Streams, Writes(s) PROVE InJob'
  BY <1>34 DEF Writes
<1>35. ASSUME NEW w \in Workers, WorkerEnds(w) PROVE InJob'
  BY <1>35 DEF WorkerEnds
<1>36. ASSUME NEW k \in Kids, Forks(k) PROVE InJob'
  BY <1>36 DEF Forks
<1>37. ASSUME NEW k \in Kids, KidExits(k) PROVE InJob'
  BY <1>37 DEF KidExits
<1>38. CASE UNCHANGED vars
  BY <1>38 DEF vars
<1> QED BY <1>1, <1>2, <1>3, <1>4, <1>5, <1>6, <1>7, <1>8, <1>9, <1>10, <1>11, <1>12, <1>13, <1>14,
    <1>15, <1>16, <1>17, <1>18, <1>19, <1>20, <1>21, <1>22, <1>23, <1>24, <1>25, <1>26, <1>27, <1>28,
        <1>29, <1>30, <1>31, <1>32, <1>33, <1>34, <1>35, <1>36, <1>37, <1>38 DEF Next, Runner, Faults

\* The wait for the root closes its handle; the goroutines of the owner wait after it.
LEMMA WaitedStep ==
  ASSUME Typed, Launched, InJob, Waited, Owing, [Next]_vars
  PROVE  Waited'
<1> USE WindowsAssumption DEF Typed, TypeOK, Workers, Launched, InJob, Waited, Owing, Launching,
    Watching, ReturnsKind, procVars, pipeVars, eventVars, endVars, Main, Aside, Outside, Terminates,
    Refused, Live, Members, Everyone, JobEmpty
<1>1. ASSUME StartFails PROVE Waited'
  BY <1>1 DEF StartFails
<1>2. ASSUME Create PROVE Waited'
  BY <1>2 DEF Create
<1>3. ASSUME Assign PROVE Waited'
  BY <1>3 DEF Assign
<1>4. ASSUME Resume PROVE Waited'
  BY <1>4 DEF Resume
<1>5. ASSUME LaunchFails PROVE Waited'
  BY <1>5 DEF LaunchFails
<1>6. ASSUME Abort PROVE Waited'
  BY <1>6 DEF Abort
<1>7. ASSUME AbortWaited PROVE Waited'
  BY <1>7 DEF AbortWaited
<1>8. ASSUME AbortUnwaited PROVE Waited'
  BY <1>8 DEF AbortUnwaited
<1>9. ASSUME AbortJobClosed PROVE Waited'
  BY <1>9 DEF AbortJobClosed
<1>10. ASSUME AbortJobOwed PROVE Waited'
  BY <1>10 DEF AbortJobOwed
<1>11. ASSUME AbortFails PROVE Waited'
  BY <1>11 DEF AbortFails
<1>12. ASSUME Watch PROVE Waited'
  BY <1>12 DEF Watch
<1>13. ASSUME Commit PROVE Waited'
  BY <1>13 DEF Commit
<1>14. ASSUME Stop PROVE Waited'
  BY <1>14 DEF Stop
<1>15. ASSUME FinishEmpty PROVE Waited'
  BY <1>15 DEF FinishEmpty
<1>16. ASSUME FinishTerminates PROVE Waited'
  BY <1>16 DEF FinishTerminates
<1>17. ASSUME FinishExpires PROVE Waited'
  BY <1>17 DEF FinishExpires
<1>18. ASSUME FinishFails PROVE Waited'
  BY <1>18 DEF FinishFails
<1>19. ASSUME Unfinished PROVE Waited'
  BY <1>19 DEF Unfinished
<1>20. ASSUME JoinForced PROVE Waited'
  BY <1>20 DEF JoinForced
<1>21. ASSUME JoinComplete PROVE Waited'
  BY <1>21 DEF JoinComplete
<1>22. ASSUME JoinOverdue PROVE Waited'
  BY <1>22 DEF JoinOverdue
<1>23. ASSUME RootWaited PROVE Waited'
  BY <1>23 DEF RootWaited
<1>24. ASSUME RootWaitFails PROVE Waited'
  BY <1>24 DEF RootWaitFails
<1>25. ASSUME OwedKill PROVE Waited'
  BY <1>25 DEF OwedKill
<1>26. ASSUME OwedProcess PROVE Waited'
  BY <1>26 DEF OwedProcess
<1>27. ASSUME OwedJob PROVE Waited'
  BY <1>27 DEF OwedJob
<1>28. ASSUME OwedIO PROVE Waited'
  BY <1>28 DEF OwedIO
<1>29. ASSUME CallerCancels PROVE Waited'
  BY <1>29 DEF CallerCancels
<1>30. ASSUME ExecutionTimerFires PROVE Waited'
  BY <1>30 DEF ExecutionTimerFires
<1>31. ASSUME CleanupTimerFires PROVE Waited'
  BY <1>31 DEF CleanupTimerFires
<1>32. ASSUME RootExits PROVE Waited'
  BY <1>32 DEF RootExits
<1>33. ASSUME NEW s \in Streams, Read(s) PROVE Waited'
  BY <1>33 DEF Read
<1>34. ASSUME NEW s \in Streams, Writes(s) PROVE Waited'
  BY <1>34 DEF Writes
<1>35. ASSUME NEW w \in Workers, WorkerEnds(w) PROVE Waited'
  BY <1>35 DEF WorkerEnds
<1>36. ASSUME NEW k \in Kids, Forks(k) PROVE Waited'
  BY <1>36 DEF Forks
<1>37. ASSUME NEW k \in Kids, KidExits(k) PROVE Waited'
  BY <1>37 DEF KidExits
<1>38. CASE UNCHANGED vars
  BY <1>38 DEF vars
<1> QED BY <1>1, <1>2, <1>3, <1>4, <1>5, <1>6, <1>7, <1>8, <1>9, <1>10, <1>11, <1>12, <1>13, <1>14,
    <1>15, <1>16, <1>17, <1>18, <1>19, <1>20, <1>21, <1>22, <1>23, <1>24, <1>25, <1>26, <1>27, <1>28,
        <1>29, <1>30, <1>31, <1>32, <1>33, <1>34, <1>35, <1>36, <1>37, <1>38 DEF Next, Runner, Faults

\* What an abort or a deadline leaves is handed on by the step that leaves it.
LEMMA OwingStep ==
  ASSUME Typed, Launched, InJob, Waited, Owing, [Next]_vars
  PROVE  Owing'
<1> USE WindowsAssumption DEF Typed, TypeOK, Launched, InJob, Waited, Owing, Launching, Watching,
    ReturnsKind, procVars, pipeVars, eventVars, endVars, Main, Aside, Outside, Terminates, Refused, Live,
    Members, Everyone, JobEmpty
<1>1. ASSUME StartFails PROVE Owing'
  BY <1>1 DEF StartFails
<1>2. ASSUME Create PROVE Owing'
  BY <1>2 DEF Create
<1>3. ASSUME Assign PROVE Owing'
  BY <1>3 DEF Assign
<1>4. ASSUME Resume PROVE Owing'
  BY <1>4 DEF Resume
<1>5. ASSUME LaunchFails PROVE Owing'
  BY <1>5 DEF LaunchFails
<1>6. ASSUME Abort PROVE Owing'
  BY <1>6 DEF Abort
<1>7. ASSUME AbortWaited PROVE Owing'
  BY <1>7 DEF AbortWaited
<1>8. ASSUME AbortUnwaited PROVE Owing'
  BY <1>8 DEF AbortUnwaited
<1>9. ASSUME AbortJobClosed PROVE Owing'
  BY <1>9 DEF AbortJobClosed
<1>10. ASSUME AbortJobOwed PROVE Owing'
  BY <1>10 DEF AbortJobOwed
<1>11. ASSUME AbortFails PROVE Owing'
  BY <1>11 DEF AbortFails
<1>12. ASSUME Watch PROVE Owing'
  BY <1>12 DEF Watch
<1>13. ASSUME Commit PROVE Owing'
  BY <1>13 DEF Commit
<1>14. ASSUME Stop PROVE Owing'
  BY <1>14 DEF Stop
<1>15. ASSUME FinishEmpty PROVE Owing'
  BY <1>15 DEF FinishEmpty
<1>16. ASSUME FinishTerminates PROVE Owing'
  BY <1>16 DEF FinishTerminates
<1>17. ASSUME FinishExpires PROVE Owing'
  BY <1>17 DEF FinishExpires
<1>18. ASSUME FinishFails PROVE Owing'
  BY <1>18 DEF FinishFails
<1>19. ASSUME Unfinished PROVE Owing'
  BY <1>19 DEF Unfinished
<1>20. ASSUME JoinForced PROVE Owing'
  BY <1>20 DEF JoinForced
<1>21. ASSUME JoinComplete PROVE Owing'
  BY <1>21 DEF JoinComplete
<1>22. ASSUME JoinOverdue PROVE Owing'
  BY <1>22 DEF JoinOverdue
<1>23. ASSUME RootWaited PROVE Owing'
  BY <1>23 DEF RootWaited
<1>24. ASSUME RootWaitFails PROVE Owing'
  BY <1>24 DEF RootWaitFails
<1>25. ASSUME OwedKill PROVE Owing'
  BY <1>25 DEF OwedKill
<1>26. ASSUME OwedProcess PROVE Owing'
  BY <1>26 DEF OwedProcess
<1>27. ASSUME OwedJob PROVE Owing'
  BY <1>27 DEF OwedJob
<1>28. ASSUME OwedIO PROVE Owing'
  BY <1>28 DEF OwedIO
<1>29. ASSUME CallerCancels PROVE Owing'
  BY <1>29 DEF CallerCancels
<1>30. ASSUME ExecutionTimerFires PROVE Owing'
  BY <1>30 DEF ExecutionTimerFires
<1>31. ASSUME CleanupTimerFires PROVE Owing'
  BY <1>31 DEF CleanupTimerFires
<1>32. ASSUME RootExits PROVE Owing'
  BY <1>32 DEF RootExits
<1>33. ASSUME NEW s \in Streams, Read(s) PROVE Owing'
  BY <1>33 DEF Read
<1>34. ASSUME NEW s \in Streams, Writes(s) PROVE Owing'
  BY <1>34 DEF Writes
<1>35. ASSUME NEW w \in Workers, WorkerEnds(w) PROVE Owing'
  BY <1>35 DEF WorkerEnds
<1>36. ASSUME NEW k \in Kids, Forks(k) PROVE Owing'
  BY <1>36 DEF Forks
<1>37. ASSUME NEW k \in Kids, KidExits(k) PROVE Owing'
  BY <1>37 DEF KidExits
<1>38. CASE UNCHANGED vars
  BY <1>38 DEF vars
<1> QED BY <1>1, <1>2, <1>3, <1>4, <1>5, <1>6, <1>7, <1>8, <1>9, <1>10, <1>11, <1>12, <1>13, <1>14,
    <1>15, <1>16, <1>17, <1>18, <1>19, <1>20, <1>21, <1>22, <1>23, <1>24, <1>25, <1>26, <1>27, <1>28,
        <1>29, <1>30, <1>31, <1>32, <1>33, <1>34, <1>35, <1>36, <1>37, <1>38 DEF Next, Runner, Faults

\* After the return each goroutine of the owner gives up its part only when it is done.
LEMMA LostStep ==
  ASSUME Typed, Launched, InJob, Waited, Owing, NothingLost, [Next]_vars
  PROVE  NothingLost'
<1> USE WindowsAssumption DEF Typed, TypeOK, Workers, Launched, InJob, Waited, Owing, NothingLost,
    Launching, Watching, Idle, Joined, ReturnsKind, procVars, pipeVars, eventVars, endVars, Main, Aside,
    Outside, Terminates, Refused, Live, Members, Everyone, JobEmpty
<1>1. ASSUME StartFails PROVE NothingLost'
  BY <1>1 DEF StartFails
<1>2. ASSUME Create PROVE NothingLost'
  BY <1>2 DEF Create
<1>3. ASSUME Assign PROVE NothingLost'
  BY <1>3 DEF Assign
<1>4. ASSUME Resume PROVE NothingLost'
  BY <1>4 DEF Resume
<1>5. ASSUME LaunchFails PROVE NothingLost'
  BY <1>5 DEF LaunchFails
<1>6. ASSUME Abort PROVE NothingLost'
  BY <1>6 DEF Abort
<1>7. ASSUME AbortWaited PROVE NothingLost'
  BY <1>7 DEF AbortWaited
<1>8. ASSUME AbortUnwaited PROVE NothingLost'
  BY <1>8 DEF AbortUnwaited
<1>9. ASSUME AbortJobClosed PROVE NothingLost'
  BY <1>9 DEF AbortJobClosed
<1>10. ASSUME AbortJobOwed PROVE NothingLost'
  BY <1>10 DEF AbortJobOwed
<1>11. ASSUME AbortFails PROVE NothingLost'
  BY <1>11 DEF AbortFails
<1>12. ASSUME Watch PROVE NothingLost'
  BY <1>12 DEF Watch
<1>13. ASSUME Commit PROVE NothingLost'
  BY <1>13 DEF Commit
<1>14. ASSUME Stop PROVE NothingLost'
  BY <1>14 DEF Stop
<1>15. ASSUME FinishEmpty PROVE NothingLost'
  BY <1>15 DEF FinishEmpty
<1>16. ASSUME FinishTerminates PROVE NothingLost'
  BY <1>16 DEF FinishTerminates
<1>17. ASSUME FinishExpires PROVE NothingLost'
  BY <1>17 DEF FinishExpires
<1>18. ASSUME FinishFails PROVE NothingLost'
  BY <1>18 DEF FinishFails
<1>19. ASSUME Unfinished PROVE NothingLost'
  BY <1>19 DEF Unfinished
<1>20. ASSUME JoinForced PROVE NothingLost'
  BY <1>20 DEF JoinForced
<1>21. ASSUME JoinComplete PROVE NothingLost'
  BY <1>21 DEF JoinComplete
<1>22. ASSUME JoinOverdue PROVE NothingLost'
  BY <1>22 DEF JoinOverdue
<1>23. ASSUME RootWaited PROVE NothingLost'
  BY <1>23 DEF RootWaited
<1>24. ASSUME RootWaitFails PROVE NothingLost'
  BY <1>24 DEF RootWaitFails
<1>25. ASSUME OwedKill PROVE NothingLost'
  BY <1>25 DEF OwedKill
<1>26. ASSUME OwedProcess PROVE NothingLost'
  BY <1>26 DEF OwedProcess
<1>27. ASSUME OwedJob PROVE NothingLost'
  BY <1>27 DEF OwedJob
<1>28. ASSUME OwedIO PROVE NothingLost'
  BY <1>28 DEF OwedIO
<1>29. ASSUME CallerCancels PROVE NothingLost'
  BY <1>29 DEF CallerCancels
<1>30. ASSUME ExecutionTimerFires PROVE NothingLost'
  BY <1>30 DEF ExecutionTimerFires
<1>31. ASSUME CleanupTimerFires PROVE NothingLost'
  BY <1>31 DEF CleanupTimerFires
<1>32. ASSUME RootExits PROVE NothingLost'
  BY <1>32 DEF RootExits
<1>33. ASSUME NEW s \in Streams, Read(s) PROVE NothingLost'
  BY <1>33 DEF Read
<1>34. ASSUME NEW s \in Streams, Writes(s) PROVE NothingLost'
  BY <1>34 DEF Writes
<1>35. ASSUME NEW w \in Workers, WorkerEnds(w) PROVE NothingLost'
  BY <1>35 DEF WorkerEnds
<1>36. ASSUME NEW k \in Kids, Forks(k) PROVE NothingLost'
  BY <1>36 DEF Forks
<1>37. ASSUME NEW k \in Kids, KidExits(k) PROVE NothingLost'
  BY <1>37 DEF KidExits
<1>38. CASE UNCHANGED vars
  BY <1>38 DEF vars
<1> QED BY <1>1, <1>2, <1>3, <1>4, <1>5, <1>6, <1>7, <1>8, <1>9, <1>10, <1>11, <1>12, <1>13, <1>14,
    <1>15, <1>16, <1>17, <1>18, <1>19, <1>20, <1>21, <1>22, <1>23, <1>24, <1>25, <1>26, <1>27, <1>28,
        <1>29, <1>30, <1>31, <1>32, <1>33, <1>34, <1>35, <1>36, <1>37, <1>38 DEF Next, Runner, Faults

\* Nothing is read any more after a return that is not a cleanup failure.
LEMMA OverflowStep ==
  ASSUME Typed, Launched, InJob, Waited, Owing, NothingLost, OverflowIsReported, [Next]_vars
  PROVE  OverflowIsReported'
<1> USE WindowsAssumption DEF Typed, TypeOK, Workers, Launched, Waited, Owing, NothingLost,
    OverflowIsReported, Overflowed, Launching, Watching, Idle, Joined, ReturnsKind, procVars, pipeVars,
    eventVars, endVars, Main, Aside, Outside, Terminates, Refused, Live, Members, Everyone, JobEmpty
<1>1. ASSUME StartFails PROVE OverflowIsReported'
  <2>1. total' = total /\ \A s \in Streams : total[s] = 0
    BY <1>1 DEF StartFails
  <2>2. ~Overflowed'
    BY <2>1
  <2> QED BY <2>2
<1>2. ASSUME Create PROVE OverflowIsReported'
  BY <1>2 DEF Create
<1>3. ASSUME Assign PROVE OverflowIsReported'
  BY <1>3 DEF Assign
<1>4. ASSUME Resume PROVE OverflowIsReported'
  BY <1>4 DEF Resume
<1>5. ASSUME LaunchFails PROVE OverflowIsReported'
  BY <1>5 DEF LaunchFails
<1>6. ASSUME Abort PROVE OverflowIsReported'
  BY <1>6 DEF Abort
<1>7. ASSUME AbortWaited PROVE OverflowIsReported'
  BY <1>7 DEF AbortWaited
<1>8. ASSUME AbortUnwaited PROVE OverflowIsReported'
  BY <1>8 DEF AbortUnwaited
<1>9. ASSUME AbortJobClosed PROVE OverflowIsReported'
  BY <1>9 DEF AbortJobClosed
<1>10. ASSUME AbortJobOwed PROVE OverflowIsReported'
  BY <1>10 DEF AbortJobOwed
<1>11. ASSUME AbortFails PROVE OverflowIsReported'
  BY <1>11 DEF AbortFails
<1>12. ASSUME Watch PROVE OverflowIsReported'
  BY <1>12 DEF Watch
<1>13. ASSUME Commit PROVE OverflowIsReported'
  BY <1>13 DEF Commit
<1>14. ASSUME Stop PROVE OverflowIsReported'
  BY <1>14 DEF Stop
<1>15. ASSUME FinishEmpty PROVE OverflowIsReported'
  BY <1>15 DEF FinishEmpty
<1>16. ASSUME FinishTerminates PROVE OverflowIsReported'
  BY <1>16 DEF FinishTerminates
<1>17. ASSUME FinishExpires PROVE OverflowIsReported'
  BY <1>17 DEF FinishExpires
<1>18. ASSUME FinishFails PROVE OverflowIsReported'
  BY <1>18 DEF FinishFails
<1>19. ASSUME Unfinished PROVE OverflowIsReported'
  BY <1>19 DEF Unfinished
<1>20. ASSUME JoinForced PROVE OverflowIsReported'
  BY <1>20 DEF JoinForced
<1>21. ASSUME JoinComplete PROVE OverflowIsReported'
  BY <1>21 DEF JoinComplete
<1>22. ASSUME JoinOverdue PROVE OverflowIsReported'
  BY <1>22 DEF JoinOverdue
<1>23. ASSUME RootWaited PROVE OverflowIsReported'
  BY <1>23 DEF RootWaited
<1>24. ASSUME RootWaitFails PROVE OverflowIsReported'
  BY <1>24 DEF RootWaitFails
<1>25. ASSUME OwedKill PROVE OverflowIsReported'
  BY <1>25 DEF OwedKill
<1>26. ASSUME OwedProcess PROVE OverflowIsReported'
  BY <1>26 DEF OwedProcess
<1>27. ASSUME OwedJob PROVE OverflowIsReported'
  BY <1>27 DEF OwedJob
<1>28. ASSUME OwedIO PROVE OverflowIsReported'
  BY <1>28 DEF OwedIO
<1>29. ASSUME CallerCancels PROVE OverflowIsReported'
  BY <1>29 DEF CallerCancels
<1>30. ASSUME ExecutionTimerFires PROVE OverflowIsReported'
  BY <1>30 DEF ExecutionTimerFires
<1>31. ASSUME CleanupTimerFires PROVE OverflowIsReported'
  BY <1>31 DEF CleanupTimerFires
<1>32. ASSUME RootExits PROVE OverflowIsReported'
  BY <1>32 DEF RootExits
<1>33. ASSUME NEW s \in Streams, Read(s) PROVE OverflowIsReported'
  BY <1>33 DEF Read
<1>34. ASSUME NEW s \in Streams, Writes(s) PROVE OverflowIsReported'
  BY <1>34 DEF Writes
<1>35. ASSUME NEW w \in Workers, WorkerEnds(w) PROVE OverflowIsReported'
  BY <1>35 DEF WorkerEnds
<1>36. ASSUME NEW k \in Kids, Forks(k) PROVE OverflowIsReported'
  BY <1>36 DEF Forks
<1>37. ASSUME NEW k \in Kids, KidExits(k) PROVE OverflowIsReported'
  BY <1>37 DEF KidExits
<1>38. CASE UNCHANGED vars
  BY <1>38 DEF vars
<1> QED BY <1>1, <1>2, <1>3, <1>4, <1>5, <1>6, <1>7, <1>8, <1>9, <1>10, <1>11, <1>12, <1>13, <1>14,
    <1>15, <1>16, <1>17, <1>18, <1>19, <1>20, <1>21, <1>22, <1>23, <1>24, <1>25, <1>26, <1>27, <1>28,
        <1>29, <1>30, <1>31, <1>32, <1>33, <1>34, <1>35, <1>36, <1>37, <1>38 DEF Next, Runner, Faults

-----------------------------------------------------------------------------
\* The inductive invariant: at every step of the runner it is known who closes the
\* Job, who waits for the root and who joins the workers.
THEOREM Inductive == Spec => []IInv
<1>1. Init => IInv
  <2> SUFFICES ASSUME Init PROVE IInv
    OBVIOUS
  <2>1. Typed
    <3>1. 0 \in 0..MaxWritten /\ 0 + 0 <= MaxWritten
      BY WindowsAssumption
    <3>2. inPipe \in [Streams -> 0..MaxWritten] /\ total \in [Streams -> 0..MaxWritten]
      BY <3>1 DEF Init
    <3>3. \A s \in Streams : inPipe[s] + total[s] <= MaxWritten
      BY <3>1 DEF Init
    <3> QED BY <3>2, <3>3 DEF Init, Typed, TypeOK
  <2>2. Members = {} /\ ~Live
    BY DEF Init, Members, Live
  <2>3. Launched /\ InJob /\ Waited /\ Owing
    BY <2>2 DEF Init, Launched, InJob, Waited, Owing, Launching, Watching, Workers
  <2>4. NothingLost /\ OverflowIsReported
    BY DEF Init, NothingLost, OverflowIsReported
  <2> QED BY <2>1, <2>3, <2>4 DEF IInv
<1>2. IInv /\ [Next]_vars => IInv'
  BY TypedStep, LaunchedStep, InJobStep, WaitedStep, OwingStep, LostStep, OverflowStep DEF IInv
<1> QED BY <1>1, <1>2, PTL DEF Spec

\* A return leaves nothing that is not owed, whatever calls of the API failed.
THEOREM ReturnLosesNothing == Spec => []NothingLost
<1>1. IInv => NothingLost
  BY DEF IInv
<1> QED BY <1>1, Inductive, PTL

\* Output beyond its bound is never returned as a success.
THEOREM OverflowNeverPasses == Spec => []OverflowIsReported
<1>1. IInv => OverflowIsReported
  BY DEF IInv
<1> QED BY <1>1, Inductive, PTL
=============================================================================
