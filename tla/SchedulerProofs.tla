---------------------------- MODULE SchedulerProofs ----------------------------
(* For any calls, workers and limits: the scheduler loses no call and no wakeup,   *)
(* counts its work, stops for good, and implements the abstract pool of WorkPool.  *)
EXTENDS Scheduler, FiniteSetTheorems, SequenceTheorems, TLAPS

\* No element occurs twice.
Distinct(q) == \A i, j \in DOMAIN q : q[i] = q[j] => i = j

\* What completeQueuedLocked leaves of the list.
LEMMA UnlinkProperties ==
  ASSUME NEW S, NEW q \in Seq(S), NEW r \in ToSet(q), Distinct(q)
  PROVE  /\ Unlink(q, r) \in Seq(S)
         /\ Len(Unlink(q, r)) = Len(q) - 1
         /\ ToSet(Unlink(q, r)) = ToSet(q) \ {r}
         /\ Distinct(Unlink(q, r))
<1> DEFINE i == CHOOSE i \in DOMAIN q : q[i] = r
           u == Unlink(q, r)
<1>1. i \in 1..Len(q) /\ q[i] = r
  BY DEF ToSet
<1>2. u = SubSeq(q, 1, i-1) \o SubSeq(q, i+1, Len(q))
  BY DEF Unlink, RemoveAt
<1> HIDE DEF i, u
<1>3. /\ u \in Seq(S)
      /\ Len(u) = Len(q) - 1
      /\ \A j \in 1..Len(q)-1 : u[j] = IF j < i THEN q[j] ELSE q[j+1]
  <2> DEFINE a == SubSeq(q, 1, i-1)
             b == SubSeq(q, i+1, Len(q))
  <2>1. /\ a \in Seq(S) /\ Len(a) = i - 1
        /\ \A j \in 1..i-1 : a[j] = q[j]
    BY <1>1, SubSeqProperties
  <2>2. /\ b \in Seq(S) /\ Len(b) = Len(q) - i
        /\ \A j \in 1..Len(q)-i : b[j] = q[i+j]
    BY <1>1, SubSeqProperties
  <2> HIDE DEF a, b
  <2>3. u = a \o b
    BY <1>2 DEF a, b
  <2>4. /\ u \in Seq(S) /\ Len(u) = Len(a) + Len(b)
        /\ \A j \in 1..Len(a)+Len(b) : u[j] = IF j <= Len(a) THEN a[j] ELSE b[j - Len(a)]
    BY <2>1, <2>2, <2>3, ConcatProperties
  <2>5. Len(q) \in Nat /\ Len(u) = Len(q) - 1
    BY <1>1, <2>1, <2>2, <2>4
  <2>6. Len(a) + Len(b) = Len(q) - 1
    BY <1>1, <2>1, <2>2, <2>5
  <2>7. ASSUME NEW j \in 1..Len(q)-1, j < i PROVE u[j] = q[j]
    <3>1. j \in 1..i-1 /\ j <= Len(a) /\ j \in 1..Len(a)+Len(b)
      BY <1>1, <2>1, <2>5, <2>6, <2>7
    <3>2. u[j] = a[j]
      BY <2>4, <3>1
    <3> QED BY <2>1, <3>1, <3>2
  <2>8. ASSUME NEW j \in 1..Len(q)-1, ~(j < i) PROVE u[j] = q[j+1]
    <3>1. /\ j - (i-1) \in 1..Len(q)-i /\ i + (j - (i-1)) = j + 1
          /\ ~(j <= Len(a)) /\ j \in 1..Len(a)+Len(b) /\ Len(a) = i-1
      BY <1>1, <2>1, <2>5, <2>6, <2>8
    <3>2. u[j] = b[j - (i-1)]
      BY <2>4, <3>1
    <3> QED BY <2>2, <3>1, <3>2
  <2> QED BY <2>4, <2>5, <2>7, <2>8
<1>4. ToSet(u) = ToSet(q) \ {r}
  <2>1. ASSUME NEW x \in ToSet(u) PROVE x \in ToSet(q) /\ x # r
    BY <1>1, <1>3 DEF ToSet, Distinct
  <2>2. ASSUME NEW x \in ToSet(q), x # r PROVE x \in ToSet(u)
    <3>1. PICK k \in 1..Len(q) : q[k] = x
      BY DEF ToSet
    <3>2. CASE k < i
      BY <1>1, <1>3, <3>1, <3>2 DEF ToSet
    <3>3. CASE k > i
      <4>1. k - 1 \in 1..Len(q)-1 /\ u[k-1] = x
        BY <1>1, <1>3, <3>1, <3>3
      <4> QED BY <4>1, <1>3 DEF ToSet
    <3> QED BY <1>1, <2>2, <3>1, <3>2, <3>3
  <2> QED BY <2>1, <2>2
<1>5. Distinct(u)
  <2> SUFFICES ASSUME NEW j \in DOMAIN u, NEW k \in DOMAIN u, u[j] = u[k] PROVE j = k
    BY DEF Distinct
  <2>1. Len(q) \in Nat /\ j \in 1..Len(q)-1 /\ k \in 1..Len(q)-1
    BY <1>3
  <2> DEFINE at(n) == IF n < i THEN n ELSE n + 1
  <2>2. \A n \in 1..Len(q)-1 : at(n) \in 1..Len(q) /\ u[n] = q[at(n)]
    BY <1>1, <1>3, <2>1
  <2>3. at(j) = at(k)
    <3> HIDE DEF at
    <3>1. q[at(j)] = q[at(k)] /\ at(j) \in DOMAIN q /\ at(k) \in DOMAIN q
      BY <2>1, <2>2
    <3> QED BY <3>1 DEF Distinct
  <2> QED BY <1>1, <2>1, <2>3
<1> QED BY <1>3, <1>4, <1>5 DEF u

\* Do puts the new item at the back of the list (PushBack): it gains that one
\* element and still holds each item once.
LEMMA AppendQueue ==
  ASSUME NEW S, NEW q \in Seq(S), NEW r \in S, r \notin ToSet(q), Distinct(q)
  PROVE  /\ Append(q, r) \in Seq(S)
         /\ Len(Append(q, r)) = Len(q) + 1
         /\ ToSet(Append(q, r)) = ToSet(q) \cup {r}
         /\ Distinct(Append(q, r))
<1>1. /\ Append(q, r) \in Seq(S) /\ Len(Append(q, r)) = Len(q) + 1
      /\ \A i \in 1..Len(q) : Append(q, r)[i] = q[i]
      /\ Append(q, r)[Len(q)+1] = r
  OBVIOUS
<1>2. ToSet(Append(q, r)) = ToSet(q) \cup {r}
  <2>1. ToSet(Append(q, r)) \subseteq ToSet(q) \cup {r}
    BY <1>1 DEF ToSet
  <2>2. r \in ToSet(Append(q, r))
    BY <1>1 DEF ToSet
  <2>3. ASSUME NEW x \in ToSet(q) PROVE x \in ToSet(Append(q, r))
    BY <1>1 DEF ToSet
  <2> QED BY <2>1, <2>2, <2>3
<1>3. Distinct(Append(q, r))
  BY <1>1 DEF Distinct, ToSet
<1> QED BY <1>1, <1>2, <1>3

\* The worker removes the front of the list: it loses that one element.
LEMMA TailQueue ==
  ASSUME NEW S, NEW q \in Seq(S), q # <<>>, Distinct(q)
  PROVE  /\ Head(q) \in ToSet(q)
         /\ Tail(q) \in Seq(S)
         /\ Len(Tail(q)) = Len(q) - 1
         /\ ToSet(Tail(q)) = ToSet(q) \ {Head(q)}
         /\ Distinct(Tail(q))
<1>1. /\ Tail(q) \in Seq(S) /\ Len(Tail(q)) = Len(q) - 1 /\ Len(q) > 0
      /\ \A i \in 1..Len(q)-1 : Tail(q)[i] = q[i+1]
      /\ Head(q) = q[1]
  OBVIOUS
<1>2. ASSUME NEW x \in ToSet(q), x # q[1] PROVE x \in ToSet(Tail(q))
  <2>1. PICK k \in 1..Len(q) : q[k] = x
    BY DEF ToSet
  <2>2. k - 1 \in 1..Len(q)-1
    BY <1>2, <2>1
  <2>3. Tail(q)[k-1] = x
    BY <1>1, <2>1, <2>2
  <2>4. k - 1 \in DOMAIN Tail(q)
    BY <1>1, <2>2
  <2> QED BY <2>3, <2>4 DEF ToSet
<1>3. ASSUME NEW x \in ToSet(Tail(q)) PROVE x \in ToSet(q) /\ x # q[1]
  BY <1>1 DEF ToSet, Distinct
<1>4. Head(q) \in ToSet(q)
  BY <1>1 DEF ToSet
<1>5. Distinct(Tail(q))
  BY <1>1 DEF Distinct
<1> QED BY <1>1, <1>2, <1>3, <1>4, <1>5

-----------------------------------------------------------------------------
(* Who holds an item: the queue, a worker, item.done or the caller.         *)

Busy == {"popped", "arming", "ready", "working", "finishing", "delivering"}

\* The queue holds exactly the items in state Queued, each once.
QueueOwns ==
  /\ Distinct(queue)
  /\ \A r \in Requests : state[r] = "Queued" <=> r \in ToSet(queue)

\* A busy worker holds one item nobody else holds, in the state its place says.
WorkerOwns ==
  /\ \A w \in Workers : item[w] # None <=> worker[w] \in Busy
  /\ \A v, w \in Workers : item[v] = item[w] /\ item[v] # None => v = w
  /\ \A w \in Workers :
       /\ worker[w] \in {"popped", "arming", "ready"} => state[item[w]] = "Starting"
       /\ worker[w] \in {"working", "finishing"} => state[item[w]] = "Running"
       /\ worker[w] = "delivering" => state[item[w]] = "Done"
       /\ worker[w] \in {"finishing", "delivering"} => result[w] # None
  /\ \A r \in Requests :
       state[r] \in {"Starting", "Running"} => \E w \in Workers : item[w] = r

\* A result lies in item.done only after the item left the queue and the
\* workers, and only until its Do has taken it.
ChannelOwns ==
  \A r \in Requests :
    /\ done[r] # None => /\ state[r] = "Done"
                         /\ ret[r] = None
                         /\ \A w \in Workers : item[w] # r
    /\ state[r] = "Done" /\ ret[r] = None /\ done[r] = None =>
         \E w \in Workers : item[w] = r

\* A Do has returned exactly if it has a result, and then nobody holds its item.
CallerOwns ==
  \A r \in Requests :
    /\ ret[r] # None <=> do[r] = "returned"
    /\ ret[r] # None => /\ state[r] \in {"none", "Done"}
                        /\ \A w \in Workers : item[w] # r
    /\ do[r] \in {"idle", "enter"} => state[r] = "none"
    /\ do[r] \in {"wait", "await"} => state[r] # "none"

Ownership == QueueOwns /\ WorkerOwns /\ ChannelOwns /\ CallerOwns

\* The byte counter is the number of (item, byte) pairs in the queue, which
\* are finitely many.
Accounted == IsFiniteSet(BytePairs(ToSet(queue))) /\ QueueBounded

IInv == TypeOK /\ Ownership /\ Accounted

\* What New has validated of the limits, and the values a call can return.
LEMMA Domains ==
  /\ None \notin Results /\ None \notin Requests
  /\ Terminals \subseteq Results /\ WorkResults \subseteq Results
  /\ \A r \in Requests : Weight[r] \in Nat \ {0}
  /\ QueueSize \in Nat \ {0} /\ QueueBytes \in Nat \ {0}
BY ConstantAssumption DEF Results

\* queuedTerminalLocked and activeCancellationCauseLocked answer with one of
\* their sentinels or nil.
LEMMA CauseType ==
  ASSUME NEW r \in Requests
  PROVE  /\ ActiveCause(r) \in {"shuttingDown", "canceled", None}
         /\ QueuedTerminal(r) \in {"shuttingDown", "canceled", "queueTimeout", None}
BY DEF ActiveCause, QueuedTerminal

\* A worker between the pop and the send of the result holds an item of a call.
LEMMA BusyItem ==
  ASSUME IInv, NEW w \in Workers, worker[w] \in Busy
  PROVE  item[w] \in Requests
BY DEF IInv, TypeOK, Ownership, WorkerOwns

\* cond.Signal moves at most one sleeping worker and changes no type.
LEMMA SignalType ==
  ASSUME TypeOK, Signal
  PROVE  /\ worker' \in [Workers -> {"idle", "waiting", "popped", "arming", "ready",
                                    "working", "finishing", "delivering", "exited"}]
         /\ \A w \in Workers : worker'[w] # worker[w] =>
                                 worker[w] = "waiting" /\ worker'[w] = "idle"
<1>1. CASE UNCHANGED worker
  BY <1>1 DEF TypeOK
<1>2. ASSUME NEW w \in Workers, worker[w] = "waiting",
             worker' = [worker EXCEPT ![w] = "idle"]
      PROVE  /\ worker' \in [Workers -> {"idle", "waiting", "popped", "arming", "ready",
                                     "working", "finishing", "delivering", "exited"}]
             /\ \A v \in Workers : worker'[v] # worker[v] =>
                                     worker[v] = "waiting" /\ worker'[v] = "idle"
  BY <1>2 DEF TypeOK
<1> QED BY <1>1, <1>2 DEF Signal

\* Every step of Do, the workers, the timers and Shutdown keeps the types and the
\* limit of the queue.
LEMMA TypeStep ==
  ASSUME IInv, [Next]_vars
  PROVE  TypeOK'
<1> USE Domains, CauseType DEF IInv, TypeOK
<1>1. ASSUME NEW r \in Requests, Enter(r) PROVE TypeOK'
  BY <1>1 DEF vars, itemVars, envVars, doVars, workerVars, ctxVars, stopVars, Enter
<1>2. ASSUME NEW r \in Requests, Refuse(r) PROVE TypeOK'
  BY <1>2 DEF vars, itemVars, envVars, doVars, workerVars, ctxVars, stopVars, Refuse, Terminals
<1>3. ASSUME NEW r \in Requests, Admit(r) PROVE TypeOK'
  <2>1. Append(queue, r) \in Seq(Requests)
    OBVIOUS
  <2> QED BY <1>3, <2>1, SignalType DEF vars, itemVars, envVars, doVars, workerVars, ctxVars, stopVars,
      Admit
<1>4. ASSUME NEW r \in Requests, GiveUp(r) PROVE TypeOK'
  <2>1. r \in ToSet(queue) /\ Distinct(queue)
    BY <1>4 DEF Ownership, QueueOwns, GiveUp
  <2>2. Unlink(queue, r) \in Seq(Requests)
    BY <2>1, UnlinkProperties
  <2>3. QueuedTerminal(r) \in Results /\ Weight[r] \in Int
    BY <1>4 DEF Terminals, GiveUp
  <2> QED BY <1>4, <2>2, <2>3 DEF vars, itemVars, envVars, doVars, workerVars, ctxVars, stopVars, GiveUp
<1>5. ASSUME NEW r \in Requests, CommitToWait(r) PROVE TypeOK'
  BY <1>5 DEF vars, itemVars, envVars, doVars, workerVars, ctxVars, stopVars, CommitToWait
<1>6. ASSUME NEW r \in Requests, Receive(r) PROVE TypeOK'
  BY <1>6 DEF vars, itemVars, envVars, doVars, workerVars, ctxVars, stopVars, Receive
<1>7. ASSUME NEW r \in Requests, SignalFires(r) PROVE TypeOK'
  BY <1>7 DEF vars, itemVars, envVars, doVars, workerVars, ctxVars, stopVars, SignalFires
<1>8. ASSUME NEW r \in Requests, CallerCancels(r) PROVE TypeOK'
  BY <1>8 DEF vars, itemVars, envVars, doVars, workerVars, ctxVars, stopVars, CallerCancels
<1>9. ASSUME NEW r \in Requests, QueueTimerFires(r) PROVE TypeOK'
  BY <1>9 DEF vars, itemVars, envVars, doVars, workerVars, ctxVars, stopVars, QueueTimerFires
<1>10. ASSUME NEW w \in Workers, Sleep(w) PROVE TypeOK'
  BY <1>10 DEF vars, itemVars, envVars, doVars, workerVars, ctxVars, stopVars, Sleep
<1>11. ASSUME NEW w \in Workers, Exit(w) PROVE TypeOK'
  BY <1>11 DEF vars, itemVars, envVars, doVars, workerVars, ctxVars, stopVars, Exit
<1>12. ASSUME NEW w \in Workers, Pop(w) PROVE TypeOK'
  BY <1>12, TailQueue DEF Ownership, QueueOwns, vars, itemVars, envVars, doVars, workerVars, ctxVars,
     stopVars, Pop
<1>13. ASSUME NEW w \in Workers, NewRunContext(w) PROVE TypeOK'
  <2>1. item[w] \in Requests
    BY <1>13, BusyItem DEF Busy, NewRunContext
  <2>2. ActiveCause(item[w]) # None => ActiveCause(item[w]) \in {"shuttingDown", "canceled"}
    BY <2>1
  <2>3. runCtx' \in [Requests -> {"none", "open", "canceled", "shuttingDown", "released"}]
    BY <1>13, <2>1, <2>2 DEF NewRunContext
  <2>4. worker' \in [Workers -> {"idle", "waiting", "popped", "arming", "ready",
                                "working", "finishing", "delivering", "exited"}]
    BY <1>13 DEF NewRunContext
  <2> QED BY <1>13, <2>3, <2>4 DEF itemVars, envVars, doVars, stopVars, NewRunContext
<1>14. ASSUME NEW w \in Workers, Arm(w) PROVE TypeOK'
  <2>1. item[w] \in Requests
    BY <1>14, BusyItem DEF Busy, Arm
  <2> QED BY <1>14, <2>1 DEF Terminals, vars, itemVars, envVars, doVars, workerVars, ctxVars, stopVars, Arm
<1>15. ASSUME NEW w \in Workers, AbandonStart(w) PROVE TypeOK'
  <2>1. item[w] \in Requests
    BY <1>15, BusyItem DEF Busy, AbandonStart
  <2> QED BY <1>15, <2>1 DEF Terminals, vars, itemVars, envVars, doVars, workerVars, ctxVars, stopVars,
      AbandonStart
<1>16. ASSUME NEW w \in Workers, StartWork(w) PROVE TypeOK'
  <2>1. item[w] \in Requests
    BY <1>16, BusyItem DEF Busy, StartWork
  <2> QED BY <1>16, <2>1 DEF Terminals, vars, itemVars, envVars, doVars, workerVars, ctxVars, stopVars,
      StartWork
<1>17. ASSUME NEW w \in Workers, WorkReturns(w) PROVE TypeOK'
  BY <1>17 DEF vars, itemVars, envVars, doVars, workerVars, ctxVars, stopVars, WorkReturns
<1>18. ASSUME NEW w \in Workers, Finish(w) PROVE TypeOK'
  <2>1. item[w] \in Requests
    BY <1>18, BusyItem DEF Busy, Finish
  <2> QED BY <1>18, <2>1 DEF Terminals, vars, itemVars, envVars, doVars, workerVars, ctxVars, stopVars,
      Finish
<1>19. ASSUME NEW w \in Workers, Deliver(w) PROVE TypeOK'
  BY <1>19 DEF vars, itemVars, envVars, doVars, workerVars, ctxVars, stopVars, Deliver
<1>20. ASSUME NEW s \in Stoppers, BeginShutdown(s) PROVE TypeOK'
  <2>1. BytesIn(ToSet(queue)) \in Int
    BY FS_CardinalityType DEF Accounted, BytesIn
  <2>2. <<>> \in Seq(Requests)
    OBVIOUS
  <2>3. CASE closed
    BY <1>20, <2>3 DEF vars, itemVars, envVars, doVars, workerVars, ctxVars, stopVars, BeginShutdown
  <2>4. CASE ~closed
    BY <1>20, <2>1, <2>2, <2>4 DEF Broadcast, Terminals, vars, itemVars, envVars, doVars, workerVars,
       ctxVars, stopVars, BeginShutdown
  <2> QED BY <2>3, <2>4
<1>21. ASSUME NEW s \in Stoppers, ShutdownDone(s) PROVE TypeOK'
  BY <1>21 DEF vars, itemVars, envVars, doVars, workerVars, ctxVars, stopVars, ShutdownDone
<1>22. ASSUME NEW s \in Stoppers, ShutdownExpires(s) PROVE TypeOK'
  BY <1>22 DEF vars, itemVars, envVars, doVars, workerVars, ctxVars, stopVars, ShutdownExpires
<1>23. CASE CloseWorkersDone
  BY <1>23 DEF vars, itemVars, envVars, doVars, workerVars, ctxVars, stopVars, CloseWorkersDone
<1>24. CASE UNCHANGED vars
  BY <1>24 DEF vars, itemVars, envVars, doVars, workerVars, ctxVars, stopVars
<1> QED BY <1>1, <1>2, <1>3, <1>4, <1>5, <1>6, <1>7, <1>8, <1>9, <1>10, <1>11, <1>12, <1>13, <1>14,
    <1>15, <1>16, <1>17, <1>18, <1>19, <1>20, <1>21, <1>22, <1>23, <1>24
  DEF Next, DoStep, WorkerStep, StopStep, Quiescent

\* Every step keeps it that the list and the items in stateQueued are the same.
LEMMA QueueOwnsStep ==
  ASSUME IInv, [Next]_vars
  PROVE  QueueOwns'
<1> USE Domains DEF IInv, TypeOK, Ownership, vars, itemVars
<1>1. ASSUME NEW r \in Requests, Enter(r) PROVE QueueOwns'
  BY <1>1 DEF QueueOwns, Enter
<1>2. ASSUME NEW r \in Requests, Refuse(r) PROVE QueueOwns'
  BY <1>2 DEF QueueOwns, Refuse
<1>3. ASSUME NEW r \in Requests, Admit(r) PROVE QueueOwns'
  <2>1. ToSet(queue') = ToSet(queue) \cup {r} /\ Distinct(queue') /\ state[r] = "none"
    BY <1>3, AppendQueue DEF QueueOwns, CallerOwns, Admit
  <2> QED BY <1>3, <2>1 DEF QueueOwns, Admit
<1>4. ASSUME NEW r \in Requests, GiveUp(r) PROVE QueueOwns'
  <2>1. r \in ToSet(queue) /\ Distinct(queue)
    BY <1>4 DEF QueueOwns, GiveUp
  <2>2. ToSet(queue') = ToSet(queue) \ {r} /\ Distinct(queue')
    BY <1>4, <2>1, UnlinkProperties DEF GiveUp
  <2> QED BY <1>4, <2>2 DEF QueueOwns, GiveUp
<1>5. ASSUME NEW r \in Requests, CommitToWait(r) PROVE QueueOwns'
  BY <1>5 DEF QueueOwns, CommitToWait
<1>6. ASSUME NEW r \in Requests, Receive(r) PROVE QueueOwns'
  BY <1>6 DEF QueueOwns, Receive
<1>7. ASSUME NEW r \in Requests, SignalFires(r) PROVE QueueOwns'
  BY <1>7 DEF QueueOwns, SignalFires
<1>8. ASSUME NEW r \in Requests, CallerCancels(r) PROVE QueueOwns'
  BY <1>8 DEF QueueOwns, CallerCancels
<1>9. ASSUME NEW r \in Requests, QueueTimerFires(r) PROVE QueueOwns'
  BY <1>9 DEF QueueOwns, QueueTimerFires
<1>10. ASSUME NEW w \in Workers, Sleep(w) PROVE QueueOwns'
  BY <1>10 DEF QueueOwns, Sleep
<1>11. ASSUME NEW w \in Workers, Exit(w) PROVE QueueOwns'
  BY <1>11 DEF QueueOwns, Exit
<1>12. ASSUME NEW w \in Workers, Pop(w) PROVE QueueOwns'
  <2>1. /\ Head(queue) \in ToSet(queue) /\ Distinct(queue')
        /\ ToSet(queue') = ToSet(queue) \ {Head(queue)}
    BY <1>12, TailQueue DEF QueueOwns, Pop
  <2>2. Head(queue) \in Requests
    BY <1>12 DEF Pop
  <2> QED BY <1>12, <2>1, <2>2 DEF QueueOwns, Pop
<1>13. ASSUME NEW w \in Workers, NewRunContext(w) PROVE QueueOwns'
  BY <1>13 DEF QueueOwns, NewRunContext
<1>14. ASSUME NEW w \in Workers, Arm(w) PROVE QueueOwns'
  BY <1>14 DEF QueueOwns, Arm
<1>15. ASSUME NEW w \in Workers, AbandonStart(w) PROVE QueueOwns'
  <2>1. item[w] \in Requests
    BY <1>15, BusyItem DEF Busy, AbandonStart
  <2> QED BY <1>15, <2>1 DEF QueueOwns, WorkerOwns, AbandonStart
<1>16. ASSUME NEW w \in Workers, StartWork(w) PROVE QueueOwns'
  <2>1. item[w] \in Requests
    BY <1>16, BusyItem DEF Busy, StartWork
  <2> QED BY <1>16, <2>1 DEF QueueOwns, WorkerOwns, StartWork
<1>17. ASSUME NEW w \in Workers, WorkReturns(w) PROVE QueueOwns'
  BY <1>17 DEF QueueOwns, WorkReturns
<1>18. ASSUME NEW w \in Workers, Finish(w) PROVE QueueOwns'
  <2>1. item[w] \in Requests
    BY <1>18, BusyItem DEF Busy, Finish
  <2> QED BY <1>18, <2>1 DEF QueueOwns, WorkerOwns, Finish
<1>19. ASSUME NEW w \in Workers, Deliver(w) PROVE QueueOwns'
  BY <1>19 DEF QueueOwns, Deliver
<1>20. ASSUME NEW s \in Stoppers, BeginShutdown(s) PROVE QueueOwns'
  <2>1. ToSet(<<>>) = {} /\ Distinct(<<>>)
    BY DEF ToSet, Distinct
  <2>2. CASE closed
    BY <1>20, <2>2 DEF QueueOwns, BeginShutdown
  <2>3. CASE ~closed
    BY <1>20, <2>1, <2>3 DEF QueueOwns, BeginShutdown
  <2> QED BY <2>2, <2>3
<1>21. ASSUME NEW s \in Stoppers, ShutdownDone(s) PROVE QueueOwns'
  BY <1>21 DEF QueueOwns, ShutdownDone
<1>22. ASSUME NEW s \in Stoppers, ShutdownExpires(s) PROVE QueueOwns'
  BY <1>22 DEF QueueOwns, ShutdownExpires
<1>23. CASE CloseWorkersDone
  BY <1>23 DEF QueueOwns, CloseWorkersDone
<1>24. CASE UNCHANGED vars
  BY <1>24 DEF QueueOwns
<1> QED BY <1>1, <1>2, <1>3, <1>4, <1>5, <1>6, <1>7, <1>8, <1>9, <1>10, <1>11, <1>12, <1>13, <1>14,
    <1>15, <1>16, <1>17, <1>18, <1>19, <1>20, <1>21, <1>22, <1>23, <1>24
  DEF Next, DoStep, WorkerStep, StopStep, Quiescent

\* Every step keeps it that an active item is the current one of exactly one
\* worker.
LEMMA WorkerOwnsStep ==
  ASSUME IInv, [Next]_vars
  PROVE  WorkerOwns'
<1> USE Domains, CauseType DEF IInv, TypeOK, Ownership, vars, itemVars, Busy
<1>1. ASSUME NEW r \in Requests, Enter(r) PROVE WorkerOwns'
  BY <1>1 DEF WorkerOwns, workerVars, Enter
<1>2. ASSUME NEW r \in Requests, Refuse(r) PROVE WorkerOwns'
  BY <1>2 DEF WorkerOwns, workerVars, Refuse
<1>3. ASSUME NEW r \in Requests, Admit(r) PROVE WorkerOwns'
  <2>1. state[r] = "none"
    BY <1>3 DEF CallerOwns, Admit
  <2>2. Signal /\ item' = item /\ result' = result
        /\ state' = [state EXCEPT ![r] = "Queued"]
    BY <1>3 DEF Admit
  <2>3. \A w \in Workers : worker'[w] \in Busy \/ worker[w] \in Busy => worker'[w] = worker[w]
    BY <2>2, SignalType
  <2>4. \A w \in Workers : worker[w] \in Busy => item[w] # r
    BY <2>1 DEF WorkerOwns
  <2> QED BY <2>1, <2>2, <2>3, <2>4 DEF WorkerOwns
<1>4. ASSUME NEW r \in Requests, GiveUp(r) PROVE WorkerOwns'
  BY <1>4 DEF WorkerOwns, Busy, GiveUp, workerVars
<1>5. ASSUME NEW r \in Requests, CommitToWait(r) PROVE WorkerOwns'
  BY <1>5 DEF WorkerOwns, workerVars, CommitToWait
<1>6. ASSUME NEW r \in Requests, Receive(r) PROVE WorkerOwns'
  BY <1>6 DEF WorkerOwns, workerVars, Receive
<1>7. ASSUME NEW r \in Requests, SignalFires(r) PROVE WorkerOwns'
  BY <1>7 DEF WorkerOwns, workerVars, SignalFires
<1>8. ASSUME NEW r \in Requests, CallerCancels(r) PROVE WorkerOwns'
  BY <1>8 DEF WorkerOwns, workerVars, CallerCancels
<1>9. ASSUME NEW r \in Requests, QueueTimerFires(r) PROVE WorkerOwns'
  BY <1>9 DEF WorkerOwns, workerVars, QueueTimerFires
<1>10. ASSUME NEW w \in Workers, Sleep(w) PROVE WorkerOwns'
  BY <1>10 DEF WorkerOwns, workerVars, Sleep
<1>11. ASSUME NEW w \in Workers, Exit(w) PROVE WorkerOwns'
  BY <1>11 DEF WorkerOwns, workerVars, Exit
<1>12. ASSUME NEW w \in Workers, Pop(w) PROVE WorkerOwns'
  <2>1. /\ Head(queue) \in ToSet(queue) /\ Distinct(queue')
        /\ ToSet(queue') = ToSet(queue) \ {Head(queue)}
    BY <1>12, TailQueue DEF QueueOwns, Pop
  <2>2. Head(queue) \in Requests
    BY <1>12 DEF Pop
  <2> QED BY <1>12, <2>1, <2>2 DEF QueueOwns, WorkerOwns, Busy, Pop
<1>13. ASSUME NEW w \in Workers, NewRunContext(w) PROVE WorkerOwns'
  BY <1>13 DEF WorkerOwns, workerVars, NewRunContext
<1>14. ASSUME NEW w \in Workers, Arm(w) PROVE WorkerOwns'
  BY <1>14 DEF WorkerOwns, workerVars, Arm
<1>15. ASSUME NEW w \in Workers, AbandonStart(w) PROVE WorkerOwns'
  BY <1>15 DEF WorkerOwns, workerVars, AbandonStart
<1>16. ASSUME NEW w \in Workers, StartWork(w) PROVE WorkerOwns'
  BY <1>16 DEF WorkerOwns, workerVars, StartWork
<1>17. ASSUME NEW w \in Workers, WorkReturns(w) PROVE WorkerOwns'
  BY <1>17 DEF WorkerOwns, workerVars, WorkReturns
<1>18. ASSUME NEW w \in Workers, Finish(w) PROVE WorkerOwns'
  BY <1>18 DEF WorkerOwns, workerVars, Finish
<1>19. ASSUME NEW w \in Workers, Deliver(w) PROVE WorkerOwns'
  BY <1>19 DEF WorkerOwns, workerVars, Deliver
<1>20. ASSUME NEW s \in Stoppers, BeginShutdown(s) PROVE WorkerOwns'
  <2>1. CASE closed
    BY <1>20, <2>1 DEF WorkerOwns, Busy, BeginShutdown
  <2>2. CASE ~closed
    <3>1. \A w \in Workers : worker'[w] \in Busy \/ worker[w] \in Busy => worker'[w] = worker[w]
      BY <1>20, <2>2 DEF Broadcast, BeginShutdown
    <3>2. \A r \in Requests : state'[r] # state[r] => state[r] = "Queued" /\ state'[r] = "Done"
      BY <1>20, <2>2 DEF QueueOwns, BeginShutdown
    <3>3. item' = item /\ result' = result
      BY <1>20, <2>2 DEF BeginShutdown
    <3>4. \A w \in Workers : item[w] # None => state'[item[w]] = state[item[w]]
      BY <3>2 DEF WorkerOwns
    <3>5. \A r \in Requests : state'[r] \in {"Starting", "Running"} => state[r] = state'[r]
      BY <3>2
    <3> QED BY <3>1, <3>3, <3>4, <3>5 DEF WorkerOwns
  <2> QED BY <2>1, <2>2
<1>21. ASSUME NEW s \in Stoppers, ShutdownDone(s) PROVE WorkerOwns'
  BY <1>21 DEF WorkerOwns, workerVars, ShutdownDone
<1>22. ASSUME NEW s \in Stoppers, ShutdownExpires(s) PROVE WorkerOwns'
  BY <1>22 DEF WorkerOwns, workerVars, ShutdownExpires
<1>23. CASE CloseWorkersDone
  BY <1>23 DEF WorkerOwns, workerVars, CloseWorkersDone
<1>24. CASE UNCHANGED vars
  BY <1>24 DEF WorkerOwns, workerVars
<1> QED BY <1>1, <1>2, <1>3, <1>4, <1>5, <1>6, <1>7, <1>8, <1>9, <1>10, <1>11, <1>12, <1>13, <1>14,
    <1>15, <1>16, <1>17, <1>18, <1>19, <1>20, <1>21, <1>22, <1>23, <1>24
  DEF Next, DoStep, WorkerStep, StopStep, Quiescent

\* Every step keeps it that a result in the channel done belongs to a finished
\* item and was sent once.
LEMMA ChannelOwnsStep ==
  ASSUME IInv, [Next]_vars
  PROVE  ChannelOwns'
<1> USE Domains, CauseType DEF IInv, TypeOK, Ownership, vars, itemVars, Busy
<1>1. ASSUME NEW r \in Requests, Enter(r) PROVE ChannelOwns'
  BY <1>1 DEF ChannelOwns, doVars, workerVars, WorkerOwns, Enter
<1>2. ASSUME NEW r \in Requests, Refuse(r) PROVE ChannelOwns'
  BY <1>2 DEF ChannelOwns, CallerOwns, workerVars, Refuse
<1>3. ASSUME NEW r \in Requests, Admit(r) PROVE ChannelOwns'
  BY <1>3 DEF ChannelOwns, CallerOwns, Admit
<1>4. ASSUME NEW r \in Requests, GiveUp(r) PROVE ChannelOwns'
  <2>1. ret[r] = None /\ \A w \in Workers : item[w] # r
    BY <1>4 DEF CallerOwns, WorkerOwns, GiveUp
  <2>2. state'[r] = "Done" /\ done'[r] # None
    BY <1>4 DEF GiveUp
  <2> QED BY <1>4, <2>1, <2>2 DEF ChannelOwns, workerVars, GiveUp
<1>5. ASSUME NEW r \in Requests, CommitToWait(r) PROVE ChannelOwns'
  BY <1>5 DEF ChannelOwns, doVars, workerVars, WorkerOwns, CommitToWait
<1>6. ASSUME NEW r \in Requests, Receive(r) PROVE ChannelOwns'
  BY <1>6 DEF ChannelOwns, doVars, workerVars, WorkerOwns, Receive
<1>7. ASSUME NEW r \in Requests, SignalFires(r) PROVE ChannelOwns'
  BY <1>7 DEF ChannelOwns, doVars, workerVars, WorkerOwns, SignalFires
<1>8. ASSUME NEW r \in Requests, CallerCancels(r) PROVE ChannelOwns'
  BY <1>8 DEF ChannelOwns, doVars, workerVars, WorkerOwns, CallerCancels
<1>9. ASSUME NEW r \in Requests, QueueTimerFires(r) PROVE ChannelOwns'
  BY <1>9 DEF ChannelOwns, doVars, workerVars, WorkerOwns, QueueTimerFires
<1>10. ASSUME NEW w \in Workers, Sleep(w) PROVE ChannelOwns'
  BY <1>10 DEF ChannelOwns, doVars, workerVars, WorkerOwns, Sleep
<1>11. ASSUME NEW w \in Workers, Exit(w) PROVE ChannelOwns'
  BY <1>11 DEF ChannelOwns, doVars, workerVars, WorkerOwns, Exit
<1>12. ASSUME NEW w \in Workers, Pop(w) PROVE ChannelOwns'
  <2>1. Head(queue) \in Requests /\ state[Head(queue)] = "Queued"
    BY <1>12, TailQueue DEF QueueOwns, Pop
  <2>2. done' = done /\ ret' = ret /\ item' = [item EXCEPT ![w] = Head(queue)]
    BY <1>12 DEF Pop, doVars
  <2>3. state' = [state EXCEPT ![Head(queue)] = "Starting"]
    BY <1>12 DEF Pop
  <2>4. done[Head(queue)] = None
    <3>1. done[Head(queue)] # None => state[Head(queue)] = "Done"
      BY <2>1 DEF ChannelOwns
    <3> QED BY <2>1, <3>1
  <2>5. item[w] = None
    BY <1>12 DEF WorkerOwns, Pop, Busy
  <2>6. ASSUME NEW r \in Requests, done'[r] # None
        PROVE  state'[r] = "Done" /\ ret'[r] = None /\ \A v \in Workers : item'[v] # r
    <3>1. r # Head(queue) /\ done[r] # None
      BY <2>2, <2>4, <2>6
    <3> QED BY <2>1, <2>2, <2>3, <3>1 DEF ChannelOwns
  <2>7. ASSUME NEW r \in Requests, state'[r] = "Done", ret'[r] = None, done'[r] = None
        PROVE  \E v \in Workers : item'[v] = r
    <3>1. state[r] = "Done" /\ ret[r] = None /\ done[r] = None
      BY <2>1, <2>2, <2>3, <2>7
    <3>2. PICK v \in Workers : item[v] = r
      BY <3>1 DEF ChannelOwns
    <3>3. v # w
      BY <2>5, <3>2
    <3> QED BY <2>2, <3>2, <3>3
  <2> QED BY <2>6, <2>7 DEF ChannelOwns
<1>13. ASSUME NEW w \in Workers, NewRunContext(w) PROVE ChannelOwns'
  BY <1>13 DEF ChannelOwns, doVars, workerVars, WorkerOwns, NewRunContext
<1>14. ASSUME NEW w \in Workers, Arm(w) PROVE ChannelOwns'
  BY <1>14 DEF ChannelOwns, doVars, workerVars, WorkerOwns, Arm
<1>15. ASSUME NEW w \in Workers, AbandonStart(w) PROVE ChannelOwns'
  <2>1. item[w] \in Requests
    BY <1>15, BusyItem DEF Busy, AbandonStart
  <2> QED BY <1>15, <2>1 DEF ChannelOwns, doVars, workerVars, WorkerOwns, AbandonStart
<1>16. ASSUME NEW w \in Workers, StartWork(w) PROVE ChannelOwns'
  <2>1. item[w] \in Requests
    BY <1>16, BusyItem DEF Busy, StartWork
  <2> QED BY <1>16, <2>1 DEF ChannelOwns, doVars, workerVars, WorkerOwns, StartWork
<1>17. ASSUME NEW w \in Workers, WorkReturns(w) PROVE ChannelOwns'
  BY <1>17 DEF ChannelOwns, doVars, workerVars, WorkerOwns, WorkReturns
<1>18. ASSUME NEW w \in Workers, Finish(w) PROVE ChannelOwns'
  <2>1. item[w] \in Requests
    BY <1>18, BusyItem DEF Busy, Finish
  <2> QED BY <1>18, <2>1 DEF ChannelOwns, doVars, workerVars, WorkerOwns, Finish
<1>19. ASSUME NEW w \in Workers, Deliver(w) PROVE ChannelOwns'
  <2>1. item[w] \in Requests
    BY <1>19, BusyItem DEF Busy, Deliver
  <2>2. ret[item[w]] = None /\ state[item[w]] = "Done" /\ result[w] # None
    BY <1>19, <2>1 DEF CallerOwns, WorkerOwns, Deliver
  <2> QED BY <1>19, <2>1, <2>2 DEF ChannelOwns, WorkerOwns, Deliver
<1>20. ASSUME NEW s \in Stoppers, BeginShutdown(s) PROVE ChannelOwns'
  <2>1. CASE closed
    BY <1>20, <2>1 DEF ChannelOwns, BeginShutdown
  <2>2. CASE ~closed
    <3>1. \A r \in Requests : state[r] = "Queued" =>
             ret[r] = None /\ \A w \in Workers : item[w] # r
      BY DEF WorkerOwns, CallerOwns
    <3>2. item' = item /\ ret' = ret
      BY <1>20, <2>2 DEF BeginShutdown
    <3>3. ASSUME NEW r \in Requests, r \in ToSet(queue)
          PROVE  state'[r] = "Done" /\ done'[r] = "shuttingDown" /\ done'[r] # None
      BY <1>20, <2>2, <3>3 DEF BeginShutdown, Terminals
    <3>4. ASSUME NEW r \in Requests, r \notin ToSet(queue)
          PROVE  state'[r] = state[r] /\ done'[r] = done[r]
      BY <1>20, <2>2, <3>4 DEF BeginShutdown
    <3> QED BY <3>1, <3>2, <3>3, <3>4 DEF QueueOwns, ChannelOwns
  <2> QED BY <2>1, <2>2
<1>21. ASSUME NEW s \in Stoppers, ShutdownDone(s) PROVE ChannelOwns'
  BY <1>21 DEF ChannelOwns, doVars, workerVars, WorkerOwns, ShutdownDone
<1>22. ASSUME NEW s \in Stoppers, ShutdownExpires(s) PROVE ChannelOwns'
  BY <1>22 DEF ChannelOwns, doVars, workerVars, WorkerOwns, ShutdownExpires
<1>23. CASE CloseWorkersDone
  BY <1>23 DEF ChannelOwns, doVars, workerVars, WorkerOwns, CloseWorkersDone
<1>24. CASE UNCHANGED vars
  BY <1>24 DEF ChannelOwns, doVars, workerVars, WorkerOwns
<1> QED BY <1>1, <1>2, <1>3, <1>4, <1>5, <1>6, <1>7, <1>8, <1>9, <1>10, <1>11, <1>12, <1>13, <1>14,
    <1>15, <1>16, <1>17, <1>18, <1>19, <1>20, <1>21, <1>22, <1>23, <1>24
  DEF Next, DoStep, WorkerStep, StopStep, Quiescent

\* Every step keeps it that a call in its select loop has an item.
LEMMA CallerOwnsStep ==
  ASSUME IInv, [Next]_vars
  PROVE  CallerOwns'
<1> USE Domains, CauseType DEF IInv, TypeOK, Ownership, vars, itemVars, Busy
<1>1. ASSUME NEW r \in Requests, Enter(r) PROVE CallerOwns'
  BY <1>1 DEF CallerOwns, doVars, workerVars, WorkerOwns, Enter
<1>2. ASSUME NEW r \in Requests, Refuse(r) PROVE CallerOwns'
  <2>1. \A w \in Workers : item[w] # r
    BY <1>2 DEF CallerOwns, WorkerOwns, Refuse
  <2>2. ret'[r] # None
    BY <1>2 DEF Terminals, Refuse
  <2> QED BY <1>2, <2>1, <2>2 DEF CallerOwns, workerVars, Refuse
<1>3. ASSUME NEW r \in Requests, Admit(r) PROVE CallerOwns'
  BY <1>3 DEF ChannelOwns, CallerOwns, WorkerOwns, Admit
<1>4. ASSUME NEW r \in Requests, GiveUp(r) PROVE CallerOwns'
  BY <1>4 DEF CallerOwns, doVars, workerVars, WorkerOwns, GiveUp
<1>5. ASSUME NEW r \in Requests, CommitToWait(r) PROVE CallerOwns'
  BY <1>5 DEF CallerOwns, doVars, workerVars, WorkerOwns, CommitToWait
<1>6. ASSUME NEW r \in Requests, Receive(r) PROVE CallerOwns'
  BY <1>6 DEF ChannelOwns, CallerOwns, workerVars, Receive
<1>7. ASSUME NEW r \in Requests, SignalFires(r) PROVE CallerOwns'
  BY <1>7 DEF CallerOwns, doVars, workerVars, WorkerOwns, SignalFires
<1>8. ASSUME NEW r \in Requests, CallerCancels(r) PROVE CallerOwns'
  BY <1>8 DEF CallerOwns, doVars, workerVars, WorkerOwns, CallerCancels
<1>9. ASSUME NEW r \in Requests, QueueTimerFires(r) PROVE CallerOwns'
  BY <1>9 DEF CallerOwns, doVars, workerVars, WorkerOwns, QueueTimerFires
<1>10. ASSUME NEW w \in Workers, Sleep(w) PROVE CallerOwns'
  BY <1>10 DEF CallerOwns, doVars, workerVars, WorkerOwns, Sleep
<1>11. ASSUME NEW w \in Workers, Exit(w) PROVE CallerOwns'
  BY <1>11 DEF CallerOwns, doVars, workerVars, WorkerOwns, Exit
<1>12. ASSUME NEW w \in Workers, Pop(w) PROVE CallerOwns'
  <2>1. Head(queue) \in Requests /\ state[Head(queue)] = "Queued"
    BY <1>12, TailQueue DEF QueueOwns, Pop
  <2> QED BY <1>12, <2>1 DEF WorkerOwns, CallerOwns, Pop, doVars
<1>13. ASSUME NEW w \in Workers, NewRunContext(w) PROVE CallerOwns'
  BY <1>13 DEF CallerOwns, doVars, workerVars, WorkerOwns, NewRunContext
<1>14. ASSUME NEW w \in Workers, Arm(w) PROVE CallerOwns'
  BY <1>14 DEF CallerOwns, doVars, workerVars, WorkerOwns, Arm
<1>15. ASSUME NEW w \in Workers, AbandonStart(w) PROVE CallerOwns'
  <2>1. item[w] \in Requests
    BY <1>15, BusyItem DEF Busy, AbandonStart
  <2> QED BY <1>15, <2>1 DEF CallerOwns, doVars, workerVars, WorkerOwns, AbandonStart
<1>16. ASSUME NEW w \in Workers, StartWork(w) PROVE CallerOwns'
  <2>1. item[w] \in Requests
    BY <1>16, BusyItem DEF Busy, StartWork
  <2> QED BY <1>16, <2>1 DEF CallerOwns, doVars, workerVars, WorkerOwns, StartWork
<1>17. ASSUME NEW w \in Workers, WorkReturns(w) PROVE CallerOwns'
  BY <1>17 DEF CallerOwns, doVars, workerVars, WorkerOwns, WorkReturns
<1>18. ASSUME NEW w \in Workers, Finish(w) PROVE CallerOwns'
  <2>1. item[w] \in Requests
    BY <1>18, BusyItem DEF Busy, Finish
  <2> QED BY <1>18, <2>1 DEF CallerOwns, doVars, workerVars, WorkerOwns, Finish
<1>19. ASSUME NEW w \in Workers, Deliver(w) PROVE CallerOwns'
  <2>1. item[w] \in Requests
    BY <1>19, BusyItem DEF Busy, Deliver
  <2> QED BY <1>19, <2>1 DEF CallerOwns, doVars, workerVars, WorkerOwns, Deliver
<1>20. ASSUME NEW s \in Stoppers, BeginShutdown(s) PROVE CallerOwns'
  <2>1. CASE closed
    BY <1>20, <2>1 DEF CallerOwns, BeginShutdown
  <2>2. CASE ~closed
    BY <1>20, <2>2 DEF QueueOwns, WorkerOwns, CallerOwns, BeginShutdown
  <2> QED BY <2>1, <2>2
<1>21. ASSUME NEW s \in Stoppers, ShutdownDone(s) PROVE CallerOwns'
  BY <1>21 DEF CallerOwns, doVars, workerVars, WorkerOwns, ShutdownDone
<1>22. ASSUME NEW s \in Stoppers, ShutdownExpires(s) PROVE CallerOwns'
  BY <1>22 DEF CallerOwns, doVars, workerVars, WorkerOwns, ShutdownExpires
<1>23. CASE CloseWorkersDone
  BY <1>23 DEF CallerOwns, doVars, workerVars, WorkerOwns, CloseWorkersDone
<1>24. CASE UNCHANGED vars
  BY <1>24 DEF CallerOwns, doVars, workerVars, WorkerOwns
<1> QED BY <1>1, <1>2, <1>3, <1>4, <1>5, <1>6, <1>7, <1>8, <1>9, <1>10, <1>11, <1>12, <1>13, <1>14,
    <1>15, <1>16, <1>17, <1>18, <1>19, <1>20, <1>21, <1>22, <1>23, <1>24
  DEF Next, DoStep, WorkerStep, StopStep, Quiescent

\* The bytes of one more item, and of one fewer.
LEMMA BytePairsAdd ==
  ASSUME NEW S \in SUBSET Requests, NEW r \in Requests \ S, IsFiniteSet(BytePairs(S))
  PROVE  /\ IsFiniteSet(BytePairs(S \cup {r}))
         /\ Cardinality(BytePairs(S \cup {r})) = Cardinality(BytePairs(S)) + Weight[r]
<1> DEFINE own == {r} \X (1..Weight[r])
<1>1. IsFiniteSet(own) /\ Cardinality(own) = Weight[r]
  <2>1. IsFiniteSet({r}) /\ Cardinality({r}) = 1
    BY FS_Singleton
  <2>2. Weight[r] \in Nat /\ IsFiniteSet(1..Weight[r]) /\ Cardinality(1..Weight[r]) = Weight[r]
    BY Domains, FS_Interval
  <2> DEFINE single == {r}
             units == 1..Weight[r]
  <2>3. own = single \X units
    OBVIOUS
  <2>4. IsFiniteSet(single) /\ Cardinality(single) = 1 /\ IsFiniteSet(units) /\ Cardinality(units) = Weight[r]
    BY <2>1, <2>2
  <2> HIDE DEF own, single, units
  <2>5. IsFiniteSet(single \X units) /\ Cardinality(single \X units) = Cardinality(single) * Cardinality(units)
    BY ONLY <2>4, FS_Product
  <2>6. Cardinality(own) = 1 * Weight[r]
    BY <2>3, <2>4, <2>5
  <2> QED BY <2>2, <2>3, <2>5, <2>6
<1>2. BytePairs(S \cup {r}) = BytePairs(S) \cup own
  BY DEF BytePairs
<1>3. BytePairs(S) \cap own = {}
  BY DEF BytePairs
<1>4. Cardinality({}) = 0 /\ Cardinality(BytePairs(S)) \in Nat
  BY FS_EmptySet, FS_CardinalityType
<1> HIDE DEF own
<1>5. /\ IsFiniteSet(BytePairs(S) \cup own)
      /\ Cardinality(BytePairs(S) \cup own) =
           Cardinality(BytePairs(S)) + Cardinality(own) - Cardinality(BytePairs(S) \cap own)
  BY <1>1, FS_Union
<1>6. Cardinality(BytePairs(S) \cap own) = 0
  BY <1>3, <1>4
<1>7. Weight[r] \in Nat
  BY Domains
<1> DEFINE both == BytePairs(S) \cup own
           n == Cardinality(BytePairs(S))
           m == Cardinality(own)
           k == Cardinality(BytePairs(S) \cap own)
<1>8. Cardinality(both) = n + m - k /\ m = Weight[r] /\ k = 0 /\ n \in Nat
  BY <1>1, <1>4, <1>5, <1>6
<1>9. IsFiniteSet(both) /\ BytePairs(S \cup {r}) = both
  BY <1>2, <1>5
<1> HIDE DEF both, n, m, k
<1>10. Cardinality(both) = n + Weight[r]
  BY <1>7, <1>8
<1> QED BY <1>9, <1>10 DEF n

\* The bytes of the list less one item (completeQueuedLocked, the worker's pop).
LEMMA BytePairsRemove ==
  ASSUME NEW S \in SUBSET Requests, NEW r \in S, IsFiniteSet(BytePairs(S))
  PROVE  /\ IsFiniteSet(BytePairs(S \ {r}))
         /\ Cardinality(BytePairs(S \ {r})) = Cardinality(BytePairs(S)) - Weight[r]
<1>1. BytePairs(S \ {r}) \subseteq BytePairs(S)
  BY DEF BytePairs
<1>2. IsFiniteSet(BytePairs(S \ {r}))
  BY <1>1, FS_Subset
<1>3. (S \ {r}) \cup {r} = S
  OBVIOUS
<1>4. Cardinality(BytePairs(S)) = Cardinality(BytePairs(S \ {r})) + Weight[r]
  BY <1>2, <1>3, BytePairsAdd
<1>5. Cardinality(BytePairs(S \ {r})) \in Nat
  BY <1>2, FS_CardinalityType
<1> QED BY <1>2, <1>4, <1>5, Domains

\* Every step keeps queuedBytes equal to the weights in the list.
LEMMA AccountedStep ==
  ASSUME IInv, [Next]_vars
  PROVE  Accounted'
<1> USE Domains DEF IInv, TypeOK, Ownership, vars, itemVars
<1>1. ASSUME NEW r \in Requests, Enter(r) PROVE Accounted'
  BY <1>1 DEF Accounted, QueueBounded, BytesIn, BytePairs, Enter
<1>2. ASSUME NEW r \in Requests, Refuse(r) PROVE Accounted'
  BY <1>2 DEF Accounted, QueueBounded, BytesIn, BytePairs, Refuse
<1>3. ASSUME NEW r \in Requests, Admit(r) PROVE Accounted'
  <2>0. ToSet(queue) \subseteq Requests /\ Len(queue) \in Nat
    BY DEF ToSet
  <2>1. r \notin ToSet(queue)
    BY <1>3 DEF QueueOwns, CallerOwns, Admit
  <2>2. ToSet(queue') = ToSet(queue) \cup {r} /\ Len(queue') = Len(queue) + 1
    BY <1>3, <2>1, AppendQueue DEF QueueOwns, Admit
  <2>3. /\ IsFiniteSet(BytePairs(ToSet(queue')))
        /\ Cardinality(BytePairs(ToSet(queue'))) = Cardinality(BytePairs(ToSet(queue))) + Weight[r]
    BY <2>0, <2>1, <2>2, BytePairsAdd DEF Accounted
  <2>4. queuedBytes' = queuedBytes + Weight[r] /\ Weight[r] <= QueueBytes - queuedBytes
        /\ Len(queue) < QueueSize
    BY <1>3, <2>0 DEF Admit, Full
  <2>5. BytesIn(ToSet(queue))' = Cardinality(BytePairs(ToSet(queue')))
    BY DEF BytesIn, BytePairs
  <2> QED BY <2>0, <2>2, <2>3, <2>4, <2>5 DEF Accounted, QueueBounded, BytesIn, BytePairs
<1>4. ASSUME NEW r \in Requests, GiveUp(r) PROVE Accounted'
  <2>0. ToSet(queue) \subseteq Requests /\ Len(queue) \in Nat
    BY DEF ToSet
  <2>1. r \in ToSet(queue) /\ Distinct(queue)
    BY <1>4 DEF QueueOwns, GiveUp
  <2>2. ToSet(queue') = ToSet(queue) \ {r} /\ Len(queue') = Len(queue) - 1
    BY <1>4, <2>1, UnlinkProperties DEF GiveUp
  <2>3. /\ IsFiniteSet(BytePairs(ToSet(queue')))
        /\ Cardinality(BytePairs(ToSet(queue'))) = Cardinality(BytePairs(ToSet(queue))) - Weight[r]
    BY <2>0, <2>1, <2>2, BytePairsRemove DEF Accounted
  <2>4. queuedBytes' = queuedBytes - Weight[r]
    BY <1>4 DEF GiveUp
  <2> QED BY <2>0, <2>2, <2>3, <2>4 DEF Accounted, QueueBounded, BytesIn, BytePairs
<1>5. ASSUME NEW r \in Requests, CommitToWait(r) PROVE Accounted'
  BY <1>5 DEF Accounted, QueueBounded, BytesIn, BytePairs, CommitToWait
<1>6. ASSUME NEW r \in Requests, Receive(r) PROVE Accounted'
  BY <1>6 DEF Accounted, QueueBounded, BytesIn, BytePairs, Receive
<1>7. ASSUME NEW r \in Requests, SignalFires(r) PROVE Accounted'
  BY <1>7 DEF Accounted, QueueBounded, BytesIn, BytePairs, SignalFires
<1>8. ASSUME NEW r \in Requests, CallerCancels(r) PROVE Accounted'
  BY <1>8 DEF Accounted, QueueBounded, BytesIn, BytePairs, CallerCancels
<1>9. ASSUME NEW r \in Requests, QueueTimerFires(r) PROVE Accounted'
  BY <1>9 DEF Accounted, QueueBounded, BytesIn, BytePairs, QueueTimerFires
<1>10. ASSUME NEW w \in Workers, Sleep(w) PROVE Accounted'
  BY <1>10 DEF Accounted, QueueBounded, BytesIn, BytePairs, Sleep
<1>11. ASSUME NEW w \in Workers, Exit(w) PROVE Accounted'
  BY <1>11 DEF Accounted, QueueBounded, BytesIn, BytePairs, Exit
<1>12. ASSUME NEW w \in Workers, Pop(w) PROVE Accounted'
  <2>0. ToSet(queue) \subseteq Requests /\ Len(queue) \in Nat
    BY DEF ToSet
  <2>1. /\ Head(queue) \in ToSet(queue)
        /\ ToSet(queue') = ToSet(queue) \ {Head(queue)} /\ Len(queue') = Len(queue) - 1
    BY <1>12, TailQueue DEF QueueOwns, Pop
  <2>2. /\ IsFiniteSet(BytePairs(ToSet(queue')))
        /\ Cardinality(BytePairs(ToSet(queue'))) =
             Cardinality(BytePairs(ToSet(queue))) - Weight[Head(queue)]
    BY <2>0, <2>1, BytePairsRemove DEF Accounted
  <2>3. queuedBytes' = queuedBytes - Weight[Head(queue)]
    BY <1>12 DEF Pop
  <2> QED BY <2>0, <2>1, <2>2, <2>3 DEF Accounted, QueueBounded, BytesIn, BytePairs
<1>13. ASSUME NEW w \in Workers, NewRunContext(w) PROVE Accounted'
  BY <1>13 DEF Accounted, QueueBounded, BytesIn, BytePairs, NewRunContext
<1>14. ASSUME NEW w \in Workers, Arm(w) PROVE Accounted'
  BY <1>14 DEF Accounted, QueueBounded, BytesIn, BytePairs, Arm
<1>15. ASSUME NEW w \in Workers, AbandonStart(w) PROVE Accounted'
  BY <1>15 DEF Accounted, QueueBounded, BytesIn, BytePairs, AbandonStart
<1>16. ASSUME NEW w \in Workers, StartWork(w) PROVE Accounted'
  BY <1>16 DEF Accounted, QueueBounded, BytesIn, BytePairs, StartWork
<1>17. ASSUME NEW w \in Workers, WorkReturns(w) PROVE Accounted'
  BY <1>17 DEF Accounted, QueueBounded, BytesIn, BytePairs, WorkReturns
<1>18. ASSUME NEW w \in Workers, Finish(w) PROVE Accounted'
  BY <1>18 DEF Accounted, QueueBounded, BytesIn, BytePairs, Finish
<1>19. ASSUME NEW w \in Workers, Deliver(w) PROVE Accounted'
  BY <1>19 DEF Accounted, QueueBounded, BytesIn, BytePairs, Deliver
<1>20. ASSUME NEW s \in Stoppers, BeginShutdown(s) PROVE Accounted'
  <2>1. CASE closed
    BY <1>20, <2>1 DEF Accounted, QueueBounded, BytesIn, BytePairs, BeginShutdown
  <2>2. CASE ~closed
    <3>1. queue' = <<>> /\ queuedBytes' = queuedBytes - BytesIn(ToSet(queue))
      BY <1>20, <2>2 DEF BeginShutdown
    <3>2. BytePairs(ToSet(<<>>)) = {} /\ Len(<<>>) = 0
      BY DEF BytePairs, ToSet
    <3>3. IsFiniteSet({}) /\ Cardinality({}) = 0
      BY FS_EmptySet
    <3>4. IsFiniteSet(BytePairs(ToSet(queue'))) /\ Cardinality(BytePairs(ToSet(queue'))) = 0
      BY <3>1, <3>2, <3>3
    <3>5. queuedBytes = BytesIn(ToSet(queue))
      BY DEF Accounted, QueueBounded
    <3>6. queuedBytes' = 0 /\ Len(queue') = 0
      BY <3>1, <3>2, <3>5
    <3> QED BY <3>4, <3>6 DEF Accounted, QueueBounded, BytesIn, BytePairs
  <2> QED BY <2>1, <2>2
<1>21. ASSUME NEW s \in Stoppers, ShutdownDone(s) PROVE Accounted'
  BY <1>21 DEF Accounted, QueueBounded, BytesIn, BytePairs, ShutdownDone
<1>22. ASSUME NEW s \in Stoppers, ShutdownExpires(s) PROVE Accounted'
  BY <1>22 DEF Accounted, QueueBounded, BytesIn, BytePairs, ShutdownExpires
<1>23. CASE CloseWorkersDone
  BY <1>23 DEF Accounted, QueueBounded, BytesIn, BytePairs, CloseWorkersDone
<1>24. CASE UNCHANGED vars
  BY <1>24 DEF Accounted, QueueBounded, BytesIn, BytePairs
<1> QED BY <1>1, <1>2, <1>3, <1>4, <1>5, <1>6, <1>7, <1>8, <1>9, <1>10, <1>11, <1>12, <1>13, <1>14,
    <1>15, <1>16, <1>17, <1>18, <1>19, <1>20, <1>21, <1>22, <1>23, <1>24
  DEF Next, DoStep, WorkerStep, StopStep, Quiescent

-----------------------------------------------------------------------------
\* What New returns satisfies the inductive invariant.
LEMMA InitIInv == Init => IInv
<1> SUFFICES ASSUME Init PROVE IInv
  OBVIOUS
<1> USE Domains DEF Init
<1>1. ToSet(<<>>) = {} /\ Len(<<>>) = 0 /\ <<>> \in Seq(Requests) /\ Distinct(<<>>)
  BY DEF ToSet, Distinct
<1>2. TypeOK
  <2>1. None \in Results \cup {None} /\ {} \in SUBSET Requests
    OBVIOUS
  <2>2. /\ done \in [Requests -> Results \cup {None}]
        /\ ret \in [Requests -> Results \cup {None}]
        /\ result \in [Workers -> Results \cup {None}]
        /\ item \in [Workers -> Requests \cup {None}]
    BY <2>1
  <2>3. canceled \in SUBSET Requests /\ expired \in SUBSET Requests /\ armed \in SUBSET Requests
    BY <2>1
  <2>4. /\ queue \in Seq(Requests) /\ queuedBytes \in Int /\ running \in Int
        /\ closed \in BOOLEAN /\ workersDone \in BOOLEAN
    <3>1. queue \in Seq(Requests)
      BY <1>1, Zenon
    <3>2. queuedBytes \in Int /\ running \in Int
      OBVIOUS
    <3>3. closed \in BOOLEAN /\ workersDone \in BOOLEAN
      BY Zenon
    <3> QED BY <3>1, <3>2, <3>3
  <2>5. /\ state \in [Requests -> {"none", "Queued", "Starting", "Running", "Done"}]
        /\ do \in [Requests -> {"idle", "enter", "wait", "await", "returned"}]
        /\ runCtx \in [Requests -> {"none", "open", "canceled", "shuttingDown", "released"}]
        /\ stopper \in [Stoppers -> {"idle", "waiting", "nil", "ctxErr"}]
    OBVIOUS
  <2>6. worker \in [Workers -> {"idle", "waiting", "popped", "arming", "ready",
                               "working", "finishing", "delivering", "exited"}]
    OBVIOUS
  <2> HIDE DEF Init
  <2> QED BY <2>2, <2>3, <2>4, <2>5, <2>6 DEF TypeOK
<1>3. Ownership
  BY <1>1 DEF Ownership, QueueOwns, WorkerOwns, ChannelOwns, CallerOwns, Busy
<1>4. BytePairs({}) = {}
  BY DEF BytePairs
<1>5. Accounted
  <2>1. BytePairs(ToSet(queue)) = {} /\ Len(queue) = 0
    BY <1>1, <1>4
  <2>2. IsFiniteSet({}) /\ Cardinality({}) = 0
    BY FS_EmptySet
  <2>3. IsFiniteSet(BytePairs(ToSet(queue))) /\ BytesIn(ToSet(queue)) = 0
    BY <2>1, <2>2 DEF BytesIn
  <2>4. queuedBytes = 0
    OBVIOUS
  <2> QED BY <2>1, <2>3, <2>4 DEF Accounted, QueueBounded
<1> QED BY <1>2, <1>3, <1>5 DEF IInv

\* The inductive invariant of the scheduler: types, the place of every item in
\* Do, the list, the workers and the channel, and the accounted bytes.
THEOREM Inductive == Spec => []IInv
<1>1. IInv /\ [Next]_vars => IInv'
  BY TypeStep, QueueOwnsStep, WorkerOwnsStep, ChannelOwnsStep, CallerOwnsStep, AccountedStep
  DEF IInv, Ownership
<1> QED BY InitIInv, <1>1, PTL DEF Spec

\* Every field of Scheduler and item keeps its type, whatever the limits.
THEOREM TypeCorrect == Spec => []TypeOK
<1>1. IInv => TypeOK
  BY DEF IInv
<1> QED BY Inductive, <1>1, PTL

\* The list never exceeds QueueSize nor its weights QueueBytes, and queuedBytes is
\* neither negative nor off, for any limits (the admission check of Do).
THEOREM QueueIsBounded == Spec => []QueueBounded
<1>1. IInv => QueueBounded
  BY DEF IInv, Accounted
<1> QED BY Inductive, <1>1, PTL

\* A set without two elements.
LEMMA AtMostOne ==
  ASSUME NEW S, \A x, y \in S : x = y
  PROVE  /\ IsFiniteSet(S)
         /\ S = {} => Cardinality(S) = 0
         /\ S # {} => Cardinality(S) = 1
<1>1. CASE S = {}
  BY <1>1, FS_EmptySet
<1>2. CASE S # {}
  <2>1. PICK x : S = {x}
    BY <1>2
  <2> QED BY <1>2, <2>1, FS_Singleton
<1> QED BY <1>1, <1>2

\* Every accepted call is in exactly one place, for any number of calls.
THEOREM ItemsHaveOneOwner == Spec => []OneOwner
<1>1. ASSUME IInv PROVE OneOwner
  <2> SUFFICES ASSUME NEW r \in Requests PROVE OneOwner!(r)
    BY DEF OneOwner
  <2> USE <1>1 DEF IInv, TypeOK, Ownership
  <2>1. /\ Held(r) = {} => Cardinality(Held(r)) = 0
        /\ Held(r) # {} => Cardinality(Held(r)) = 1
    <3>1. \A v, w \in Held(r) : v = w
      BY Domains DEF Held, WorkerOwns
    <3> QED BY <3>1, AtMostOne
  <2>2. Cardinality({i \in DOMAIN queue : queue[i] = r}) \in {0, 1}
    <3>1. \A i, j \in {k \in DOMAIN queue : queue[k] = r} : i = j
      BY DEF QueueOwns, Distinct
    <3> QED BY <3>1, AtMostOne
  <2>3. state[r] \in {"none", "Queued"} => Held(r) = {} /\ done[r] = None
    BY Domains DEF WorkerOwns, ChannelOwns, Held, Busy
  <2>4. state[r] \in {"Starting", "Running"} => Held(r) # {}
    BY DEF WorkerOwns, Held
  <2>5. ASSUME state[r] = "Done"
        PROVE  \/ Held(r) # {} /\ done[r] = None /\ ret[r] = None
               \/ Held(r) = {} /\ done[r] # None /\ ret[r] = None
               \/ Held(r) = {} /\ done[r] = None /\ ret[r] # None
    BY <2>5 DEF ChannelOwns, CallerOwns, Held
  <2> QED BY <2>1, <2>2, <2>3, <2>4, <2>5 DEF QueueOwns
<1> QED BY Inductive, <1>1, PTL

-----------------------------------------------------------------------------
(* Wakeups.                                                                 *)

\* A worker sleeps or is gone only when the queue lets it.  A closed queue is empty
\* because Shutdown empties it and Do adds nothing to it any more.
Awake ==
  /\ NoLostWakeup
  /\ closed => queue = <<>>
  /\ \A w \in Workers : worker[w] = "exited" => closed

\* There are finitely many idle workers, before a step and after it.
LEMMA IdleCount ==
  /\ IsFiniteSet(Idle) /\ Cardinality(Idle) \in Nat
  /\ IsFiniteSet(Idle') /\ Cardinality(Idle)' \in Nat
<1>1. Idle \in SUBSET Workers /\ Idle' \in SUBSET Workers
  BY DEF Idle
<1> QED BY <1>1, ConstantAssumption, FS_Subset, FS_CardinalityType

\* A step that lets no worker sleep or leave, takes none away from the queue and
\* makes the queue no longer.
LEMMA AwakeFrame ==
  ASSUME Awake, queue \in Seq(Requests), queue' \in Seq(Requests), closed' = closed,
         queue' = queue \/ (Len(queue') <= Len(queue) /\ queue # <<>>),
         Idle \subseteq Idle',
         \A w \in Workers : worker'[w] \in {"waiting", "exited"} => worker'[w] = worker[w]
  PROVE  Awake'
<1>1. Cardinality(Idle) <= Cardinality(Idle)'
  <2>1. Idle \in SUBSET Idle'
    OBVIOUS
  <2>2. Cardinality(Idle) <= Cardinality(Idle')
    BY <2>1, IdleCount, FS_Subset
  <2> QED BY <2>2
<1>2. Len(queue') <= Len(queue) /\ Len(queue) \in Nat /\ Len(queue') \in Nat
  OBVIOUS
<1>3. (\E w \in Workers : worker'[w] = "waiting") => Len(queue') <= Cardinality(Idle)'
  BY <1>1, <1>2, IdleCount DEF Awake, NoLostWakeup
<1>4. closed' => queue' = <<>> /\ \A w \in Workers : worker'[w] # "waiting"
  BY DEF Awake, NoLostWakeup
<1> QED BY <1>3, <1>4 DEF Awake, NoLostWakeup

\* The item Do pushes has a worker of its own to come for it, if one was asleep.
LEMMA AdmitWakes ==
  ASSUME IInv, Awake, NEW r \in Requests, Admit(r)
  PROVE  Awake'
<1>1. ~closed /\ Signal /\ closed' = closed /\ queue' = Append(queue, r)
  BY CauseType, Domains DEF Admit, QueuedTerminal, ActiveCause, Terminals, stopVars
<1>2. \A w \in Workers : worker'[w] # "exited"
  BY <1>1, SignalType DEF Awake, IInv
<1>3. (\E w \in Workers : worker'[w] = "waiting") => Len(queue') <= Cardinality(Idle)'
  <2>1. CASE ~\E w \in Workers : worker[w] = "waiting"
    BY <1>1, <2>1 DEF Signal
  <2>2. ASSUME NEW w \in Workers, worker[w] = "waiting", worker' = [worker EXCEPT ![w] = "idle"]
        PROVE  Len(queue') <= Cardinality(Idle)'
    <3>1. Idle' = Idle \cup {w} /\ w \notin Idle
      BY <2>2 DEF Idle, IInv, TypeOK
    <3>2. Cardinality(Idle)' = Cardinality(Idle) + 1
      <4>1. Cardinality(Idle \cup {w}) = Cardinality(Idle) + 1
        BY <3>1, IdleCount, FS_AddElement
      <4> QED BY <3>1, <4>1
    <3>3. Len(queue) <= Cardinality(Idle)
      BY <2>2 DEF Awake, NoLostWakeup
    <3>4. Len(queue') = Len(queue) + 1 /\ Len(queue) \in Nat
      BY <1>1 DEF IInv, TypeOK
    <3> QED BY <3>2, <3>3, <3>4, IdleCount
  <2>3. (\E w \in Workers : worker[w] = "waiting") =>
          \E w \in Workers : worker[w] = "waiting" /\ worker' = [worker EXCEPT ![w] = "idle"]
    BY <1>1 DEF Signal
  <2> QED BY <2>1, <2>2, <2>3
<1> QED BY <1>1, <1>2, <1>3 DEF Awake, NoLostWakeup

\* An idle worker takes one item: one idle worker and one item fewer.
LEMMA PopKeepsAwake ==
  ASSUME IInv, Awake, NEW w \in Workers, Pop(w)
  PROVE  Awake'
<1>1. /\ queue # <<>> /\ queue' = Tail(queue) /\ closed' = closed
      /\ worker[w] = "idle" /\ worker' = [worker EXCEPT ![w] = "popped"]
  BY DEF Pop, stopVars
<1>2. Idle' = Idle \ {w} /\ w \in Idle
  BY <1>1 DEF Idle, IInv, TypeOK
<1>3. Cardinality(Idle)' = Cardinality(Idle) - 1
  <2>1. Cardinality(Idle \ {w}) = Cardinality(Idle) - 1
    BY <1>2, IdleCount, FS_RemoveElement
  <2> QED BY <1>2, <2>1
<1>4. Len(queue') = Len(queue) - 1 /\ Len(queue) \in Nat
  BY <1>1 DEF IInv, TypeOK
<1>5. \A v \in Workers : worker'[v] \in {"waiting", "exited"} => worker'[v] = worker[v]
  BY <1>1 DEF IInv, TypeOK
<1>6. (\E v \in Workers : worker'[v] = "waiting") => Len(queue') <= Cardinality(Idle)'
  BY <1>3, <1>4, <1>5, IdleCount DEF Awake, NoLostWakeup
<1>7. ~closed
  BY <1>1 DEF Awake
<1> QED BY <1>1, <1>5, <1>6, <1>7 DEF Awake, NoLostWakeup

\* Every step keeps it that a sleeping worker has a reason to sleep: the waits
\* of worker() against Signal in Do and Broadcast in Shutdown.
LEMMA AwakeStep ==
  ASSUME IInv, Awake, [Next]_vars
  PROVE  Awake'
<1> USE DEF IInv
<1>1. CASE UNCHANGED <<queue, closed, worker>>
  <2>1. Idle' = Idle
    BY <1>1 DEF Idle
  <2> QED BY <1>1, <2>1 DEF Awake, NoLostWakeup
<1>2. ASSUME NEW r \in Requests, Admit(r) PROVE Awake'
  BY <1>2, AdmitWakes
<1>3. ASSUME NEW r \in Requests, GiveUp(r) PROVE Awake'
  <2>1. r \in ToSet(queue) /\ Distinct(queue)
    BY <1>3 DEF GiveUp, Ownership, QueueOwns
  <2>2. /\ queue # <<>> /\ queue' \in Seq(Requests) /\ Len(queue') = Len(queue) - 1
        /\ closed' = closed /\ worker' = worker
    BY <1>3, <2>1, UnlinkProperties DEF ToSet, GiveUp, stopVars, workerVars, TypeOK
  <2>3. Idle' = Idle
    BY <2>2 DEF Idle
  <2> QED BY <2>2, <2>3, AwakeFrame DEF TypeOK
<1>4. ASSUME NEW w \in Workers, Sleep(w) PROVE Awake'
  <2>1. ~closed /\ ~closed' /\ queue = <<>> /\ queue' = <<>>
    BY <1>4 DEF Sleep, itemVars, stopVars
  <2>2. \A v \in Workers : worker'[v] # "exited"
    BY <1>4, <2>1 DEF Sleep, Awake, TypeOK
  <2>3. Len(queue') = 0
    BY <2>1
  <2> QED BY <2>1, <2>2, <2>3, IdleCount DEF Awake, NoLostWakeup
<1>5. ASSUME NEW w \in Workers, Exit(w) PROVE Awake'
  <2>1. closed /\ closed' /\ queue' = <<>> /\ worker' = [worker EXCEPT ![w] = "exited"]
    BY <1>5 DEF Exit, itemVars, stopVars
  <2>2. \A v \in Workers : worker'[v] # "waiting"
    BY <2>1 DEF Awake, NoLostWakeup, TypeOK
  <2> QED BY <2>1, <2>2 DEF Awake, NoLostWakeup
<1>6. ASSUME NEW w \in Workers, Pop(w) PROVE Awake'
  BY <1>6, PopKeepsAwake
<1>7. ASSUME NEW w \in Workers,
             NewRunContext(w) \/ Arm(w) \/ AbandonStart(w) \/ StartWork(w) \/ WorkReturns(w)
             \/ Finish(w) \/ Deliver(w)
      PROVE  Awake'
  <2>1. queue' = queue /\ closed' = closed
    BY <1>7 DEF NewRunContext, Arm, AbandonStart, StartWork, WorkReturns, Finish, Deliver,
                itemVars, stopVars
  <2>2. /\ worker[w] # "idle" /\ worker'[w] \notin {"waiting", "exited"}
        /\ \A v \in Workers \ {w} : worker'[v] = worker[v]
    BY <1>7 DEF NewRunContext, Arm, AbandonStart, StartWork, WorkReturns, Finish, Deliver, TypeOK
  <2>3. Idle \subseteq Idle'
    BY <2>2 DEF Idle
  <2> QED BY <2>1, <2>2, <2>3, AwakeFrame DEF TypeOK
<1>8. ASSUME NEW s \in Stoppers, BeginShutdown(s) PROVE Awake'
  <2>1. CASE closed
    BY <1>1, <1>8, <2>1 DEF itemVars, BeginShutdown
  <2>2. CASE ~closed
    <3>1. closed' /\ queue' = <<>> /\ \A w \in Workers : worker'[w] # "waiting"
      BY <1>8, <2>2 DEF Broadcast, BeginShutdown
    <3> QED BY <3>1 DEF Awake, NoLostWakeup
  <2> QED BY <2>1, <2>2
<1> QED BY <1>1, <1>2, <1>3, <1>4, <1>5, <1>6, <1>7, <1>8
        DEF Next, DoStep, WorkerStep, StopStep, Quiescent, Enter, Refuse, CommitToWait, Receive, SignalFires,
            CallerCancels, QueueTimerFires, ShutdownDone, ShutdownExpires, CloseWorkersDone, vars, itemVars,
            workerVars, stopVars

\* No wakeup is lost, for any number of workers and calls: no item waits beside a
\* sleeping worker for one that is busy.
THEOREM WakeupsArrive == Spec => []NoLostWakeup
<1>1. Init => Awake
  BY DEF Init, Awake, NoLostWakeup
<1>2. IInv /\ Awake /\ [Next]_vars => Awake'
  BY AwakeStep
<1>3. Awake => NoLostWakeup
  BY DEF Awake
<1> QED BY Inductive, <1>1, <1>2, <1>3, PTL DEF Spec

-----------------------------------------------------------------------------
(* Run contexts.                                                            *)

\* Where a worker may have callbacks registered.
Live == {"ready", "working", "finishing"}

\* Before the work starts, a context without callbacks has its cause already.
ArmedOrDoomed ==
  /\ Cancelable
  /\ \A w \in Workers :
       worker[w] = "ready" => item[w] \in armed \/ ActiveCause(item[w]) # None
  /\ \A r \in armed : \E w \in Workers :
       item[w] = r /\ worker[w] \in Live

\* A step that moves no worker in or out of these places keeps it.
LEMMA ArmedFrame ==
  ASSUME ArmedOrDoomed, UNCHANGED ctxVars,
         \A w \in Workers :
           worker[w] \in Live \/ worker'[w] \in Live =>
             worker'[w] = worker[w] /\ item'[w] = item[w],
         \A w \in Workers :
           worker[w] = "ready" /\ ActiveCause(item[w]) # None => ActiveCause(item[w])' # None
  PROVE  ArmedOrDoomed'
<1>1. armed' = armed /\ runCtx' = runCtx
  BY DEF ctxVars
<1>2. Cancelable'
  BY <1>1 DEF ArmedOrDoomed, Cancelable, Live
<1>3. \A w \in Workers : worker'[w] = "ready" =>
        item'[w] \in armed' \/ ActiveCause(item[w])' # None
  BY <1>1 DEF ArmedOrDoomed, Live
<1>4. \A r \in armed' : \E w \in Workers : item'[w] = r /\ worker'[w] \in Live
  BY <1>1 DEF ArmedOrDoomed, Live
<1>5. \A w \in Workers : worker'[w] = "ready" => item'[w] = item[w]
  BY DEF Live
<1> QED BY <1>2, <1>3, <1>4, <1>5 DEF ArmedOrDoomed, Live, ActiveCause

\* Every step keeps it that the run context of a live item is armed or canceled
\* (newRunContext: look, register both AfterFuncs, look again).
LEMMA ArmedStep ==
  ASSUME IInv, ArmedOrDoomed, [Next]_vars
  PROVE  ArmedOrDoomed'
<1> USE Domains, CauseType DEF IInv, TypeOK, ArmedOrDoomed, Cancelable, Live
<1>1. ASSUME NEW r \in Requests, Enter(r) PROVE ArmedOrDoomed'
  BY <1>1 DEF workerVars, ctxVars, stopVars, envVars, ActiveCause, vars, Enter
<1>2. ASSUME NEW r \in Requests, Refuse(r) PROVE ArmedOrDoomed'
  BY <1>2 DEF workerVars, ctxVars, stopVars, envVars, ActiveCause, vars, Refuse
<1>3. ASSUME NEW r \in Requests, Admit(r) PROVE ArmedOrDoomed'
  <2>1. \A v \in Workers :
          worker[v] \in Live \/ worker'[v] \in Live =>
            worker'[v] = worker[v] /\ item'[v] = item[v]
    BY <1>3, SignalType DEF Admit
  <2>2. UNCHANGED <<ctxVars, closed, canceled>>
    BY <1>3 DEF Admit, stopVars, envVars
  <2> QED BY <2>1, <2>2, ArmedFrame DEF ActiveCause
<1>4. ASSUME NEW r \in Requests, GiveUp(r) PROVE ArmedOrDoomed'
  BY <1>4 DEF workerVars, ctxVars, stopVars, envVars, ActiveCause, vars, GiveUp
<1>5. ASSUME NEW r \in Requests, CommitToWait(r) PROVE ArmedOrDoomed'
  BY <1>5 DEF workerVars, ctxVars, stopVars, envVars, ActiveCause, vars, CommitToWait
<1>6. ASSUME NEW r \in Requests, Receive(r) PROVE ArmedOrDoomed'
  BY <1>6 DEF workerVars, ctxVars, stopVars, envVars, ActiveCause, vars, Receive
<1>7. ASSUME NEW r \in Requests, SignalFires(r) PROVE ArmedOrDoomed'
  BY <1>7 DEF workerVars, ctxVars, stopVars, envVars, ActiveCause, vars, SignalFires
<1>8. ASSUME NEW r \in Requests, CallerCancels(r) PROVE ArmedOrDoomed'
  BY <1>8 DEF workerVars, ctxVars, stopVars, envVars, ActiveCause, vars, CallerCancels
<1>9. ASSUME NEW r \in Requests, QueueTimerFires(r) PROVE ArmedOrDoomed'
  BY <1>9 DEF workerVars, ctxVars, stopVars, envVars, ActiveCause, vars, QueueTimerFires
<1>10. ASSUME NEW w \in Workers, Sleep(w) PROVE ArmedOrDoomed'
  BY <1>10 DEF workerVars, ctxVars, stopVars, envVars, ActiveCause, vars, Sleep
<1>11. ASSUME NEW w \in Workers, Exit(w) PROVE ArmedOrDoomed'
  <2>1. \A v \in Workers :
          worker[v] \in Live \/ worker'[v] \in Live =>
            worker'[v] = worker[v] /\ item'[v] = item[v]
    BY <1>11 DEF Exit
  <2>2. UNCHANGED <<ctxVars, closed, canceled>>
    BY <1>11 DEF Exit, stopVars, envVars
  <2> QED BY <2>1, <2>2, ArmedFrame DEF ActiveCause
<1>12. ASSUME NEW w \in Workers, Pop(w) PROVE ArmedOrDoomed'
  <2>1. \A v \in Workers :
          worker[v] \in Live \/ worker'[v] \in Live =>
            worker'[v] = worker[v] /\ item'[v] = item[v]
    BY <1>12 DEF Pop
  <2>2. UNCHANGED <<ctxVars, closed, canceled>>
    BY <1>12 DEF Pop, stopVars, envVars
  <2> QED BY <2>1, <2>2, ArmedFrame DEF ActiveCause
<1>13. ASSUME NEW w \in Workers, NewRunContext(w) PROVE ArmedOrDoomed'
  <2>1. \A v \in Workers : v # w /\ worker[v] \in Busy => item[v] # item[w]
    BY <1>13 DEF Ownership, WorkerOwns, Busy, NewRunContext
  <2>2. item[w] \in Requests
    BY <1>13, BusyItem DEF Busy, NewRunContext
  <2>3. /\ \A v \in Workers : v # w => worker'[v] = worker[v]
        /\ worker'[w] \in {"ready", "arming"} /\ item' = item /\ armed' = armed
        /\ \A r \in Requests : r # item[w] => runCtx'[r] = runCtx[r]
        /\ worker'[w] = "ready" => ActiveCause(item[w]) # None
        /\ closed' = closed /\ canceled' = canceled
    BY <1>13, <2>2 DEF NewRunContext, stopVars, envVars
  <2>4. worker[w] = "popped"
    BY <1>13 DEF NewRunContext
  <2>5. Cancelable'
    BY <2>1, <2>3, BusyItem DEF Busy
  <2>6. \A v \in Workers :
          worker'[v] = "ready" => item'[v] \in armed' \/ ActiveCause(item[v])' # None
    BY <2>3 DEF ActiveCause
  <2>7. \A r \in armed' : \E v \in Workers : item'[v] = r /\ worker'[v] \in Live
    <3> TAKE r \in armed'
    <3>1. PICK v \in Workers : item[v] = r /\ worker[v] \in Live
      BY <2>3
    <3>2. v # w
      BY <2>4, <3>1 DEF Live
    <3> QED BY <2>3, <3>1, <3>2
  <2> QED BY <2>3, <2>5, <2>6, <2>7 DEF ActiveCause
<1>14. ASSUME NEW w \in Workers, Arm(w) PROVE ArmedOrDoomed'
  BY <1>14 DEF workerVars, ctxVars, stopVars, envVars, ActiveCause, vars, Arm
<1>15. ASSUME NEW w \in Workers, AbandonStart(w) PROVE ArmedOrDoomed'
  BY <1>15 DEF workerVars, ctxVars, stopVars, envVars, ActiveCause, vars, AbandonStart
<1>16. ASSUME NEW w \in Workers, StartWork(w) PROVE ArmedOrDoomed'
  BY <1>16 DEF workerVars, ctxVars, stopVars, envVars, ActiveCause, vars, StartWork
<1>17. ASSUME NEW w \in Workers, WorkReturns(w) PROVE ArmedOrDoomed'
  BY <1>17 DEF workerVars, ctxVars, stopVars, envVars, ActiveCause, vars, WorkReturns
<1>18. ASSUME NEW w \in Workers, Finish(w) PROVE ArmedOrDoomed'
  <2>1. \A v \in Workers : v # w /\ worker[v] \in Busy => item[v] # item[w]
    BY <1>18 DEF Ownership, WorkerOwns, Busy, Finish
  <2>2. item[w] \in Requests
    BY <1>18, BusyItem DEF Busy, Finish
  <2> QED BY <1>18, <2>1, <2>2 DEF Busy, ActiveCause, stopVars, envVars, Finish
<1>19. ASSUME NEW w \in Workers, Deliver(w) PROVE ArmedOrDoomed'
  <2>1. \A v \in Workers :
          worker[v] \in Live \/ worker'[v] \in Live =>
            worker'[v] = worker[v] /\ item'[v] = item[v]
    BY <1>19 DEF Deliver
  <2>2. UNCHANGED <<ctxVars, closed, canceled>>
    BY <1>19 DEF Deliver, stopVars, envVars
  <2> QED BY <2>1, <2>2, ArmedFrame DEF ActiveCause
<1>20. ASSUME NEW s \in Stoppers, BeginShutdown(s) PROVE ArmedOrDoomed'
  <2>1. \A v \in Workers :
          worker[v] \in Live \/ worker'[v] \in Live =>
            worker'[v] = worker[v] /\ item'[v] = item[v]
    BY <1>20 DEF BeginShutdown, Broadcast
  <2>2. UNCHANGED <<ctxVars, canceled>> /\ (closed' \/ closed' = closed)
    BY <1>20 DEF BeginShutdown, envVars
  <2>4. \A v \in Workers : worker[v] = "ready" => item[v] \in Requests
    BY BusyItem DEF Busy
  <2>5. \A v \in Workers :
          worker[v] = "ready" /\ ActiveCause(item[v]) # None => ActiveCause(item[v])' # None
    <3> SUFFICES ASSUME NEW v \in Workers, worker[v] = "ready", ActiveCause(item[v]) # None
                 PROVE  ActiveCause(item[v])' # None
      OBVIOUS
    <3>1. worker'[v] = "ready" /\ item'[v] = item[v]
      BY <2>1 DEF Live
    <3> QED BY <2>2, <2>4, <3>1 DEF ActiveCause, Terminals
  <2> QED BY <2>1, <2>2, <2>5, ArmedFrame
<1>21. ASSUME NEW s \in Stoppers, ShutdownDone(s) PROVE ArmedOrDoomed'
  BY <1>21 DEF workerVars, ctxVars, stopVars, envVars, ActiveCause, vars, ShutdownDone
<1>22. ASSUME NEW s \in Stoppers, ShutdownExpires(s) PROVE ArmedOrDoomed'
  BY <1>22 DEF workerVars, ctxVars, stopVars, envVars, ActiveCause, vars, ShutdownExpires
<1>23. CASE CloseWorkersDone
  BY <1>23 DEF workerVars, ctxVars, stopVars, envVars, ActiveCause, vars, CloseWorkersDone
<1>24. CASE UNCHANGED vars
  BY <1>24 DEF workerVars, ctxVars, stopVars, envVars, ActiveCause, vars
<1> QED BY <1>1, <1>2, <1>3, <1>4, <1>5, <1>6, <1>7, <1>8, <1>9, <1>10, <1>11, <1>12, <1>13, <1>14,
    <1>15, <1>16, <1>17, <1>18, <1>19, <1>20, <1>21, <1>22, <1>23, <1>24
  DEF Next, DoStep, WorkerStep, StopStep, Quiescent

\* A running work function can be canceled, for any number of calls.
THEOREM WorkIsCancelable == Spec => []Cancelable
<1>1. Init => ArmedOrDoomed
  BY DEF Init, ArmedOrDoomed, Cancelable
<1>2. IInv /\ ArmedOrDoomed /\ [Next]_vars => ArmedOrDoomed'
  BY ArmedStep
<1>3. ArmedOrDoomed => Cancelable
  BY DEF ArmedOrDoomed
<1> QED BY Inductive, <1>1, <1>2, <1>3, PTL DEF Spec

-----------------------------------------------------------------------------
(* The end of Shutdown.                                                     *)

\* The workers whose item is Running.
AtWork == {w \in Workers : worker[w] \in {"working", "finishing"}}

Counted == IsFiniteSet(AtWork) /\ running = Cardinality(AtWork)

\* A nil of Shutdown comes after every worker has returned.
NilMeansGone ==
  /\ workersDone => \A w \in Workers : worker[w] = "exited"
  /\ \A s \in Stoppers : /\ stopper[s] # "idle" => closed
                         /\ stopper[s] = "nil" => workersDone

\* A step starts one work function, ends one, or leaves them as they are (execute).
LEMMA AtWorkSteps ==
  ASSUME TypeOK, [Next]_vars
  PROVE  \/ AtWork' = AtWork /\ running' = running
         \/ \E w \in Workers \ AtWork : AtWork' = AtWork \cup {w} /\ running' = running + 1
         \/ \E w \in AtWork : AtWork' = AtWork \ {w} /\ running' = running - 1
<1> DEFINE Same == AtWork' = AtWork /\ running' = running
<1> USE DEF TypeOK
<1>1. ASSUME NEW w \in Workers, StartWork(w)
      PROVE  w \notin AtWork /\ AtWork' = AtWork \cup {w} /\ running' = running + 1
  BY <1>1 DEF StartWork, AtWork
<1>2. ASSUME NEW w \in Workers, Finish(w)
      PROVE  w \in AtWork /\ AtWork' = AtWork \ {w} /\ running' = running - 1
  BY <1>2 DEF Finish, AtWork
<1>3. ASSUME NEW w \in Workers,
             \/ Sleep(w) \/ Exit(w) \/ Pop(w) \/ NewRunContext(w) \/ Arm(w) \/ AbandonStart(w)
             \/ WorkReturns(w) \/ Deliver(w)
      PROVE  Same
  <2>1. running' = running /\ \E x \in {"idle", "waiting", "popped", "arming", "ready", "finishing",
      "delivering", "exited"} :
          worker' = [worker EXCEPT ![w] = x] /\ (x = "finishing" <=> worker[w] \in {"working", "finishing"})
    BY <1>3 DEF Sleep, Exit, Pop, NewRunContext, Arm, AbandonStart, WorkReturns, Deliver, itemVars
  <2> QED BY <2>1 DEF AtWork
<1>4. ASSUME NEW r \in Requests, DoStep(r) PROVE Same
  <2>1. CASE Admit(r)
    <3>1. running' = running /\ Signal
      BY <2>1 DEF Admit
    <3> QED BY <3>1, SignalType DEF AtWork
  <2>2. CASE ~Admit(r)
    <3>1. running' = running /\ worker' = worker
      BY <1>4, <2>2 DEF DoStep, Enter, Refuse, GiveUp, CommitToWait, Receive, itemVars, workerVars
    <3> QED BY <3>1 DEF AtWork
  <2> QED BY <2>1, <2>2
<1>5. ASSUME NEW r \in Requests, SignalFires(r) \/ CallerCancels(r) \/ QueueTimerFires(r) PROVE Same
  BY <1>5 DEF SignalFires, CallerCancels, QueueTimerFires, itemVars, workerVars, AtWork
<1>6. ASSUME NEW s \in Stoppers, BeginShutdown(s) PROVE Same
  <2>1. CASE closed
    BY <1>6, <2>1 DEF BeginShutdown, itemVars, AtWork
  <2>2. CASE ~closed
    BY <1>6, <2>2 DEF BeginShutdown, Broadcast, AtWork
  <2> QED BY <2>1, <2>2
<1>7. ASSUME NEW s \in Stoppers, ShutdownDone(s) \/ ShutdownExpires(s) PROVE Same
  BY <1>7 DEF ShutdownDone, ShutdownExpires, itemVars, workerVars, AtWork
<1>8. CASE CloseWorkersDone \/ UNCHANGED vars
  BY <1>8 DEF CloseWorkersDone, vars, itemVars, workerVars, AtWork
<1> QED BY <1>1, <1>2, <1>3, <1>4, <1>5, <1>6, <1>7, <1>8 DEF Next, WorkerStep, StopStep, Quiescent

\* Stats' counter follows the work functions.
LEMMA CountedStep ==
  ASSUME TypeOK, Counted, [Next]_vars
  PROVE  Counted'
<1>1. ASSUME NEW w \in Workers \ AtWork, AtWork' = AtWork \cup {w}, running' = running + 1
      PROVE  Counted'
  BY <1>1, FS_AddElement DEF Counted
<1>2. ASSUME NEW w \in AtWork, AtWork' = AtWork \ {w}, running' = running - 1
      PROVE  Counted'
  BY <1>2, FS_RemoveElement DEF Counted
<1>3. CASE AtWork' = AtWork /\ running' = running
  BY <1>3 DEF Counted
<1> QED BY <1>1, <1>2, <1>3, AtWorkSteps

\* A worker that has returned stays away, and so does its nil.
LEMMA GoneStep ==
  ASSUME IInv, NilMeansGone, [Next]_vars
  PROVE  NilMeansGone'
<1> USE DEF IInv, TypeOK, NilMeansGone, itemVars, workerVars, stopVars
<1>1. ASSUME NEW r \in Requests, Enter(r) PROVE NilMeansGone'
  BY <1>1 DEF Enter
<1>2. ASSUME NEW r \in Requests, Refuse(r) PROVE NilMeansGone'
  BY <1>2 DEF Refuse
<1>3. ASSUME NEW r \in Requests, Admit(r) PROVE NilMeansGone'
  BY <1>3, SignalType DEF Admit
<1>4. ASSUME NEW r \in Requests, GiveUp(r) PROVE NilMeansGone'
  BY <1>4 DEF GiveUp
<1>5. ASSUME NEW r \in Requests, CommitToWait(r) PROVE NilMeansGone'
  BY <1>5 DEF CommitToWait
<1>6. ASSUME NEW r \in Requests, Receive(r) PROVE NilMeansGone'
  BY <1>6 DEF Receive
<1>7. ASSUME NEW r \in Requests, SignalFires(r) PROVE NilMeansGone'
  BY <1>7 DEF SignalFires
<1>8. ASSUME NEW r \in Requests, CallerCancels(r) PROVE NilMeansGone'
  BY <1>8 DEF CallerCancels
<1>9. ASSUME NEW r \in Requests, QueueTimerFires(r) PROVE NilMeansGone'
  BY <1>9 DEF QueueTimerFires
<1>10. ASSUME NEW w \in Workers, Sleep(w) PROVE NilMeansGone'
  BY <1>10 DEF Sleep
<1>11. ASSUME NEW w \in Workers, Exit(w) PROVE NilMeansGone'
  BY <1>11 DEF Exit
<1>12. ASSUME NEW w \in Workers, Pop(w) PROVE NilMeansGone'
  BY <1>12 DEF Pop
<1>13. ASSUME NEW w \in Workers, NewRunContext(w) PROVE NilMeansGone'
  BY <1>13 DEF NewRunContext
<1>14. ASSUME NEW w \in Workers, Arm(w) PROVE NilMeansGone'
  BY <1>14 DEF Arm
<1>15. ASSUME NEW w \in Workers, AbandonStart(w) PROVE NilMeansGone'
  BY <1>15 DEF AbandonStart
<1>16. ASSUME NEW w \in Workers, StartWork(w) PROVE NilMeansGone'
  BY <1>16 DEF StartWork
<1>17. ASSUME NEW w \in Workers, WorkReturns(w) PROVE NilMeansGone'
  BY <1>17 DEF WorkReturns
<1>18. ASSUME NEW w \in Workers, Finish(w) PROVE NilMeansGone'
  BY <1>18 DEF Finish
<1>19. ASSUME NEW w \in Workers, Deliver(w) PROVE NilMeansGone'
  BY <1>19 DEF Deliver
<1>20. ASSUME NEW s \in Stoppers, BeginShutdown(s) PROVE NilMeansGone'
  <2>1. CASE closed
    BY <1>20, <2>1 DEF BeginShutdown
  <2>2. CASE ~closed
    BY <1>20, <2>2 DEF BeginShutdown, Broadcast
  <2> QED BY <2>1, <2>2
<1>21. ASSUME NEW s \in Stoppers, ShutdownDone(s) PROVE NilMeansGone'
  BY <1>21 DEF ShutdownDone
<1>22. ASSUME NEW s \in Stoppers, ShutdownExpires(s) PROVE NilMeansGone'
  BY <1>22 DEF ShutdownExpires
<1>23. CASE CloseWorkersDone
  BY <1>23 DEF CloseWorkersDone
<1>24. CASE UNCHANGED vars
  BY <1>24 DEF vars
<1> QED BY <1>1, <1>2, <1>3, <1>4, <1>5, <1>6, <1>7, <1>8, <1>9, <1>10, <1>11, <1>12, <1>13, <1>14,
    <1>15, <1>16, <1>17, <1>18, <1>19, <1>20, <1>21, <1>22, <1>23, <1>24
  DEF Next, DoStep, WorkerStep, StopStep, Quiescent

\* nil from Shutdown is final: nothing is queued, starting or running, and every
\* accepted call has its result, for any number of calls and workers.
THEOREM NilIsFinal == Spec => []ShutdownIsFinal
<1>1. Init => Awake /\ ArmedOrDoomed /\ Counted /\ NilMeansGone
  <2> SUFFICES ASSUME Init PROVE Awake /\ ArmedOrDoomed /\ Counted /\ NilMeansGone
    OBVIOUS
  <2>1. AtWork = {}
    BY DEF Init, AtWork
  <2> QED BY <2>1, FS_EmptySet
          DEF Init, Awake, NoLostWakeup, ArmedOrDoomed, Cancelable, Counted, NilMeansGone
<1>2. IInv /\ Awake /\ ArmedOrDoomed /\ Counted /\ NilMeansGone /\ [Next]_vars
        => Awake' /\ ArmedOrDoomed' /\ Counted' /\ NilMeansGone'
  BY AwakeStep, ArmedStep, CountedStep, GoneStep DEF IInv
<1>3. IInv /\ Awake /\ ArmedOrDoomed /\ Counted /\ NilMeansGone => ShutdownIsFinal
  <2> SUFFICES ASSUME IInv, Awake, ArmedOrDoomed, Counted, NilMeansGone,
                      NEW s \in Stoppers, stopper[s] = "nil"
               PROVE  /\ running = 0 /\ queue = <<>> /\ armed = {}
                      /\ \A r \in Requests : state[r] # "none" => done[r] # None \/ ret[r] # None
    BY DEF ShutdownIsFinal
  <2>1. closed /\ \A w \in Workers : worker[w] = "exited"
    BY DEF NilMeansGone
  <2>2. queue = <<>> /\ armed = {}
    BY <2>1 DEF Awake, ArmedOrDoomed, Live, IInv, TypeOK
  <2>3. running = 0
    <3>1. AtWork = {}
      BY <2>1 DEF AtWork
    <3> QED BY <3>1, FS_EmptySet DEF Counted
  <2>4. ASSUME NEW r \in Requests, state[r] # "none" PROVE done[r] # None \/ ret[r] # None
    <3>1. \A w \in Workers : item[w] # r
      BY <2>1, Domains DEF IInv, Ownership, WorkerOwns, Busy
    <3>2. state[r] # "Queued"
      BY <2>2 DEF IInv, Ownership, QueueOwns, ToSet
    <3>3. state[r] = "Done"
      BY <2>4, <3>1, <3>2 DEF IInv, TypeOK, Ownership, WorkerOwns
    <3> QED BY <3>1, <3>3 DEF IInv, Ownership, ChannelOwns
  <2> QED BY <2>2, <2>3, <2>4
<1> QED BY Inductive, <1>1, <1>2, <1>3, PTL DEF Spec

-----------------------------------------------------------------------------
(* The scheduler implements the abstract pool, for any calls, workers and     *)
(* limits: every critical section is one step of WorkPool, or none.            *)

\* A work function's own result waits for execute's second section.
Reported == \A w \in Workers : worker[w] = "finishing" => result[w] \in WorkResults

LEMMA ReportedStep ==
  ASSUME IInv, Reported, [Next]_vars
  PROVE  Reported'
<1> USE Domains DEF IInv, TypeOK, Reported
<1>1. ASSUME NEW r \in Requests, Admit(r) PROVE Reported'
  BY <1>1, SignalType DEF Admit
<1>2. ASSUME NEW s \in Stoppers, BeginShutdown(s) PROVE Reported'
  BY <1>2 DEF BeginShutdown, Broadcast
<1>3. ASSUME NEW w \in Workers, WorkerStep(w) \/ WorkReturns(w) PROVE Reported'
  BY <1>3 DEF WorkerStep, WorkReturns, Sleep, Exit, Pop, NewRunContext, Arm, AbandonStart, StartWork,
              Finish, Deliver
<1>4. CASE UNCHANGED <<worker, result>>
  BY <1>4
<1> QED BY <1>1, <1>2, <1>3, <1>4
        DEF Next, DoStep, StopStep, Enter, Refuse, GiveUp, CommitToWait, Receive, SignalFires, CallerCancels,
            QueueTimerFires, ShutdownDone, ShutdownExpires, CloseWorkersDone, Quiescent, vars, workerVars

-----------------------------------------------------------------------------
(* The outcome of a call, read off the scheduler's state.                   *)

LEMMA OutcomeIs ==
  ASSUME NEW r \in Requests
  PROVE  /\ ret[r] # None => Outcome[r] = ret[r]
         /\ ret[r] = None /\ done[r] # None => Outcome[r] = done[r]
         /\ ret[r] = None /\ done[r] = None /\ Delivering(r) = {} => Outcome[r] = None
         /\ \A w \in Workers : ret[r] = None /\ done[r] = None /\ Delivering(r) = {w} => Outcome[r] = result[w]
BY DEF Outcome

LEMMA OutcomeWillBe ==
  ASSUME NEW r \in Requests
  PROVE  /\ ret'[r] # None => Outcome'[r] = ret'[r]
         /\ ret'[r] = None /\ done'[r] # None => Outcome'[r] = done'[r]
         /\ ret'[r] = None /\ done'[r] = None /\ Delivering(r)' = {} => Outcome'[r] = None
         /\ \A w \in Workers :
              ret'[r] = None /\ done'[r] = None /\ Delivering(r)' = {w} => Outcome'[r] = result'[w]
BY DEF Outcome

\* A call whose result nobody touches keeps its outcome.
LEMMA OutcomeStays ==
  ASSUME NEW r \in Requests, ret'[r] = ret[r], done'[r] = done[r],
         Delivering(r)' = Delivering(r), \A w \in Delivering(r) : result'[w] = result[w]
  PROVE  Outcome'[r] = Outcome[r]
<1>1. CASE Delivering(r) = {}
  BY <1>1 DEF Outcome
<1>2. CASE Delivering(r) # {}
  <2>1. (CHOOSE w \in Delivering(r) : TRUE) \in Delivering(r)
    BY <1>2
  <2> QED BY <1>2, <2>1 DEF Outcome
<1> QED BY <1>1, <1>2

LEMMA OutcomeChanges ==
  ASSUME NEW r \in Requests, NEW o, Outcome'[r] = o,
         \A x \in Requests \ {r} : Outcome'[x] = Outcome[x]
  PROVE  Outcome' = [Outcome EXCEPT ![r] = o]
<1>1. Outcome = [x \in Requests |-> Outcome[x]]
  BY DEF Outcome
<1>2. Outcome' = [x \in Requests |-> Outcome'[x]]
  BY DEF Outcome
<1> QED BY <1>1, <1>2

\* Who is delivered: nobody but the worker that holds the call.
LEMMA OneDelivers ==
  ASSUME IInv, NEW w \in Workers, item[w] \in Requests
  PROVE  Delivering(item[w]) = IF worker[w] = "delivering" THEN {w} ELSE {}
BY Domains DEF IInv, Ownership, WorkerOwns, Delivering, Held

-----------------------------------------------------------------------------
(* The critical sections that change nothing the pool shows.                *)

PoolSame == UNCHANGED <<closed, queue, Active, canceled, Outcome>>

LEMMA Untouched ==
  ASSUME UNCHANGED <<state, queue, closed, canceled, ret, done>>,
         \A r \in Requests : Delivering(r)' = Delivering(r),
         \A r \in Requests, w \in Workers : w \in Delivering(r) => result'[w] = result[w]
  PROVE  PoolSame
<1>1. \A r \in Requests : Delivering(r) \subseteq Workers
  BY DEF Delivering, Held
<1>2. \A r \in Requests : Outcome'[r] = Outcome[r]
  BY <1>1, OutcomeStays
<1>3. Outcome' = Outcome
  BY <1>2 DEF Outcome
<1> QED BY <1>3 DEF PoolSame, Active

LEMMA QuietSteps ==
  ASSUME IInv,
         \/ \E r \in Requests : Enter(r) \/ CommitToWait(r) \/ SignalFires(r) \/ QueueTimerFires(r)
         \/ \E s \in Stoppers : ShutdownDone(s) \/ ShutdownExpires(s)
         \/ CloseWorkersDone
         \/ UNCHANGED vars
  PROVE  PoolSame
<1>1. UNCHANGED <<state, queue, closed, canceled, ret, done, item, worker, result>>
  BY DEF Enter, CommitToWait, SignalFires, QueueTimerFires, ShutdownDone, ShutdownExpires,
         CloseWorkersDone, vars, itemVars, envVars, doVars, workerVars, stopVars
<1> QED BY <1>1, Untouched DEF Delivering, Held

LEMMA QuietWork ==
  ASSUME IInv, NEW w \in Workers,
         Sleep(w) \/ Exit(w) \/ NewRunContext(w) \/ Arm(w) \/ WorkReturns(w)
  PROVE  PoolSame
<1>1. /\ UNCHANGED <<state, queue, closed, canceled, ret, done, item>>
      /\ worker[w] # "delivering" /\ worker'[w] # "delivering"
      /\ \A v \in Workers \ {w} : worker'[v] = worker[v] /\ result'[v] = result[v]
  BY DEF IInv, TypeOK, Sleep, Exit, NewRunContext, Arm, WorkReturns, itemVars, envVars, doVars,
     stopVars
<1>2. \A r \in Requests : Delivering(r)' = Delivering(r)
  BY <1>1 DEF Delivering, Held
<1>3. \A r \in Requests, v \in Workers : v \in Delivering(r) => result'[v] = result[v]
  BY <1>1 DEF Delivering
<1> QED BY <1>1, <1>2, <1>3, Untouched

\* Do takes what lies in item.done: the outcome was decided before.
LEMMA ReceiveIsQuiet ==
  ASSUME IInv, NEW r \in Requests, Receive(r)
  PROVE  PoolSame
<1>1. /\ UNCHANGED <<state, queue, closed, canceled, worker, item, result>>
      /\ ret' = [ret EXCEPT ![r] = done[r]] /\ done' = [done EXCEPT ![r] = None] /\ done[r] # None
  BY DEF Receive, itemVars, envVars, workerVars, stopVars
<1>2. ret[r] = None
  BY <1>1 DEF IInv, Ownership, ChannelOwns
<1>3. \A x \in Requests : Delivering(x)' = Delivering(x)
  BY <1>1 DEF Delivering, Held
<1>4. Outcome'[r] = Outcome[r]
  <2>1. Outcome[r] = done[r]
    BY <1>1, <1>2, OutcomeIs
  <2>2. ret'[r] = done[r]
    BY <1>1 DEF IInv, TypeOK
  <2> QED BY <1>1, <2>1, <2>2, OutcomeWillBe
<1>5. ASSUME NEW x \in Requests \ {r} PROVE Outcome'[x] = Outcome[x]
  BY <1>1, <1>3, OutcomeStays DEF IInv, TypeOK
<1>6. Outcome' = Outcome
  BY <1>4, <1>5 DEF Outcome
<1> QED BY <1>1, <1>6 DEF PoolSame, Active

\* The send moves the outcome from the worker to item.done.
LEMMA DeliverIsQuiet ==
  ASSUME IInv, NEW w \in Workers, Deliver(w)
  PROVE  PoolSame
<1> DEFINE r == item[w]
<1>1. r \in Requests /\ worker[w] = "delivering" /\ result[w] # None /\ state[r] = "Done"
  BY BusyItem DEF IInv, Ownership, WorkerOwns, Busy, Deliver
<1>2. /\ UNCHANGED <<state, queue, closed, canceled, ret>>
      /\ done[r] = None /\ done' = [done EXCEPT ![r] = result[w]]
      /\ item' = [item EXCEPT ![w] = None] /\ result' = [result EXCEPT ![w] = None]
      /\ worker' = [worker EXCEPT ![w] = "idle"]
  BY DEF Deliver, itemVars, envVars, stopVars
<1>3. ret[r] = None
  BY <1>1, Domains DEF IInv, Ownership, CallerOwns
<1>4. Outcome[r] = result[w]
  BY <1>1, <1>2, <1>3, OneDelivers, OutcomeIs
<1>5. Outcome'[r] = result[w]
  <2>1. done'[r] = result[w] /\ ret'[r] = None
    BY <1>1, <1>2, <1>3 DEF IInv, TypeOK
  <2> QED BY <1>1, <2>1, OutcomeWillBe
<1>6. ASSUME NEW x \in Requests \ {r} PROVE Outcome'[x] = Outcome[x]
  <2>1. Delivering(x)' = Delivering(x) /\ w \notin Delivering(x) /\ Delivering(x) \subseteq Workers
    BY <1>2, Domains DEF Delivering, Held, IInv, TypeOK
  <2>2. ret'[x] = ret[x] /\ done'[x] = done[x] /\ \A v \in Delivering(x) : result'[v] = result[v]
    BY <1>2, <2>1 DEF IInv, TypeOK
  <2> QED BY <2>1, <2>2, OutcomeStays
<1>7. Outcome' = Outcome
  BY <1>4, <1>5, <1>6 DEF Outcome
<1> QED BY <1>2, <1>7 DEF PoolSame, Active

LEMMA StartIsQuiet ==
  ASSUME IInv, NEW w \in Workers, StartWork(w)
  PROVE  PoolSame
<1>1. item[w] \in Requests /\ state[item[w]] = "Starting"
  BY BusyItem DEF IInv, Ownership, WorkerOwns, Busy, StartWork
<1>2. /\ UNCHANGED <<queue, closed, canceled, ret, done, item, result>>
      /\ state' = [state EXCEPT ![item[w]] = "Running"]
      /\ worker[w] = "ready" /\ worker' = [worker EXCEPT ![w] = "working"]
  BY DEF StartWork, envVars, doVars, stopVars
<1>3. \A x \in Requests : Delivering(x)' = Delivering(x)
  BY <1>2 DEF Delivering, Held, IInv, TypeOK
<1>4. \A x \in Requests : Outcome'[x] = Outcome[x]
  BY <1>2, <1>3, OutcomeStays
<1>5. Outcome' = Outcome
  BY <1>4 DEF Outcome
<1>6. Active' = Active
  BY <1>1, <1>2 DEF Active, IInv, TypeOK
<1> QED BY <1>2, <1>5, <1>6 DEF PoolSame

-----------------------------------------------------------------------------
(* The critical sections that are steps of the pool.                        *)

\* A call that has not been pushed is nowhere in the pool.
LEMMA NewCall ==
  ASSUME IInv, NEW r \in Requests, do[r] = "enter"
  PROVE  /\ Pool!New(r)
         /\ ret[r] = None /\ done[r] = None /\ Delivering(r) = {} /\ state[r] = "none"
<1>1. state[r] = "none" /\ ret[r] = None
  BY DEF IInv, Ownership, CallerOwns
<1>2. done[r] = None /\ Delivering(r) = {}
  BY <1>1, Domains DEF IInv, TypeOK, Ownership, WorkerOwns, ChannelOwns, Delivering, Held
<1>3. Outcome[r] = None
  BY <1>1, <1>2, OutcomeIs
<1>4. r \notin ToSet(queue) /\ r \notin Active
  BY <1>1 DEF IInv, Ownership, QueueOwns, Active
<1> QED BY <1>1, <1>2, <1>3, <1>4 DEF Pool!New, Pool!ToSet, ToSet

\* The caller's context ends: the one step of the pool that is no section of the
\* scheduler's own.
LEMMA CancelIsLeft ==
  ASSUME IInv, NEW r \in Requests, CallerCancels(r)
  PROVE  Pool!Left(r)
<1>1. /\ UNCHANGED <<state, queue, closed, ret, done, item, worker, result>>
      /\ r \notin canceled /\ canceled' = canceled \cup {r}
  BY DEF CallerCancels, itemVars, doVars, workerVars, stopVars
<1>2. \A x \in Requests : Outcome'[x] = Outcome[x]
  BY <1>1, OutcomeStays DEF Delivering, Held
<1>3. Outcome' = Outcome /\ Active' = Active
  BY <1>1, <1>2 DEF Outcome, Active
<1> QED BY <1>1, <1>3 DEF Pool!Left

LEMMA RefuseIsRefused ==
  ASSUME IInv, NEW r \in Requests, Refuse(r)
  PROVE  \E o \in Pool!Outcomes : Pool!Refused(r, o)
<1> DEFINE o == IF QueuedTerminal(r) # None THEN QueuedTerminal(r) ELSE "queueFull"
<1>1. Pool!New(r) /\ ret[r] = None /\ done[r] = None /\ Delivering(r) = {}
  BY NewCall DEF Refuse
<1>2. /\ o \in {"shuttingDown", "canceled", "queueTimeout", "queueFull"}
      /\ ~closed <=> o # "shuttingDown"
      /\ ~closed => (r \in canceled <=> o = "canceled")
  BY Domains DEF QueuedTerminal, ActiveCause, Terminals
<1> HIDE DEF o
<1>3. /\ UNCHANGED <<state, queue, closed, canceled, done, worker, item, result>>
      /\ ret' = [ret EXCEPT ![r] = o]
  BY DEF Refuse, itemVars, envVars, workerVars, stopVars, o
<1>4. o # None
  BY <1>2, Domains DEF Terminals
<1>5. Outcome'[r] = o
  <2>1. ret'[r] = o
    BY <1>3 DEF IInv, TypeOK
  <2> QED BY <1>4, <2>1, OutcomeWillBe
<1>6. ASSUME NEW x \in Requests \ {r} PROVE Outcome'[x] = Outcome[x]
  <2>1. Delivering(x)' = Delivering(x) /\ ret'[x] = ret[x]
    BY <1>3 DEF Delivering, Held, IInv, TypeOK
  <2> QED BY <1>3, <2>1, OutcomeStays
<1>7. Outcome' = [Outcome EXCEPT ![r] = o]
  BY <1>5, <1>6, OutcomeChanges
<1>8. Active' = Active
  BY <1>3 DEF Active
<1> QED BY <1>1, <1>2, <1>3, <1>7, <1>8 DEF Pool!Refused, Pool!Honest, Pool!Outcomes

LEMMA AdmitIsAccepted ==
  ASSUME IInv, NEW r \in Requests, Admit(r)
  PROVE  Pool!Accepted(r)
<1>1. Pool!New(r) /\ state[r] = "none"
  BY NewCall DEF Admit
<1>2. /\ UNCHANGED <<closed, canceled, ret, done, item, result>>
      /\ state' = [state EXCEPT ![r] = "Queued"] /\ queue' = Append(queue, r) /\ Signal
      /\ ~closed /\ Len(queue) < QueueSize
  BY Domains DEF Admit, QueuedTerminal, ActiveCause, Full, Terminals, envVars, stopVars, IInv, TypeOK
<1>3. \A x \in Requests : Delivering(x)' = Delivering(x)
  BY <1>2, SignalType DEF Delivering, Held, IInv
<1>4. \A x \in Requests : Outcome'[x] = Outcome[x]
  BY <1>2, <1>3, OutcomeStays
<1>5. Outcome' = Outcome
  BY <1>4 DEF Outcome
<1>6. Active' = Active
  BY <1>1, <1>2 DEF Active, IInv, TypeOK
<1> QED BY <1>1, <1>2, <1>5, <1>6 DEF Pool!Accepted

LEMMA GiveUpIsAbandoned ==
  ASSUME IInv, Awake, NEW r \in Requests, GiveUp(r)
  PROVE  \E o \in Pool!Outcomes : Pool!Abandoned(r, o)
<1> DEFINE o == QueuedTerminal(r)
           i == CHOOSE i \in DOMAIN queue : queue[i] = r
<1>1. r \in ToSet(queue) /\ state[r] = "Queued"
  BY DEF GiveUp, IInv, Ownership, QueueOwns
<1>2. i \in DOMAIN queue /\ queue[i] = r
  BY <1>1 DEF ToSet
<1>3. ~closed
  BY <1>1 DEF Awake, ToSet
<1>4. o \in {"canceled", "queueTimeout"} /\ o # None /\ (r \in canceled <=> o = "canceled")
  BY <1>3, Domains DEF Terminals, GiveUp, QueuedTerminal, ActiveCause
<1>5. queue' = RemoveAt(queue, i)
  BY DEF GiveUp, Unlink
<1>6. /\ UNCHANGED <<closed, canceled, ret, worker, item, result>> /\ done[r] = None
      /\ state' = [state EXCEPT ![r] = "Done"] /\ done' = [done EXCEPT ![r] = o]
  BY DEF GiveUp, envVars, workerVars, stopVars
<1> HIDE DEF o, i
<1>7. \A x \in Requests : Delivering(x)' = Delivering(x)
  BY <1>6 DEF Delivering, Held
<1>8. Outcome'[r] = o
  <2>1. ret'[r] = None /\ done'[r] = o
    BY <1>1, <1>6 DEF IInv, TypeOK, Ownership, CallerOwns
  <2> QED BY <1>4, <2>1, OutcomeWillBe
<1>9. ASSUME NEW x \in Requests \ {r} PROVE Outcome'[x] = Outcome[x]
  BY <1>6, <1>7, OutcomeStays DEF IInv, TypeOK
<1>10. Outcome' = [Outcome EXCEPT ![r] = o]
  BY <1>8, <1>9, OutcomeChanges
<1>11. Active' = Active
  BY <1>1, <1>6 DEF Active, IInv, TypeOK
<1>12. Pool!Abandoned(r, o)
  BY <1>2, <1>3, <1>4, <1>5, <1>6, <1>10, <1>11 DEF Pool!Abandoned, Pool!Honest, Pool!RemoveAt, RemoveAt
<1> QED BY <1>4, <1>12 DEF Pool!Outcomes

\* A worker that is idle holds none of the active calls.
LEMMA RoomForOne ==
  ASSUME IInv, NEW w \in Workers, worker[w] = "idle"
  PROVE  Cardinality(Active) < Cardinality(Workers)
<1> DEFINE f == [r \in Active |-> CHOOSE v \in Workers : item[v] = r]
<1>1. \A r \in Active : f[r] \in Workers /\ item[f[r]] = r
  BY DEF IInv, Ownership, WorkerOwns, Active
<1>2. item[w] \notin Active
  BY Domains DEF IInv, Ownership, WorkerOwns, Busy, Active
<1> HIDE DEF f
<1>3. f \in [Active -> Workers \ {w}]
  BY <1>1, <1>2 DEF f
<1>4. f \in Injection(Active, Workers \ {w})
  BY <1>1, <1>3 DEF Injection, IsInjective
<1>5. IsFiniteSet(Workers) /\ IsFiniteSet(Workers \ {w})
      /\ Cardinality(Workers \ {w}) = Cardinality(Workers) - 1
  BY ConstantAssumption, FS_RemoveElement
<1>6. IsFiniteSet(Active) /\ Cardinality(Active) <= Cardinality(Workers \ {w})
  BY <1>4, <1>5, FS_Injection
<1>7. Cardinality(Active) \in Nat /\ Cardinality(Workers) \in Nat
  BY <1>5, <1>6, FS_CardinalityType
<1> QED BY <1>5, <1>6, <1>7

\* The instance's own copy of the standard operator.
LEMMA SameCardinality == Pool!Cardinality(Active) = Cardinality(Active)
BY DEF Pool!Cardinality, Cardinality

LEMMA PopIsActivated ==
  ASSUME IInv, NEW w \in Workers, Pop(w)
  PROVE  Pool!Activated
<1> DEFINE r == Head(queue)
<1>1. r \in Requests /\ queue # <<>> /\ worker[w] = "idle"
  BY TailQueue DEF Pop, IInv, TypeOK, Ownership, QueueOwns
<1>2. /\ UNCHANGED <<closed, canceled, ret, done, result>> /\ queue' = Tail(queue)
      /\ state' = [state EXCEPT ![r] = "Starting"] /\ item' = [item EXCEPT ![w] = r]
      /\ worker' = [worker EXCEPT ![w] = "popped"]
  BY DEF Pop, envVars, doVars, stopVars
<1> HIDE DEF r
<1>3. \A x \in Requests : Delivering(x)' = Delivering(x)
  BY <1>1, <1>2 DEF Delivering, Held, IInv, TypeOK
<1>4. \A x \in Requests : Outcome'[x] = Outcome[x]
  BY <1>2, <1>3, OutcomeStays
<1>5. Outcome' = Outcome
  BY <1>4 DEF Outcome
<1>6. Active' = Active \cup {r}
  BY <1>1, <1>2 DEF Active, IInv, TypeOK
<1>7. Pool!Cardinality(Active) < Cardinality(Workers)
  BY <1>1, RoomForOne, SameCardinality
<1> QED BY <1>1, <1>2, <1>5, <1>6, <1>7 DEF Pool!Activated, r

\* A decided result ends the call in the pool, before it is sent.
LEMMA DecidedIsEnded ==
  ASSUME IInv, NEW w \in Workers, item[w] \in Requests,
         state[item[w]] \in {"Starting", "Running"}, worker[w] # "delivering",
         NEW o \in WorkResults \cup {"canceled", "shuttingDown"}, ~closed <=> o # "shuttingDown",
         ~closed => (item[w] \in canceled <=> o = "canceled"),
         UNCHANGED <<queue, closed, canceled, ret, done, item>>,
         state' = [state EXCEPT ![item[w]] = "Done"],
         result' = [result EXCEPT ![w] = o],
         worker' = [worker EXCEPT ![w] = "delivering"]
  PROVE  \E c \in Requests, x \in Pool!Outcomes : Pool!Ended(c, x)
<1> DEFINE r == item[w]
<1>1. ret[r] = None /\ done[r] = None
  BY Domains DEF IInv, Ownership, CallerOwns, ChannelOwns
<1>2. Outcome'[r] = o
  <2>1. \A v \in Workers : item[v] = r => v = w
    BY Domains DEF IInv, Ownership, WorkerOwns
  <2>2. Delivering(r)' = {w} /\ result'[w] = o
    BY <2>1 DEF Delivering, Held, IInv, TypeOK
  <2> QED BY <1>1, <2>2, OutcomeWillBe
<1>3. ASSUME NEW x \in Requests \ {r} PROVE Outcome'[x] = Outcome[x]
  <2>1. Delivering(x)' = Delivering(x) /\ w \notin Delivering(x) /\ Delivering(x) \subseteq Workers
    BY DEF Delivering, Held, IInv, TypeOK
  <2>2. \A v \in Delivering(x) : result'[v] = result[v]
    BY <2>1 DEF IInv, TypeOK
  <2> QED BY <2>1, <2>2, OutcomeStays
<1>4. Outcome' = [Outcome EXCEPT ![r] = o]
  BY <1>2, <1>3, OutcomeChanges
<1>5. r \in Active /\ Active' = Active \ {r}
  BY DEF Active, IInv, TypeOK
<1>6. Pool!Ended(r, o)
  BY <1>4, <1>5 DEF Pool!Ended, Pool!Honest
<1> QED BY <1>6 DEF Pool!Outcomes

LEMMA AbandonStartIsEnded ==
  ASSUME IInv, NEW w \in Workers, AbandonStart(w)
  PROVE  \E c \in Requests, x \in Pool!Outcomes : Pool!Ended(c, x)
<1> DEFINE o == ActiveCause(item[w])
<1>1. item[w] \in Requests /\ state[item[w]] = "Starting" /\ worker[w] = "ready"
  BY BusyItem DEF IInv, Ownership, WorkerOwns, Busy, AbandonStart
<1>2. /\ o \in {"canceled", "shuttingDown"} /\ (~closed <=> o # "shuttingDown")
      /\ ~closed => (item[w] \in canceled <=> o = "canceled")
  BY DEF AbandonStart, ActiveCause
<1>3. /\ UNCHANGED <<queue, closed, canceled, ret, done, item>>
      /\ state' = [state EXCEPT ![item[w]] = "Done"] /\ result' = [result EXCEPT ![w] = o]
      /\ worker' = [worker EXCEPT ![w] = "delivering"]
  BY DEF AbandonStart, envVars, doVars, stopVars
<1> HIDE DEF o
<1> QED BY <1>1, <1>2, <1>3, DecidedIsEnded

LEMMA FinishIsEnded ==
  ASSUME IInv, Reported, NEW w \in Workers, Finish(w)
  PROVE  \E c \in Requests, x \in Pool!Outcomes : Pool!Ended(c, x)
<1> DEFINE o == IF ActiveCause(item[w]) # None THEN ActiveCause(item[w]) ELSE result[w]
<1>1. item[w] \in Requests /\ state[item[w]] = "Running" /\ worker[w] = "finishing"
  BY BusyItem DEF IInv, Ownership, WorkerOwns, Busy, Finish
<1>2. result[w] \in WorkResults /\ "shuttingDown" \notin WorkResults /\ "canceled" \notin WorkResults
  BY <1>1, ConstantAssumption DEF Reported, Terminals
<1>3. /\ o \in WorkResults \cup {"canceled", "shuttingDown"} /\ (~closed <=> o # "shuttingDown")
      /\ ~closed => (item[w] \in canceled <=> o = "canceled")
  BY <1>2, Domains DEF ActiveCause, Terminals
<1>4. /\ UNCHANGED <<queue, closed, canceled, ret, done, item>>
      /\ state' = [state EXCEPT ![item[w]] = "Done"] /\ result' = [result EXCEPT ![w] = o]
      /\ worker' = [worker EXCEPT ![w] = "delivering"]
  BY DEF Finish, envVars, doVars, stopVars
<1> HIDE DEF o
<1> QED BY <1>1, <1>3, <1>4, DecidedIsEnded

LEMMA ShutdownIsClosed ==
  ASSUME IInv, NEW s \in Stoppers, BeginShutdown(s)
  PROVE  PoolSame \/ Pool!Closed
<1>1. CASE closed
  <2>1. UNCHANGED <<state, queue, closed, canceled, ret, done, item, worker, result>>
    BY <1>1 DEF BeginShutdown, itemVars, envVars
  <2> QED BY <2>1, Untouched DEF Delivering, Held
<1>2. CASE ~closed
  <2> DEFINE Q == ToSet(queue)
  <2>1. /\ UNCHANGED <<canceled, ret, item, result>> /\ closed' = TRUE /\ queue' = <<>> /\ Broadcast
        /\ \A x \in Requests : state'[x] = IF x \in Q THEN "Done" ELSE state[x]
        /\ \A x \in Requests : done'[x] = IF x \in Q THEN "shuttingDown" ELSE done[x]
    BY <1>2 DEF BeginShutdown, envVars
  <2>2. \A x \in Requests : x \in Q <=> state[x] = "Queued"
    BY DEF IInv, Ownership, QueueOwns
  <2> HIDE DEF Q
  <2>3. \A x \in Requests : Delivering(x)' = Delivering(x)
    BY <2>1 DEF Broadcast, Delivering, Held, IInv, TypeOK
  <2>4. ASSUME NEW x \in Requests, x \in Q PROVE Outcome'[x] = "shuttingDown"
    <3>1. ret'[x] = None /\ done'[x] = "shuttingDown" /\ "shuttingDown" # None
      BY <2>1, <2>2, <2>4, Domains DEF IInv, Ownership, CallerOwns, Terminals
    <3> QED BY <3>1, OutcomeWillBe
  <2>5. ASSUME NEW x \in Requests, x \notin Q PROVE Outcome'[x] = Outcome[x]
    BY <2>1, <2>3, <2>5, OutcomeStays
  <2>6. Outcome' = [x \in Requests |-> IF x \in Q THEN "shuttingDown" ELSE Outcome[x]]
    <3>1. Outcome' = [x \in Requests |-> Outcome'[x]]
      BY DEF Outcome
    <3> QED BY <2>4, <2>5, <3>1
  <2>7. Active' = Active
    BY <2>1, <2>2 DEF Active
  <2> QED BY <1>2, <2>1, <2>6, <2>7 DEF Pool!Closed, Pool!ToSet, ToSet, Q
<1> QED BY <1>1, <1>2

-----------------------------------------------------------------------------
LEMMA PoolSteps ==
  ASSUME IInv, Awake, Reported, [Next]_vars
  PROVE  Pool!PoolNext \/ PoolSame
<1>1. ASSUME NEW r \in Requests, DoStep(r) PROVE Pool!PoolNext \/ PoolSame
  BY <1>1, QuietSteps, ReceiveIsQuiet, RefuseIsRefused, AdmitIsAccepted, GiveUpIsAbandoned
     DEF DoStep, Pool!PoolNext
<1>2. ASSUME NEW w \in Workers, WorkerStep(w) \/ WorkReturns(w) PROVE Pool!PoolNext \/ PoolSame
  BY <1>2, QuietWork, DeliverIsQuiet, StartIsQuiet, PopIsActivated, AbandonStartIsEnded, FinishIsEnded
     DEF WorkerStep, Pool!PoolNext
<1>3. ASSUME NEW s \in Stoppers, StopStep(s) PROVE Pool!PoolNext \/ PoolSame
  BY <1>3, QuietSteps, ShutdownIsClosed DEF StopStep, Pool!PoolNext
<1>4. ASSUME NEW r \in Requests, SignalFires(r) \/ CallerCancels(r) \/ QueueTimerFires(r)
      PROVE  Pool!PoolNext \/ PoolSame
  BY <1>4, QuietSteps, CancelIsLeft DEF Pool!PoolNext
<1>5. CASE CloseWorkersDone \/ UNCHANGED vars
  BY <1>5, QuietSteps
<1> QED BY <1>1, <1>2, <1>3, <1>4, <1>5 DEF Next, Quiescent

\* Do, its workers and Shutdown together are a bounded FIFO with one outcome
\* per call, whatever their numbers and however their sections interleave.
THEOREM SchedulerImplementsWorkPool == Spec => ImplementsWorkPool
<1> DEFINE Inv == IInv /\ Awake /\ Reported
<1>1. Init => Inv
  BY InitIInv DEF Init, Awake, NoLostWakeup, Reported
<1>2. Inv /\ [Next]_vars => Inv'
  <2> SUFFICES ASSUME Inv, [Next]_vars PROVE Inv'
    OBVIOUS
  <2>1. IInv'
    BY TypeStep, QueueOwnsStep, WorkerOwnsStep, ChannelOwnsStep, CallerOwnsStep, AccountedStep DEF IInv, Ownership
  <2>2. Awake' /\ Reported'
    BY AwakeStep, ReportedStep
  <2> QED BY <2>1, <2>2
<1>3. Init => Pool!PoolInit
  <2> SUFFICES ASSUME Init PROVE Pool!PoolInit
    OBVIOUS
  <2>1. \A r \in Requests : Outcome[r] = None
    BY OutcomeIs DEF Init, Delivering, Held
  <2>2. Outcome = [r \in Requests |-> None]
    BY <2>1 DEF Outcome
  <2> QED BY <2>2 DEF Init, Active, Pool!PoolInit
<1>4. Inv /\ [Next]_vars => [Pool!PoolNext]_(Pool!poolVars)
  BY PoolSteps DEF PoolSame, Pool!poolVars
<1> QED BY <1>1, <1>2, <1>3, <1>4, PTL DEF Spec, ImplementsWorkPool, Pool!PoolSpec
=============================================================================
