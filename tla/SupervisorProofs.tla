--------------------------- MODULE SupervisorProofs ---------------------------
(* For any number of runtimes and of callers of Shutdown: the lifecycle counts   *)
(* the leases, what runs is under a lease, and nil from Shutdown is final. For   *)
(* any file: what config.Load accepts can be served, and the defaults are. And,  *)
(* for any options and any source: what init plans is what its edits say, and    *)
(* the plan replaces only what it may, settles and passes the last look at it.   *)
EXTENDS Supervisor, Merge, FiniteSetTheorems, TLAPS

Kept == [Requests -> {"none", "refused", "preparing", "prepared", "consuming", "consumed"}]
AtWork == {"checks", "running", "drain", "asleep", "cleanup", "finish"}

\* A lease and the call that consumed it go together.
InStep ==
  \A r \in Requests :
    /\ lease[r] = "consuming" <=> use[r] \in AtWork
    /\ use[r] = "done" <=> lease[r] = "consumed"

\* A wait is handed over while the runner is at work, and not left before it is drained.
WaitsInUse == \A r \in Pending : use[r] \in {"running", "drain", "asleep"}

\* A directory is made for a lease; the answer of a call that is over tells whether
\* it is gone.
DirsKnown ==
  \A r \in Requests :
    /\ lease[r] \in {"none", "refused", "preparing"} => dir[r] = "none"
    /\ use[r] \in {"finish", "done"} /\ answer[r] # "cleanup" => dir[r] = "gone"

\* What a caller of Shutdown has seen does not change any more.
SeenLasts ==
  \A s \in Shutters :
    /\ sh[s] # "idle" => shuttingDown
    /\ sh[s] \in {"drain", "drainAsleep", "nil"} => Held = {}
    /\ sh[s] = "nil" => Pending = {}

\* TypeOK without the upper bound of the counter, which LeasesCounted gives.
Typed ==
  /\ shuttingDown \in BOOLEAN /\ rootClosed \in BOOLEAN
  /\ lease \in Kept
  /\ use \in [Requests -> AtWork \cup {"off", "done"}]
  /\ answer \in [Requests -> {"none", "ok", "failed", "cleanup"}]
  /\ \A r \in Requests : use[r] \in {"drain", "asleep", "cleanup", "finish", "done"}
                           => answer[r] # "none"
  /\ wait \in [Requests -> {"none", "waiting", "completed", "broken", "reaped"}]
  /\ dir \in [Requests -> {"none", "there", "gone"}]
  /\ sh \in [Shutters -> {"idle", "lifecycle", "asleep", "drain", "drainAsleep", "nil", "error"}]

\* LeasesCounted is inductive on its own types; the other parts lean on it.
IInv == Typed /\ LeasesCounted /\ InStep /\ WaitsInUse /\ DirsKnown /\ SeenLasts

-----------------------------------------------------------------------------
\* The number of leases held is a number and at most that of the runtimes.
LEMMA HeldFinite ==
  ASSUME NEW S, S \subseteq Requests
  PROVE  IsFiniteSet(S) /\ Cardinality(S) \in 0..Cardinality(Requests)
<1>1. IsFiniteSet(S) /\ Cardinality(S) <= Cardinality(Requests)
  BY SupervisorAssumption, FS_Subset
<1>2. Cardinality(S) \in Nat /\ Cardinality(Requests) \in Nat
  BY <1>1, SupervisorAssumption, FS_CardinalityType
<1> QED BY <1>1, <1>2

\* A step takes one lease, gives one back, or leaves the leases held as they are
\* (supervisorLifecycle.begin and end).
LEMMA HeldSteps ==
  ASSUME Typed, InStep, [Next]_vars
  PROVE  \/ Held' = Held /\ active' = active
         \/ \E r \in Requests \ Held : Held' = Held \cup {r} /\ active' = active + 1
         \/ \E r \in Held : Held' = Held \ {r} /\ active' = active - 1
<1> USE DEF Typed, Kept, Held, life
<1>1. ASSUME NEW r \in Requests,
    Begin(r) PROVE Held' = Held \cup {r} /\ active' = active + 1 /\ r \notin Held
  BY <1>1 DEF Begin
<1>2. ASSUME NEW r \in Requests, PrepareFails(r) \/ Finish(r)
      PROVE  Held' = Held \ {r} /\ active' = active - 1 /\ r \in Held
  BY <1>2 DEF PrepareFails, Finish, End, InStep, AtWork
<1>3. ASSUME NEW r \in Requests, BeginRefused(r) \/ PrepareOk(r) \/ \E first \in {"checks",
    "cleanup"} : Consume(r, first)
      PROVE  Held' = Held /\ active' = active
  BY <1>3 DEF BeginRefused, PrepareOk, Consume
<1>4. ASSUME NEW r \in Requests,
             \/ CheckFails(r) \/ RunStarts(r) \/ RunEnds(r) \/ RunDefers(r) \/ RunEndsDeferred(r)
             \/ ExecuteDrains(r) \/ CleanupRuntime(r)
             \/ \E how \in {"completed", "broken"} : WaitCompletes(r, how)
      PROVE  UNCHANGED <<lease, active>>
  BY <1>4 DEF CheckFails, RunStarts, RunEnds, RunDefers, RunEndsDeferred, ExecuteDrains,
              CleanupRuntime, WaitCompletes
<1>5. ASSUME NEW s \in Shutters, ShutdownBegins(s) \/ ShutterStep(s) \/ ShutdownExpires(s)
      PROVE  UNCHANGED <<lease, active>>
  BY <1>5 DEF ShutdownBegins, ShutterStep, ShutdownLooks, ShutdownDrains, ShutdownExpires
<1>6. CASE CloseRoot \/ UNCHANGED vars
  BY <1>6 DEF CloseRoot, vars
<1>7. UNCHANGED <<lease, active>> => Held' = Held /\ active' = active
  OBVIOUS
<1> QED BY <1>1, <1>2, <1>3, <1>4, <1>5, <1>6, <1>7 DEF Next, Step

\* The count follows the leases.
LEMMA CountStep ==
  ASSUME Typed, InStep, LeasesCounted, [Next]_vars
  PROVE  LeasesCounted'
<1>1. Held \subseteq Requests /\ IsFiniteSet(Held) /\ Cardinality(Held) \in Nat
  BY HeldFinite DEF Held
<1>2. CASE Held' = Held /\ active' = active
  BY <1>2 DEF LeasesCounted
<1>3. ASSUME NEW r \in Requests \ Held, Held' = Held \cup {r}, active' = active + 1
      PROVE  LeasesCounted'
  BY <1>1, <1>3, FS_AddElement DEF LeasesCounted
<1>4. ASSUME NEW r \in Held, Held' = Held \ {r}, active' = active - 1
      PROVE  LeasesCounted'
  BY <1>1, <1>4, FS_RemoveElement DEF LeasesCounted
<1> QED BY <1>2, <1>3, <1>4, HeldSteps
\* Every step keeps the types, the bound of the counter apart.
LEMMA TypedStep ==
  ASSUME Typed, InStep, [Next]_vars
  PROVE  Typed'
<1> USE DEF Typed, Kept, AtWork, InStep, life
<1>1. ASSUME NEW r \in Requests, Begin(r) PROVE Typed'
  BY <1>1 DEF Begin
<1>2. ASSUME NEW r \in Requests, BeginRefused(r) PROVE Typed'
  BY <1>2 DEF BeginRefused
<1>3. ASSUME NEW r \in Requests, PrepareOk(r) PROVE Typed'
  BY <1>3 DEF PrepareOk
<1>4. ASSUME NEW r \in Requests, PrepareFails(r) PROVE Typed'
  BY <1>4 DEF PrepareFails, End, WakeShutters
<1>5. ASSUME NEW r \in Requests, CheckFails(r) PROVE Typed'
  BY <1>5 DEF CheckFails
<1>6. ASSUME NEW r \in Requests, RunStarts(r) PROVE Typed'
  BY <1>6 DEF RunStarts
<1>7. ASSUME NEW r \in Requests, RunEnds(r) PROVE Typed'
  BY <1>7 DEF RunEnds
<1>8. ASSUME NEW r \in Requests, RunDefers(r) PROVE Typed'
  BY <1>8 DEF RunDefers, DrainersAwake
<1>9. ASSUME NEW r \in Requests, RunEndsDeferred(r) PROVE Typed'
  BY <1>9 DEF RunEndsDeferred
<1>10. ASSUME NEW r \in Requests, ExecuteDrains(r) PROVE Typed'
  BY <1>10 DEF ExecuteDrains, Reaped, Broken, Uncompleted
<1>11. ASSUME NEW r \in Requests, CleanupRuntime(r) PROVE Typed'
  BY <1>11 DEF CleanupRuntime
<1>12. ASSUME NEW r \in Requests, Finish(r) PROVE Typed'
  BY <1>12 DEF Finish, End, WakeShutters
<1>13. ASSUME NEW r \in Requests, NEW first \in {"checks", "cleanup"}, Consume(r, first) PROVE Typed'
  BY <1>13 DEF Consume
<1>14. ASSUME NEW r \in Requests, NEW how \in {"completed", "broken"}, WaitCompletes(r, how) PROVE Typed'
  BY <1>14 DEF WaitCompletes, DrainersAwake
<1>15. ASSUME NEW s \in Shutters, ShutdownBegins(s) PROVE Typed'
  BY <1>15 DEF ShutdownBegins, WakeShutters
<1>16. ASSUME NEW s \in Shutters, ShutdownLooks(s) PROVE Typed'
  BY <1>16 DEF ShutdownLooks
<1>17. ASSUME NEW s \in Shutters, ShutdownDrains(s) PROVE Typed'
  BY <1>17 DEF ShutdownDrains, Reaped, Uncompleted, Broken
<1>18. ASSUME NEW s \in Shutters, ShutdownExpires(s) PROVE Typed'
  BY <1>18 DEF ShutdownExpires
<1>19. CASE CloseRoot
  BY <1>19 DEF CloseRoot
<1>20. CASE UNCHANGED vars
  BY <1>20 DEF vars
<1> HIDE DEF Typed, Kept, AtWork, InStep, life
<1> QED BY <1>1, <1>2, <1>3, <1>4, <1>5, <1>6, <1>7, <1>8, <1>9, <1>10, <1>11, <1>12, <1>13, <1>14,
    <1>15, <1>16, <1>17, <1>18, <1>19, <1>20 DEF Next, Step, ShutterStep

\* Only Consume starts a call and only Finish ends it, each with its lease.
LEMMA InStepStep ==
  ASSUME Typed, InStep, [Next]_vars
  PROVE  InStep'
<1> USE DEF Typed, Kept, AtWork, InStep, life
<1>1. ASSUME NEW r \in Requests, Begin(r) PROVE InStep'
  BY <1>1 DEF Begin
<1>2. ASSUME NEW r \in Requests, BeginRefused(r) PROVE InStep'
  BY <1>2 DEF BeginRefused
<1>3. ASSUME NEW r \in Requests, PrepareOk(r) PROVE InStep'
  BY <1>3 DEF PrepareOk
<1>4. ASSUME NEW r \in Requests, PrepareFails(r) PROVE InStep'
  BY <1>4 DEF PrepareFails, End, WakeShutters
<1>5. ASSUME NEW r \in Requests, CheckFails(r) PROVE InStep'
  BY <1>5 DEF CheckFails
<1>6. ASSUME NEW r \in Requests, RunStarts(r) PROVE InStep'
  BY <1>6 DEF RunStarts
<1>7. ASSUME NEW r \in Requests, RunEnds(r) PROVE InStep'
  BY <1>7 DEF RunEnds
<1>8. ASSUME NEW r \in Requests, RunDefers(r) PROVE InStep'
  BY <1>8 DEF RunDefers, DrainersAwake
<1>9. ASSUME NEW r \in Requests, RunEndsDeferred(r) PROVE InStep'
  BY <1>9 DEF RunEndsDeferred
<1>10. ASSUME NEW r \in Requests, ExecuteDrains(r) PROVE InStep'
  BY <1>10 DEF ExecuteDrains, Reaped, Broken, Uncompleted
<1>11. ASSUME NEW r \in Requests, CleanupRuntime(r) PROVE InStep'
  BY <1>11 DEF CleanupRuntime
<1>12. ASSUME NEW r \in Requests, Finish(r) PROVE InStep'
  BY <1>12 DEF Finish, End, WakeShutters
<1>13. ASSUME NEW r \in Requests, NEW first \in {"checks", "cleanup"}, Consume(r, first) PROVE InStep'
  BY <1>13 DEF Consume
<1>14. ASSUME NEW r \in Requests, NEW how \in {"completed", "broken"}, WaitCompletes(r, how) PROVE InStep'
  BY <1>14 DEF WaitCompletes, DrainersAwake
<1>15. ASSUME NEW s \in Shutters, ShutdownBegins(s) PROVE InStep'
  BY <1>15 DEF ShutdownBegins, WakeShutters
<1>16. ASSUME NEW s \in Shutters, ShutdownLooks(s) PROVE InStep'
  BY <1>16 DEF ShutdownLooks
<1>17. ASSUME NEW s \in Shutters, ShutdownDrains(s) PROVE InStep'
  BY <1>17 DEF ShutdownDrains, Reaped, Uncompleted, Broken
<1>18. ASSUME NEW s \in Shutters, ShutdownExpires(s) PROVE InStep'
  BY <1>18 DEF ShutdownExpires
<1>19. CASE CloseRoot \/ UNCHANGED vars
  BY <1>19 DEF CloseRoot, vars
<1> QED BY <1>1, <1>2, <1>3, <1>4, <1>5, <1>6, <1>7, <1>8, <1>9, <1>10, <1>11, <1>12, <1>13, <1>14,
    <1>15, <1>16, <1>17, <1>18, <1>19 DEF Next, Step, ShutterStep

\* A call leaves its drain only when nothing is waited for (Execute).
LEMMA WaitsStep ==
  ASSUME Typed, InStep, WaitsInUse, [Next]_vars
  PROVE  WaitsInUse'
<1> USE DEF Typed, Kept, AtWork, InStep, WaitsInUse, Pending, life
<1>1. ASSUME NEW r \in Requests, Begin(r) PROVE WaitsInUse'
  BY <1>1 DEF Begin
<1>2. ASSUME NEW r \in Requests, BeginRefused(r) PROVE WaitsInUse'
  BY <1>2 DEF BeginRefused
<1>3. ASSUME NEW r \in Requests, PrepareOk(r) PROVE WaitsInUse'
  BY <1>3 DEF PrepareOk
<1>4. ASSUME NEW r \in Requests, PrepareFails(r) PROVE WaitsInUse'
  BY <1>4 DEF PrepareFails, End, WakeShutters
<1>5. ASSUME NEW r \in Requests, CheckFails(r) PROVE WaitsInUse'
  BY <1>5 DEF CheckFails
<1>6. ASSUME NEW r \in Requests, RunStarts(r) PROVE WaitsInUse'
  BY <1>6 DEF RunStarts
<1>7. ASSUME NEW r \in Requests, RunEnds(r) PROVE WaitsInUse'
  BY <1>7 DEF RunEnds
<1>8. ASSUME NEW r \in Requests, RunDefers(r) PROVE WaitsInUse'
  BY <1>8 DEF RunDefers, DrainersAwake
<1>9. ASSUME NEW r \in Requests, RunEndsDeferred(r) PROVE WaitsInUse'
  BY <1>9 DEF RunEndsDeferred
<1>10. ASSUME NEW r \in Requests, ExecuteDrains(r) PROVE WaitsInUse'
  BY <1>10 DEF ExecuteDrains, Reaped, Broken, Uncompleted
<1>11. ASSUME NEW r \in Requests, CleanupRuntime(r) PROVE WaitsInUse'
  BY <1>11 DEF CleanupRuntime
<1>12. ASSUME NEW r \in Requests, Finish(r) PROVE WaitsInUse'
  BY <1>12 DEF Finish, End, WakeShutters
<1>13. ASSUME NEW r \in Requests, NEW first \in {"checks", "cleanup"}, Consume(r, first) PROVE WaitsInUse'
  BY <1>13 DEF Consume
<1>14. ASSUME NEW r \in Requests, NEW how \in {"completed", "broken"}, WaitCompletes(r,
    how) PROVE WaitsInUse'
  BY <1>14 DEF WaitCompletes, DrainersAwake
<1>15. ASSUME NEW s \in Shutters, ShutdownBegins(s) PROVE WaitsInUse'
  BY <1>15 DEF ShutdownBegins, WakeShutters
<1>16. ASSUME NEW s \in Shutters, ShutdownLooks(s) PROVE WaitsInUse'
  BY <1>16 DEF ShutdownLooks
<1>17. ASSUME NEW s \in Shutters, ShutdownDrains(s) PROVE WaitsInUse'
  BY <1>17 DEF ShutdownDrains, Reaped, Uncompleted, Broken
<1>18. ASSUME NEW s \in Shutters, ShutdownExpires(s) PROVE WaitsInUse'
  BY <1>18 DEF ShutdownExpires
<1>19. CASE CloseRoot \/ UNCHANGED vars
  BY <1>19 DEF CloseRoot, vars
<1> QED BY <1>1, <1>2, <1>3, <1>4, <1>5, <1>6, <1>7, <1>8, <1>9, <1>10, <1>11, <1>12, <1>13, <1>14,
    <1>15, <1>16, <1>17, <1>18, <1>19 DEF Next, Step, ShutterStep

\* Execute and Discard do not end before they have cleaned up or say that they failed.
LEMMA DirsStep ==
  ASSUME Typed, InStep, DirsKnown, [Next]_vars
  PROVE  DirsKnown'
<1> USE DEF Typed, Kept, AtWork, InStep, DirsKnown, life
<1>1. ASSUME NEW r \in Requests, Begin(r) PROVE DirsKnown'
  BY <1>1 DEF Begin
<1>2. ASSUME NEW r \in Requests, BeginRefused(r) PROVE DirsKnown'
  BY <1>2 DEF BeginRefused
<1>3. ASSUME NEW r \in Requests, PrepareOk(r) PROVE DirsKnown'
  BY <1>3 DEF PrepareOk
<1>4. ASSUME NEW r \in Requests, PrepareFails(r) PROVE DirsKnown'
  BY <1>4 DEF PrepareFails, End, WakeShutters
<1>5. ASSUME NEW r \in Requests, CheckFails(r) PROVE DirsKnown'
  BY <1>5 DEF CheckFails
<1>6. ASSUME NEW r \in Requests, RunStarts(r) PROVE DirsKnown'
  BY <1>6 DEF RunStarts
<1>7. ASSUME NEW r \in Requests, RunEnds(r) PROVE DirsKnown'
  BY <1>7 DEF RunEnds
<1>8. ASSUME NEW r \in Requests, RunDefers(r) PROVE DirsKnown'
  BY <1>8 DEF RunDefers, DrainersAwake
<1>9. ASSUME NEW r \in Requests, RunEndsDeferred(r) PROVE DirsKnown'
  BY <1>9 DEF RunEndsDeferred
<1>10. ASSUME NEW r \in Requests, ExecuteDrains(r) PROVE DirsKnown'
  BY <1>10 DEF ExecuteDrains, Reaped, Broken, Uncompleted
<1>11. ASSUME NEW r \in Requests, CleanupRuntime(r) PROVE DirsKnown'
  BY <1>11 DEF CleanupRuntime
<1>12. ASSUME NEW r \in Requests, Finish(r) PROVE DirsKnown'
  BY <1>12 DEF Finish, End, WakeShutters
<1>13. ASSUME NEW r \in Requests, NEW first \in {"checks", "cleanup"}, Consume(r, first) PROVE DirsKnown'
  BY <1>13 DEF Consume
<1>14. ASSUME NEW r \in Requests, NEW how \in {"completed", "broken"}, WaitCompletes(r,
    how) PROVE DirsKnown'
  BY <1>14 DEF WaitCompletes, DrainersAwake
<1>15. ASSUME NEW s \in Shutters, ShutdownBegins(s) PROVE DirsKnown'
  BY <1>15 DEF ShutdownBegins, WakeShutters
<1>16. ASSUME NEW s \in Shutters, ShutdownLooks(s) PROVE DirsKnown'
  BY <1>16 DEF ShutdownLooks
<1>17. ASSUME NEW s \in Shutters, ShutdownDrains(s) PROVE DirsKnown'
  BY <1>17 DEF ShutdownDrains, Reaped, Uncompleted, Broken
<1>18. ASSUME NEW s \in Shutters, ShutdownExpires(s) PROVE DirsKnown'
  BY <1>18 DEF ShutdownExpires
<1>19. CASE CloseRoot \/ UNCHANGED vars
  BY <1>19 DEF CloseRoot, vars
<1> QED BY <1>1, <1>2, <1>3, <1>4, <1>5, <1>6, <1>7, <1>8, <1>9, <1>10, <1>11, <1>12, <1>13, <1>14,
    <1>15, <1>16, <1>17, <1>18, <1>19 DEF Next, Step, ShutterStep

\* Nothing is begun after the shutdown, and a runner that is gone hands nothing over.
LEMMA SeenStep ==
  ASSUME Typed, InStep, WaitsInUse, LeasesCounted, SeenLasts, [Next]_vars
  PROVE  SeenLasts'
<1> USE DEF Typed, Kept, AtWork, InStep, WaitsInUse, SeenLasts, Held, Pending, life
<1>1. ASSUME NEW r \in Requests, Begin(r) PROVE SeenLasts'
  BY <1>1 DEF Begin
<1>2. ASSUME NEW r \in Requests, BeginRefused(r) PROVE SeenLasts'
  BY <1>2 DEF BeginRefused
<1>3. ASSUME NEW r \in Requests, PrepareOk(r) PROVE SeenLasts'
  BY <1>3 DEF PrepareOk
<1>4. ASSUME NEW r \in Requests, PrepareFails(r) PROVE SeenLasts'
  BY <1>4 DEF PrepareFails, End, WakeShutters
<1>5. ASSUME NEW r \in Requests, CheckFails(r) PROVE SeenLasts'
  BY <1>5 DEF CheckFails
<1>6. ASSUME NEW r \in Requests, RunStarts(r) PROVE SeenLasts'
  BY <1>6 DEF RunStarts
<1>7. ASSUME NEW r \in Requests, RunEnds(r) PROVE SeenLasts'
  BY <1>7 DEF RunEnds
<1>8. ASSUME NEW r \in Requests, RunDefers(r) PROVE SeenLasts'
  BY <1>8 DEF RunDefers, DrainersAwake
<1>9. ASSUME NEW r \in Requests, RunEndsDeferred(r) PROVE SeenLasts'
  BY <1>9 DEF RunEndsDeferred
<1>10. ASSUME NEW r \in Requests, ExecuteDrains(r) PROVE SeenLasts'
  BY <1>10 DEF ExecuteDrains, Reaped, Broken, Uncompleted
<1>11. ASSUME NEW r \in Requests, CleanupRuntime(r) PROVE SeenLasts'
  BY <1>11 DEF CleanupRuntime
<1>12. ASSUME NEW r \in Requests, Finish(r) PROVE SeenLasts'
  BY <1>12 DEF Finish, End, WakeShutters
<1>13. ASSUME NEW r \in Requests, NEW first \in {"checks", "cleanup"}, Consume(r, first) PROVE SeenLasts'
  BY <1>13 DEF Consume
<1>14. ASSUME NEW r \in Requests, NEW how \in {"completed", "broken"}, WaitCompletes(r,
    how) PROVE SeenLasts'
  BY <1>14 DEF WaitCompletes, DrainersAwake
<1>15. ASSUME NEW s \in Shutters, ShutdownBegins(s) PROVE SeenLasts'
  BY <1>15 DEF ShutdownBegins, WakeShutters
<1>16. ASSUME NEW s \in Shutters, ShutdownLooks(s) PROVE SeenLasts'
  <2>1. active = 0 => Held = {}
    <3> HIDE DEF Held
    <3>1. IsFiniteSet(Held)
      BY HeldFinite DEF Held
    <3> QED BY <3>1, FS_EmptySet DEF LeasesCounted
  <2> QED BY <1>16, <2>1 DEF ShutdownLooks
<1>17. ASSUME NEW s \in Shutters, ShutdownDrains(s) PROVE SeenLasts'
  BY <1>17 DEF ShutdownDrains, Reaped, Uncompleted, Broken
<1>18. ASSUME NEW s \in Shutters, ShutdownExpires(s) PROVE SeenLasts'
  BY <1>18 DEF ShutdownExpires
<1>19. CASE CloseRoot \/ UNCHANGED vars
  BY <1>19 DEF CloseRoot, vars
<1> QED BY <1>1, <1>2, <1>3, <1>4, <1>5, <1>6, <1>7, <1>8, <1>9, <1>10, <1>11, <1>12, <1>13, <1>14,
    <1>15, <1>16, <1>17, <1>18, <1>19 DEF Next, Step, ShutterStep

-----------------------------------------------------------------------------
\* The inductive invariant: lifecycle, completion owner and runtimes agree.
THEOREM Inductive == Spec => []IInv
<1>1. Init => IInv
  <2> SUFFICES ASSUME Init PROVE IInv
    OBVIOUS
  <2>1. Held = {}
    BY DEF Init, Held
  <2>2. LeasesCounted
    BY <2>1, FS_EmptySet DEF Init, LeasesCounted
  <2> QED BY <2>1, <2>2 DEF Init, IInv, Typed, Kept, AtWork, InStep, WaitsInUse, Pending,
                        DirsKnown, SeenLasts
<1>2. IInv /\ [Next]_vars => IInv'
  BY TypedStep, CountStep, InStepStep, WaitsStep, DirsStep, SeenStep DEF IInv
<1> QED BY <1>1, <1>2, PTL DEF Spec

\* The variables keep their types; the counter is at most the number of runtimes.
THEOREM TypeCorrect == Spec => []TypeOK
<1>1. IInv => TypeOK
  <2> SUFFICES ASSUME IInv PROVE TypeOK
    OBVIOUS
  <2>1. active \in 0..Cardinality(Requests)
    BY HeldFinite DEF IInv, LeasesCounted, Held
  <2> QED BY <2>1 DEF IInv, TypeOK, Typed, Kept, AtWork
<1> QED BY <1>1, Inductive, PTL

\* lifecycle.active is the number of leases that are held.
THEOREM CountIsExact == Spec => []LeasesCounted
<1>1. IInv => LeasesCounted
  BY DEF IInv
<1> QED BY <1>1, Inductive, PTL

\* Whatever runs, waits or was not cleaned up is under a lease.
THEOREM WorkIsOwned == Spec => []OwnedByLease
<1>1. IInv => OwnedByLease
  BY DEF IInv, Typed, Kept, AtWork, InStep, WaitsInUse, DirsKnown, OwnedByLease, Held, Pending
<1> QED BY <1>1, Inductive, PTL

\* nil from Shutdown: no lease is held, nothing is waited for, and nothing begins.
THEOREM NilIsFinal == Spec => []ShutdownIsFinal
<1>1. IInv => ShutdownIsFinal
  BY DEF IInv, SeenLasts, ShutdownIsFinal
<1> QED BY <1>1, Inductive, PTL

\* Only a call that answers with a cleanup error may have left a directory.
THEOREM AnswersAreHonest == Spec => []AnswersHonestly
<1>1. IInv => AnswersHonestly
  BY DEF IInv, DirsKnown, AnswersHonestly
<1> QED BY <1>1, Inductive, PTL

\* The largest 32-bit integer, which an int of every build holds.
Int32 == 2147483647
\* A table of optional numbers, and of the default of each.
Fills(given, fallbacks) ==
  \A f \in DOMAIN fallbacks : fallbacks[f] \in Int /\ given[f] \in Opt(Int)

\* What int64Default, durationDefault and normalizedInt return is a number.
LEMMA FilledTypes ==
  ASSUME NEW given, NEW fallbacks, Fills(given, fallbacks)
  PROVE  \A f \in DOMAIN fallbacks : Filled(given, fallbacks)[f] \in Int
  <1>1. ASSUME NEW o \in Opt(Int), NEW v \in Int PROVE Given(o, v) \in Int
    <2>1. CASE o = {}
      BY <2>1 DEF Given
    <2>2. CASE o # {}
      <3>1. PICK i \in Int : o = {i}
        BY <2>2 DEF Opt
      <3>2. (CHOOSE x \in o : TRUE) = i
        BY <3>1
      <3> QED
        BY <2>2, <3>1, <3>2 DEF Given
    <2> QED
      BY <2>1, <2>2
  <1> QED
    BY <1>1 DEF Fills, Filled

\* So is every number normalize puts into a configuration.
LEMMA ConfigTypes ==
  ASSUME NEW w \in Wires
  PROVE  /\ \A f \in DOMAIN ServerCaps : WideServer(w)[f] \in Int
         /\ \A f \in DOMAIN RuntimeCaps : NormalRuntime(w).size[f] \in Int
         /\ \A f \in DOMAIN ServerTimes : NormalServer(w).time[f] \in Int
         /\ \A f \in DOMAIN RuntimeTimes : NormalRuntime(w).time[f] \in Int
         /\ \A n \in DOMAIN w.providers :
              /\ \A f \in DOMAIN ProviderCaps : WideProvider(w.providers[n])[f] \in Int
              /\ \A f \in DOMAIN ProviderTimes : NormalProvider(w.providers[n]).time[f] \in Int
  <1>1. Opt(Nat \ {0}) \subseteq Opt(Int)
    BY DEF Opt
  <1>2. /\ w.server \in ServerWires /\ w.runtime \in RuntimeWires
        /\ \A n \in DOMAIN w.providers : w.providers[n] \in ProviderWires
    BY DEF Wires
  <1>3. Second \in Int
    BY SMT, SizesAssumption
  <1>4. /\ Fills(w.server.size, ServerDefaults) /\ Fills(w.server.time, ServerTimes)
        /\ Fills(w.runtime.size, RuntimeDefaults) /\ Fills(w.runtime.time, RuntimeTimes)
    <2>1. Fills(w.server.size, ServerDefaults)
      BY SMT, <1>2 DEF Fills, ServerWires, ServerDefaults
    <2>2. Fills(w.server.time, ServerTimes)
      BY <1>1, <1>2, <1>3 DEF Fills, ServerWires, ServerTimes
    <2>3. Fills(w.runtime.size, RuntimeDefaults)
      BY SMT, <1>2 DEF Fills, RuntimeWires, RuntimeDefaults
    <2>4. Fills(w.runtime.time, RuntimeTimes)
      BY <1>1, <1>2, <1>3 DEF Fills, RuntimeWires, RuntimeTimes
    <2> QED
      BY <2>1, <2>2, <2>3, <2>4
  <1>5. ASSUME NEW p \in ProviderWires
        PROVE  Fills(p.size, ProviderDefaults) /\ Fills(p.time, ProviderTimes)
    <2>1. Fills(p.size, ProviderDefaults)
      BY SMT DEF Fills, ProviderWires, ProviderDefaults
    <2>2. Fills(p.time, ProviderTimes)
      BY <1>1, <1>3 DEF Fills, ProviderWires, ProviderTimes
    <2> QED
      BY <2>1, <2>2
  <1>6. /\ DOMAIN ServerCaps = DOMAIN ServerDefaults
        /\ DOMAIN RuntimeCaps = DOMAIN RuntimeDefaults
        /\ DOMAIN ProviderCaps = DOMAIN ProviderDefaults
    BY SMT DEF ServerCaps, ServerDefaults, RuntimeCaps, RuntimeDefaults, ProviderCaps, ProviderDefaults
  <1>7. \A f \in DOMAIN ServerCaps : WideServer(w)[f] \in Int
    BY <1>4, <1>6, FilledTypes DEF WideServer
  <1>8. \A f \in DOMAIN RuntimeCaps : NormalRuntime(w).size[f] \in Int
    BY <1>4, <1>6, FilledTypes DEF NormalRuntime
  <1>9. \A f \in DOMAIN ServerTimes : NormalServer(w).time[f] \in Int
    BY <1>4, FilledTypes DEF NormalServer
  <1>10. \A f \in DOMAIN RuntimeTimes : NormalRuntime(w).time[f] \in Int
    BY <1>4, FilledTypes DEF NormalRuntime
  <1>11. ASSUME NEW p \in ProviderWires
         PROVE  /\ \A f \in DOMAIN ProviderCaps : WideProvider(p)[f] \in Int
                /\ \A f \in DOMAIN ProviderTimes : NormalProvider(p).time[f] \in Int
    <2>1. NormalProvider(p).time = Filled(p.time, ProviderTimes)
      BY DEF NormalProvider, ProviderWires
    <2> QED
      BY <1>5, <1>6, <2>1, FilledTypes DEF WideProvider
  <1> QED
    BY <1>2, <1>7, <1>8, <1>9, <1>10, <1>11

\* And what Load returns has passed validate, with every int as the file says it: the
\* conversions of normalizedInt come after its bounds.
LEMMA AcceptedTypes ==
  ASSUME NEW file \in Files, NEW cfg \in Load(file)
  PROVE  /\ Validates(cfg)
         /\ \A f \in DOMAIN ServerCaps : cfg.server.size[f] \in Int
         /\ \A f \in DOMAIN RuntimeCaps : cfg.runtime.size[f] \in Int
         /\ \A f \in DOMAIN ServerTimes : cfg.server.time[f] \in Int
         /\ \A f \in DOMAIN RuntimeTimes : cfg.runtime.time[f] \in Int
         /\ \A n \in DOMAIN cfg.providers :
              /\ \A f \in DOMAIN ProviderCaps : cfg.providers[n].size[f] \in Int
              /\ \A f \in DOMAIN ProviderTimes : cfg.providers[n].time[f] \in Int
  <1> DEFINE w == file.wire
  <1>1. w \in Wires /\ cfg = Normal(w) /\ Normalizes(w) /\ Validates(cfg)
    BY DEF Files, Load
  <1>2. ASSUME NEW i \in Int, i > 0, i =< 2147483647 PROVE AsInt(i) = i
    BY SMT, <1>2, SizesAssumption DEF AsInt
  <1>3. \A f \in DOMAIN ServerCaps : cfg.server.size[f] \in Int
    <2>1. ASSUME NEW f \in DOMAIN ServerCaps PROVE cfg.server.size[f] \in Int
      <3>1. cfg.server.size[f] = IF f = "httpBodyBytes" THEN WideServer(w)[f] ELSE AsInt(WideServer(w)[f])
        BY <1>1 DEF Normal, NormalServer, NarrowServer
      <3>2. ServerCaps[f] =< 2147483647 /\ ServerCaps[f] \in Int
        BY SMT DEF ServerCaps
      <3>3. f # "httpBodyBytes" => WideServer(w)[f] > 0 /\ WideServer(w)[f] =< ServerCaps[f]
        BY <1>1 DEF Normalizes
      <3>4. WideServer(w)[f] \in Int
        BY <1>1, ConfigTypes
      <3>5. f # "httpBodyBytes" => WideServer(w)[f] =< 2147483647
        BY SMT, <3>2, <3>3, <3>4
      <3> QED
        BY <1>2, <3>1, <3>3, <3>4, <3>5
    <2> QED
      BY <2>1
  <1>4. ASSUME NEW n \in DOMAIN w.providers, NEW f \in DOMAIN ProviderCaps
        PROVE  NormalProvider(w.providers[n]).size[f] \in Int
    <2> DEFINE v == WideProvider(w.providers[n])[f]
    <2>1. NormalProvider(w.providers[n]).size[f] = IF f = "queueBytes" THEN v ELSE AsInt(v)
      BY DEF NormalProvider, NarrowProvider
    <2>2. ProviderCaps[f] =< 2147483647 /\ ProviderCaps[f] \in Int
          /\ (f # "queueBytes" => f \in {"concurrency", "queueSize"})
      BY SMT DEF ProviderCaps
    <2>3. f # "queueBytes" => v > 0 /\ v =< ProviderCaps[f]
      BY <1>1, <2>2 DEF Normalizes
    <2>4. v \in Int
      BY <1>1, ConfigTypes
    <2>5. f # "queueBytes" => v =< 2147483647
      BY SMT, <2>2, <2>3, <2>4
    <2> QED
      BY <1>2, <2>1, <2>3, <2>4, <2>5
  <1>5. cfg.server = NormalServer(w) /\ cfg.runtime = NormalRuntime(w)
        /\ DOMAIN cfg.providers = DOMAIN w.providers
        /\ \A n \in DOMAIN w.providers : cfg.providers[n] = NormalProvider(w.providers[n])
    BY <1>1 DEF Normal
  <1> QED
    BY <1>1, <1>3, <1>4, <1>5, ConfigTypes

\* What config.Load accepts, none of the constructors serve calls refuses: the bounds of
\* NewSupervisor, scheduler.New, schema.DefaultLimits, NewRequestLimits, gateway.New and
\* validateServerConfig, each written down again in its own package, are never tighter
\* than the configuration's, and their sums overflow in no build. So assembleProviderRuntimes
\* and the construction after it fail for no file that was loaded.
THEOREM AcceptedIsServable ==
  ASSUME NEW file \in Files, NEW cfg \in Load(file)
  PROVE  Servable(cfg)
  <1>1. Validates(cfg)
    BY AcceptedTypes
  <1>2. /\ ValidListen(cfg.server.listen) /\ Bounded(cfg.server.size, ServerCaps)
        /\ Timely(cfg.server.time, DOMAIN ServerTimes)
        /\ \A f \in {"inputBytes", "instructionsBytes", "schemaBytes"} :
             cfg.server.size[f] =< cfg.server.size.httpBodyBytes
        /\ cfg.server.size.bodyReaderLimit =< cfg.server.size.handlerLimit
    BY <1>1 DEF Validates, ValidServer
  <1>3. Bounded(cfg.runtime.size, RuntimeCaps) /\ Timely(cfg.runtime.time, DOMAIN RuntimeTimes)
    BY <1>1 DEF Validates, ValidRuntime
  <1>4. ASSUME NEW n \in DOMAIN cfg.providers
        PROVE  /\ Bounded(cfg.providers[n].size, ProviderCaps)
               /\ Timely(cfg.providers[n].time, DOMAIN ProviderTimes)
    BY <1>1 DEF Validates, ValidProvider
  <1>5. ValidModels(cfg.models, cfg.providers)
    BY <1>1 DEF Validates
  <1>6. /\ cfg.runtime.size.stdoutBytes > 0 /\ cfg.runtime.size.stdoutBytes =< 67108864
        /\ cfg.runtime.size.stderrBytes > 0 /\ cfg.runtime.size.stderrBytes =< 16777216
        /\ cfg.runtime.size.finalBytes > 0 /\ cfg.runtime.size.finalBytes =< 16777216
        /\ cfg.runtime.size.finalBytes \in Int
    BY SMT, <1>3, AcceptedTypes DEF Bounded, RuntimeCaps
  <1>7. /\ cfg.server.size.httpBodyBytes > 0 /\ cfg.server.size.httpBodyBytes =< 16777216
        /\ cfg.server.size.inputBytes > 0 /\ cfg.server.size.inputBytes =< 16777216
        /\ cfg.server.size.instructionsBytes > 0 /\ cfg.server.size.instructionsBytes =< 16777216
        /\ cfg.server.size.schemaBytes > 0 /\ cfg.server.size.schemaBytes =< 1048576
        /\ cfg.server.size.handlerLimit > 0 /\ cfg.server.size.handlerLimit =< 4096
        /\ cfg.server.size.bodyReaderLimit > 0 /\ cfg.server.size.bodyReaderLimit =< 256
        /\ cfg.server.size.maxHeaderBytes > 0 /\ cfg.server.size.maxHeaderBytes =< 1048576
    BY SMT, <1>2 DEF Bounded, ServerCaps
  <1>8. /\ cfg.server.size.httpBodyBytes \in Int /\ cfg.server.size.inputBytes \in Int
        /\ cfg.server.size.instructionsBytes \in Int /\ cfg.server.size.schemaBytes \in Int
    BY SMT, AcceptedTypes DEF ServerCaps
  <1>9. AsInt(cfg.runtime.size.finalBytes) = cfg.runtime.size.finalBytes
    BY SMT, <1>6, SizesAssumption DEF AsInt
  <1>10. ASSUME NEW n \in DOMAIN cfg.providers PROVE NewSupervisor(cfg, n)
    <2>1. \A t \in {cfg.providers[n].time.execution, cfg.runtime.time.termGrace,
                     cfg.runtime.time.cleanup} : t > 0 /\ t =< Day
      BY <1>3, <1>4 DEF Timely, RuntimeTimes, ProviderTimes
    <2> QED
      BY SMT, <1>6, <2>1 DEF NewSupervisor
  <1>11. ASSUME NEW n \in DOMAIN cfg.providers PROVE NewScheduler(cfg, n)
    BY SMT, <1>4 DEF NewScheduler, Bounded, Timely, ProviderCaps, ProviderTimes
  <1>12. NewGateway(cfg)
    <2>1. DefaultLimits(cfg.server.size.schemaBytes, AsInt(cfg.runtime.size.finalBytes))
      BY SMT, <1>6, <1>7, <1>8, <1>9, SizesAssumption DEF DefaultLimits
    <2>2. \A i \in DOMAIN cfg.models : cfg.models[i].provider \in DOMAIN cfg.providers
      BY <1>5 DEF ValidModels
    <2> QED
      BY SMT, <1>6, <1>9, <2>1, <2>2 DEF NewGateway
  <1>13. NewServer(cfg)
    <2>1. RequestLimits(cfg.server.size.inputBytes, cfg.server.size.instructionsBytes,
                        cfg.server.size.schemaBytes)
      BY SMT, <1>7, <1>8, SizesAssumption DEF RequestLimits
    <2>2. SuccessLimitFits(AsInt(cfg.runtime.size.finalBytes), cfg.server.size.httpBodyBytes)
      BY SMT, <1>6, <1>7, <1>8, <1>9, SizesAssumption DEF SuccessLimitFits
    <2>3. Timely(cfg.server.time, {"readHeader", "bodyRead", "idle"})
      BY <1>2 DEF Timely, ServerTimes
    <2>4. /\ Len(cfg.models) \in 1..1024 /\ Registrable(cfg.models)
          /\ \A i \in DOMAIN cfg.models : cfg.models[i].created >= 0
      <3>1. ASSUME NEW m, NEW q, ValidModels(m, q)
            PROVE  Len(m) \in 1..1024 /\ Registrable(m) /\ \A i \in DOMAIN m : m[i].created >= 0
        BY <3>1 DEF ValidModels
      <3> QED BY <1>5, <3>1
    <2>5. Bounded(cfg.server.size, HttpCaps)
      BY SMT, <1>2 DEF Bounded, ServerCaps, HttpCaps
    <2>6. /\ AsInt(cfg.runtime.size.finalBytes) > 0
          /\ AsInt(cfg.runtime.size.finalBytes) =< MaxFinalResponseBytes
      BY SMT, <1>6, <1>9 DEF MaxFinalResponseBytes
    <2> QED
      BY <1>2, <2>1, <2>2, <2>3, <2>4, <2>5, <2>6 DEF NewServer
  <1> QED
    BY <1>10, <1>11, <1>12, <1>13 DEF Servable


\* The defaults of normalize pass validate: a file that says only what has no default is
\* accepted, and its shutdown timeout covers what a cancelled execution may take.
THEOREM DefaultsAreAccepted ==
  ASSUME NEW file \in Files, Plain(file.wire),
         file.opens, file.reads, file.decodes, file.bytes =< MaxConfigBytes
  PROVE  Load(file) # {}
  <1> DEFINE w == file.wire
  <1>1. w \in Wires /\ Second \in Nat \ {0}
    BY SMT, SizesAssumption DEF Files
  <1>2. \A o, v : o = {} => Given(o, v) = v
    BY DEF Given
  <1>3. /\ WideServer(w) = ServerDefaults /\ NormalServer(w).time = ServerTimes
        /\ NormalRuntime(w).size = RuntimeDefaults /\ NormalRuntime(w).time = RuntimeTimes
    <2>1. \A given, fallbacks :
            (/\ \A f \in DOMAIN fallbacks : given[f] = {}
             /\ fallbacks = [f \in DOMAIN fallbacks |-> fallbacks[f]])
            => Filled(given, fallbacks) = fallbacks
      BY <1>2 DEF Filled
    <2>2. /\ ServerDefaults = [f \in DOMAIN ServerDefaults |-> ServerDefaults[f]]
          /\ RuntimeDefaults = [f \in DOMAIN RuntimeDefaults |-> RuntimeDefaults[f]]
      BY SMT DEF ServerDefaults, RuntimeDefaults
    <2>3. /\ ServerTimes = [f \in DOMAIN ServerTimes |-> ServerTimes[f]]
          /\ RuntimeTimes = [f \in DOMAIN RuntimeTimes |-> RuntimeTimes[f]]
      BY SMT DEF ServerTimes, RuntimeTimes
    <2> QED
      BY <2>1, <2>2, <2>3 DEF Plain, WideServer, NormalServer, NormalRuntime
  <1>4. ASSUME NEW i \in Int, i > 0, i =< Int32 PROVE AsInt(i) = i
    BY SMT, <1>4, SizesAssumption DEF AsInt, Int32
  <1>5. ASSUME NEW f \in DOMAIN ServerCaps
        PROVE  /\ ServerDefaults[f] > 0 /\ ServerDefaults[f] =< ServerCaps[f]
               /\ NarrowServer(w)[f] = ServerDefaults[f]
    <2>1. /\ ServerDefaults[f] \in Int /\ ServerDefaults[f] > 0 /\ ServerDefaults[f] =< ServerCaps[f]
          /\ ServerDefaults[f] =< Int32
      BY SMT DEF ServerDefaults, ServerCaps, Int32
    <2> QED
      BY <1>3, <1>4, <2>1 DEF NarrowServer
  <1>6. ASSUME NEW n \in DOMAIN w.providers
        PROVE  /\ \A f \in DOMAIN ProviderCaps :
                    /\ ProviderDefaults[f] > 0 /\ ProviderDefaults[f] =< ProviderCaps[f]
                    /\ WideProvider(w.providers[n])[f] = ProviderDefaults[f]
                    /\ NarrowProvider(w.providers[n])[f] = ProviderDefaults[f]
               /\ \A f \in DOMAIN ProviderTimes :
                    NormalProvider(w.providers[n]).time[f] = ProviderTimes[f]
    <2>1. ASSUME NEW f \in DOMAIN ProviderCaps
          PROVE  /\ ProviderDefaults[f] > 0 /\ ProviderDefaults[f] =< ProviderCaps[f]
                 /\ ProviderDefaults[f] =< Int32 /\ ProviderDefaults[f] \in Int
                 /\ f \in DOMAIN ProviderDefaults
      BY SMT DEF ProviderDefaults, ProviderCaps, Int32
    <2>2. ASSUME NEW f \in DOMAIN ProviderCaps
          PROVE  WideProvider(w.providers[n])[f] = ProviderDefaults[f]
      <3>1. w.providers[n].size[f] = {}
        BY <2>1 DEF Plain
      <3> QED
        BY <1>2, <2>1, <3>1 DEF WideProvider, Filled
    <2>3. ASSUME NEW f \in DOMAIN ProviderCaps
          PROVE  NarrowProvider(w.providers[n])[f] = ProviderDefaults[f]
      BY <1>4, <2>1, <2>2 DEF NarrowProvider
    <2>4. ASSUME NEW f \in DOMAIN ProviderTimes
          PROVE  NormalProvider(w.providers[n]).time[f] = ProviderTimes[f]
      <3>1. w.providers[n].time[f] = {}
        BY DEF Plain
      <3>2. NormalProvider(w.providers[n]).time = Filled(w.providers[n].time, ProviderTimes)
        BY DEF NormalProvider
      <3> QED
        BY <1>2, <3>1, <3>2 DEF Filled
    <2> QED
      BY <2>1, <2>2, <2>3, <2>4
  <1>7. Normalizes(w)
    <2>1. Given(w.server.apiKeyFile, TRUE) /\ w.server.apiKeyEnv = {}
      <3>1. w.server.apiKeyFile = {} /\ w.server.apiKeyEnv = {}
        BY DEF Plain
      <3>2. Given(w.server.apiKeyFile, TRUE) = TRUE
        BY <1>2, <3>1
      <3> QED
        BY <3>1, <3>2
    <2>2. \A f \in {"concurrency", "queueSize"} : f \in DOMAIN ProviderCaps
      BY SMT DEF ProviderCaps
    <2> QED
      BY <1>3, <1>5, <1>6, <2>1, <2>2 DEF Normalizes
  <1>8. ValidServer(NormalServer(w))
    <2>1. ValidListen(DefaultListen)
      BY SMT DEF ValidListen, DefaultListen
    <2>2. NormalServer(w).listen = DefaultListen /\ NormalServer(w).apiKeyEnv = ""
          /\ NormalServer(w).size = NarrowServer(w)
      BY <1>2 DEF Plain, NormalServer
    <2>3. Bounded(NarrowServer(w), ServerCaps)
      BY <1>5 DEF Bounded
    <2>4. Timely(NormalServer(w).time, DOMAIN ServerTimes)
      BY SMT, <1>1, <1>3 DEF Timely, ServerTimes, Day
    <2>5. /\ \A f \in {"inputBytes", "instructionsBytes", "schemaBytes"} :
               NarrowServer(w)[f] =< NarrowServer(w).httpBodyBytes
          /\ NarrowServer(w).bodyReaderLimit =< NarrowServer(w).handlerLimit
      <3>1. /\ {"inputBytes", "instructionsBytes", "schemaBytes", "httpBodyBytes",
                "bodyReaderLimit", "handlerLimit"} \subseteq DOMAIN ServerCaps
            /\ \A f \in {"inputBytes", "instructionsBytes", "schemaBytes"} :
                 ServerDefaults[f] =< ServerDefaults.httpBodyBytes
            /\ ServerDefaults.bodyReaderLimit =< ServerDefaults.handlerLimit
        BY SMT DEF ServerCaps, ServerDefaults
      <3> QED
        BY <1>5, <3>1
    <2> QED
      BY <2>1, <2>2, <2>3, <2>4, <2>5 DEF ValidServer
  <1>9. ValidRuntime(NormalRuntime(w))
    <2>1. NormalRuntime(w).root
      <3>1. NormalRuntime(w).root = Given(w.runtime.root, TRUE)
        BY DEF NormalRuntime
      <3>2. Given(w.runtime.root, TRUE) = TRUE
        BY <1>2 DEF Plain
      <3> QED
        BY <3>1, <3>2
    <2>2. /\ Bounded(RuntimeDefaults, RuntimeCaps)
          /\ RuntimeDefaults.finalBytes =< RuntimeDefaults.stdoutBytes
      BY SMT DEF Bounded, RuntimeDefaults, RuntimeCaps
    <2>3. Timely(RuntimeTimes, DOMAIN RuntimeTimes)
      BY SMT, <1>1 DEF Timely, RuntimeTimes, Day
    <2> QED
      BY <1>3, <2>1, <2>2, <2>3 DEF ValidRuntime
  <1>10. ValidShutdownBudget(Normal(w))
    <2>1. /\ Normal(w).runtime.time = RuntimeTimes /\ Normal(w).server.time = ServerTimes
      BY <1>3 DEF Normal
    <2>2. /\ RuntimeTimes.termGrace = 2 * Second /\ RuntimeTimes.cleanup = 5 * Second
          /\ ServerTimes.shutdown = 15 * Second
      BY DEF RuntimeTimes, ServerTimes
    <2>3. /\ 5 * Second =< (Longest - 2 * Second - Second) \div 2
          /\ 15 * Second >= 2 * Second + 2 * (5 * Second) + Second
      BY SMT, <1>1, SizesAssumption DEF Day
    <2> QED
      BY <2>1, <2>2, <2>3 DEF ValidShutdownBudget
  <1>11. ASSUME NEW n \in DOMAIN w.providers
         PROVE  ValidProvider(n, NormalProvider(w.providers[n]), NormalServer(w).apiKeyEnv)
    <2> DEFINE p == NormalProvider(w.providers[n])
    <2>1. /\ n \in Known /\ p.executable.absolute /\ p.configHome /\ p.prefixArgs = <<>>
          /\ p.credentialEnv = <<>> /\ p.size = NarrowProvider(w.providers[n])
      BY DEF Plain, NormalProvider
    <2>2. Bounded(p.size, ProviderCaps)
      BY <1>6, <2>1 DEF Bounded
    <2>3. \A f \in DOMAIN ProviderTimes : ProviderTimes[f] > 0 /\ ProviderTimes[f] =< Day
      BY SMT, <1>1 DEF ProviderTimes, Day
    <2>4. Timely(p.time, DOMAIN ProviderTimes)
      BY <1>6, <2>3 DEF Timely
    <2>5. Passed(p) = {} /\ DOMAIN p.credentialEnv = {}
      BY <2>1 DEF Passed
    <2>6. ASSUME NEW q, q = p PROVE ValidProvider(n, q, NormalServer(w).apiKeyEnv)
      BY <2>1, <2>2, <2>4, <2>5, <2>6 DEF ValidProvider, ValidPrefixArgs, ValidGeminiProfile
    <2> QED
      BY <2>6
  <1>12. Validates(Normal(w))
    <2>1. /\ Normal(w).server = NormalServer(w) /\ Normal(w).runtime = NormalRuntime(w)
          /\ DOMAIN Normal(w).providers = DOMAIN w.providers /\ Normal(w).models = w.models
          /\ \A n \in DOMAIN w.providers : Normal(w).providers[n] = NormalProvider(w.providers[n])
      BY DEF Normal
    <2>2. Separate(Normal(w).providers)
      <3>1. \A n \in DOMAIN w.providers : Passed(NormalProvider(w.providers[n])) = {}
        BY DEF Plain, NormalProvider, Passed
      <3> QED
        BY <2>1, <3>1 DEF Separate
    <2>3. ASSUME NEW q, DOMAIN q = DOMAIN w.providers PROVE ValidModels(w.models, q)
      BY <2>3 DEF Plain, ValidModels
    <2>4. DOMAIN w.providers # {}
      BY DEF Plain
    <2> QED
      BY <1>8, <1>9, <1>10, <1>11, <2>1, <2>2, <2>3, <2>4 DEF Validates
  <1> QED
    BY <1>7, <1>12 DEF Load

-----------------------------------------------------------------------------
(* The module Merge.                                                         *)

\* Rendering a provider says it: what is not written is what nothing says.
LEMMA RenderedSays ==
  ASSUME NEW p \in [ProviderFields -> Values]
  PROVE  Says(Rendered(p), ProviderFields) = p
  BY DEF Says, Rendered, Unsaid

\* Whatever a group is written as, the edit makes it say the provider that is planned.
LEMMA ProviderEditSays ==
  ASSUME NEW g \in ProviderGroups, NEW p \in [ProviderFields -> Values], NEW changed \in SUBSET ProviderFields,
         \A f \in ProviderFields \ changed : p[f] = Says(g.entries, ProviderFields)[f]
  PROVE  Says(ProviderEdit(g, p, changed).entries, ProviderFields) = p
  <1>0. g = [as |-> g.as, entries |-> g.entries]
    BY DEF ProviderGroups, Groups
  <1>1. CASE g.as \in {"table", "inline"}
    <2>1. ProviderEdit(g, p, changed).entries = Rendered(p)
      BY <1>0, <1>1 DEF ProviderEdit
    <2> QED BY <2>1, RenderedSays
  <1>2. CASE g.as \notin {"table", "inline"}
    <2> DEFINE E == ProviderEdit(g, p, changed).entries
    <2>1. E = [f \in (DOMAIN g.entries \ changed) \cup (changed \cap DOMAIN Rendered(p)) |->
                 IF f \in changed THEN Rendered(p)[f] ELSE g.entries[f]]
      BY <1>0, <1>2 DEF ProviderEdit
    <2>2. ASSUME NEW f \in ProviderFields PROVE Says(E, ProviderFields)[f] = p[f]
      <3>1. CASE f \in changed
        BY <2>1, <3>1 DEF Says, Rendered, Unsaid
      <3>2. CASE f \notin changed
        BY <2>1, <3>2 DEF Says
      <3> QED BY <3>1, <3>2
    <2>3. Says(E, ProviderFields) = [f \in ProviderFields |-> Says(E, ProviderFields)[f]]
      BY DEF Says
    <2>4. p = [f \in ProviderFields |-> p[f]]
      OBVIOUS
    <2> QED BY <2>2, <2>3, <2>4
  <1> QED BY <1>1, <1>2

\* One source of the key, and no empty file.
Exclusive(s) == s["api_key_file"] = Unsaid \/ s["api_key_env"] = Unsaid

\* The gateway's edit makes its group say the server that is planned.
LEMMA GatewayEditSays ==
  ASSUME NEW g \in ServerGroups, NEW new \in [ServerFields -> Values], OneKey(g.entries),
         Exclusive(new), new["settings"] = Says(g.entries, ServerFields)["settings"]
  PROVE  LET e == GatewayEdit(g, Says(g.entries, ServerFields), new).entries IN
         Says(e, ServerFields) = new /\ OneKey(e)
  <1> DEFINE old == Says(g.entries, ServerFields)
             e == GatewayEdit(g, old, new).entries
             comes == SourceField(new)
  <1>0. g = [as |-> g.as, entries |-> g.entries]
    BY DEF ServerGroups, Groups
  <1>1. \A f \in ServerFields : old[f] = IF f \in DOMAIN g.entries THEN g.entries[f] ELSE Unsaid
    BY DEF Says
  <1>2. /\ \A f \in AuthFields : f \notin comes => new[f] = Unsaid
        /\ comes \subseteq AuthFields /\ ~(AuthFields \subseteq comes)
        /\ "api_key_file" \in comes => new["api_key_file"] # Unsaid
    BY DEF SourceField, Exclusive, AuthFields
  <1>3. SUFFICES (\A f \in ServerFields : (IF f \in DOMAIN e THEN e[f] ELSE Unsaid) = new[f]) /\ OneKey(e)
    BY DEF Says
  <1>4. CASE g.as = "none"
    <2>1. e = [f \in comes |-> new[f]]
      BY <1>4 DEF GatewayEdit
    <2>2. new["settings"] = Unsaid
      BY <1>1, <1>4 DEF ServerGroups, ServerFields
    <2> QED BY <1>2, <2>1, <2>2 DEF OneKey, ServerFields, AuthFields
  <1>5. CASE g.as = "inline"
    <2>1. e = [f \in comes \cup {"settings"} |-> new[f]]
      BY <1>0, <1>5 DEF GatewayEdit
    <2> QED BY <1>2, <2>1 DEF OneKey, ServerFields, AuthFields
  <1>6. CASE g.as \notin {"none", "inline"}
    <2> DEFINE leaves == IF SourceField(old) = {} THEN {"api_key_env"} ELSE SourceField(old)
    <2>1. e = [f \in (DOMAIN g.entries \ leaves) \cup comes |-> IF f \in comes THEN new[f] ELSE g.entries[f]]
      BY <1>0, <1>6 DEF GatewayEdit
    <2>2. leaves \subseteq AuthFields /\ DOMAIN g.entries \cap AuthFields \subseteq leaves
      BY <1>1 DEF OneKey, SourceField, AuthFields, ServerFields
    <2> HIDE DEF leaves
    <2>3. \A f \in DOMAIN e : f \in comes \/ f \notin AuthFields
      BY <2>1, <2>2
    <2>4. OneKey(e)
      BY <1>2, <2>1, <2>3 DEF OneKey, AuthFields
    <2>5. ASSUME NEW f \in AuthFields PROVE (IF f \in DOMAIN e THEN e[f] ELSE Unsaid) = new[f]
      BY <1>2, <2>1, <2>3
    <2>6. (IF "settings" \in DOMAIN e THEN e["settings"] ELSE Unsaid) = new["settings"]
      <3>1. "settings" \notin comes /\ "settings" \notin leaves
        BY <1>2, <2>2 DEF AuthFields
      <3> QED BY <1>1, <2>1, <3>1 DEF ServerFields
    <2> QED BY <2>4, <2>5, <2>6 DEF ServerFields
  <1> QED BY <1>4, <1>5, <1>6

\* The configurations a source may say.
Configs ==
  [server : [ServerFields -> Values], root : Values, providers : Maps(Strings, [ProviderFields -> Values]),
   models : Maps(Strings, [ModelFields -> Values])]

\* The maps of Maps.
LEMMA MapsAre ==
  ASSUME NEW S, NEW T, NEW m
  PROVE  m \in Maps(S, T) <=> DOMAIN m \subseteq S /\ m \in [DOMAIN m -> T]
  BY DEF Maps

\* What entries say has every field.
LEMMA SaysTypes ==
  ASSUME NEW fields, NEW entries \in Maps(fields, Values)
  PROVE  Says(entries, fields) \in [fields -> Values]
  <1>1. Unsaid \in Values
    BY DEF Unsaid, Values
  <1> QED BY <1>1, MapsAre DEF Says

\* What is read in a source is a configuration.
LEMMA ReadingTypes ==
  ASSUME NEW src \in Sources
  PROVE  Reading(src) \in Configs
  <1>1. src.server.entries \in Maps(ServerFields, Values)
    BY DEF Sources, ServerGroups, Groups
  <1>2. src.providers \in [DOMAIN src.providers -> ProviderGroups] /\ DOMAIN src.providers \subseteq Strings
    BY MapsAre DEF Sources
  <1>3. \A n \in DOMAIN src.providers : src.providers[n].entries \in Maps(ProviderFields, Values)
    BY <1>2 DEF ProviderGroups, Groups
  <1>4. \A n \in DOMAIN src.providers : Says(src.providers[n].entries, ProviderFields) \in [ProviderFields -> Values]
    BY <1>3, SaysTypes
  <1>5. Says(src.server.entries, ServerFields) \in [ServerFields -> Values]
    BY <1>1, SaysTypes
  <1>6. [n \in DOMAIN src.providers |-> Says(src.providers[n].entries, ProviderFields)]
          \in Maps(Strings, [ProviderFields -> Values])
    BY <1>2, <1>4, MapsAre
  <1>7. src.root \in Values /\ src.models \in Maps(Strings, [ModelFields -> Values])
    BY DEF Sources
  <1> QED BY <1>5, <1>6, <1>7 DEF Reading, Configs

\* What decodes is what is read, and it is admitted.
LEMMA DecodeIs ==
  ASSUME NEW src \in Sources, NEW cfg \in Decode(src)
  PROVE  /\ cfg = Reading(src) /\ cfg \in Configs /\ Decode(src) = {cfg}
         /\ src.decodes /\ OneKey(src.server.entries) /\ Admits(cfg)
  BY ReadingTypes DEF Decode

\* What a plan makes of each part of a configuration.
LEMMA PlannedProviders ==
  ASSUME NEW cfg \in Configs, NEW d \in Desireds
  PROVE  LET after == Planned(cfg, d) IN
         /\ after.providers \in Maps(Strings, [ProviderFields -> Values])
         /\ DOMAIN after.providers = DOMAIN cfg.providers \cup DOMAIN d.providers
         /\ \A n \in DOMAIN d.providers :
              /\ \A f \in Managed : after.providers[n][f] = d.providers[n][f]
              /\ after.providers[n]["tuning"] = Of(cfg.providers, n, NoProvider)["tuning"]
         /\ \A n \in DOMAIN cfg.providers \ DOMAIN d.providers : after.providers[n] = cfg.providers[n]
  <1> DEFINE after == Planned(cfg, d)
  <1>1. /\ cfg.providers \in [DOMAIN cfg.providers -> [ProviderFields -> Values]] /\ DOMAIN cfg.providers \subseteq Strings
        /\ d.providers \in [DOMAIN d.providers -> [Managed -> Values]] /\ DOMAIN d.providers \subseteq Strings
    BY MapsAre DEF Configs, Desireds
  <1>2. NoProvider \in [ProviderFields -> Values]
    BY DEF NoProvider, Unsaid, Values
  <1>3. after.providers = [n \in DOMAIN cfg.providers \cup DOMAIN d.providers |->
                    IF n \in DOMAIN d.providers
                    THEN Updated(Of(cfg.providers, n, NoProvider), d.providers[n], ProviderFields)
                    ELSE cfg.providers[n]]
    BY DEF Planned
  <1>4. ASSUME NEW n \in DOMAIN d.providers
        PROVE  /\ after.providers[n] \in [ProviderFields -> Values]
               /\ \A f \in Managed : after.providers[n][f] = d.providers[n][f]
               /\ after.providers[n]["tuning"] = Of(cfg.providers, n, NoProvider)["tuning"]
    <2>1. Of(cfg.providers, n, NoProvider) \in [ProviderFields -> Values]
      BY <1>1, <1>2 DEF Of
    <2>2. after.providers[n] = [f \in ProviderFields |-> IF f \in Managed THEN d.providers[n][f]
                                                        ELSE Of(cfg.providers, n, NoProvider)[f]]
      BY <1>1, <1>3 DEF Updated
    <2>3. d.providers[n] \in [Managed -> Values] /\ Managed \subseteq ProviderFields /\ "tuning" \in ProviderFields \ Managed
      BY <1>1 DEF ProviderFields, Managed
    <2> QED BY <2>1, <2>2, <2>3
  <1>5. \A n \in DOMAIN cfg.providers \ DOMAIN d.providers : after.providers[n] = cfg.providers[n]
    BY <1>3
  <1>6. DOMAIN after.providers = DOMAIN cfg.providers \cup DOMAIN d.providers
    BY <1>3
  <1>7. \A n \in DOMAIN after.providers : after.providers[n] \in [ProviderFields -> Values]
    BY <1>1, <1>4, <1>5, <1>6
  <1>8. after.providers = [n \in DOMAIN after.providers |-> after.providers[n]]
    BY <1>3
  <1>9. after.providers \in Maps(Strings, [ProviderFields -> Values])
    BY <1>1, <1>6, <1>7, <1>8, MapsAre
  <1> QED BY <1>4, <1>5, <1>6, <1>9

\* The same of its models.
LEMMA PlannedModels ==
  ASSUME NEW cfg \in Configs, NEW d \in Desireds
  PROVE  LET after == Planned(cfg, d) IN
         /\ after.models \in Maps(Strings, [ModelFields -> Values])
         /\ DOMAIN after.models = DOMAIN cfg.models \cup DOMAIN d.models
         /\ \A a \in DOMAIN d.models :
              /\ \A f \in Mapped : after.models[a][f] = d.models[a][f]
              /\ after.models[a]["created"] = Of(cfg.models, a, NoModel)["created"]
         /\ \A a \in DOMAIN cfg.models \ DOMAIN d.models : after.models[a] = cfg.models[a]
  <1> DEFINE after == Planned(cfg, d)
  <1>1. /\ cfg.models \in [DOMAIN cfg.models -> [ModelFields -> Values]] /\ DOMAIN cfg.models \subseteq Strings
        /\ d.models \in [DOMAIN d.models -> [Mapped -> Values]] /\ DOMAIN d.models \subseteq Strings
    BY MapsAre DEF Configs, Desireds
  <1>2. NoModel \in [ModelFields -> Values]
    BY DEF NoModel, Unsaid, Values
  <1>3. after.models = [a \in DOMAIN cfg.models \cup DOMAIN d.models |->
                          IF a \in DOMAIN d.models
                          THEN Updated(Of(cfg.models, a, NoModel), d.models[a], ModelFields)
                          ELSE cfg.models[a]]
    BY DEF Planned
  <1>4. ASSUME NEW a \in DOMAIN d.models
        PROVE  /\ after.models[a] \in [ModelFields -> Values]
               /\ \A f \in Mapped : after.models[a][f] = d.models[a][f]
               /\ after.models[a]["created"] = Of(cfg.models, a, NoModel)["created"]
    <2>1. Of(cfg.models, a, NoModel) \in [ModelFields -> Values]
      BY <1>1, <1>2 DEF Of
    <2>2. after.models[a] = [f \in ModelFields |-> IF f \in Mapped THEN d.models[a][f]
                                                   ELSE Of(cfg.models, a, NoModel)[f]]
      BY <1>1, <1>3 DEF Updated
    <2>3. d.models[a] \in [Mapped -> Values] /\ Mapped \subseteq ModelFields /\ "created" \in ModelFields \ Mapped
      BY <1>1 DEF ModelFields, Mapped
    <2> QED BY <2>1, <2>2, <2>3
  <1>5. \A a \in DOMAIN cfg.models \ DOMAIN d.models : after.models[a] = cfg.models[a]
    BY <1>3
  <1>6. DOMAIN after.models = DOMAIN cfg.models \cup DOMAIN d.models
    BY <1>3
  <1>7. \A a \in DOMAIN after.models : after.models[a] \in [ModelFields -> Values]
    BY <1>1, <1>4, <1>5, <1>6
  <1>8. after.models = [a \in DOMAIN after.models |-> after.models[a]]
    BY <1>3
  <1>9. after.models \in Maps(Strings, [ModelFields -> Values])
    BY <1>1, <1>6, <1>7, <1>8, MapsAre
  <1> QED BY <1>4, <1>5, <1>6, <1>9

\* The same of its server.
LEMMA PlannedServer ==
  ASSUME NEW cfg \in Configs, NEW d \in Desireds
  PROVE  LET after == Planned(cfg, d) IN
         /\ after.server \in [ServerFields -> Values]
         /\ after.server["settings"] = cfg.server["settings"]
         /\ d.gateway.set => \A f \in AuthFields : after.server[f] = d.gateway[f]
         /\ ~d.gateway.set => after.server = cfg.server
  <1> DEFINE after == Planned(cfg, d)
             auth == [f \in AuthFields |-> d.gateway[f]]
  <1>1. cfg.server \in [ServerFields -> Values]
    BY DEF Configs
  <1>2. \A f \in AuthFields : d.gateway[f] \in Values
    BY DEF Desireds, AuthFields
  <1>3. after.server = IF d.gateway.set THEN Updated(cfg.server, auth, ServerFields) ELSE cfg.server
    BY DEF Planned
  <1>4. Updated(cfg.server, auth, ServerFields)
          = [f \in ServerFields |-> IF f \in AuthFields THEN d.gateway[f] ELSE cfg.server[f]]
    BY DEF Updated
  <1>5. AuthFields \subseteq ServerFields /\ "settings" \in ServerFields \ AuthFields
    BY DEF ServerFields, AuthFields
  <1>6. CASE d.gateway.set
    BY <1>1, <1>2, <1>3, <1>4, <1>5, <1>6
  <1>7. CASE ~d.gateway.set
    BY <1>1, <1>3, <1>7
  <1> QED BY <1>6, <1>7

\* An entry for what was there.
EntryKind(e, old, new, fields) ==
  /\ e.kind \in {"unchanged", "replaced"}
  /\ e.kind = "unchanged" => Differing(old, new, fields) = {}
  /\ e.kind = "replaced" => Differing(old, new, fields) # {}

\* A provider's entry in a diff.
LEMMA DiffOfProvider ==
  ASSUME NEW cfg, NEW after, NEW d, NEW diff, diff = Diff(cfg, after, d), NEW n \in DOMAIN d.providers
  PROVE  /\ n \notin DOMAIN cfg.providers => /\ diff.providers[n].kind = "added"
                                       /\ DOMAIN diff.providers[n].fields = Managed
         /\ n \in DOMAIN cfg.providers =>
              /\ DOMAIN diff.providers[n].fields = Differing(cfg.providers[n], after.providers[n], Managed)
              /\ EntryKind(diff.providers[n], cfg.providers[n], after.providers[n], Managed)
         /\ \A f \in DOMAIN diff.providers[n].fields :
              /\ diff.providers[n].fields[f].before = Of(cfg.providers, n, NoProvider)[f]
              /\ diff.providers[n].fields[f].after = after.providers[n][f]
  <1> DEFINE e == diff.providers[n]
             old == Of(cfg.providers, n, NoProvider)
             new == after.providers[n]
             changed == Differing(cfg.providers[n], new, Managed)
  <1>1. e = Entry(n \in DOMAIN cfg.providers, old, new, Managed)
    BY DEF Diff
  <1>2. CASE n \notin DOMAIN cfg.providers
    <2>1. e = [kind |-> "added", fields |-> [f \in Managed |-> Change(old[f], new[f])]]
      BY <1>1, <1>2 DEF Entry
    <2> QED BY <1>2, <2>1 DEF Change
  <1>3. CASE n \in DOMAIN cfg.providers
    <2>1. old = cfg.providers[n]
      BY <1>3 DEF Of
    <2>2. e = [kind |-> IF changed = {} THEN "unchanged" ELSE "replaced",
               fields |-> [f \in changed |-> Change(old[f], new[f])]]
      BY <1>1, <1>3, <2>1 DEF Entry
    <2> HIDE DEF changed
    <2>3. e.kind = (IF changed = {} THEN "unchanged" ELSE "replaced")
      BY <2>2
    <2>4. e.fields = [f \in changed |-> Change(old[f], new[f])]
      BY <2>2
    <2>5. /\ e.kind = "unchanged" => changed = {}
          /\ e.kind = "replaced" => changed # {}
          /\ e.kind \in {"unchanged", "replaced"}
      BY <2>3
    <2>6. DOMAIN e.fields = changed /\ \A f \in DOMAIN e.fields : e.fields[f].before = old[f] /\ e.fields[f].after = new[f]
      BY <2>4 DEF Change
    <2> QED BY <1>3, <2>5, <2>6 DEF changed, EntryKind
  <1> QED BY <1>2, <1>3

\* A model's entry in a diff.
LEMMA DiffOfModel ==
  ASSUME NEW cfg, NEW after, NEW d, NEW diff, diff = Diff(cfg, after, d), NEW a \in DOMAIN d.models
  PROVE  /\ a \notin DOMAIN cfg.models => /\ diff.models[a].kind = "added"
                                       /\ DOMAIN diff.models[a].fields = Mapped
         /\ a \in DOMAIN cfg.models =>
              /\ DOMAIN diff.models[a].fields = Differing(cfg.models[a], after.models[a], Mapped)
              /\ EntryKind(diff.models[a], cfg.models[a], after.models[a], Mapped)
         /\ \A f \in DOMAIN diff.models[a].fields :
              /\ diff.models[a].fields[f].before = Of(cfg.models, a, NoModel)[f]
              /\ diff.models[a].fields[f].after = after.models[a][f]
  <1> DEFINE e == diff.models[a]
             old == Of(cfg.models, a, NoModel)
             new == after.models[a]
             changed == Differing(cfg.models[a], new, Mapped)
  <1>1. e = Entry(a \in DOMAIN cfg.models, old, new, Mapped)
    BY DEF Diff
  <1>2. CASE a \notin DOMAIN cfg.models
    <2>1. e = [kind |-> "added", fields |-> [f \in Mapped |-> Change(old[f], new[f])]]
      BY <1>1, <1>2 DEF Entry
    <2> QED BY <1>2, <2>1 DEF Change
  <1>3. CASE a \in DOMAIN cfg.models
    <2>1. old = cfg.models[a]
      BY <1>3 DEF Of
    <2>2. e = [kind |-> IF changed = {} THEN "unchanged" ELSE "replaced",
               fields |-> [f \in changed |-> Change(old[f], new[f])]]
      BY <1>1, <1>3, <2>1 DEF Entry
    <2> HIDE DEF changed
    <2>3. e.kind = (IF changed = {} THEN "unchanged" ELSE "replaced")
      BY <2>2
    <2>4. e.fields = [f \in changed |-> Change(old[f], new[f])]
      BY <2>2
    <2>5. /\ e.kind = "unchanged" => changed = {}
          /\ e.kind = "replaced" => changed # {}
          /\ e.kind \in {"unchanged", "replaced"}
      BY <2>3
    <2>6. DOMAIN e.fields = changed /\ \A f \in DOMAIN e.fields : e.fields[f].before = old[f] /\ e.fields[f].after = new[f]
      BY <2>4 DEF Change
    <2> QED BY <1>3, <2>5, <2>6 DEF changed, EntryKind
  <1> QED BY <1>2, <1>3

\* What a diff calls unchanged is what it was.
LEMMA UnchangedIsKept ==
  ASSUME NEW cfg \in Configs, NEW d \in Desireds
  PROVE  LET after == Planned(cfg, d)
             diff == Diff(cfg, after, d) IN
         /\ DOMAIN diff.providers = DOMAIN d.providers /\ DOMAIN diff.models = DOMAIN d.models
         /\ \A n \in DOMAIN d.providers :
              diff.providers[n].kind = "unchanged" => n \in DOMAIN cfg.providers /\ after.providers[n] = cfg.providers[n]
         /\ \A a \in DOMAIN d.models :
              diff.models[a].kind = "unchanged" => a \in DOMAIN cfg.models /\ after.models[a] = cfg.models[a]
         /\ (\A e \in diff.gateway : e.kind # "replaced") => after.server = cfg.server
  <1> DEFINE after == Planned(cfg, d)
             diff == Diff(cfg, after, d)
  <1>1. DOMAIN diff.providers = DOMAIN d.providers /\ DOMAIN diff.models = DOMAIN d.models
    BY DEF Diff
  <1>2. ASSUME NEW n \in DOMAIN d.providers, diff.providers[n].kind = "unchanged"
        PROVE  n \in DOMAIN cfg.providers /\ after.providers[n] = cfg.providers[n]
    <2>1. n \in DOMAIN cfg.providers /\ Differing(cfg.providers[n], after.providers[n], Managed) = {}
      <3>1. diff = Diff(cfg, after, d)
        OBVIOUS
      <3> HIDE DEF diff, after
      <3>2. n \in DOMAIN cfg.providers
        BY <1>2, <3>1, DiffOfProvider DEF EntryKind
      <3>3. EntryKind(diff.providers[n], cfg.providers[n], after.providers[n], Managed)
        BY <1>2, <3>1, <3>2, DiffOfProvider
      <3> QED BY <1>2, <3>2, <3>3 DEF EntryKind
    <2>2. \A f \in Managed : after.providers[n][f] = cfg.providers[n][f]
      BY <2>1 DEF Differing
    <2>3. after.providers[n]["tuning"] = cfg.providers[n]["tuning"]
      BY <2>1, PlannedProviders DEF Of
    <2>4. cfg.providers[n] \in [ProviderFields -> Values] /\ after.providers[n] \in [ProviderFields -> Values]
      BY <2>1, PlannedProviders, MapsAre DEF Configs
    <2> QED BY <2>1, <2>2, <2>3, <2>4 DEF ProviderFields
  <1>3. ASSUME NEW a \in DOMAIN d.models, diff.models[a].kind = "unchanged"
        PROVE  a \in DOMAIN cfg.models /\ after.models[a] = cfg.models[a]
    <2>1. a \in DOMAIN cfg.models /\ Differing(cfg.models[a], after.models[a], Mapped) = {}
      <3>1. diff = Diff(cfg, after, d)
        OBVIOUS
      <3> HIDE DEF diff, after
      <3>2. a \in DOMAIN cfg.models
        BY <1>3, <3>1, DiffOfModel DEF EntryKind
      <3>3. EntryKind(diff.models[a], cfg.models[a], after.models[a], Mapped)
        BY <1>3, <3>1, <3>2, DiffOfModel
      <3> QED BY <1>3, <3>2, <3>3 DEF EntryKind
    <2>2. \A f \in Mapped : after.models[a][f] = cfg.models[a][f]
      BY <2>1 DEF Differing
    <2>3. after.models[a]["created"] = cfg.models[a]["created"]
      BY <2>1, PlannedModels DEF Of
    <2>4. cfg.models[a] \in [ModelFields -> Values] /\ after.models[a] \in [ModelFields -> Values]
      BY <2>1, PlannedModels, MapsAre DEF Configs
    <2> QED BY <2>1, <2>2, <2>3, <2>4 DEF ModelFields
  <1>4. ASSUME \A e \in diff.gateway : e.kind # "replaced" PROVE after.server = cfg.server
    <2>1. CASE ~d.gateway.set
      BY <2>1, PlannedServer
    <2>2. CASE d.gateway.set
      <3>1. diff.gateway = {GatewayEntry(cfg.server, after.server)}
        BY <2>2 DEF Diff
      <3>2. Differing(cfg.server, after.server, AuthFields) = {}
        BY <1>4, <3>1 DEF GatewayEntry
      <3>3. \A f \in ServerFields : cfg.server[f] = after.server[f]
        BY <3>2, PlannedServer DEF Differing, ServerFields
      <3>4. cfg.server \in [ServerFields -> Values] /\ after.server \in [ServerFields -> Values]
        BY PlannedServer DEF Configs
      <3> QED BY <3>3, <3>4
    <2> QED BY <2>1, <2>2
  <1> QED BY <1>1, <1>2, <1>3, <1>4

\* buildMergeEdits, whatever way the source is written: what is edited says the configuration
\* that is planned, and config.Decode reads that, unless the edits made no TOML or the
\* configuration is refused.
THEOREM EditsSayThePlan ==
  ASSUME NEW src \in Sources, NEW cfg \in Decode(src), NEW d \in Desireds, ValidDesired(d)
  PROVE  LET after == Planned(cfg, d)
             candidate == Edited(src, after, Diff(cfg, after, d)) IN
         Decode(candidate) = IF candidate.decodes /\ Admits(after) THEN {after} ELSE {}
  <1> DEFINE after == Planned(cfg, d)
             diff == Diff(cfg, after, d)
             candidate == Edited(src, after, diff)
  <1>1. /\ cfg = Reading(src) /\ cfg \in Configs /\ OneKey(src.server.entries)
    BY DecodeIs
  <1>2. /\ DOMAIN cfg.providers = DOMAIN src.providers /\ cfg.models = src.models
        /\ cfg.server = Says(src.server.entries, ServerFields)
        /\ \A n \in DOMAIN src.providers : cfg.providers[n] = Says(src.providers[n].entries, ProviderFields)
    BY <1>1 DEF Reading
  <1>3. src.server \in ServerGroups /\ src.providers \in [DOMAIN src.providers -> ProviderGroups]
    BY MapsAre DEF Sources
  <1>4. Says(candidate.server.entries, ServerFields) = after.server /\ OneKey(candidate.server.entries)
    <2>1. CASE \E e \in diff.gateway : e.kind = "replaced"
      <3>1. candidate.server = GatewayEdit(src.server, cfg.server, after.server)
        BY <1>1, <2>1 DEF Edited
      <3>2. d.gateway.set
        BY <2>1 DEF Diff
      <3>3. Exclusive(after.server)
        BY <3>2, <1>1, PlannedServer DEF ValidDesired, ValidGatewayPatch, Exclusive, AuthFields
      <3> HIDE DEF after, candidate, diff
      <3>4. after.server \in [ServerFields -> Values] /\ after.server["settings"] = cfg.server["settings"]
        BY <1>1, PlannedServer DEF after
      <3> QED BY <1>1, <1>2, <1>3, <3>1, <3>3, <3>4, GatewayEditSays
    <2>2. CASE \A e \in diff.gateway : e.kind # "replaced"
      <3>1. candidate.server = src.server
        BY <2>2 DEF Edited
      <3>2. after.server = cfg.server
        BY <1>1, <2>2, UnchangedIsKept
      <3> QED BY <1>1, <1>2, <3>1, <3>2
    <2> QED BY <2>1, <2>2
  <1>5. /\ DOMAIN candidate.providers = DOMAIN after.providers
        /\ \A n \in DOMAIN after.providers :
             candidate.providers[n] =
               IF n \notin DOMAIN src.providers THEN [as |-> "table", entries |-> Rendered(after.providers[n])]
               ELSE IF n \in Replaced(diff.providers)
               THEN ProviderEdit(src.providers[n], after.providers[n], DOMAIN diff.providers[n].fields)
               ELSE src.providers[n]
    BY DEF Edited
  <1>6. after.providers \in [DOMAIN after.providers -> [ProviderFields -> Values]]
    BY <1>1, PlannedProviders, MapsAre
  <1>7. ASSUME NEW n \in DOMAIN after.providers
        PROVE  Says(candidate.providers[n].entries, ProviderFields) = after.providers[n]
    <2>1. CASE n \notin DOMAIN src.providers
      <3>1. candidate.providers[n] = [as |-> "table", entries |-> Rendered(after.providers[n])]
        BY <1>5, <2>1
      <3> HIDE DEF candidate, after
      <3> QED BY <1>6, <3>1, RenderedSays
    <2>2. CASE n \in DOMAIN src.providers /\ n \in Replaced(diff.providers)
      <3>1. n \in DOMAIN d.providers
        BY <1>1, <2>2, UnchangedIsKept DEF Replaced
      <3> DEFINE changed == DOMAIN diff.providers[n].fields
      <3>2. changed = Differing(cfg.providers[n], after.providers[n], Managed)
        BY <1>2, <2>2, <3>1, DiffOfProvider DEF EntryKind
      <3>3. after.providers[n]["tuning"] = cfg.providers[n]["tuning"]
        BY <1>1, <1>2, <2>2, <3>1, PlannedProviders DEF Of
      <3>4. candidate.providers[n] = ProviderEdit(src.providers[n], after.providers[n], changed)
        BY <1>5, <2>2
      <3> HIDE DEF changed, candidate, after, diff
      <3>5. changed \in SUBSET ProviderFields
            /\ \A f \in ProviderFields \ changed : after.providers[n][f] = cfg.providers[n][f]
        BY <3>2, <3>3 DEF Differing, ProviderFields
      <3> QED BY <1>2, <1>3, <1>6, <2>2, <3>4, <3>5, ProviderEditSays
    <2>3. CASE n \in DOMAIN src.providers /\ n \notin Replaced(diff.providers)
      <3>1. candidate.providers[n] = src.providers[n]
        BY <1>5, <2>3
      <3>2. CASE n \notin DOMAIN d.providers
        BY <1>1, <1>2, <2>3, <3>1, <3>2, PlannedProviders
      <3>3. CASE n \in DOMAIN d.providers
        <4>1. diff.providers[n].kind # "replaced"
          BY <1>1, <2>3, <3>3, UnchangedIsKept DEF Replaced
        <4>2. diff.providers[n].kind = "unchanged"
          BY <1>2, <2>3, <3>3, <4>1, DiffOfProvider DEF EntryKind
        <4> QED BY <1>1, <1>2, <2>3, <3>1, <3>3, <4>2, UnchangedIsKept
      <3> QED BY <3>2, <3>3
    <2> QED BY <2>1, <2>2, <2>3
  <1>8. candidate.models = after.models
    <2>1. candidate.models = [a \in DOMAIN after.models |->
                     IF a \in DOMAIN diff.models /\ diff.models[a].kind # "unchanged"
                     THEN after.models[a] ELSE src.models[a]]
      BY DEF Edited
    <2>2. after.models = [a \in DOMAIN after.models |-> after.models[a]]
      BY <1>1, PlannedModels, MapsAre
    <2>3. ASSUME NEW a \in DOMAIN after.models, a \notin DOMAIN diff.models
          PROVE  src.models[a] = after.models[a]
      BY <1>1, <1>2, <2>3, PlannedModels, UnchangedIsKept
    <2>4. ASSUME NEW a \in DOMAIN diff.models, diff.models[a].kind = "unchanged"
          PROVE  src.models[a] = after.models[a]
      BY <1>1, <1>2, <2>4, UnchangedIsKept
    <2> QED BY <2>1, <2>2, <2>3, <2>4
  <1>9. candidate.root = after.root
    BY <1>1 DEF Edited, Planned, Reading
  <1>10. Reading(candidate) = after
    <2>1. after = [server |-> after.server, root |-> after.root, providers |-> after.providers, models |-> after.models]
      BY DEF Planned
    <2>2. [n \in DOMAIN candidate.providers |-> Says(candidate.providers[n].entries, ProviderFields)] = after.providers
      BY <1>5, <1>6, <1>7
    <2> HIDE DEF candidate, after
    <2> QED BY <1>4, <1>8, <1>9, <2>1, <2>2 DEF Reading
  <1> HIDE DEF candidate, after
  <1>11. Decode(candidate) = IF candidate.decodes /\ Admits(after) THEN {after} ELSE {}
    BY <1>4, <1>10 DEF Decode
  <1> QED BY <1>11 DEF candidate, after

\* What is planned is a configuration.
LEMMA PlannedTypes ==
  ASSUME NEW cfg \in Configs, NEW d \in Desireds
  PROVE  Planned(cfg, d) \in Configs
  <1> DEFINE after == Planned(cfg, d)
  <1>1. cfg.root \in Values
    BY DEF Configs
  <1>2. after = [server |-> after.server, root |-> cfg.root, providers |-> after.providers, models |-> after.models]
    BY DEF Planned
  <1>3. after.server \in [ServerFields -> Values]
    BY PlannedServer
  <1>4. after.providers \in Maps(Strings, [ProviderFields -> Values])
    BY PlannedProviders
  <1>5. after.models \in Maps(Strings, [ModelFields -> Values])
    BY PlannedModels
  <1> HIDE DEF after
  <1>6. after \in Configs
    BY <1>1, <1>2, <1>3, <1>4, <1>5 DEF Configs
  <1> QED BY <1>6 DEF after

\* Configurations are the same when their parts are.
LEMMA SameConfigs ==
  ASSUME NEW c \in Configs, NEW e \in Configs, c.server = e.server, c.root = e.root,
         DOMAIN c.providers = DOMAIN e.providers, DOMAIN c.models = DOMAIN e.models,
         \A n \in DOMAIN c.providers : c.providers[n] = e.providers[n],
         \A a \in DOMAIN c.models : c.models[a] = e.models[a]
  PROVE  c = e
  <1>1. /\ c.providers \in [DOMAIN c.providers -> [ProviderFields -> Values]]
        /\ e.providers \in [DOMAIN e.providers -> [ProviderFields -> Values]]
        /\ c.models \in [DOMAIN c.models -> [ModelFields -> Values]]
        /\ e.models \in [DOMAIN e.models -> [ModelFields -> Values]]
    BY MapsAre DEF Configs
  <1>2. c.providers = e.providers
    BY <1>1
  <1>3. c.models = e.models
    BY <1>1
  <1> QED BY <1>2, <1>3 DEF Configs

\* The kinds a diff of two configurations has.
LEMMA KindsAre ==
  ASSUME NEW cfg, NEW after, NEW d, NEW diff, diff = Diff(cfg, after, d)
  PROVE  /\ \A e \in diff.gateway : e.kind \in {"unchanged", "replaced"}
         /\ \A n \in DOMAIN d.providers : diff.providers[n].kind \in {"added", "unchanged", "replaced"}
         /\ \A a \in DOMAIN d.models : diff.models[a].kind \in {"added", "unchanged", "replaced"}
         /\ DOMAIN diff.providers = DOMAIN d.providers /\ DOMAIN diff.models = DOMAIN d.models
  <1>1. \A e \in diff.gateway : e.kind \in {"unchanged", "replaced"}
    BY DEF Diff, GatewayEntry
  <1>2. \A n \in DOMAIN d.providers : diff.providers[n].kind \in {"added", "unchanged", "replaced"}
    BY DiffOfProvider DEF EntryKind
  <1>3. \A a \in DOMAIN d.models : diff.models[a].kind \in {"added", "unchanged", "replaced"}
    BY DiffOfModel DEF EntryKind
  <1> QED BY <1>1, <1>2, <1>3 DEF Diff

\* A diff that alters nothing is that of the configuration there is.
LEMMA UnalteredIsKept ==
  ASSUME NEW cfg \in Configs, NEW d \in Desireds, NEW after, after = Planned(cfg, d),
         NEW diff, diff = Diff(cfg, after, d), ~Alters(diff)
  PROVE  /\ after = cfg
         /\ \A n \in DOMAIN d.providers : diff.providers[n].kind = "unchanged"
         /\ \A a \in DOMAIN d.models : diff.models[a].kind = "unchanged"
         /\ \A e \in diff.gateway : e.kind = "unchanged"
  <1>1. /\ \A n \in DOMAIN d.providers : diff.providers[n].kind = "unchanged"
        /\ \A a \in DOMAIN d.models : diff.models[a].kind = "unchanged"
        /\ \A e \in diff.gateway : e.kind = "unchanged"
    BY KindsAre DEF Alters, Kinds
  <1>2. /\ after.server = cfg.server
        /\ \A n \in DOMAIN d.providers : n \in DOMAIN cfg.providers /\ after.providers[n] = cfg.providers[n]
        /\ \A a \in DOMAIN d.models : a \in DOMAIN cfg.models /\ after.models[a] = cfg.models[a]
    BY <1>1, UnchangedIsKept
  <1>3. DOMAIN after.providers = DOMAIN cfg.providers /\ DOMAIN after.models = DOMAIN cfg.models
    <2>1. DOMAIN after.providers = DOMAIN cfg.providers \cup DOMAIN d.providers
      BY PlannedProviders
    <2>2. DOMAIN after.models = DOMAIN cfg.models \cup DOMAIN d.models
      BY PlannedModels
    <2> QED BY <1>2, <2>1, <2>2
  <1>4. /\ \A n \in DOMAIN after.providers : after.providers[n] = cfg.providers[n]
        /\ \A a \in DOMAIN after.models : after.models[a] = cfg.models[a]
    BY <1>2, <1>3, PlannedProviders, PlannedModels
  <1>5. after.root = cfg.root
    BY DEF Planned
  <1>6. after = cfg
    BY <1>2, <1>3, <1>4, <1>5, PlannedTypes, SameConfigs
  <1> QED BY <1>1, <1>6

\* Where nothing is replaced, nothing collides.
LEMMA NothingCollides ==
  ASSUME NEW diff, Replaced(diff.providers) = {}, Replaced(diff.models) = {}
  PROVE  Collisions(diff) = NoCollisions
  BY DEF Collisions, NoCollisions, FieldsOf

\* A plan for a source that decodes.
LEMMA PlansAre ==
  ASSUME NEW src \in Sources, NEW cfg \in Decode(src), NEW d \in Desireds, NEW p \in PlanMerge({src}, d),
         NEW after, after = Planned(cfg, d), NEW diff, diff = Diff(cfg, after, d)
  PROVE  /\ ValidDesired(d) /\ p.diff = diff /\ p.config = after /\ Decode(p.candidate) = {after}
         /\ p.changed = Alters(diff) /\ p.collisions = Collisions(diff) /\ p.key = SetKeyPlan(cfg, after, d)
         /\ p.changed => SelectedModelsPresent(after.models, DOMAIN d.providers)
  <1>1. ValidDesired(d) /\ p \in PlanExisting(src, cfg, d) /\ Decode(src) = {cfg} /\ cfg \in Configs
    BY DecodeIs DEF PlanMerge
  <1>2. CASE ~Alters(diff)
    <2>1. p = PlanOf(src, cfg, cfg, diff, NoCollisions, d)
      BY <1>1, <1>2 DEF PlanExisting
    <2>2. after = cfg
      BY <1>1, <1>2, UnalteredIsKept
    <2>3. Replaced(diff.providers) = {} /\ Replaced(diff.models) = {}
      BY <1>1, <1>2, UnalteredIsKept, KindsAre DEF Replaced
    <2> QED BY <1>1, <1>2, <2>1, <2>2, <2>3, NothingCollides DEF PlanOf
  <1>3. CASE Alters(diff)
    <2> DEFINE candidate == Edited(src, after, diff)
    <2>1. PICK c \in Decode(candidate) : /\ SelectedModelsPresent(c.models, DOMAIN d.providers)
                                         /\ p = PlanOf(candidate, cfg, c, diff, Collisions(diff), d)
      BY <1>1, <1>3 DEF PlanExisting
    <2>2. Decode(candidate) = IF candidate.decodes /\ Admits(after) THEN {after} ELSE {}
      BY <1>1, EditsSayThePlan
    <2> HIDE DEF candidate
    <2>3. c = after /\ Decode(candidate) = {after}
      BY <2>1, <2>2
    <2> QED BY <1>1, <1>3, <2>1, <2>3 DEF PlanOf
  <1> QED BY <1>2, <1>3

\* PlanMerge replaces no provider and no model that --replace-provider or --replace-model did
\* not name, takes none away, and leaves the rest of the configuration as it was.
THEOREM ReplacesOnlyTheAllowed ==
  ASSUME NEW src \in Sources, NEW cfg \in Decode(src), NEW d \in Desireds, NEW p \in PlanMerge({src}, d),
         ~HasUnauthorizedCollision(p.collisions, d)
  PROVE  /\ Decode(p.candidate) = {p.config}
         /\ p.config.root = cfg.root /\ p.config.server["settings"] = cfg.server["settings"]
         /\ ~d.gateway.set => p.config.server = cfg.server
         /\ \A n \in DOMAIN cfg.providers :
              /\ n \in DOMAIN p.config.providers
              /\ p.config.providers[n]["tuning"] = cfg.providers[n]["tuning"]
              /\ n \notin d.replaceProviders => p.config.providers[n] = cfg.providers[n]
         /\ \A a \in DOMAIN cfg.models :
              /\ a \in DOMAIN p.config.models
              /\ p.config.models[a]["created"] = cfg.models[a]["created"]
              /\ a \notin d.replaceModels => p.config.models[a] = cfg.models[a]
  <1> DEFINE after == Planned(cfg, d)
             diff == Diff(cfg, after, d)
  <1>1. /\ p.config = after /\ Decode(p.candidate) = {after} /\ p.collisions = Collisions(diff) /\ cfg \in Configs
    BY PlansAre, DecodeIs
  <1>2. Replaced(diff.providers) \subseteq d.replaceProviders /\ Replaced(diff.models) \subseteq d.replaceModels
    BY <1>1 DEF HasUnauthorizedCollision, Collisions, FieldsOf
  <1>3. ASSUME NEW n \in DOMAIN cfg.providers
        PROVE  /\ n \in DOMAIN after.providers
               /\ after.providers[n]["tuning"] = cfg.providers[n]["tuning"]
               /\ n \notin d.replaceProviders => after.providers[n] = cfg.providers[n]
    <2>1. CASE n \notin DOMAIN d.providers
      BY <1>1, <2>1, PlannedProviders
    <2>2. CASE n \in DOMAIN d.providers
      <3>1. n \in DOMAIN after.providers /\ after.providers[n]["tuning"] = cfg.providers[n]["tuning"]
        BY <1>1, <2>2, PlannedProviders DEF Of
      <3>2. ASSUME n \notin d.replaceProviders PROVE diff.providers[n].kind = "unchanged"
        <4>1. diff.providers[n].kind # "replaced"
          BY <1>1, <1>2, <2>2, <3>2, UnchangedIsKept DEF Replaced
        <4>2. diff = Diff(cfg, after, d)
          OBVIOUS
        <4> HIDE DEF diff, after
        <4> QED BY <1>3, <2>2, <4>1, <4>2, DiffOfProvider DEF EntryKind
      <3> QED BY <1>1, <2>2, <3>1, <3>2, UnchangedIsKept
    <2> QED BY <2>1, <2>2
  <1>4. ASSUME NEW a \in DOMAIN cfg.models
        PROVE  /\ a \in DOMAIN after.models
               /\ after.models[a]["created"] = cfg.models[a]["created"]
               /\ a \notin d.replaceModels => after.models[a] = cfg.models[a]
    <2>1. CASE a \notin DOMAIN d.models
      BY <1>1, <2>1, PlannedModels
    <2>2. CASE a \in DOMAIN d.models
      <3>1. a \in DOMAIN after.models /\ after.models[a]["created"] = cfg.models[a]["created"]
        BY <1>1, <2>2, PlannedModels DEF Of
      <3>2. ASSUME a \notin d.replaceModels PROVE diff.models[a].kind = "unchanged"
        <4>1. diff.models[a].kind # "replaced"
          BY <1>1, <1>2, <2>2, <3>2, UnchangedIsKept DEF Replaced
        <4>2. diff = Diff(cfg, after, d)
          OBVIOUS
        <4> HIDE DEF diff, after
        <4> QED BY <1>4, <2>2, <4>1, <4>2, DiffOfModel DEF EntryKind
      <3> QED BY <1>1, <2>2, <3>1, <3>2, UnchangedIsKept
    <2> QED BY <2>1, <2>2
  <1>5. /\ after.server["settings"] = cfg.server["settings"] /\ after.root = cfg.root
        /\ ~d.gateway.set => after.server = cfg.server
    BY <1>1, PlannedServer DEF Planned
  <1> HIDE DEF after
  <1> QED BY <1>1, <1>3, <1>4, <1>5

\* To plan the same again changes nothing.
LEMMA PlannedTwice ==
  ASSUME NEW cfg \in Configs, NEW d \in Desireds, NEW after, after = Planned(cfg, d)
  PROVE  Planned(after, d) = after
  <1> DEFINE again == Planned(after, d)
  <1>1. after \in Configs /\ again \in Configs
    BY PlannedTypes
  <1>2. /\ DOMAIN d.providers \subseteq DOMAIN after.providers
        /\ \A n \in DOMAIN d.providers : \A f \in Managed : after.providers[n][f] = d.providers[n][f]
    BY PlannedProviders
  <1>3. /\ DOMAIN d.models \subseteq DOMAIN after.models
        /\ \A a \in DOMAIN d.models : \A f \in Mapped : after.models[a][f] = d.models[a][f]
    BY PlannedModels
  <1>4. /\ d.gateway.set => \A f \in AuthFields : after.server[f] = d.gateway[f]
        /\ after.server \in [ServerFields -> Values]
    BY PlannedServer
  <1> HIDE DEF again
  <1>5. /\ DOMAIN again.providers = DOMAIN after.providers \cup DOMAIN d.providers
        /\ \A n \in DOMAIN d.providers :
             /\ \A f \in Managed : again.providers[n][f] = d.providers[n][f]
             /\ again.providers[n]["tuning"] = Of(after.providers, n, NoProvider)["tuning"]
        /\ \A n \in DOMAIN after.providers \ DOMAIN d.providers : again.providers[n] = after.providers[n]
        /\ again.providers \in [DOMAIN again.providers -> [ProviderFields -> Values]]
        /\ after.providers \in [DOMAIN after.providers -> [ProviderFields -> Values]]
    BY <1>1, PlannedProviders, MapsAre DEF again, Configs
  <1>6. /\ DOMAIN again.models = DOMAIN after.models \cup DOMAIN d.models
        /\ \A a \in DOMAIN d.models :
             /\ \A f \in Mapped : again.models[a][f] = d.models[a][f]
             /\ again.models[a]["created"] = Of(after.models, a, NoModel)["created"]
        /\ \A a \in DOMAIN after.models \ DOMAIN d.models : again.models[a] = after.models[a]
        /\ again.models \in [DOMAIN again.models -> [ModelFields -> Values]]
        /\ after.models \in [DOMAIN after.models -> [ModelFields -> Values]]
    BY <1>1, PlannedModels, MapsAre DEF again, Configs
  <1>7. DOMAIN again.providers = DOMAIN after.providers /\ DOMAIN again.models = DOMAIN after.models
    BY <1>2, <1>3, <1>5, <1>6
  <1>8. ASSUME NEW n \in DOMAIN after.providers PROVE again.providers[n] = after.providers[n]
    <2>1. CASE n \in DOMAIN d.providers
      <3>1. \A f \in Managed : again.providers[n][f] = after.providers[n][f]
        BY <1>2, <1>5, <2>1
      <3>2. again.providers[n]["tuning"] = after.providers[n]["tuning"]
        BY <1>5, <1>8, <2>1 DEF Of
      <3>3. again.providers[n] \in [ProviderFields -> Values] /\ after.providers[n] \in [ProviderFields -> Values]
        BY <1>5, <1>7, <1>8
      <3> QED BY <3>1, <3>2, <3>3 DEF ProviderFields
    <2> QED BY <1>5, <1>8, <2>1
  <1>9. ASSUME NEW a \in DOMAIN after.models PROVE again.models[a] = after.models[a]
    <2>1. CASE a \in DOMAIN d.models
      <3>1. \A f \in Mapped : again.models[a][f] = after.models[a][f]
        BY <1>3, <1>6, <2>1
      <3>2. again.models[a]["created"] = after.models[a]["created"]
        BY <1>6, <1>9, <2>1 DEF Of
      <3>3. again.models[a] \in [ModelFields -> Values] /\ after.models[a] \in [ModelFields -> Values]
        BY <1>6, <1>7, <1>9
      <3> QED BY <3>1, <3>2, <3>3 DEF ModelFields
    <2> QED BY <1>6, <1>9, <2>1
  <1>10. again.server = after.server
    <2>1. /\ again.server \in [ServerFields -> Values] /\ again.server["settings"] = after.server["settings"]
          /\ d.gateway.set => \A f \in AuthFields : again.server[f] = d.gateway[f]
          /\ ~d.gateway.set => again.server = after.server
      BY <1>1, PlannedServer DEF again
    <2>2. CASE d.gateway.set
      <3>1. \A f \in ServerFields : again.server[f] = after.server[f]
        BY <1>4, <2>1, <2>2 DEF ServerFields
      <3> QED BY <1>4, <2>1, <3>1
    <2> QED BY <2>1, <2>2
  <1>11. again.root = after.root
    BY DEF again, Planned
  <1>12. again = after
    BY <1>1, <1>7, <1>8, <1>9, <1>10, <1>11, SameConfigs
  <1> QED BY <1>12 DEF again

\* A configuration beside itself is unchanged.
LEMMA NothingDiffers ==
  ASSUME NEW after \in Configs, NEW d \in Desireds, NEW diff, diff = Diff(after, after, d),
         DOMAIN d.providers \subseteq DOMAIN after.providers, DOMAIN d.models \subseteq DOMAIN after.models
  PROVE  ~Alters(diff)
  <1>1. ASSUME NEW n \in DOMAIN d.providers PROVE diff.providers[n].kind = "unchanged"
    <2>1. Differing(after.providers[n], after.providers[n], Managed) = {}
      BY DEF Differing
    <2> QED BY <2>1, DiffOfProvider DEF EntryKind
  <1>2. ASSUME NEW a \in DOMAIN d.models PROVE diff.models[a].kind = "unchanged"
    <2>1. Differing(after.models[a], after.models[a], Mapped) = {}
      BY DEF Differing
    <2> QED BY <2>1, DiffOfModel DEF EntryKind
  <1>3. ASSUME NEW e \in diff.gateway PROVE e.kind = "unchanged"
    <2>1. Differing(after.server, after.server, AuthFields) = {}
      BY DEF Differing
    <2>2. e = GatewayEntry(after.server, after.server)
      BY DEF Diff
    <2> QED BY <2>1, <2>2 DEF GatewayEntry
  <1> QED BY <1>1, <1>2, <1>3, KindsAre DEF Alters, Kinds

\* What the first file says.
LEMMA FirstSays ==
  ASSUME NEW d \in Desireds, ValidDesired(d), NEW after, after = Planned(NoConfig(d.root), d)
  PROVE  /\ NoConfig(d.root) \in Configs /\ after \in Configs
         /\ Exclusive(after.server) /\ after.server["settings"] = Unsaid
         /\ Reading(Fresh(after)) = after
  <1>1. /\ NoConfig(d.root).server = [f \in ServerFields |-> Unsaid] /\ NoConfig(d.root).root = d.root
        /\ NoConfig(d.root).providers = [n \in {} |-> NoProvider] /\ NoConfig(d.root).models = [a \in {} |-> NoModel]
    BY DEF NoConfig
  <1>2. NoConfig(d.root) \in Configs
    <2>1. Unsaid \in Values /\ d.root \in Values
      BY DEF Unsaid, Values, Desireds
    <2>2. [f \in ServerFields |-> Unsaid] \in [ServerFields -> Values]
      BY <2>1
    <2>3. [n \in {} |-> NoProvider] \in Maps(Strings, [ProviderFields -> Values])
      BY MapsAre
    <2>4. [a \in {} |-> NoModel] \in Maps(Strings, [ModelFields -> Values])
      BY MapsAre
    <2> QED BY <2>1, <2>2, <2>3, <2>4 DEF NoConfig, Configs
  <1>3. after \in Configs
    BY <1>2, PlannedTypes
  <1>4. /\ after.server["settings"] = Unsaid /\ after.server \in [ServerFields -> Values]
        /\ d.gateway.set => \A f \in AuthFields : after.server[f] = d.gateway[f]
        /\ ~d.gateway.set => after.server = [f \in ServerFields |-> Unsaid]
    <2>1. "settings" \in ServerFields
      BY DEF ServerFields
    <2> QED BY <1>1, <1>2, <2>1, PlannedServer
  <1>5. Exclusive(after.server)
    BY <1>4 DEF ValidDesired, ValidGatewayPatch, Exclusive, AuthFields, ServerFields
  <1> DEFINE src == Fresh(after)
             comes == SourceField(after.server)
  <1>6. /\ src.server.entries = [f \in comes |-> after.server[f]]
        /\ src.root = after.root /\ src.models = after.models /\ DOMAIN src.providers = DOMAIN after.providers
        /\ \A n \in DOMAIN after.providers : src.providers[n].entries = Rendered(after.providers[n])
    BY DEF Fresh
  <1>7. \A f \in AuthFields : f \notin comes => after.server[f] = Unsaid
    BY <1>5 DEF SourceField, Exclusive, AuthFields
  <1>8. after.providers \in [DOMAIN after.providers -> [ProviderFields -> Values]]
    BY <1>3, MapsAre DEF Configs
  <1> HIDE DEF src, comes
  <1>9. Says(src.server.entries, ServerFields) = after.server
    <2>1. \A f \in ServerFields : Says(src.server.entries, ServerFields)[f] = after.server[f]
      BY <1>4, <1>6, <1>7 DEF Says, ServerFields
    <2>2. Says(src.server.entries, ServerFields) = [f \in ServerFields |-> Says(src.server.entries, ServerFields)[f]]
      BY DEF Says
    <2> QED BY <1>4, <2>1, <2>2
  <1>10. [n \in DOMAIN src.providers |-> Says(src.providers[n].entries, ProviderFields)] = after.providers
    <2>1. ASSUME NEW n \in DOMAIN after.providers
          PROVE  Says(src.providers[n].entries, ProviderFields) = after.providers[n]
      BY <1>6, <1>8, RenderedSays
    <2> QED BY <1>6, <1>8, <2>1
  <1>11. after = [server |-> after.server, root |-> after.root, providers |-> after.providers, models |-> after.models]
    BY DEF Planned
  <1>12. Reading(src) = after
    BY <1>6, <1>9, <1>10, <1>11 DEF Reading
  <1> QED BY <1>2, <1>3, <1>4, <1>5, <1>12 DEF src

\* A plan for no source.
LEMMA FirstPlansAre ==
  ASSUME NEW d \in Desireds, NEW p \in PlanMerge({}, d), NEW after, after = Planned(NoConfig(d.root), d)
  PROVE  /\ ValidDesired(d) /\ d.gateway.set /\ p.diff = FreshDiff(after, d)
         /\ p.config = after /\ Decode(p.candidate) = {after}
         /\ p.changed = Alters(p.diff) /\ p.collisions = NoCollisions
         /\ p.key = SetKeyPlan(NoConfig(d.root), after, d)
         /\ SelectedModelsPresent(after.models, DOMAIN d.providers)
  <1> DEFINE old == NoConfig(d.root)
             src == Fresh(after)
             diff == FreshDiff(after, d)
  <1>1. ValidDesired(d) /\ p \in PlanFresh(d)
    BY DEF PlanMerge
  <1>2. PICK c \in Decode(src) : /\ d.gateway.set /\ SelectedModelsPresent(c.models, DOMAIN d.providers)
                                 /\ p = PlanOf(src, old, c, diff, NoCollisions, d)
    BY <1>1 DEF PlanFresh
  <1>3. Reading(src) = after
    BY <1>1, FirstSays
  <1> HIDE DEF src, diff, old
  <1>4. c = after /\ Decode(src) = {after}
    BY <1>2, <1>3 DEF Decode
  <1>5. /\ p.candidate = src /\ p.config = after /\ p.diff = diff /\ p.collisions = NoCollisions
        /\ p.changed = Alters(diff) /\ p.key = SetKeyPlan(old, after, d)
    BY <1>2, <1>4 DEF PlanOf
  <1> QED BY <1>1, <1>2, <1>4, <1>5 DEF old, diff

\* The files there may be: none, or one.
Present == {{}} \cup {{src} : src \in Sources}

\* What every plan has: the configuration it plans is what its candidate decodes to.
LEMMA PlansHave ==
  ASSUME NEW sources \in Present, NEW d \in Desireds, NEW p \in PlanMerge(sources, d)
  PROVE  /\ ValidDesired(d) /\ Decode(p.candidate) = {p.config}
         /\ \E cfg \in Configs : p.config = Planned(cfg, d)
  <1>1. CASE sources = {}
    BY <1>1, FirstPlansAre, FirstSays
  <1>2. CASE \E src \in Sources : sources = {src}
    <2>1. PICK src \in Sources : sources = {src}
      BY <1>2
    <2>2. PICK cfg \in Decode(src) : TRUE
      BY <2>1 DEF PlanMerge
    <2> QED BY <2>1, <2>2, PlansAre, DecodeIs
  <1> QED BY <1>1, <1>2 DEF Present

\* PlanMerge of what PlanMerge planned plans no change at all: to run init again writes
\* nothing, collides with nothing and makes no key.
THEOREM PlanningSettles ==
  ASSUME NEW sources \in Present, NEW d \in Desireds, NEW p \in PlanMerge(sources, d)
  PROVE  /\ PlanMerge({p.candidate}, d) # {}
         /\ \A q \in PlanMerge({p.candidate}, d) :
              /\ ~q.changed /\ q.candidate = p.candidate /\ q.config = p.config
              /\ q.collisions = NoCollisions /\ q.key.action # "ensure"
  <1>1. PICK cfg \in Configs : p.config = Planned(cfg, d)
    BY PlansHave
  <1> DEFINE after == Planned(cfg, d)
             again == Diff(after, after, d)
             plan == PlanOf(p.candidate, after, after, again, NoCollisions, d)
  <1>2. ValidDesired(d) /\ p.config = after /\ Decode(p.candidate) = {after} /\ cfg \in Configs
    BY <1>1, PlansHave
  <1>3. Planned(after, d) = after /\ after \in Configs
    BY <1>2, PlannedTwice, PlannedTypes
  <1>4. DOMAIN d.providers \subseteq DOMAIN after.providers
    BY <1>2, PlannedProviders
  <1>5. DOMAIN d.models \subseteq DOMAIN after.models
    BY <1>2, PlannedModels
  <1>6. ~Alters(again)
    BY <1>3, <1>4, <1>5, NothingDiffers
  <1> HIDE DEF after
  <1>7. PlanExisting(p.candidate, after, d) = {plan}
    BY <1>3, <1>6 DEF PlanExisting
  <1>8. PlanMerge({p.candidate}, d) = {plan}
    <2>1. UNION {PlanExisting(p.candidate, c, d) : c \in {after}} = {plan}
      BY <1>7
    <2> HIDE DEF plan
    <2> QED BY <1>2, <2>1 DEF PlanMerge
  <1>9. SetKeyPlan(after, after, d).action # "ensure"
    BY DEF SetKeyPlan, NoKeyPlan, KeyPlan
  <1>10. /\ plan.changed = Alters(again) /\ plan.candidate = p.candidate /\ plan.config = after
        /\ plan.collisions = NoCollisions /\ plan.key = SetKeyPlan(after, after, d)
    BY DEF PlanOf
  <1> HIDE DEF plan, again
  <1> QED BY <1>2, <1>6, <1>8, <1>9, <1>10

\* The credentials are strings.
LEMMA CredentialsAreStrings ==
  /\ {"ANTHROPIC_API_KEY", "GEMINI_API_KEY", "GOOGLE_API_KEY", "GOOGLE_APPLICATION_CREDENTIALS",
      "GOOGLE_CLOUD_PROJECT", "GOOGLE_CLOUD_LOCATION"} \subseteq Strings
  <1>1. Credentials["claude"] \subseteq EnvironmentNames /\ Credentials["gemini"] \subseteq EnvironmentNames
    BY NamesAssumption DEF Known, Credentials
  <1>2. EnvironmentNames \subseteq Strings
    BY MergeAssumption
  <1> QED BY <1>1, <1>2 DEF Credentials

\* The credentials an authentication names.
LEMMA ProfilesAre ==
  ASSUME NEW n \in Known, NEW a \in AuthIDs[n]
  PROVE  CredentialEnvironment[a] \in Values
  <1>1. a \in UNION {AuthIDs[m] : m \in Known}
    OBVIOUS
  <1>2. a \in {"config-home", "anthropic-api-key", "gemini-api-key", "google-api-key", "vertex-service-account"}
    BY DEF AuthIDs, Known, Credentials
  <1>3. CASE a = "config-home"
    <2>1. CredentialEnvironment[a] = Unsaid
      BY <1>1, <1>3 DEF CredentialEnvironment
    <2> QED BY <2>1 DEF Unsaid, Values
  <1>4. CASE a = "anthropic-api-key"
    <2>1. CredentialEnvironment[a] = <<"ANTHROPIC_API_KEY">>
      BY <1>1, <1>4 DEF CredentialEnvironment
    <2> QED BY <2>1, CredentialsAreStrings DEF Values
  <1>5. CASE a = "gemini-api-key"
    <2>1. CredentialEnvironment[a] = <<"GEMINI_API_KEY">>
      BY <1>1, <1>5 DEF CredentialEnvironment
    <2> QED BY <2>1, CredentialsAreStrings DEF Values
  <1>6. CASE a = "google-api-key"
    <2>1. CredentialEnvironment[a] = <<"GOOGLE_API_KEY">>
      BY <1>1, <1>6 DEF CredentialEnvironment
    <2> QED BY <2>1, CredentialsAreStrings DEF Values
  <1>7. CASE a = "vertex-service-account"
    <2>1. CredentialEnvironment[a] = <<"GOOGLE_APPLICATION_CREDENTIALS", "GOOGLE_CLOUD_PROJECT", "GOOGLE_CLOUD_LOCATION">>
      BY <1>1, <1>7 DEF CredentialEnvironment
    <2> QED BY <2>1, CredentialsAreStrings DEF Values
  <1> QED BY <1>2, <1>3, <1>4, <1>5, <1>6, <1>7

\* A provider that is resolved has every managed field.
LEMMA PatchesAre ==
  ASSUME NEW n \in Known, NEW i \in [executable : Values, entrypoint : Values, config_home : Values, auth : STRING],
         i.auth \in {"unset"} \cup AuthIDs[n], NEW old \in SUBSET [ProviderFields -> Values]
  PROVE  Patches(n, i, old) \subseteq [Managed -> Values]
  <1>1. \A c \in Commands(i, old) : c.executable \in Values /\ c.prefix_args \in Values
    <2>1. CASE i.executable = Unsaid
      BY <2>1 DEF Commands, ProviderFields, Managed
    <2>2. CASE i.executable # Unsaid
      <3>1. \A c \in Commands(i, old) : c = [executable |-> i.executable, prefix_args |-> i.entrypoint]
        BY <2>2 DEF Commands
      <3> QED BY <3>1
    <2> QED BY <2>1, <2>2
  <1>2. \A h \in Homes(i, old) : h \in Values
    BY DEF Homes, ProviderFields, Managed
  <1>3. \A e \in Profiles(n, i, old) : e \in Values
    <2>1. Unsaid \in Values
      BY DEF Unsaid, Values
    <2>2. \A p \in old : p.credential_env \in Values
      BY DEF ProviderFields, Managed
    <2>3. i.auth # "unset" => CredentialEnvironment[i.auth] \in Values
      BY ProfilesAre
    <2> QED BY <2>1, <2>2, <2>3 DEF Profiles
  <1>4. ASSUME NEW c \in Commands(i, old), NEW h \in Homes(i, old), NEW e \in Profiles(n, i, old)
        PROVE  [executable |-> c.executable, prefix_args |-> c.prefix_args, config_home |-> h, credential_env |-> e]
                 \in [Managed -> Values]
    BY <1>1, <1>2, <1>3 DEF Managed
  <1> QED BY <1>4 DEF Patches

\* The gateway's patch has its fields.
LEMMA GatewayPatchIs ==
  ASSUME NEW g \in [auth : STRING, key_file : Values, key_env : Values], ValidGatewayInput(g),
         NEW servers \in SUBSET [ServerFields -> Values], NEW defaultKey \in Values
  PROVE  GatewayPatch(g, servers, defaultKey)
           \in [set : BOOLEAN, api_key_file : Values, api_key_env : Values, explicit : BOOLEAN]
  <1> DEFINE kept == UNION {{s.api_key_file} : s \in servers} \ {Unsaid}
             path == IF g.key_file # Unsaid THEN g.key_file
                     ELSE IF kept # {} THEN CHOOSE k \in kept : TRUE ELSE defaultKey
             r == GatewayPatch(g, servers, defaultKey)
  <1>1. Unsaid \in Values
    BY DEF Unsaid, Values
  <1>2. kept \subseteq Values
    BY DEF ServerFields, AuthFields
  <1> HIDE DEF kept
  <1>3. path \in Values
    BY <1>2
  <1> HIDE DEF path
  <1>4. g.auth \in {"unset", "none", "file", "environment"}
    BY DEF ValidGatewayInput
  <1>5. CASE g.auth = "unset" /\ servers # {}
    <2>1. r = NoPatch
      BY <1>5 DEF GatewayPatch
    <2> QED BY <1>1, <2>1 DEF NoPatch
  <1>6. CASE g.auth = "unset" /\ servers = {}
    <2>1. r = [NoPatch EXCEPT !.set = TRUE, !.api_key_file = defaultKey]
      BY <1>6 DEF GatewayPatch
    <2> QED BY <1>1, <2>1 DEF NoPatch
  <1>7. CASE g.auth = "file"
    <2>1. r = [NoPatch EXCEPT !.set = TRUE, !.api_key_file = path, !.explicit = g.key_file # Unsaid]
      BY <1>7 DEF GatewayPatch, path, kept
    <2> QED BY <1>1, <1>3, <2>1 DEF NoPatch
  <1>8. CASE g.auth = "environment"
    <2>1. r = [NoPatch EXCEPT !.set = TRUE, !.api_key_env = g.key_env]
      BY <1>8 DEF GatewayPatch
    <2> QED BY <1>1, <2>1 DEF NoPatch
  <1>9. CASE g.auth = "none"
    <2>1. r = [NoPatch EXCEPT !.set = TRUE]
      BY <1>9 DEF GatewayPatch
    <2> QED BY <1>1, <2>1 DEF NoPatch
  <1> QED BY <1>4, <1>5, <1>6, <1>7, <1>8, <1>9

\* What ResolveNonInteractive resolves is a desired state, valid, and leaves no selected
\* provider without a model.
LEMMA ResolvedAre ==
  ASSUME NEW o \in Options, NEW configs \in SUBSET Configs, NEW root \in Values, NEW defaultKey \in Values,
         NEW d \in Resolve(o, configs, root, defaultKey)
  PROVE  /\ d \in Desireds
         /\ \A c \in configs : SelectedModelsPresent(Planned(c, d).models, DOMAIN d.providers)
  <1> DEFINE Old(n) == {c.providers[n] : c \in {c \in configs : n \in DOMAIN c.providers}}
             patches == [n \in DOMAIN o.providers |-> Patches(n, o.providers[n], Old(n))]
             Projected(c) == [a \in DOMAIN c.models |-> [f \in Mapped |-> c.models[a][f]]]
             models == UNION {{Projected(c)} : c \in configs}
             patch == GatewayPatch(o.gateway, {c.server : c \in configs}, defaultKey)
             chosen == [n \in DOMAIN o.providers |-> CHOOSE p \in patches[n] : TRUE]
  <1>1. /\ ValidOptions(o) /\ \A n \in DOMAIN o.providers : patches[n] # {}
        /\ \A m \in models : SelectedModelsPresent(Remapped(m, o.models), DOMAIN o.providers)
        /\ d = [root |-> root, models |-> o.models, providers |-> chosen, gateway |-> patch,
                replaceProviders |-> o.replaceProviders, replaceModels |-> o.replaceModels]
    BY DEF Resolve
  <1>2. /\ o.providers \in [DOMAIN o.providers -> [executable : Values, entrypoint : Values, config_home : Values, auth : STRING]]
        /\ DOMAIN o.providers \subseteq Strings /\ o.models \in Maps(Strings, [Mapped -> Values])
        /\ o.replaceProviders \subseteq Strings /\ o.replaceModels \subseteq Strings
        /\ o.gateway \in [auth : STRING, key_file : Values, key_env : Values]
    <2> DEFINE Inputs == [executable : Values, entrypoint : Values, config_home : Values, auth : STRING]
    <2>1. /\ o.providers \in Maps(Strings, Inputs) /\ o.models \in Maps(Strings, [Mapped -> Values])
          /\ o.replaceProviders \subseteq Strings /\ o.replaceModels \subseteq Strings
          /\ o.gateway \in [auth : STRING, key_file : Values, key_env : Values]
      BY DEF Options
    <2> HIDE DEF Inputs
    <2>2. o.providers \in [DOMAIN o.providers -> Inputs] /\ DOMAIN o.providers \subseteq Strings
      BY <2>1, MapsAre
    <2> QED BY <2>1, <2>2 DEF Inputs
  <1>3. ASSUME NEW n \in DOMAIN o.providers PROVE chosen[n] \in [Managed -> Values]
    <2>1. Old(n) \in SUBSET [ProviderFields -> Values]
      BY MapsAre DEF Configs
    <2>2. n \in Known /\ o.providers[n].auth \in {"unset"} \cup AuthIDs[n]
      BY <1>1 DEF ValidOptions
    <2>3. patches[n] = Patches(n, o.providers[n], Old(n))
      OBVIOUS
    <2>4. chosen[n] = CHOOSE p \in patches[n] : TRUE
      OBVIOUS
    <2>5. o.providers[n] \in [executable : Values, entrypoint : Values, config_home : Values, auth : STRING]
      BY <1>2
    <2> HIDE DEF Old, chosen
    <2>6. patches[n] \subseteq [Managed -> Values]
      BY <2>1, <2>2, <2>3, <2>5, PatchesAre
    <2>7. patches[n] # {}
      BY <1>1
    <2> HIDE DEF patches
    <2> QED BY <2>4, <2>6, <2>7
  <1>4. chosen \in Maps(Strings, [Managed -> Values])
    <2> HIDE DEF patches
    <2>1. DOMAIN chosen = DOMAIN o.providers /\ chosen = [n \in DOMAIN chosen |-> chosen[n]]
      OBVIOUS
    <2> HIDE DEF chosen
    <2> QED BY <1>2, <1>3, <2>1, MapsAre
  <1>5. patch \in [set : BOOLEAN, api_key_file : Values, api_key_env : Values, explicit : BOOLEAN]
    <2>1. {c.server : c \in configs} \in SUBSET [ServerFields -> Values]
      BY DEF Configs
    <2>2. ValidGatewayInput(o.gateway)
      BY <1>1 DEF ValidOptions
    <2> QED BY <1>2, <2>1, <2>2, GatewayPatchIs
  <1>6. d \in Desireds
    <2> HIDE DEF chosen, patch
    <2> QED BY <1>1, <1>2, <1>4, <1>5 DEF Desireds
  <1>7. ASSUME NEW c \in configs
        PROVE  SelectedModelsPresent(Planned(c, d).models, DOMAIN d.providers)
    <2> DEFINE now == Planned(c, d).models
               then == Remapped(Projected(c), o.models)
    <2>1. SelectedModelsPresent(then, DOMAIN d.providers)
      <3>1. Projected(c) \in models
        OBVIOUS
      <3>2. DOMAIN d.providers = DOMAIN o.providers
        BY <1>1
      <3> HIDE DEF Projected, models, patches, chosen, patch
      <3> QED BY <1>1, <3>1, <3>2
    <2>2. d.models = o.models /\ c \in Configs
      BY <1>1
    <2>3. DOMAIN then = DOMAIN c.models \cup DOMAIN d.models /\ DOMAIN now = DOMAIN c.models \cup DOMAIN d.models
      BY <1>6, <2>2, PlannedModels DEF Remapped
    <2>4. ASSUME NEW a \in DOMAIN then PROVE now[a].provider = then[a].provider
      <3>1. CASE a \in DOMAIN d.models
        <4>1. then[a] = d.models[a]
          BY <2>2, <2>3, <3>1 DEF Remapped
        <4>2. now[a].provider = d.models[a].provider
          BY <1>6, <2>2, <3>1, PlannedModels DEF Mapped
        <4> QED BY <4>1, <4>2
      <3>2. CASE a \notin DOMAIN d.models
        <4>1. a \in DOMAIN c.models
          BY <2>3, <3>2
        <4>2. then[a] = [f \in Mapped |-> c.models[a][f]]
          BY <2>2, <2>3, <3>2, <4>1 DEF Remapped
        <4>3. now[a] = c.models[a]
          BY <1>6, <2>2, <3>2, <4>1, PlannedModels
        <4> QED BY <4>2, <4>3 DEF Mapped
      <3> QED BY <3>1, <3>2
    <2> HIDE DEF now, then
    <2>5. SelectedModelsPresent(now, DOMAIN d.providers)
      BY <2>1, <2>3, <2>4 DEF SelectedModelsPresent
    <2> QED BY <2>5 DEF now
  <1> QED BY <1>6, <1>7

\* What is asked for is what is planned.
LEMMA AskedIsPlanned ==
  ASSUME NEW cfg \in Configs, NEW d \in Desireds, NEW after, after = Planned(cfg, d)
  PROVE  /\ DesiredMatches(d, after)
         /\ DOMAIN d.providers \subseteq DOMAIN after.providers /\ DOMAIN d.models \subseteq DOMAIN after.models
  <1>1. d.gateway.set => \A f \in AuthFields : after.server[f] = d.gateway[f]
    BY PlannedServer
  <1>2. \A n \in DOMAIN d.providers : n \in DOMAIN after.providers /\ \A f \in Managed : after.providers[n][f] = d.providers[n][f]
    BY PlannedProviders
  <1>3. \A a \in DOMAIN d.models : a \in DOMAIN after.models /\ \A f \in Mapped : after.models[a][f] = d.models[a][f]
    BY PlannedModels
  <1> QED BY <1>1, <1>2, <1>3 DEF DesiredMatches

\* The gateway's part of a diff.
LEMMA DiffOfGateway ==
  ASSUME NEW cfg, NEW after, NEW d, NEW diff, diff = Diff(cfg, after, d), NEW e \in diff.gateway
  PROVE  /\ d.gateway.set
         /\ DOMAIN e.fields = {"mode"} \cup Differing(cfg.server, after.server, AuthFields)
         /\ EntryKind(e, cfg.server, after.server, AuthFields)
         /\ e.fields["mode"].before = Mode(cfg.server) /\ e.fields["mode"].after = Mode(after.server)
         /\ \A f \in AuthFields \cap DOMAIN e.fields :
              e.fields[f].before = cfg.server[f] /\ e.fields[f].after = after.server[f]
  <1> DEFINE keys == Differing(cfg.server, after.server, AuthFields)
  <1>1. d.gateway.set /\ e = GatewayEntry(cfg.server, after.server)
    BY DEF Diff
  <1>2. e = [kind |-> IF keys = {} THEN "unchanged" ELSE "replaced",
             fields |-> [f \in {"mode"} \cup keys |->
                           IF f = "mode" THEN Change(Mode(cfg.server), Mode(after.server))
                           ELSE Change(cfg.server[f], after.server[f])]]
    BY <1>1 DEF GatewayEntry, ModeAndKeys
  <1>3. "mode" \notin AuthFields
    BY DEF AuthFields
  <1> HIDE DEF keys
  <1>4. e.kind = (IF keys = {} THEN "unchanged" ELSE "replaced")
    BY <1>2
  <1>5. e.fields = [f \in {"mode"} \cup keys |->
                      IF f = "mode" THEN Change(Mode(cfg.server), Mode(after.server))
                      ELSE Change(cfg.server[f], after.server[f])]
    BY <1>2
  <1>6. /\ e.kind = "unchanged" => keys = {}
        /\ e.kind = "replaced" => keys # {}
        /\ e.kind \in {"unchanged", "replaced"}
    BY <1>4
  <1>7. /\ DOMAIN e.fields = {"mode"} \cup keys
        /\ e.fields["mode"].before = Mode(cfg.server) /\ e.fields["mode"].after = Mode(after.server)
        /\ \A f \in AuthFields \cap DOMAIN e.fields :
             e.fields[f].before = cfg.server[f] /\ e.fields[f].after = after.server[f]
    BY <1>3, <1>5 DEF Change
  <1> QED BY <1>1, <1>6, <1>7 DEF keys, EntryKind

\* A diff tells the plan, and is not that of the first file.
LEMMA DiffsMatch ==
  ASSUME NEW cfg \in Configs, NEW d \in Desireds, NEW after, after = Planned(cfg, d),
         NEW diff, diff = Diff(cfg, after, d)
  PROVE  DiffMatches(diff, d, after) /\ ~IsFresh(diff, d, after)
  <1>1. diff.gateway # {} <=> d.gateway.set
    BY DEF Diff
  <1>2. ASSUME NEW e \in diff.gateway PROVE TellsGateway(e.fields, after.server) /\ e.kind # "added"
    <2>1. DOMAIN e.fields \subseteq {"mode"} \cup AuthFields /\ e.kind # "added"
      BY DiffOfGateway DEF Differing, EntryKind
    <2>2. ASSUME NEW f \in DOMAIN e.fields
          PROVE  e.fields[f].after = (IF f = "mode" THEN Mode(after.server) ELSE after.server[f])
      BY <2>1, DiffOfGateway DEF EntryKind
    <2> QED BY <2>1, <2>2 DEF TellsGateway
  <1>3. DOMAIN diff.providers = DOMAIN d.providers /\ DOMAIN diff.models = DOMAIN d.models
    BY KindsAre
  <1>4. DOMAIN d.providers \subseteq DOMAIN after.providers /\ DOMAIN d.models \subseteq DOMAIN after.models
    BY AskedIsPlanned
  <1>5. ASSUME NEW n \in DOMAIN diff.providers PROVE Tells(diff.providers[n].fields, after.providers[n], Managed)
    <2>1. DOMAIN diff.providers[n].fields \subseteq Managed
      BY <1>3, DiffOfProvider DEF Differing, EntryKind
    <2>2. \A f \in DOMAIN diff.providers[n].fields : diff.providers[n].fields[f].after = after.providers[n][f]
      BY <1>3, DiffOfProvider DEF EntryKind
    <2> QED BY <2>1, <2>2 DEF Tells
  <1>6. ASSUME NEW a \in DOMAIN diff.models PROVE Tells(diff.models[a].fields, after.models[a], Mapped)
    <2>1. DOMAIN diff.models[a].fields \subseteq Mapped
      BY <1>3, DiffOfModel DEF Differing, EntryKind
    <2>2. \A f \in DOMAIN diff.models[a].fields : diff.models[a].fields[f].after = after.models[a][f]
      BY <1>3, DiffOfModel DEF EntryKind
    <2> QED BY <2>1, <2>2 DEF Tells
  <1> QED BY <1>1, <1>2, <1>3, <1>4, <1>5, <1>6 DEF DiffMatches, IsFresh

\* Each entry of a diff has the fields of its kind.
LEMMA ShapesAreComplete ==
  ASSUME NEW cfg \in Configs, Exclusive(cfg.server), NEW d \in Desireds, ValidDesired(d),
         NEW after, after = Planned(cfg, d), NEW diff, diff = Diff(cfg, after, d)
  PROVE  CompleteShapes(diff, FALSE, after)
  <1>1. ASSUME NEW e \in diff.gateway PROVE GatewayShape(e, FALSE, after.server)
    <2> DEFINE keys == Differing(cfg.server, after.server, AuthFields)
    <2>1. /\ DOMAIN e.fields = {"mode"} \cup keys /\ e.kind \in {"unchanged", "replaced"}
          /\ e.kind = "unchanged" => keys = {}
          /\ e.kind = "replaced" => keys # {}
          /\ e.fields["mode"].before = Mode(cfg.server) /\ e.fields["mode"].after = Mode(after.server)
          /\ \A f \in AuthFields \cap DOMAIN e.fields :
               e.fields[f].before = cfg.server[f] /\ e.fields[f].after = after.server[f]
      <3>1. EntryKind(e, cfg.server, after.server, AuthFields)
        BY DiffOfGateway
      <3>2. /\ DOMAIN e.fields = {"mode"} \cup keys
            /\ e.fields["mode"].before = Mode(cfg.server) /\ e.fields["mode"].after = Mode(after.server)
            /\ \A f \in AuthFields \cap DOMAIN e.fields :
                 e.fields[f].before = cfg.server[f] /\ e.fields[f].after = after.server[f]
        BY DiffOfGateway
      <3>3. (e.kind = "unchanged" => keys = {}) /\ (e.kind = "replaced" => keys # {}) /\ e.kind \in {"unchanged", "replaced"}
        BY <3>1 DEF EntryKind
      <3> QED BY <3>2, <3>3
    <2>2. CASE e.kind = "unchanged"
      <3>1. Mode(cfg.server) = Mode(after.server)
        BY <2>1, <2>2 DEF Mode, Differing, AuthFields
      <3> QED BY <2>1, <2>2, <3>1 DEF GatewayShape
    <2>3. CASE e.kind = "replaced"
      <3>1. "mode" \notin AuthFields /\ keys \subseteq AuthFields /\ keys # {}
        BY <2>1, <2>3 DEF AuthFields, Differing
      <3> DEFINE names == DOMAIN e.fields \cap AuthFields
                 fields == [f \in names |-> e.fields[f]]
      <3>2. names = keys
        BY <2>1, <3>1
      <3>3. Changed(fields)
        <4>1. \A f \in keys : cfg.server[f] # after.server[f]
          BY DEF Differing
        <4> HIDE DEF keys, names
        <4>2. DOMAIN fields = keys /\ \A f \in keys : fields[f].before = cfg.server[f] /\ fields[f].after = after.server[f]
          BY <2>1, <3>1, <3>2
        <4> QED BY <3>1, <4>1, <4>2 DEF Changed
      <3>4. Exclusive(after.server)
        <4>1. d.gateway.set
          BY DiffOfGateway DEF EntryKind
        <4> QED BY <4>1, PlannedServer DEF ValidDesired, ValidGatewayPatch, Exclusive, AuthFields
      <3>5. SourceField(after.server) \subseteq keys
        BY <3>1, <3>4 DEF SourceField, Exclusive, Differing, AuthFields
      <3> HIDE DEF keys
      <3> QED BY <2>1, <2>3, <3>2, <3>3, <3>5 DEF GatewayShape
    <2> QED BY <2>1, <2>2, <2>3
  <1>2. ASSUME NEW n \in DOMAIN diff.providers PROVE ProviderShape(diff.providers[n], FALSE)
    <2> DEFINE e == diff.providers[n]
    <2>1. n \in DOMAIN d.providers
      BY KindsAre
    <2>2. CASE n \notin DOMAIN cfg.providers
      <3>1. e.kind = "added" /\ DOMAIN e.fields = Managed
        BY <2>1, <2>2, DiffOfProvider DEF EntryKind
      <3>2. \A f \in DOMAIN e.fields : e.fields[f].before = NoProvider[f]
        BY <2>1, <2>2, DiffOfProvider DEF Of, EntryKind
      <3>3. WasEmpty(e.fields)
        BY <3>1, <3>2 DEF WasEmpty, NoProvider, ProviderFields
      <3> QED BY <3>1, <3>3 DEF ProviderShape
    <2>3. CASE n \in DOMAIN cfg.providers
      <3> DEFINE keys == Differing(cfg.providers[n], after.providers[n], Managed)
      <3>1. DOMAIN e.fields = keys /\ e.kind \in {"unchanged", "replaced"}
        BY <2>1, <2>3, DiffOfProvider DEF EntryKind
      <3>2. (e.kind = "unchanged" => keys = {}) /\ (e.kind = "replaced" => keys # {})
        <4>1. EntryKind(e, cfg.providers[n], after.providers[n], Managed)
          BY <2>1, <2>3, DiffOfProvider
        <4> HIDE DEF e
        <4> QED BY <4>1 DEF EntryKind
      <3>3. \A f \in keys : e.fields[f].before = cfg.providers[n][f] /\ e.fields[f].after = after.providers[n][f]
        BY <2>1, <2>3, <3>1, DiffOfProvider DEF Of, EntryKind
      <3>4. \A f \in keys : cfg.providers[n][f] # after.providers[n][f]
        BY DEF Differing
      <3> HIDE DEF keys, e
      <3> QED BY <3>1, <3>2, <3>3, <3>4 DEF ProviderShape, Changed, e
    <2> QED BY <2>2, <2>3
  <1>3. ASSUME NEW a \in DOMAIN diff.models PROVE ModelShape(diff.models[a], FALSE)
    <2> DEFINE e == diff.models[a]
    <2>1. a \in DOMAIN d.models
      BY KindsAre
    <2>2. CASE a \notin DOMAIN cfg.models
      <3>1. e.kind = "added" /\ DOMAIN e.fields = Mapped
        BY <2>1, <2>2, DiffOfModel DEF EntryKind
      <3>2. \A f \in DOMAIN e.fields : e.fields[f].before = NoModel[f]
        BY <2>1, <2>2, DiffOfModel DEF Of, EntryKind
      <3>3. WasEmpty(e.fields)
        BY <3>1, <3>2 DEF WasEmpty, NoModel, ModelFields
      <3> QED BY <3>1, <3>3 DEF ModelShape
    <2>3. CASE a \in DOMAIN cfg.models
      <3> DEFINE keys == Differing(cfg.models[a], after.models[a], Mapped)
      <3>1. DOMAIN e.fields = keys /\ e.kind \in {"unchanged", "replaced"}
        BY <2>1, <2>3, DiffOfModel DEF EntryKind
      <3>2. (e.kind = "unchanged" => keys = {}) /\ (e.kind = "replaced" => keys # {})
        <4>1. EntryKind(e, cfg.models[a], after.models[a], Mapped)
          BY <2>1, <2>3, DiffOfModel
        <4> HIDE DEF e
        <4> QED BY <4>1 DEF EntryKind
      <3>3. \A f \in keys : e.fields[f].before = cfg.models[a][f] /\ e.fields[f].after = after.models[a][f]
        BY <2>1, <2>3, <3>1, DiffOfModel DEF Of, EntryKind
      <3>4. \A f \in keys : cfg.models[a][f] # after.models[a][f]
        BY DEF Differing
      <3> HIDE DEF keys, e
      <3> QED BY <3>1, <3>2, <3>3, <3>4 DEF ModelShape, Changed, e
    <2> QED BY <2>2, <2>3
  <1> QED BY <1>1, <1>2, <1>3 DEF CompleteShapes

\* The plan of the key agrees with the diff.
LEMMA KeyPlansAreValid ==
  ASSUME NEW cfg \in Configs, NEW d \in Desireds,
         NEW after, after = Planned(cfg, d), NEW diff, diff = Diff(cfg, after, d)
  PROVE  ValidKeyPlan(SetKeyPlan(cfg, after, d), diff, after)
  <1> DEFINE path == after.server.api_key_file
             key == SetKeyPlan(cfg, after, d)
  <1>1. CASE path = Unsaid
    BY <1>1 DEF SetKeyPlan, ValidKeyPlan
  <1>2. CASE path # Unsaid /\ cfg.server.api_key_file = path
    <2>1. key = KeyPlan("inspect", path, FALSE)
      BY <1>2 DEF SetKeyPlan
    <2>2. "api_key_file" \notin Differing(cfg.server, after.server, AuthFields)
      BY <1>2 DEF Differing
    <2>3. \A e \in diff.gateway : "api_key_file" \notin DOMAIN e.fields
      BY <2>2, DiffOfGateway DEF EntryKind
    <2> QED BY <1>2, <2>1, <2>3 DEF ValidKeyPlan, KeyPlan
  <1>3. CASE path # Unsaid /\ cfg.server.api_key_file # path
    <2>1. key.action = "ensure" /\ key.path = path
      BY <1>3 DEF SetKeyPlan, KeyPlan
    <2>2. d.gateway.set
      BY <1>3, PlannedServer
    <2>3. PICK e \in diff.gateway : TRUE
      BY <2>2 DEF Diff
    <2>4. "api_key_file" \in Differing(cfg.server, after.server, AuthFields) /\ "api_key_file" \in AuthFields
      BY <1>3 DEF Differing, AuthFields
    <2>5. "api_key_file" \in DOMAIN e.fields /\ e.fields["api_key_file"].after = path
      BY <2>4, DiffOfGateway DEF EntryKind
    <2>6. e.kind = "replaced"
      <3>1. EntryKind(e, cfg.server, after.server, AuthFields)
        BY DiffOfGateway
      <3> QED BY <2>4, <3>1 DEF EntryKind
    <2> HIDE DEF key
    <2> QED BY <1>3, <2>1, <2>5, <2>6 DEF ValidKeyPlan, key
  <1> QED BY <1>1, <1>2, <1>3

\* The diff of the first file.
LEMMA FirstDiffIs ==
  ASSUME NEW after, Exclusive(after.server), NEW d, NEW diff, diff = FreshDiff(after, d)
  PROVE  /\ \E e \in diff.gateway : e.kind = "added"
         /\ \A e \in diff.gateway :
              /\ e.kind = "added" /\ DOMAIN e.fields = {"mode"} \cup SourceField(after.server)
              /\ \A f \in DOMAIN e.fields :
                   /\ e.fields[f].before = Unsaid
                   /\ e.fields[f].after = (IF f = "mode" THEN Mode(after.server) ELSE after.server[f])
         /\ DOMAIN diff.providers = DOMAIN d.providers /\ DOMAIN diff.models = DOMAIN d.models
         /\ \A n \in DOMAIN d.providers : diff.providers[n].kind = "added" /\ DOMAIN diff.providers[n].fields = {}
         /\ \A a \in DOMAIN d.models :
              /\ diff.models[a].kind = "added" /\ DOMAIN diff.models[a].fields = Mapped
              /\ \A f \in Mapped : /\ diff.models[a].fields[f].before = Unsaid
                                   /\ diff.models[a].fields[f].after = after.models[a][f]
  <1> DEFINE keys == {f \in AuthFields : after.server[f] # Unsaid}
             first == [f \in AuthFields |-> Unsaid]
             fields == [f \in {"mode"} \cup keys |->
                          IF f = "mode" THEN Change(Unsaid, Mode(after.server)) ELSE Change(first[f], after.server[f])]
  <1>1. diff.gateway = {[kind |-> "added", fields |-> fields]}
    BY DEF FreshDiff, ModeAndKeys
  <1>2. keys = SourceField(after.server) /\ keys \subseteq AuthFields
    BY DEF SourceField, Exclusive, AuthFields
  <1>3. /\ DOMAIN fields = {"mode"} \cup SourceField(after.server)
        /\ \A f \in DOMAIN fields :
             /\ fields[f].before = Unsaid
             /\ fields[f].after = (IF f = "mode" THEN Mode(after.server) ELSE after.server[f])
    <2>1. \A f \in keys : first[f] = Unsaid
      BY <1>2
    <2> HIDE DEF keys, first
    <2> QED BY <1>2, <2>1 DEF Change
  <1> HIDE DEF fields
  <1>4. /\ \E e \in diff.gateway : e.kind = "added"
        /\ \A e \in diff.gateway : e.kind = "added" /\ e.fields = fields
    BY <1>1
  <1>5. ASSUME NEW n \in DOMAIN d.providers
        PROVE  diff.providers[n].kind = "added" /\ DOMAIN diff.providers[n].fields = {}
    BY DEF FreshDiff
  <1>6. ASSUME NEW a \in DOMAIN d.models
        PROVE  /\ diff.models[a].kind = "added" /\ DOMAIN diff.models[a].fields = Mapped
               /\ \A f \in Mapped : /\ diff.models[a].fields[f].before = Unsaid
                                    /\ diff.models[a].fields[f].after = after.models[a][f]
    <2>1. diff.models[a] = [kind |-> "added", fields |-> [f \in Mapped |-> Change(NoModel[f], after.models[a][f])]]
      BY DEF FreshDiff, Entry
    <2>2. \A f \in Mapped : NoModel[f] = Unsaid
      BY DEF NoModel, ModelFields
    <2> QED BY <2>1, <2>2 DEF Change
  <1>7. DOMAIN diff.providers = DOMAIN d.providers /\ DOMAIN diff.models = DOMAIN d.models
    BY DEF FreshDiff
  <1> QED BY <1>3, <1>4, <1>5, <1>6, <1>7

\* What the last look asks of the first plan.
LEMMA FirstPlansAreFinal ==
  ASSUME NEW d \in Desireds, NEW p \in PlanMerge({}, d)
  PROVE  /\ IsFresh(p.diff, d, p.config) /\ p.config.root = d.root
         /\ DiffMatches(p.diff, d, p.config) /\ CompleteShapes(p.diff, TRUE, p.config)
         /\ p.collisions = Collisions(p.diff) /\ ValidKeyPlan(p.key, p.diff, p.config)
         /\ SelectedModelsPresent(p.config.models, DOMAIN d.providers)
  <1> DEFINE old == NoConfig(d.root)
             after == Planned(old, d)
             diff == FreshDiff(after, d)
  <1>1. /\ p.diff = diff /\ p.config = after /\ d.gateway.set /\ ValidDesired(d) /\ p.collisions = NoCollisions
        /\ p.key = SetKeyPlan(old, after, d) /\ SelectedModelsPresent(after.models, DOMAIN d.providers)
    BY FirstPlansAre
  <1>2. old \in Configs /\ after \in Configs /\ Exclusive(after.server)
    BY <1>1, FirstSays
  <1>3. /\ after.root = d.root /\ old.server.api_key_file = Unsaid
        /\ DOMAIN old.providers = {} /\ DOMAIN old.models = {}
    BY DEF NoConfig, Planned, ServerFields, AuthFields
  <1>4. DOMAIN after.providers = DOMAIN d.providers
    <2>1. DOMAIN after.providers = DOMAIN old.providers \cup DOMAIN d.providers
      BY <1>2, PlannedProviders
    <2> QED BY <1>3, <2>1
  <1>5. DOMAIN after.models = DOMAIN d.models
    <2>1. DOMAIN after.models = DOMAIN old.models \cup DOMAIN d.models
      BY <1>2, PlannedModels
    <2> QED BY <1>3, <2>1
  <1>6. diff = FreshDiff(after, d)
    OBVIOUS
  <1> HIDE DEF diff, after, old
  <1>7. /\ \E e \in diff.gateway : e.kind = "added"
        /\ \A e \in diff.gateway :
              /\ e.kind = "added" /\ DOMAIN e.fields = {"mode"} \cup SourceField(after.server)
              /\ \A f \in DOMAIN e.fields :
                   /\ e.fields[f].before = Unsaid
                   /\ e.fields[f].after = (IF f = "mode" THEN Mode(after.server) ELSE after.server[f])
        /\ DOMAIN diff.providers = DOMAIN d.providers /\ DOMAIN diff.models = DOMAIN d.models
        /\ \A n \in DOMAIN d.providers : diff.providers[n].kind = "added" /\ DOMAIN diff.providers[n].fields = {}
        /\ \A a \in DOMAIN d.models :
              /\ diff.models[a].kind = "added" /\ DOMAIN diff.models[a].fields = Mapped
              /\ \A f \in Mapped : /\ diff.models[a].fields[f].before = Unsaid
                                   /\ diff.models[a].fields[f].after = after.models[a][f]
    BY <1>2, <1>6, FirstDiffIs
  <1>8. IsFresh(diff, d, after)
    BY <1>1, <1>4, <1>5, <1>7 DEF IsFresh
  <1>9. SourceField(after.server) \subseteq AuthFields
    BY DEF SourceField, AuthFields
  <1>10. DiffMatches(diff, d, after)
    <2>1. \A e \in diff.gateway : TellsGateway(e.fields, after.server)
      BY <1>7, <1>9 DEF TellsGateway
    <2>2. \A n \in DOMAIN diff.providers : Tells(diff.providers[n].fields, after.providers[n], Managed)
      BY <1>7 DEF Tells
    <2>3. \A a \in DOMAIN diff.models : Tells(diff.models[a].fields, after.models[a], Mapped)
      BY <1>7 DEF Tells
    <2>4. diff.gateway # {}
      BY <1>7
    <2> QED BY <1>1, <1>4, <1>5, <1>7, <2>1, <2>2, <2>3, <2>4 DEF DiffMatches
  <1>11. CompleteShapes(diff, TRUE, after)
    <2>1. ASSUME NEW e \in diff.gateway PROVE GatewayShape(e, TRUE, after.server)
      <3>1. WasEmpty(e.fields)
        BY <1>7 DEF WasEmpty
      <3> QED BY <1>7, <3>1 DEF GatewayShape
    <2>2. ASSUME NEW n \in DOMAIN diff.providers PROVE ProviderShape(diff.providers[n], TRUE)
      BY <1>7 DEF ProviderShape
    <2>3. ASSUME NEW a \in DOMAIN diff.models PROVE ModelShape(diff.models[a], TRUE)
      <3>1. WasEmpty(diff.models[a].fields)
        BY <1>7 DEF WasEmpty
      <3> QED BY <1>7, <3>1 DEF ModelShape
    <2> QED BY <2>1, <2>2, <2>3 DEF CompleteShapes
  <1>12. Collisions(diff) = NoCollisions
    <2>1. Replaced(diff.providers) = {} /\ Replaced(diff.models) = {}
      BY <1>7 DEF Replaced
    <2> QED BY <2>1, NothingCollides
  <1>13. ValidKeyPlan(SetKeyPlan(old, after, d), diff, after)
    <2> DEFINE path == after.server.api_key_file
               key == SetKeyPlan(old, after, d)
    <2>1. CASE path = Unsaid
      BY <2>1 DEF SetKeyPlan, ValidKeyPlan
    <2>2. CASE path # Unsaid
      <3>1. key.action = "ensure" /\ key.path = path
        BY <1>3, <2>2 DEF SetKeyPlan, KeyPlan
      <3>2. SourceField(after.server) = {"api_key_file"}
        BY <2>2 DEF SourceField
      <3>3. PICK e \in diff.gateway : e.kind = "added"
        BY <1>7
      <3>4. "api_key_file" \in DOMAIN e.fields /\ e.fields["api_key_file"].after = path
        BY <1>7, <3>2
      <3> HIDE DEF key
      <3> QED BY <2>2, <3>1, <3>3, <3>4 DEF ValidKeyPlan, key
    <2> QED BY <2>1, <2>2
  <1> QED BY <1>1, <1>3, <1>8, <1>10, <1>11, <1>12, <1>13

\* validFinalPlanningResult refuses no plan that PlanMerge made for what ResolveNonInteractive
\* resolved, but for a replacement nobody allowed and a value that cannot be shown.
THEOREM PlansAreFinal ==
  ASSUME NEW sources \in Present, NEW o \in Options, NEW root \in Values, NEW defaultKey \in Values,
         NEW d \in Resolve(o, UNION {Decode(src) : src \in sources}, root, defaultKey),
         NEW p \in PlanMerge(sources, d), ~HasUnauthorizedCollision(p.collisions, d)
  PROVE  ValidFinal(d, p) <=> Shown(p.diff)
  <1> DEFINE configs == UNION {Decode(src) : src \in sources}
             fresh == IsFresh(p.diff, d, p.config)
  <1>1. configs \in SUBSET Configs
    BY DecodeIs DEF Present
  <1>2. /\ d \in Desireds
        /\ \A c \in configs : SelectedModelsPresent(Planned(c, d).models, DOMAIN d.providers)
    BY <1>1, ResolvedAre
  <1>3. /\ ValidDesired(d) /\ Decode(p.candidate) = {p.config} /\ DesiredMatches(d, p.config)
    BY <1>2, PlansHave, AskedIsPlanned
  <1>4. /\ SelectedModelsPresent(p.config.models, DOMAIN d.providers)
        /\ DiffMatches(p.diff, d, p.config) /\ CompleteShapes(p.diff, fresh, p.config)
        /\ fresh => p.config.root = d.root
        /\ p.collisions = Collisions(p.diff) /\ Alters(p.diff) = p.changed
        /\ ValidKeyPlan(p.key, p.diff, p.config)
    <2>1. CASE sources = {}
      <3>1. p.changed = Alters(p.diff)
        BY <1>2, <2>1, FirstPlansAre
      <3>2. fresh = TRUE
        BY <1>2, <2>1, FirstPlansAreFinal DEF IsFresh
      <3> QED BY <1>2, <2>1, <3>1, <3>2, FirstPlansAreFinal
    <2>2. CASE \E src \in Sources : sources = {src}
      <3>1. PICK src \in Sources : sources = {src}
        BY <2>2
      <3>2. PICK cfg \in Decode(src) : TRUE
        BY <3>1 DEF PlanMerge
      <3> DEFINE after == Planned(cfg, d)
                 diff == Diff(cfg, after, d)
      <3>3. /\ p.diff = diff /\ p.config = after /\ p.changed = Alters(diff)
            /\ p.collisions = Collisions(diff) /\ p.key = SetKeyPlan(cfg, after, d)
        <4>1. d \in Desireds
          BY <1>2
        <4>2. p \in PlanMerge({src}, d) /\ after = Planned(cfg, d) /\ diff = Diff(cfg, after, d)
          BY <3>1
        <4> HIDE DEF after, diff, configs, fresh
        <4> QED BY <4>1, <4>2, PlansAre
      <3>4. SelectedModelsPresent(after.models, DOMAIN d.providers)
        BY <1>2, <3>1
      <3>5. cfg \in Configs /\ Exclusive(cfg.server)
        <4>1. cfg \in Configs /\ OneKey(src.server.entries) /\ cfg = Reading(src)
          BY DecodeIs
        <4> QED BY <4>1 DEF OneKey, Reading, Says, Exclusive, AuthFields, ServerFields
      <3>6. after = Planned(cfg, d) /\ diff = Diff(cfg, after, d)
        OBVIOUS
      <3> HIDE DEF after, diff
      <3>7. DiffMatches(diff, d, after) /\ ~IsFresh(diff, d, after)
        BY <1>2, <3>5, <3>6, DiffsMatch
      <3>8. CompleteShapes(diff, FALSE, after)
        BY <1>2, <1>3, <3>5, <3>6, ShapesAreComplete
      <3>9. ValidKeyPlan(SetKeyPlan(cfg, after, d), diff, after)
        BY <1>2, <3>5, <3>6, KeyPlansAreValid
      <3>10. fresh = FALSE
        BY <3>3, <3>7 DEF IsFresh
      <3> QED BY <3>3, <3>4, <3>7, <3>8, <3>9, <3>10
    <2> QED BY <2>1, <2>2 DEF Present
  <1>5. CollisionsConverged(p.diff, p.collisions, d)
    BY <1>4 DEF CollisionsConverged
  <1> HIDE DEF configs
  <1> QED BY <1>3, <1>4, <1>5 DEF ValidFinal
=============================================================================
