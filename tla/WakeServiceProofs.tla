------------------------- MODULE WakeServiceProofs -------------------------
(***************************************************************************)
(* Proofs about WakeService for any set of requests, startups and          *)
(* addresses and under every failure: type correctness, at most one start  *)
(* at a time, no lost wake-up, a known target behind every proxy, and the  *)
(* deadlock of RecordActivity confined to its own service.                 *)
(***************************************************************************)
EXTENDS WakeService, TLAPS

\* The variables keep their types.
THEOREM TypeCorrect == Spec => []TypeOK
<1>1. Init => TypeOK
  <2> SUFFICES ASSUME Init PROVE TypeOK
    OBVIOUS
  <2>1. pc \in [Requests -> RequestLocations]
    BY DEF Init, RequestLocations
  <2>2. gpc \in [Startups -> StartupLocations]
    BY DEF Init, StartupLocations
  <2>3. fired \in Nat /\ stops \in Nat /\ admins \in 0..MaxAdmin
    BY MaxAdminAssumption DEF Init
  <2> QED
    BY <2>1, <2>2, <2>3 DEF Init, TypeOK
<1>2. TypeOK /\ [Next]_vars => TypeOK'
  <2> SUFFICES ASSUME TypeOK, [Next]_vars PROVE TypeOK'
    OBVIOUS
  <2> USE MaxAdminAssumption DEF TypeOK, RequestLocations, StartupLocations,
        BeforeOutcome, Answers, container, timer, admin, Goto, StartupGoto,
        Broadcast, WaitOrGiveUp, ContainerStarts, ContainerStops, DockerStop,
        Claim, Resume, CachedMeanwhile, Resets, StoreTarget, CallbackDue
  <2>1. ASSUME NEW r \in Requests, Arrive(r) PROVE TypeOK'
    BY <2>1 DEF Arrive
  <2>2. ASSUME NEW r \in Requests, HangUp(r) PROVE TypeOK'
    BY <2>2 DEF HangUp
  <2>3. ASSUME NEW r \in Requests, AwaitReady(r) PROVE TypeOK'
    BY <2>3 DEF AwaitReady
  <2>4. ASSUME NEW r \in Requests, Wake(r) PROVE TypeOK'
    BY <2>4 DEF Wake
  <2>5. ASSUME NEW r \in Requests, LookupProxy(r) PROVE TypeOK'
    BY <2>5 DEF LookupProxy
  <2>6. ASSUME NEW r \in Requests, LockProxies(r) PROVE TypeOK'
    BY <2>6 DEF LockProxies
  <2>7. ASSUME NEW r \in Requests, BuildProxy(r) PROVE TypeOK'
    BY <2>7 DEF BuildProxy
  <2>8. ASSUME NEW r \in Requests, RecordActivity(r) PROVE TypeOK'
    BY <2>8 DEF RecordActivity
  <2>9. ASSUME NEW r \in Requests, Forward(r) PROVE TypeOK'
    BY <2>9 DEF Forward
  <2>10. ASSUME NEW g \in Startups, StartupBegin(g) PROVE TypeOK'
    BY <2>10 DEF StartupBegin
  <2>11. ASSUME NEW g \in Startups, Inspect(g) PROVE TypeOK'
    <3>1. gpc' \in [Startups -> StartupLocations] /\ hasID' \in BOOLEAN
      BY <2>11 DEF Inspect
    <3> QED
      BY <2>11, <3>1 DEF Inspect
  <2>12. ASSUME NEW g \in Startups, Start(g) PROVE TypeOK'
    <3>1. gpc' \in [Startups -> StartupLocations] /\ hasID' \in BOOLEAN
      BY <2>12 DEF Start
    <3>2. up' \in BOOLEAN /\ addr' \in Addrs
      BY <2>12 DEF Start
    <3> QED
      BY <2>12, <3>1, <3>2 DEF Start
  <2>13. ASSUME NEW g \in Startups, GetTarget(g) PROVE TypeOK'
    <3>1. gpc' \in [Startups -> StartupLocations]
      BY <2>13 DEF GetTarget
    <3>2. target' \in Addrs \union {NoAddr}
      BY <2>13 DEF GetTarget
    <3> QED
      BY <2>13, <3>1, <3>2 DEF GetTarget
  <2>14. ASSUME NEW g \in Startups, MarkRunning(g) PROVE TypeOK'
    BY <2>14 DEF MarkRunning
  <2>15. ASSUME NEW g \in Startups, Revert(g) PROVE TypeOK'
    BY <2>15 DEF Revert
  <2>16. ASSUME NEW g \in Startups, Cleanup(g) PROVE TypeOK'
    <3>1. gpc' \in [Startups -> StartupLocations]
      BY <2>16 DEF Cleanup
    <3>2. up' \in BOOLEAN /\ addr' \in Addrs
      BY <2>16 DEF Cleanup
    <3> QED
      BY <2>16, <3>1, <3>2 DEF Cleanup
  <2>17. ASSUME NEW g \in Startups, ResetIdleTimer(g) PROVE TypeOK'
    BY <2>17 DEF ResetIdleTimer
  <2>18. CASE TimerFires
    <3>1. fired' \in Nat
      BY <2>18 DEF TimerFires
    <3>2. armed' \in BOOLEAN
      BY <2>18 DEF TimerFires
    <3> QED
      BY <2>18, <3>1, <3>2 DEF TimerFires
  <2>19. CASE IdleTimeout
    BY <2>19 DEF IdleTimeout
  <2>20. CASE StopService
    <3>1. stops' \in Nat
      BY <2>20 DEF StopService
    <3>2. up' \in BOOLEAN /\ addr' \in Addrs
      BY <2>20 DEF StopService
    <3> QED
      BY <2>20, <3>1, <3>2 DEF StopService
  <2>21. CASE Outside
    <3>1. up' \in BOOLEAN /\ addr' \in Addrs
      BY <2>21 DEF Outside
    <3> QED
      BY <2>21, <3>1 DEF Outside
  <2>22. ASSUME NEW b \in BOOLEAN, SetActive(b) PROVE TypeOK'
    BY <2>22 DEF SetActive
  <2>23. CASE UNCHANGED vars
    BY <2>23 DEF vars
  <2> QED
    BY <2>1, <2>2, <2>3, <2>4, <2>5, <2>6, <2>7, <2>8, <2>9, <2>10, <2>11,
       <2>12, <2>13, <2>14, <2>15, <2>16, <2>17, <2>18, <2>19, <2>20,
       <2>21, <2>22, <2>23
       DEF Next, Request, Startup
<1> QED
  BY <1>1, <1>2, PTL DEF Spec

-----------------------------------------------------------------------------
\* StartsOnce and NoLostWakeup together: Starting is the state in which one
\* startup sequence decides, and nobody waits in Running.
StartInv == StartsOnce /\ NoLostWakeup

\* StartInv holds in every reachable state.
THEOREM StartInvariant == Spec => []StartInv
<1>1. Init => StartInv
  BY DEF Init, StartInv, StartsOnce, NoLostWakeup, Deciding, BeforeOutcome
<1>2. TypeOK /\ StartInv /\ [Next]_vars => StartInv'
  <2> SUFFICES ASSUME TypeOK, StartInv, [Next]_vars PROVE StartInv'
    OBVIOUS
  <2> USE DEF TypeOK, StartInv, StartsOnce, NoLostWakeup, Deciding,
        BeforeOutcome, StartupLocations, container, timer, admin, Goto,
        StartupGoto, Broadcast, WaitOrGiveUp, Claim, Resume,
        CachedMeanwhile, Resets, StoreTarget, CallbackDue
  <2>1. ASSUME NEW r \in Requests, Arrive(r) PROVE StartInv'
    BY <2>1 DEF Arrive
  <2>2. ASSUME NEW r \in Requests, HangUp(r) PROVE StartInv'
    BY <2>2 DEF HangUp
  <2>3. ASSUME NEW r \in Requests, AwaitReady(r) PROVE StartInv'
    BY <2>3 DEF AwaitReady
  <2>4. ASSUME NEW r \in Requests, Wake(r) PROVE StartInv'
    BY <2>4 DEF Wake
  <2>5. ASSUME NEW r \in Requests, LookupProxy(r) PROVE StartInv'
    BY <2>5 DEF LookupProxy
  <2>6. ASSUME NEW r \in Requests, LockProxies(r) PROVE StartInv'
    BY <2>6 DEF LockProxies
  <2>7. ASSUME NEW r \in Requests, BuildProxy(r) PROVE StartInv'
    BY <2>7 DEF BuildProxy
  <2>8. ASSUME NEW r \in Requests, RecordActivity(r) PROVE StartInv'
    BY <2>8 DEF RecordActivity
  <2>9. ASSUME NEW r \in Requests, Forward(r) PROVE StartInv'
    BY <2>9 DEF Forward
  <2>10. ASSUME NEW g \in Startups, StartupBegin(g) PROVE StartInv'
    BY <2>10 DEF StartupBegin
  <2>11. ASSUME NEW g \in Startups, Inspect(g) PROVE StartInv'
    BY <2>11 DEF Inspect
  <2>12. ASSUME NEW g \in Startups, Start(g) PROVE StartInv'
    BY <2>12 DEF Start
  <2>13. ASSUME NEW g \in Startups, GetTarget(g) PROVE StartInv'
    BY <2>13 DEF GetTarget
  <2>14. ASSUME NEW g \in Startups, MarkRunning(g) PROVE StartInv'
    BY <2>14 DEF MarkRunning
  <2>15. ASSUME NEW g \in Startups, Revert(g) PROVE StartInv'
    BY <2>15 DEF Revert
  <2>16. ASSUME NEW g \in Startups, Cleanup(g) PROVE StartInv'
    BY <2>16 DEF Cleanup
  <2>17. ASSUME NEW g \in Startups, ResetIdleTimer(g) PROVE StartInv'
    BY <2>17 DEF ResetIdleTimer
  <2>18. CASE TimerFires
    BY <2>18 DEF TimerFires
  <2>19. CASE IdleTimeout
    BY <2>19 DEF IdleTimeout
  <2>20. CASE StopService
    BY <2>20 DEF StopService
  <2>21. CASE Outside
    BY <2>21 DEF Outside
  <2>22. ASSUME NEW b \in BOOLEAN, SetActive(b) PROVE StartInv'
    BY <2>22 DEF SetActive
  <2>23. CASE UNCHANGED vars
    BY <2>23 DEF vars
  <2> QED
    BY <2>1, <2>2, <2>3, <2>4, <2>5, <2>6, <2>7, <2>8, <2>9, <2>10, <2>11,
       <2>12, <2>13, <2>14, <2>15, <2>16, <2>17, <2>18, <2>19, <2>20,
       <2>21, <2>22, <2>23
       DEF Next, Request, Startup
<1> QED
  BY <1>1, <1>2, TypeCorrect, PTL DEF Spec

-----------------------------------------------------------------------------
\* Why the two mutexes never wait for each other: the write lock is held
\* across TargetURL only before a proxy is cached, s.mu is lost only after.
\* And why a target is known: a start stores it before it reaches Running.
LockInv ==
    /\ \A r \in Requests : pc[r] = "target" <=> hMu = r
    /\ hMu # NoOne => proxy = NoAddr
    /\ \A r \in Requests : pc[r] = "record" => proxy # NoAddr
    /\ mu # NoOne => proxy # NoAddr /\ state = "Running"
    /\ \A g \in Startups : gpc[g] = "mark" => target # NoAddr
    /\ state = "Running" => target # NoAddr
    /\ TargetKnown

\* LockInv holds in every reachable state.
THEOREM LockInvariant == Spec => []LockInv
<1>1. Init => LockInv
  BY NamesAssumption DEF Init, LockInv, TargetKnown
<1>2. TypeOK /\ LockInv /\ [Next]_vars => LockInv'
  <2> SUFFICES ASSUME TypeOK, LockInv, [Next]_vars PROVE LockInv'
    OBVIOUS
  <2> USE NamesAssumption DEF TypeOK, LockInv, TargetKnown, container, timer,
        admin, Goto, StartupGoto, Broadcast, WaitOrGiveUp, Claim, Resume,
        CachedMeanwhile, Resets, StoreTarget, CallbackDue
  <2>1. ASSUME NEW r \in Requests, Arrive(r) PROVE LockInv'
    BY <2>1 DEF Arrive
  <2>2. ASSUME NEW r \in Requests, HangUp(r) PROVE LockInv'
    BY <2>2 DEF HangUp
  <2>3. ASSUME NEW r \in Requests, AwaitReady(r) PROVE LockInv'
    BY <2>3 DEF AwaitReady
  <2>4. ASSUME NEW r \in Requests, Wake(r) PROVE LockInv'
    BY <2>4 DEF Wake
  <2>5. ASSUME NEW r \in Requests, LookupProxy(r) PROVE LockInv'
    BY <2>5 DEF LookupProxy
  <2>6. ASSUME NEW r \in Requests, LockProxies(r) PROVE LockInv'
    BY <2>6 DEF LockProxies
  <2>7. ASSUME NEW r \in Requests, BuildProxy(r) PROVE LockInv'
    BY <2>7 DEF BuildProxy
  <2>8. ASSUME NEW r \in Requests, RecordActivity(r) PROVE LockInv'
    BY <2>8 DEF RecordActivity
  <2>9. ASSUME NEW r \in Requests, Forward(r) PROVE LockInv'
    BY <2>9 DEF Forward
  <2>10. ASSUME NEW g \in Startups, StartupBegin(g) PROVE LockInv'
    BY <2>10 DEF StartupBegin
  <2>11. ASSUME NEW g \in Startups, Inspect(g) PROVE LockInv'
    BY <2>11 DEF Inspect
  <2>12. ASSUME NEW g \in Startups, Start(g) PROVE LockInv'
    BY <2>12 DEF Start
  <2>13. ASSUME NEW g \in Startups, GetTarget(g) PROVE LockInv'
    BY <2>13 DEF GetTarget
  <2>14. ASSUME NEW g \in Startups, MarkRunning(g) PROVE LockInv'
    BY <2>14 DEF MarkRunning
  <2>15. ASSUME NEW g \in Startups, Revert(g) PROVE LockInv'
    BY <2>15 DEF Revert
  <2>16. ASSUME NEW g \in Startups, Cleanup(g) PROVE LockInv'
    BY <2>16 DEF Cleanup
  <2>17. ASSUME NEW g \in Startups, ResetIdleTimer(g) PROVE LockInv'
    BY <2>17 DEF ResetIdleTimer
  <2>18. CASE TimerFires
    BY <2>18 DEF TimerFires
  <2>19. CASE IdleTimeout
    BY <2>19 DEF IdleTimeout
  <2>20. CASE StopService
    BY <2>20 DEF StopService
  <2>21. CASE Outside
    BY <2>21 DEF Outside
  <2>22. ASSUME NEW b \in BOOLEAN, SetActive(b) PROVE LockInv'
    BY <2>22 DEF SetActive
  <2>23. CASE UNCHANGED vars
    BY <2>23 DEF vars
  <2> QED
    BY <2>1, <2>2, <2>3, <2>4, <2>5, <2>6, <2>7, <2>8, <2>9, <2>10, <2>11,
       <2>12, <2>13, <2>14, <2>15, <2>16, <2>17, <2>18, <2>19, <2>20,
       <2>21, <2>22, <2>23
       DEF Next, Request, Startup
<1> QED
  BY <1>1, <1>2, TypeCorrect, PTL DEF Spec

-----------------------------------------------------------------------------
\* The service is Starting exactly while one startup sequence is deciding.
THEOREM OneStartAtATime == Spec => []StartsOnce
<1>1. StartInv => StartsOnce
  BY DEF StartInv
<1> QED
  BY <1>1, StartInvariant, PTL

\* No request sleeps on the condition while the service runs.
THEOREM WakeUpsAreNotLost == Spec => []NoLostWakeup
<1>1. StartInv => NoLostWakeup
  BY DEF StartInv
<1> QED
  BY <1>1, StartInvariant, PTL

\* getProxy's fallback is unreachable.
THEOREM TargetIsKnown == Spec => []TargetKnown
<1>1. LockInv => TargetKnown
  BY DEF LockInv
<1> QED
  BY <1>1, LockInvariant, PTL

\* The request that holds ProxyHandler.mu never waits for a lost s.mu.
THEOREM DeadlockIsConfined == Spec => []HandlerLockNotStuck
<1>1. LockInv => HandlerLockNotStuck
  BY DEF LockInv, HandlerLockNotStuck
<1> QED
  BY <1>1, LockInvariant, PTL

\* The s.mu of a starting service is free.
THEOREM StartsAreNotStuck == Spec => []StartingNotStuck
<1>1. LockInv => StartingNotStuck
  BY DEF LockInv, StartingNotStuck
<1> QED
  BY <1>1, LockInvariant, PTL

\* The s.mu lost in RecordActivity stops neither another service nor a start.
THEOREM DeadlockIsLocal == Spec => []DeadlockStaysLocal
<1>1. HandlerLockNotStuck /\ StartingNotStuck => DeadlockStaysLocal
  BY DEF DeadlockStaysLocal
<1> QED
  BY <1>1, DeadlockIsConfined, StartsAreNotStuck, PTL

-----------------------------------------------------------------------------
\* A step of the abstract life cycle, or none.
LifecycleStep == [Lifecycle!Next]_(Lifecycle!vars)

\* The service with all its goroutines implements the abstract life cycle:
\* starts begin in Stopped and end what they began, and a request is let
\* through only by a running service.
THEOREM LifecycleIsImplemented == Spec => ImplementsLifecycle
<1>1. Init => Lifecycle!Init
  BY DEF Init, Lifecycle!Init, Passed
<1>2. TypeOK /\ StartInv /\ [Next]_vars => LifecycleStep
  <2> SUFFICES ASSUME TypeOK, StartInv, [Next]_vars
               PROVE  LifecycleStep
    OBVIOUS
  <2> USE DEF LifecycleStep, TypeOK, StartInv, StartsOnce, Deciding,
        BeforeOutcome, Passed, Goto, StartupGoto, Broadcast, WaitOrGiveUp,
        container, timer, admin,
        Claim, Resume, CachedMeanwhile, Resets, StoreTarget, CallbackDue,
        Lifecycle!Next, Lifecycle!vars
  <2>1. ASSUME NEW r \in Requests, Arrive(r) PROVE LifecycleStep
    BY <2>1 DEF Arrive
  <2>2. ASSUME NEW r \in Requests, HangUp(r) PROVE LifecycleStep
    BY <2>2 DEF HangUp
  <2>3. ASSUME NEW r \in Requests, AwaitReady(r) PROVE LifecycleStep
    <3>1. CASE pc'[r] = "proxy"
      BY <2>3, <3>1 DEF AwaitReady, Lifecycle!Admit
    <3>2. CASE ~(pc'[r] = "proxy")
      BY <2>3, <3>2 DEF AwaitReady, Lifecycle!BeginStart
    <3> QED
      BY <3>1, <3>2
  <2>4. ASSUME NEW r \in Requests, Wake(r) PROVE LifecycleStep
    <3>1. CASE pc'[r] = "proxy"
      BY <2>4, <3>1 DEF Wake, Lifecycle!Admit
    <3>2. CASE ~(pc'[r] = "proxy")
      BY <2>4, <3>2 DEF Wake, Lifecycle!BeginStart
    <3> QED
      BY <3>1, <3>2
  <2>5. ASSUME NEW r \in Requests, LookupProxy(r) PROVE LifecycleStep
    BY <2>5 DEF LookupProxy
  <2>6. ASSUME NEW r \in Requests, LockProxies(r) PROVE LifecycleStep
    BY <2>6 DEF LockProxies
  <2>7. ASSUME NEW r \in Requests, BuildProxy(r) PROVE LifecycleStep
    BY <2>7 DEF BuildProxy
  <2>8. ASSUME NEW r \in Requests, RecordActivity(r) PROVE LifecycleStep
    BY <2>8 DEF RecordActivity
  <2>9. ASSUME NEW r \in Requests, Forward(r) PROVE LifecycleStep
    BY <2>9 DEF Forward
  <2>10. ASSUME NEW g \in Startups, StartupBegin(g) PROVE LifecycleStep
    BY <2>10 DEF StartupBegin
  <2>11. ASSUME NEW g \in Startups, Inspect(g) PROVE LifecycleStep
    BY <2>11 DEF Inspect
  <2>12. ASSUME NEW g \in Startups, Start(g) PROVE LifecycleStep
    BY <2>12 DEF Start
  <2>13. ASSUME NEW g \in Startups, GetTarget(g) PROVE LifecycleStep
    BY <2>13 DEF GetTarget
  <2>14. ASSUME NEW g \in Startups, MarkRunning(g) PROVE LifecycleStep
    <3>1. state = "Starting"
      BY <2>14 DEF MarkRunning
    <3>2. Passed' = Passed
      BY <2>14 DEF MarkRunning
    <3> QED
      BY <2>14, <3>1, <3>2 DEF MarkRunning, Lifecycle!EndStart
  <2>15. ASSUME NEW g \in Startups, Revert(g) PROVE LifecycleStep
    <3>1. state = "Starting"
      BY <2>15 DEF Revert
    <3>2. Passed' = Passed
      BY <2>15 DEF Revert
    <3> QED
      BY <2>15, <3>1, <3>2 DEF Revert, Lifecycle!EndStart
  <2>16. ASSUME NEW g \in Startups, Cleanup(g) PROVE LifecycleStep
    BY <2>16 DEF Cleanup
  <2>17. ASSUME NEW g \in Startups, ResetIdleTimer(g) PROVE LifecycleStep
    BY <2>17 DEF ResetIdleTimer
  <2>18. CASE TimerFires
    BY <2>18 DEF TimerFires
  <2>19. CASE IdleTimeout
    BY <2>19 DEF IdleTimeout, Lifecycle!IdleStop
  <2>20. CASE StopService
    BY <2>20 DEF StopService
  <2>21. CASE Outside
    BY <2>21 DEF Outside
  <2>22. ASSUME NEW b \in BOOLEAN, SetActive(b) PROVE LifecycleStep
    BY <2>22 DEF SetActive
  <2>23. CASE UNCHANGED vars
    BY <2>23 DEF vars
  <2> QED
    BY <2>1, <2>2, <2>3, <2>4, <2>5, <2>6, <2>7, <2>8, <2>9, <2>10, <2>11,
       <2>12, <2>13, <2>14, <2>15, <2>16, <2>17, <2>18, <2>19, <2>20,
       <2>21, <2>22, <2>23
       DEF Next, Request, Startup
<1> QED
  BY <1>1, <1>2, TypeCorrect, StartInvariant, PTL
     DEF Spec, LifecycleStep, ImplementsLifecycle, Lifecycle!Spec
=============================================================================
