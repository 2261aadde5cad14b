---------------------------- MODULE WakeService ----------------------------
(***************************************************************************)
(* One WakeProxy service: the life cycle of ManagedService                 *)
(* (src/backend/internal/wakeproxy/service.go), the requests that          *)
(* ProxyHandler serves through it (handler.go), the Docker calls of Manager *)
(* (manager.go) and the activation endpoints (admin.go).                   *)
(*                                                                         *)
(* Goroutines: one per request; a startup sequence per start; the idle     *)
(* timer's callback; a goroutine per DockerStop that nobody waits for.     *)
(* s.mu is held across steps in one place only, RecordActivity, so every   *)
(* other critical section is one action guarded by mu = NoOne.  activeMu   *)
(* guards sections without blocking calls: reading or writing active is    *)
(* part of the action that does it.  SetActive reads state without s.mu.   *)
(***************************************************************************)
EXTENDS Integers, FiniteSets

CONSTANTS
    Requests,      \* one goroutine of the HTTP server each
    Startups,      \* bound: the startup goroutines there can be
    Addrs,         \* the addresses Docker may give the container
    NoAddr,        \* no target URL, no cached proxy
    DeadAddr,      \* getProxy's fallback, http://127.0.0.1:1
    NoOne,         \* a free mutex
    MaxAdmin,      \* bound: calls of SetActive
    Faults         \* what may go wrong in Docker, or happen behind our back

FaultKinds == {"inspect", "start", "target", "stop", "outside"}

ASSUME NamesAssumption ==
    /\ NoOne \notin Requests
    /\ NoAddr \notin Addrs /\ DeadAddr \notin Addrs /\ NoAddr # DeadAddr
ASSUME AddrsAssumption == Addrs # {}
ASSUME MaxAdminAssumption == MaxAdmin \in Nat
ASSUME FaultsAssumption == Faults \subseteq FaultKinds

VARIABLES
    state,         \* ManagedService.state
    active,        \* ManagedService.active
    mu,            \* the goroutine that holds s.mu and waits for it again
    hMu,           \* the request that holds ProxyHandler.mu for writing
    pc,            \* pc[r]: where request r is
    cancelled,     \* requests whose client has gone: r.Context() is done
    gpc,           \* gpc[g]: where startup sequence g is
    hasID,         \* containerID is set
    target,        \* targetURL
    proxy,         \* the address of the cached reverse proxy
    armed,         \* the idle timer is running
    fired,         \* callbacks of the idle timer waiting for s.mu
    stops,         \* DockerStop goroutines on their way
    up,            \* the container is running
    addr,          \* the container's address while it runs
    admins         \* calls of SetActive (for the bound only)

vars == <<state, active, mu, hMu, pc, cancelled, gpc, hasID, target, proxy,
          armed, fired, stops, up, addr, admins>>
container == <<up, addr>>
timer == <<armed, fired>>
admin == <<active, admins>>

Answers == {"refused", "unavailable", "served", "badGateway"}
RequestLocations ==
    {"idle", "await", "parked", "woken", "proxy", "lock", "target", "record",
     "stuck", "forward"} \union Answers

\* A startup sequence that has still to leave the state Starting.
BeforeOutcome ==
    {"begin", "inspect", "start", "target", "mark", "revert", "revertStop"}
StartupLocations ==
    BeforeOutcome \union {"unborn", "reset", "cleanup", "ended"}

Init ==
    /\ state = "Stopped"
    /\ active = TRUE
    /\ mu = NoOne
    /\ hMu = NoOne
    /\ pc = [r \in Requests |-> "idle"]
    /\ cancelled = {}
    /\ gpc = [g \in Startups |-> "unborn"]
    /\ hasID = FALSE
    /\ target = NoAddr
    /\ proxy = NoAddr
    /\ armed = FALSE
    /\ fired = 0
    /\ stops = 0
    /\ up \in BOOLEAN
    /\ addr \in Addrs
    /\ admins = 0

Goto(r, l) == pc' = [pc EXCEPT ![r] = l]
StartupGoto(g, l) == gpc' = [gpc EXCEPT ![g] = l]

\* Mutant: cond.Signal wakes one of them.
SignalOne ==
    IF \A r \in Requests : pc[r] # "parked"
      THEN UNCHANGED pc
      ELSE \E r \in Requests : pc[r] = "parked" /\ Goto(r, "woken")

\* cond.Broadcast: every request waiting on the condition wakes up.
Broadcast ==
    pc' = [r \in Requests |-> IF pc[r] = "parked" THEN "woken" ELSE pc[r]]

-----------------------------------------------------------------------------
(* A request: ServeHTTP, AwaitReady, getProxy, RecordActivity. *)

Arrive(r) ==
    /\ pc[r] = "idle"
    /\ Goto(r, IF active THEN "await" ELSE "refused")
    /\ UNCHANGED <<state, admin, mu, hMu, cancelled, gpc, hasID, target,
                   proxy, timer, stops, container>>

\* The client goes away while its request is being served.
HangUp(r) ==
    /\ pc[r] \notin Answers \union {"idle"}
    /\ r \notin cancelled
    /\ cancelled' = cancelled \union {r}
    /\ UNCHANGED <<state, admin, mu, hMu, pc, gpc, hasID, target, proxy,
                   timer, stops, container>>

\* The wait loop of AwaitReady while the state is not Running: the context is
\* looked at once, before cond.Wait.
WaitOrGiveUp(r) == Goto(r, IF r \in cancelled THEN "unavailable" ELSE "parked")

\* Mutant: the state is left to the startup sequence to change.
ClaimNothing == UNCHANGED state
Claim == state' = "Starting"

AwaitReady(r) ==
    /\ pc[r] = "await"
    /\ mu = NoOne
    /\ \/ /\ state = "Running"
          /\ Goto(r, "proxy")
          /\ UNCHANGED <<state, gpc>>
       \/ /\ state = "Stopped" /\ ~active
          /\ Goto(r, "unavailable")
          /\ UNCHANGED <<state, gpc>>
       \/ /\ state = "Stopped" /\ active
          /\ Claim
          /\ \E g \in Startups : gpc[g] = "unborn" /\ StartupGoto(g, "begin")
          /\ WaitOrGiveUp(r)
       \/ /\ state = "Starting"
          /\ WaitOrGiveUp(r)
          /\ UNCHANGED <<state, gpc>>
    /\ UNCHANGED <<admin, mu, hMu, cancelled, hasID, target, proxy, timer,
                   stops, container>>

\* Mutant: the state is not looked at again.
ResumeUnchecked(r) == Goto(r, "proxy")
Resume(r) == IF state = "Running" THEN Goto(r, "proxy") ELSE WaitOrGiveUp(r)

\* cond.Wait returns: the loop looks at the state, then at the context.
Wake(r) ==
    /\ pc[r] = "woken"
    /\ mu = NoOne
    /\ Resume(r)
    /\ UNCHANGED <<state, admin, mu, hMu, cancelled, gpc, hasID, target,
                   proxy, timer, stops, container>>

\* getProxy under the read lock.
LookupProxy(r) ==
    /\ pc[r] = "proxy"
    /\ hMu = NoOne
    /\ Goto(r, IF proxy # NoAddr THEN "record" ELSE "lock")
    /\ UNCHANGED <<state, admin, mu, hMu, cancelled, gpc, hasID, target,
                   proxy, timer, stops, container>>

CachedMeanwhile == proxy # NoAddr

\* getProxy looks again under the write lock, and keeps it for TargetURL.
LockProxies(r) ==
    /\ pc[r] = "lock"
    /\ hMu = NoOne
    /\ \/ /\ CachedMeanwhile
          /\ Goto(r, "record")
          /\ UNCHANGED hMu
       \/ /\ ~CachedMeanwhile
          /\ Goto(r, "target")
          /\ hMu' = r
    /\ UNCHANGED <<state, admin, mu, cancelled, gpc, hasID, target, proxy,
                   timer, stops, container>>

\* TargetURL takes s.mu under ProxyHandler.mu; the proxy is cached for good.
BuildProxy(r) ==
    /\ pc[r] = "target"
    /\ mu = NoOne
    /\ proxy' = IF target = NoAddr THEN DeadAddr ELSE target
    /\ hMu' = NoOne
    /\ Goto(r, "record")
    /\ UNCHANGED <<state, admin, mu, cancelled, gpc, hasID, target, timer,
                   stops, container>>

\* Mutant: the timer is reset in every state.
AlwaysResets == TRUE
Resets == state = "Running"

\* RecordActivity holds s.mu and calls resetIdleTimer, which locks s.mu: the
\* request never gets further and never lets go.
RecordActivity(r) ==
    /\ pc[r] = "record"
    /\ mu = NoOne
    /\ \/ /\ Resets
          /\ mu' = r
          /\ Goto(r, "stuck")
       \/ /\ ~Resets
          /\ Goto(r, "forward")
          /\ UNCHANGED mu
    /\ UNCHANGED <<state, admin, hMu, cancelled, gpc, hasID, target, proxy,
                   timer, stops, container>>

\* The reverse proxy answers with an error when nothing listens at the cached
\* address, or when the request's context is done.
Forward(r) ==
    /\ pc[r] = "forward"
    /\ Goto(r, IF up /\ proxy = addr /\ r \notin cancelled
                 THEN "served" ELSE "badGateway")
    /\ UNCHANGED <<state, admin, mu, hMu, cancelled, gpc, hasID, target,
                   proxy, timer, stops, container>>

-----------------------------------------------------------------------------
(* A startup sequence. *)

StartupBegin(g) ==
    /\ gpc[g] = "begin"
    /\ mu = NoOne
    /\ StartupGoto(g, IF state = "Starting" THEN "inspect" ELSE "ended")
    /\ UNCHANGED <<state, admin, mu, hMu, pc, cancelled, hasID, target, proxy,
                   timer, stops, container>>

\* DockerStart, first call: a running container is not started again.
Inspect(g) ==
    /\ gpc[g] = "inspect"
    /\ \/ up /\ hasID' = TRUE /\ StartupGoto(g, "target")
       \/ ~up /\ StartupGoto(g, "start") /\ UNCHANGED hasID
       \/ "inspect" \in Faults /\ StartupGoto(g, "revert") /\ UNCHANGED hasID
    /\ UNCHANGED <<state, admin, mu, hMu, pc, cancelled, target, proxy, timer,
                   stops, container>>

\* The container may get another address each time it is started; starting
\* one that runs changes nothing.
ContainerStarts ==
    /\ up' = TRUE
    /\ IF up THEN UNCHANGED addr ELSE addr' \in Addrs

\* DockerStart, second call.
Start(g) ==
    /\ gpc[g] = "start"
    /\ \/ /\ ContainerStarts
          /\ hasID' = TRUE
          /\ StartupGoto(g, "target")
       \/ /\ "start" \in Faults
          /\ StartupGoto(g, "revert")
          /\ UNCHANGED <<hasID, container>>
    /\ UNCHANGED <<state, admin, mu, hMu, pc, cancelled, target, proxy, timer,
                   stops>>

\* Mutant: the target is not stored before the service is marked running.
StoreLater == UNCHANGED target
StoreTarget == target' = addr

\* GetContainerTarget, two seconds later: a container that is down has no
\* valid address.
GetTarget(g) ==
    /\ gpc[g] = "target"
    /\ \/ up /\ StoreTarget /\ StartupGoto(g, "mark")
       \/ /\ ~up \/ "target" \in Faults
          /\ StartupGoto(g, "revertStop")
          /\ UNCHANGED target
    /\ UNCHANGED <<state, admin, mu, hMu, pc, cancelled, hasID, proxy, timer,
                   stops, container>>

MarkRunning(g) ==
    /\ gpc[g] = "mark"
    /\ mu = NoOne
    /\ state' = "Running"
    /\ Broadcast
    /\ StartupGoto(g, "reset")
    /\ UNCHANGED <<admin, mu, hMu, cancelled, hasID, target, proxy, timer,
                   stops, container>>

\* A failed start: the waiters wake before the container is stopped again.
Revert(g) ==
    /\ mu = NoOne
    /\ \/ gpc[g] = "revert" /\ StartupGoto(g, "ended")
       \/ gpc[g] = "revertStop" /\ StartupGoto(g, "cleanup")
    /\ state' = "Stopped"
    /\ Broadcast
    /\ UNCHANGED <<admin, mu, hMu, cancelled, hasID, target, proxy, timer,
                   stops, container>>

ContainerStops == up' = FALSE /\ UNCHANGED addr

DockerStop == ContainerStops \/ ("stop" \in Faults /\ UNCHANGED container)

Cleanup(g) ==
    /\ gpc[g] = "cleanup"
    /\ DockerStop
    /\ StartupGoto(g, "ended")
    /\ UNCHANGED <<state, admin, mu, hMu, pc, cancelled, hasID, target, proxy,
                   timer, stops>>

\* resetIdleTimer at the end of the sequence.
ResetIdleTimer(g) ==
    /\ gpc[g] = "reset"
    /\ mu = NoOne
    /\ armed' = (state = "Running")
    /\ StartupGoto(g, "ended")
    /\ UNCHANGED <<state, admin, mu, hMu, pc, cancelled, hasID, target, proxy,
                   fired, stops, container>>

-----------------------------------------------------------------------------
(* The idle timer, the stopping goroutines, the admin endpoints, Docker. *)

TimerFires ==
    /\ armed
    /\ armed' = FALSE
    /\ fired' = fired + 1
    /\ UNCHANGED <<state, admin, mu, hMu, pc, cancelled, gpc, hasID, target,
                   proxy, stops, container>>

\* Mutant: the callback runs once more than the timer fired.
CallbackAnyTime == TRUE
CallbackDue == fired > 0

IdleTimeout ==
    /\ CallbackDue
    /\ mu = NoOne
    /\ fired' = fired - 1
    /\ \/ /\ state = "Running"
          /\ state' = "Stopped"
          /\ stops' = stops + 1
       \/ /\ state # "Running"
          /\ UNCHANGED <<state, stops>>
    /\ UNCHANGED <<admin, mu, hMu, pc, cancelled, gpc, hasID, target, proxy,
                   armed, container>>

\* A goroutine of the idle timer or of SetActive stops the container.
StopService ==
    /\ stops > 0
    /\ stops' = stops - 1
    /\ IF hasID THEN DockerStop ELSE UNCHANGED container
    /\ UNCHANGED <<state, admin, mu, hMu, pc, cancelled, gpc, hasID, target,
                   proxy, timer>>

\* SetActive looks at the state without s.mu and does not change it.
SetActive(b) ==
    /\ admins < MaxAdmin
    /\ admins' = admins + 1
    /\ active' = b
    /\ stops' = IF ~b /\ state = "Running" THEN stops + 1 ELSE stops
    /\ UNCHANGED <<state, mu, hMu, pc, cancelled, gpc, hasID, target, proxy,
                   timer, container>>

\* The container ends, or is started, without WakeProxy.
Outside ==
    /\ "outside" \in Faults
    /\ \/ up /\ ContainerStops
       \/ ~up /\ ContainerStarts
    /\ UNCHANGED <<state, admin, mu, hMu, pc, cancelled, gpc, hasID, target,
                   proxy, timer, stops>>

-----------------------------------------------------------------------------
Request(r) ==
    \/ AwaitReady(r) \/ Wake(r) \/ LookupProxy(r) \/ LockProxies(r)
    \/ BuildProxy(r) \/ RecordActivity(r) \/ Forward(r)

Startup(g) ==
    \/ StartupBegin(g) \/ Inspect(g) \/ Start(g) \/ GetTarget(g)
    \/ MarkRunning(g) \/ Revert(g) \/ Cleanup(g) \/ ResetIdleTimer(g)

Next ==
    \/ \E r \in Requests : Arrive(r) \/ HangUp(r) \/ Request(r)
    \/ \E g \in Startups : Startup(g)
    \/ TimerFires \/ IdleTimeout \/ StopService \/ Outside
    \/ \E b \in BOOLEAN : SetActive(b)

Spec == Init /\ [][Next]_vars

\* Goroutines run whenever they can, Docker calls return and an armed timer
\* fires.  Clients, administrators and the outside world need do nothing.
Fairness ==
    /\ \A r \in Requests : WF_vars(Request(r))
    /\ \A g \in Startups : WF_vars(Startup(g))
    /\ WF_vars(TimerFires)
    /\ WF_vars(IdleTimeout)
    /\ WF_vars(StopService)

FairSpec == Spec /\ Fairness

-----------------------------------------------------------------------------
TypeOK ==
    /\ state \in {"Stopped", "Starting", "Running"}
    /\ active \in BOOLEAN
    /\ mu \in Requests \union {NoOne}
    /\ hMu \in Requests \union {NoOne}
    /\ pc \in [Requests -> RequestLocations]
    /\ cancelled \subseteq Requests
    /\ gpc \in [Startups -> StartupLocations]
    /\ hasID \in BOOLEAN
    /\ target \in Addrs \union {NoAddr}
    /\ proxy \in Addrs \union {NoAddr, DeadAddr}
    /\ armed \in BOOLEAN
    /\ fired \in Nat
    /\ stops \in Nat
    /\ up \in BOOLEAN
    /\ addr \in Addrs
    /\ admins \in 0..MaxAdmin

Deciding(g) == gpc[g] \in BeforeOutcome

\* "If stopped, start the container (only once)": the service is Starting
\* exactly while one startup sequence has its outcome still to come, however
\* many requests arrive, earlier sequences clean up and timers fire.
StartsOnce ==
    /\ \A g, h \in Startups : Deciding(g) /\ Deciding(h) => g = h
    /\ state = "Starting" <=> \E g \in Startups : Deciding(g)

\* No wake-up is lost: a request waits on the condition only while the service
\* is not running, so none sleeps through the start it waits for.
NoLostWakeup == state = "Running" => \A r \in Requests : pc[r] # "parked"

\* getProxy's fallback address, which "should not happen", does not happen:
\* whoever gets past AwaitReady finds a target, although it is written without
\* s.mu and the service may have stopped since.
TargetKnown ==
    /\ proxy # DeadAddr
    /\ \A r \in Requests :
         pc[r] \in {"proxy", "lock", "target"} => target # NoAddr

\* A request that holds ProxyHandler.mu, and with it the requests of every
\* other service, never waits for the s.mu that RecordActivity has lost: the
\* deadlock of one service does not spread to the others.
HandlerLockNotStuck == hMu # NoOne => mu = NoOne

\* The deadlock is never entered by the starting goroutines: while the service
\* is starting s.mu is free.
StartingNotStuck == state = "Starting" => mu = NoOne

\* So the deadlock of RecordActivity stays with the requests of its service.
DeadlockStaysLocal == HandlerLockNotStuck /\ StartingNotStuck

\* A start ends, successfully or not, and a request that waits for it wakes.
StartEnds ==
    \A r \in Requests :
        pc[r] = "parked" /\ state = "Starting" ~> pc[r] = "woken"

\* The state machine promised to callers: see ServiceLifecycle.
Passed ==
    {r \in Requests : pc[r] \in {"proxy", "lock", "target", "record", "stuck",
                                 "forward", "served", "badGateway"}}

Lifecycle == INSTANCE ServiceLifecycle WITH admitted <- Passed

ImplementsLifecycle == Lifecycle!Spec

-----------------------------------------------------------------------------
(* What the repository says and the code does not do. *)

\* TestRecordActivityDoesNotDeadlock: recording the activity of a request ends.
RecordActivityReturns == \A r \in Requests : pc[r] # "stuck"

\* "Multiple callers share the same startup process": a request waits in
\* AwaitReady only while there is a startup to wait for.
WaitersShareStartup ==
    \A r \in Requests : pc[r] = "parked" => \E g \in Startups : Deciding(g)

\* "AwaitReady blocks until the container is running."
AwaitReadyMeansUp ==
    [][\A r \in Requests :
         pc[r] \in {"await", "woken"} /\ pc'[r] = "proxy" => up]_vars

\* "Builds a reverse proxy to the container IP and port": while the service is
\* running, the cached proxy is one to the address its last start found.
ProxiesToContainer == state = "Running" => proxy \in {NoAddr, target}
=============================================================================
