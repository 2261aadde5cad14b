---------------------------- MODULE WakeRegistry ----------------------------
(***************************************************************************)
(* Which WakeProxy service answers for which host:                         *)
(* src/backend/internal/wakeproxy/manager.go, NewManager, AddService and   *)
(* GetServiceForHost, with the admin handlers of admin.go.                 *)
(*                                                                         *)
(* The maps services and hostIndex are guarded by Manager.mu, a            *)
(* sync.RWMutex, except in the handlers activate and deactivate, which     *)
(* read services without it.  Every request is a goroutine of its own.     *)
(* What a service does once it is found is WakeService's subject.          *)
(***************************************************************************)
EXTENDS Integers, Sequences, SequencesExt, Functions

CONSTANTS
    Requests,       \* the requests: each performs one operation
    Names,          \* the service names
    Hosts,          \* the host names; a host may serve as a name
    NoName,         \* an empty name or host
    MaxConfigured   \* bound: services in the configuration file

ASSUME NamesAssumption == Hosts \subseteq Names /\ NoName \notin Names
ASSUME MaxConfiguredAssumption == MaxConfigured \in Nat

\* ServiceConfig; hasContainer abstracts the container, port and network.
ServiceConfig == [name : Names, host : Hosts]
Operations ==
    [op : {"create"}, name : Names \union {NoName},
     host : Hosts \union {NoName}, hasContainer : BOOLEAN]
    \union [op : {"find"}, host : Hosts]
    \union [op : {"malformed", "list"}]    \* malformed: a create in no JSON
    \union [op : {"activate", "deactivate"}, name : Names]
NoOperation == [op |-> "none"]

VARIABLES
    configured,   \* the services of the configuration file, in its order
    services,     \* Manager.services: name -> its ServiceConfig
    hostIndex,    \* Manager.hostIndex: host -> name
    inactive,     \* names of services whose active flag is off
    readers,      \* requests that hold mu for reading
    writer,       \* requests that hold mu for writing (at most one)
    pc,           \* pc[r]: where request r is
    arg,          \* arg[r]: what r asks for
    answer,       \* answer[r]: how r was answered
    crashed       \* the runtime has aborted on a concurrent map access

vars == <<configured, services, hostIndex, inactive, readers, writer, pc, arg,
          answer, crashed>>
maps == <<configured, services, hostIndex, inactive>>
mu == <<readers, writer>>

\* f with x mapped to y.
With(f, x, y) == [z \in DOMAIN f \union {x} |-> IF z = x THEN y ELSE f[z]]
Empty == [x \in {} |-> NoName]

\* NewManager's loop over the configuration: later entries replace earlier
\* ones of the same name or host.
Configure(cs) ==
    FoldLeft(LAMBDA m, c : [services  |-> With(m.services, c.name, c),
                            hostIndex |-> With(m.hostIndex, c.host, c.name)],
             [services |-> Empty, hostIndex |-> Empty], cs)

Init ==
    /\ configured \in BoundedSeq(ServiceConfig, MaxConfigured)
    /\ services = Configure(configured).services
    /\ hostIndex = Configure(configured).hostIndex
    /\ inactive = {}
    /\ readers = {}
    /\ writer = {}
    /\ pc = [r \in Requests |-> "new"]
    /\ arg = [r \in Requests |-> NoOperation]
    /\ answer = [r \in Requests |-> "none"]
    /\ crashed = FALSE

Goto(r, l) == pc' = [pc EXCEPT ![r] = l]
Reply(r, a) == answer' = [answer EXCEPT ![r] = a] /\ Goto(r, "done")

-----------------------------------------------------------------------------
(* createService, the only writer. *)

Entry(o) == CASE o.op \in {"create", "malformed"} -> "validate"
              [] o.op \in {"find", "list"} -> "rlock"
              [] OTHER -> "readUnlocked"

Arrive(r) ==
    /\ pc[r] = "new"
    /\ \E o \in Operations : arg' = [arg EXCEPT ![r] = o] /\ Goto(r, Entry(o))
    /\ UNCHANGED <<maps, mu, answer, crashed>>

\* createService decodes; AddService checks what it is given (409).
Validate(r) ==
    /\ pc[r] = "validate"
    /\ CASE arg[r].op = "malformed" -> Reply(r, "badRequest")
         [] arg[r].op = "create"
            /\ (arg[r].host = NoName \/ ~arg[r].hasContainer) ->
              Reply(r, "conflict")
         [] OTHER -> Goto(r, "lock") /\ UNCHANGED answer
    /\ UNCHANGED <<maps, mu, arg, crashed>>

Lock(r) ==
    /\ pc[r] = "lock"
    /\ readers = {} /\ writer = {}
    /\ writer' = {r}
    /\ Goto(r, "check")
    /\ UNCHANGED <<maps, readers, arg, answer, crashed>>

\* The config AddService stores: the name defaults to the host.
Completed(o) ==
    [name |-> IF o.name = NoName THEN o.host ELSE o.name, host |-> o.host]

\* Mutant: only the host is checked.
HostTaken(c) == c.host \in DOMAIN hostIndex
Taken(c) == c.name \in DOMAIN services \/ c.host \in DOMAIN hostIndex

\* Mutant: the error return keeps the lock.
KeepLock(r) == UNCHANGED writer
Unlock(r) == writer' = writer \ {r}

Check(r) ==
    /\ pc[r] = "check"
    /\ IF Taken(Completed(arg[r]))
         THEN Reply(r, "conflict") /\ Unlock(r)
         ELSE Goto(r, "write") /\ UNCHANGED <<answer, writer>>
    /\ UNCHANGED <<maps, readers, arg, crashed>>

\* Mutant: the service is indexed before it has a name.
IndexRaw(o) ==
    /\ services' = With(services, Completed(o).name, Completed(o))
    /\ hostIndex' = With(hostIndex, o.host, o.name)
Add(o) ==
    /\ services' = With(services, Completed(o).name, Completed(o))
    /\ hostIndex' = With(hostIndex, o.host, Completed(o).name)

\* The end of the map writes, which pc "write" stands for, and of the lock.
Write(r) ==
    /\ pc[r] = "write"
    /\ Add(arg[r])
    /\ Reply(r, "created")
    /\ Unlock(r)
    /\ UNCHANGED <<configured, inactive, readers, arg, crashed>>

-----------------------------------------------------------------------------
(* The readers.  A waiting writer keeps new readers out. *)

\* Mutant: a lookup takes no lock.
NoLock == TRUE
MayRead == writer = {} /\ \A q \in Requests : pc[q] # "lock"

RLock(r) ==
    /\ pc[r] = "rlock"
    /\ MayRead
    /\ readers' = readers \union {r}
    /\ Goto(r, "read")
    /\ UNCHANGED <<maps, writer, arg, answer, crashed>>

\* GetServiceForHost and listServices, up to the deferred RUnlock.
Read(r) ==
    /\ pc[r] = "read"
    /\ Reply(r, IF arg[r].op = "find" /\ arg[r].host \notin DOMAIN hostIndex
                  THEN "notFound" ELSE "ok")
    /\ readers' = readers \ {r}
    /\ UNCHANGED <<maps, writer, arg, crashed>>

\* activate and deactivate: the map is read without mu, then SetActive.
Toggle(r) ==
    /\ pc[r] = "readUnlocked"
    /\ LET n == arg[r].name
       IN  IF n \notin DOMAIN services
             THEN Reply(r, "notFound") /\ UNCHANGED inactive
             ELSE /\ inactive' = IF arg[r].op = "activate"
                                   THEN inactive \ {n} ELSE inactive \union {n}
                  /\ Reply(r, "ok")
    /\ UNCHANGED <<configured, services, hostIndex, mu, arg, crashed>>

\* The runtime may find a map access that overlaps a write, and aborts.
Reading(r) == pc[r] \in {"read", "readUnlocked"}
Abort(r) ==
    /\ Reading(r)
    /\ \E q \in Requests \ {r} : pc[q] = "write"
    /\ crashed' = TRUE
    /\ UNCHANGED <<maps, mu, pc, arg, answer>>

-----------------------------------------------------------------------------
Step(r) ==
    Validate(r) \/ Lock(r) \/ Check(r) \/ Write(r) \/ RLock(r) \/ Read(r)
    \/ Toggle(r)

Next ==
    /\ ~crashed
    /\ \E r \in Requests : Arrive(r) \/ Step(r) \/ Abort(r)

Spec == Init /\ [][Next]_vars

\* Every goroutine runs.
Fairness == \A r \in Requests : WF_vars(~crashed /\ Step(r))

FairSpec == Spec /\ Fairness

-----------------------------------------------------------------------------
Locations == {"new", "validate", "lock", "check", "write", "rlock", "read",
              "readUnlocked", "done"}

TypeOK ==
    /\ configured \in Seq(ServiceConfig)
    /\ DOMAIN services \subseteq Names
    /\ \A n \in DOMAIN services : services[n] \in ServiceConfig
    /\ DOMAIN hostIndex \subseteq Hosts
    /\ \A h \in DOMAIN hostIndex : hostIndex[h] \in Names
    /\ inactive \subseteq Names
    /\ readers \subseteq Requests
    /\ writer \subseteq Requests
    /\ pc \in [Requests -> Locations]
    /\ arg \in [Requests -> Operations \union {NoOperation}]
    /\ answer \in [Requests -> {"none", "ok", "created", "conflict",
                                "badRequest", "notFound"}]
    /\ crashed \in BOOLEAN

\* The configuration file repeats no name and no host.
NoDuplicates ==
    \A i, j \in DOMAIN configured :
        i # j => /\ configured[i].name # configured[j].name
                 /\ configured[i].host # configured[j].host

\* A registered host always leads to a service, so ServeHTTP never meets a nil
\* service; and when the configuration repeats nothing, to the one service
\* that was registered for this host, and every service is reached.
\* (NewManager checks no duplicates: with a repeated name the earlier host
\* leads to the later service's container.)
HostsLeadToServices ==
    /\ \A h \in DOMAIN hostIndex : hostIndex[h] \in DOMAIN services
    /\ NoDuplicates =>
         /\ \A h \in DOMAIN hostIndex : services[hostIndex[h]].host = h
         /\ \A n \in DOMAIN services :
              /\ services[n].host \in DOMAIN hostIndex
              /\ hostIndex[services[n].host] = n

\* A service whose creation was answered 201 stays what its host leads to,
\* whatever creations, for the same name or host, run at the same time.
CreatedIsServed ==
    \A r \in Requests :
        answer[r] = "created" =>
            LET c == Completed(arg[r])
            IN  /\ c.name \in DOMAIN services /\ services[c.name] = c
                /\ c.host \in DOMAIN hostIndex /\ hostIndex[c.host] = c.name

\* Only the unlocked reads of activate and deactivate can meet a write, and
\* end the process with the maps as they are.
OnlyTogglesRace ==
    \A q, r \in Requests :
        pc[q] = "write" /\ Reading(r) =>
            arg[r].op \in {"activate", "deactivate"}

\* Every request is answered, unless the process ends: no path leaves mu
\* locked and no order of readers and writers blocks.
EveryRequestAnswered ==
    \A r \in Requests : pc[r] # "new" ~> pc[r] = "done" \/ crashed
=============================================================================
