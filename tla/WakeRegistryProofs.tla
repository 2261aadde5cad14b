------------------------- MODULE WakeRegistryProofs -------------------------
(***************************************************************************)
(* Proofs that, for any number of concurrent requests and any names and    *)
(* hosts, the registry's lock does what AddService and the lookups need.   *)
(* The initial maps are a fold over the configuration, taken entry by      *)
(* entry: the results hold for every configuration.                        *)
(***************************************************************************)
EXTENDS WakeRegistry, DataInduction

\* Where the requests are, and what those that read without the lock ask for.
Requesting ==
    /\ pc \in [Requests -> Locations]
    /\ arg \in [Requests -> Operations \union {NoOperation}]
    /\ DOMAIN answer = Requests
    /\ \A r \in Requests :
         /\ pc[r] = "readUnlocked" => arg[r].op \in {"activate", "deactivate"}
         /\ pc[r] # "done" => answer[r] # "created"

\* mu is a readers-writer lock: a request inside AddService's critical section
\* is alone, and one that reads is registered as a reader.
Locking ==
    /\ \A r \in Requests :
         /\ pc[r] \in {"check", "write"} => writer = {r} /\ readers = {}
         /\ pc[r] = "read" => r \in readers
    /\ writer = {} \/ \E r \in Requests :
                        writer = {r} /\ pc[r] \in {"check", "write"}

\* The lock is taken and given back as a readers-writer lock should.
LEMMA LockInvariant == Spec => [](Requesting /\ Locking)
<1>1. Init => Requesting /\ Locking
  BY DEF Init, Requesting, Locking, Locations
<1>2. Requesting /\ Locking /\ [Next]_vars => Requesting' /\ Locking'
  <2> SUFFICES ASSUME Requesting, Locking, [Next]_vars
               PROVE  Requesting' /\ Locking'
    OBVIOUS
  <2> USE DEF Requesting, Locking, Locations, Goto, Reply, Unlock, mu
  <2>1. ASSUME NEW r \in Requests, Arrive(r)
        PROVE  Requesting' /\ Locking'
    <3>1. PICK o \in Operations :
            arg' = [arg EXCEPT ![r] = o] /\ Goto(r, Entry(o))
      BY <2>1 DEF Arrive
    <3>2. /\ Entry(o) \in {"validate", "rlock", "readUnlocked"}
          /\ Entry(o) = "readUnlocked" => o.op \in {"activate", "deactivate"}
      BY DEF Entry, Operations
    <3>3. Requesting'
      BY <2>1, <3>1, <3>2 DEF Arrive
    <3>4. Locking'
      BY <2>1, <3>1, <3>2 DEF Arrive
    <3> QED
      BY <3>3, <3>4
  <2>2. ASSUME NEW r \in Requests, Validate(r)
        PROVE  Requesting' /\ Locking'
    BY <2>2 DEF Validate
  <2>3. ASSUME NEW r \in Requests, Lock(r)
        PROVE  Requesting' /\ Locking'
    BY <2>3 DEF Lock
  <2>4. ASSUME NEW r \in Requests, Check(r)
        PROVE  Requesting' /\ Locking'
    BY <2>4 DEF Check
  <2>5. ASSUME NEW r \in Requests, Write(r)
        PROVE  Requesting' /\ Locking'
    BY <2>5 DEF Write
  <2>6. ASSUME NEW r \in Requests, RLock(r)
        PROVE  Requesting' /\ Locking'
    BY <2>6 DEF RLock, MayRead
  <2>7. ASSUME NEW r \in Requests, Read(r)
        PROVE  Requesting' /\ Locking'
    BY <2>7 DEF Read
  <2>8. ASSUME NEW r \in Requests, Toggle(r)
        PROVE  Requesting' /\ Locking'
    BY <2>8 DEF Toggle
  <2>9. ASSUME NEW r \in Requests, Abort(r)
        PROVE  Requesting' /\ Locking'
    BY <2>9 DEF Abort
  <2>10. CASE UNCHANGED vars
    BY <2>10 DEF vars
  <2> QED
    BY <2>1, <2>2, <2>3, <2>4, <2>5, <2>6, <2>7, <2>8, <2>9, <2>10
       DEF Next, Step
<1> QED
  BY <1>1, <1>2, PTL DEF Spec

\* While AddService writes the maps nobody reads them but activate and
\* deactivate, the two handlers without the lock.
THEOREM OnlyTogglesMeetWrites == Spec => []OnlyTogglesRace
<1>1. Requesting /\ Locking => OnlyTogglesRace
  BY DEF Requesting, Locking, OnlyTogglesRace, Reading
<1> QED
  BY <1>1, LockInvariant, PTL

-----------------------------------------------------------------------------
\* What Check found stays true until Write: nothing was registered meanwhile.
StillFree ==
    \A r \in Requests : pc[r] = "write" => ~Taken(Completed(arg[r]))

\* A creation finds its name and host free until it has written both, and what
\* it has written stays.
LEMMA CreationInvariant == Spec => [](StillFree /\ CreatedIsServed)
<1>1. Init => StillFree /\ CreatedIsServed
  BY DEF Init, StillFree, CreatedIsServed
<1>2. Requesting /\ Locking /\ StillFree /\ CreatedIsServed /\ [Next]_vars
        => StillFree' /\ CreatedIsServed'
  <2> SUFFICES ASSUME Requesting, Locking, StillFree, CreatedIsServed,
                      [Next]_vars
               PROVE  StillFree' /\ CreatedIsServed'
    OBVIOUS
  <2> USE DEF Requesting, Locations, Goto, Reply
  <2>1. ASSUME NEW r \in Requests, Write(r)
        PROVE  StillFree' /\ CreatedIsServed'
    <3> DEFINE c == Completed(arg[r])
    <3>1. /\ c.name \notin DOMAIN services
          /\ c.host \notin DOMAIN hostIndex
      BY <2>1 DEF Write, StillFree, Taken
    <3>2. /\ services' = With(services, c.name, c)
          /\ hostIndex' = With(hostIndex, c.host, c.name)
          /\ arg' = arg
      BY <2>1 DEF Write, Add, Completed
    <3>3. \A q \in Requests : pc'[q] # "write"
      BY <2>1 DEF Write, Locking
    <3>4. ASSUME NEW q \in Requests, answer'[q] = "created"
          PROVE  LET d == Completed(arg[q])
                 IN  /\ d.name \in DOMAIN services' /\ services'[d.name] = d
                     /\ d.host \in DOMAIN hostIndex'
                     /\ hostIndex'[d.host] = d.name
      <4>1. CASE q = r
        <5> HIDE DEF c
        <5>1. /\ c.name \in DOMAIN services' /\ services'[c.name] = c
              /\ c.host \in DOMAIN hostIndex' /\ hostIndex'[c.host] = c.name
          BY <3>2 DEF With
        <5> QED
          BY <4>1, <5>1 DEF c
      <4>2. CASE q # r
        <5> DEFINE d == Completed(arg[q])
        <5>1. answer[q] = "created"
          BY <2>1, <3>4, <4>2 DEF Write
        <5>2. /\ d.name \in DOMAIN services /\ services[d.name] = d
              /\ d.host \in DOMAIN hostIndex /\ hostIndex[d.host] = d.name
          BY <5>1 DEF CreatedIsServed
        <5>3. d.name # c.name /\ d.host # c.host
          BY <3>1, <5>2
        <5> HIDE DEF c, d
        <5>4. d.name \in DOMAIN services' /\ services'[d.name] = d
          BY <3>2, <5>2, <5>3 DEF With
        <5>5. d.host \in DOMAIN hostIndex' /\ hostIndex'[d.host] = d.name
          BY <3>2, <5>2, <5>3 DEF With
        <5> QED
          BY <5>4, <5>5 DEF d
      <4> QED
        BY <4>1, <4>2
    <3>5. CreatedIsServed'
      BY <3>2, <3>4 DEF CreatedIsServed, Completed
    <3> QED
      BY <3>3, <3>5 DEF StillFree
  <2>2. ASSUME UNCHANGED <<services, hostIndex>>,
               NEW r \in Requests, Arrive(r)
        PROVE  StillFree' /\ CreatedIsServed'
    <3>1. PICK o \in Operations :
            arg' = [arg EXCEPT ![r] = o] /\ Goto(r, Entry(o))
      BY <2>2 DEF Arrive
    <3>2. Entry(o) # "write" /\ pc[r] = "new" /\ answer' = answer
      BY <2>2 DEF Entry, Arrive
    <3>3. StillFree'
      BY <2>2, <3>1, <3>2 DEF StillFree, Taken, Completed
    <3>4. answer[r] # "created"
      BY <3>2
    <3>5. CreatedIsServed'
      BY <2>2, <3>1, <3>2, <3>4 DEF CreatedIsServed, Completed
    <3> QED
      BY <3>3, <3>5
  <2>3. ASSUME UNCHANGED <<services, hostIndex, arg>>,
               \A q \in Requests : /\ answer'[q] = "created"
                                        => answer[q] = "created"
                                   /\ pc'[q] = "write" /\ pc[q] # "write"
                                        => ~Taken(Completed(arg[q]))
        PROVE  StillFree' /\ CreatedIsServed'
    <3>1. StillFree'
      BY <2>3 DEF StillFree, Taken, Completed
    <3>2. CreatedIsServed'
      BY <2>3 DEF CreatedIsServed, Completed
    <3> QED
      BY <3>1, <3>2
  <2>4. ASSUME NEW r \in Requests, Arrive(r)
        PROVE  StillFree' /\ CreatedIsServed'
    BY <2>2, <2>4 DEF Arrive, maps
  <2>5. ASSUME NEW r \in Requests, Check(r)
        PROVE  StillFree' /\ CreatedIsServed'
    BY <2>3, <2>5 DEF Check, maps
  <2>6. ASSUME NEW r \in Requests, Validate(r) \/ Lock(r) \/ RLock(r)
        PROVE  StillFree' /\ CreatedIsServed'
    BY <2>3, <2>6 DEF Validate, Lock, RLock, maps
  <2>7. ASSUME NEW r \in Requests, Read(r) \/ Toggle(r) \/ Abort(r)
        PROVE  StillFree' /\ CreatedIsServed'
    BY <2>3, <2>7 DEF Read, Toggle, Abort, maps
  <2>8. CASE UNCHANGED vars
    BY <2>3, <2>8 DEF vars, maps
  <2> QED
    BY <2>1, <2>4, <2>5, <2>6, <2>7, <2>8 DEF Next, Step
<1> QED
  BY <1>1, <1>2, LockInvariant, PTL DEF Spec

\* A service whose creation was answered 201 is, for ever after, the one of its
\* name and the one its host leads to.
THEOREM CreationsStand == Spec => []CreatedIsServed
BY CreationInvariant, PTL

-----------------------------------------------------------------------------
(* The two maps, as NewManager fills them and AddService extends them. *)

\* s maps names to the services of these names, h maps hosts to names in s.
Maps(s, h) ==
    /\ s \in [DOMAIN s -> ServiceConfig] /\ DOMAIN s \subseteq Names
    /\ h \in [DOMAIN h -> Names] /\ DOMAIN h \subseteq Hosts
    /\ \A x \in DOMAIN h : h[x] \in DOMAIN s

\* Each is the other's inverse.
Inverses(s, h) ==
    /\ \A x \in DOMAIN h : s[h[x]].host = x
    /\ \A n \in DOMAIN s : s[n].host \in DOMAIN h /\ h[s[n].host] = n

\* A further service keeps what the maps are; if neither its name nor its host
\* is taken, they stay inverses.
LEMMA AddedToMaps ==
  ASSUME NEW s, NEW h, Maps(s, h), NEW c \in ServiceConfig
  PROVE  /\ Maps(With(s, c.name, c), With(h, c.host, c.name))
         /\ Inverses(s, h) /\ c.name \notin DOMAIN s /\ c.host \notin DOMAIN h
              => Inverses(With(s, c.name, c), With(h, c.host, c.name))
<1> DEFINE s2 == With(s, c.name, c)
           h2 == With(h, c.host, c.name)
<1>1. c.name \in Names /\ c.host \in Hosts
  BY DEF ServiceConfig
<1>2. /\ DOMAIN s2 = DOMAIN s \union {c.name} /\ s2[c.name] = c
      /\ \A n \in DOMAIN s \ {c.name} : s2[n] = s[n]
      /\ s2 = [n \in DOMAIN s2 |-> s2[n]]
  BY DEF With
<1>3. /\ DOMAIN h2 = DOMAIN h \union {c.host} /\ h2[c.host] = c.name
      /\ \A x \in DOMAIN h \ {c.host} : h2[x] = h[x]
      /\ h2 = [x \in DOMAIN h2 |-> h2[x]]
  BY DEF With
<1> HIDE DEF s2, h2
<1>4. \A n \in DOMAIN s2 : s2[n] \in ServiceConfig
  BY <1>2 DEF Maps
<1>5. \A x \in DOMAIN h2 : h2[x] \in Names /\ h2[x] \in DOMAIN s2
  BY <1>1, <1>2, <1>3 DEF Maps
<1>6. Maps(s2, h2)
  BY <1>1, <1>2, <1>3, <1>4, <1>5 DEF Maps
<1>7. ASSUME Inverses(s, h), c.name \notin DOMAIN s, c.host \notin DOMAIN h
      PROVE  Inverses(s2, h2)
  <2>1. ASSUME NEW x \in DOMAIN h2 PROVE s2[h2[x]].host = x
    BY <1>2, <1>3, <1>7, <2>1 DEF Maps, Inverses
  <2>2. ASSUME NEW n \in DOMAIN s2
        PROVE  s2[n].host \in DOMAIN h2 /\ h2[s2[n].host] = n
    BY <1>2, <1>3, <1>7, <2>2 DEF Maps, Inverses
  <2> QED
    BY <2>1, <2>2 DEF Inverses
<1> QED
  BY <1>6, <1>7 DEF s2, h2

\* All maps from some of the keys in K to values in V.
MapsFrom(K, V) == UNION {[D -> V] : D \in SUBSET K}

\* The turn of NewManager's loop for the service c.
Registered(m, c) == [services  |-> With(m.services, c.name, c),
                     hostIndex |-> With(m.hostIndex, c.host, c.name)]
Unregistered == [services |-> Empty, hostIndex |-> Empty]

\* The loop goes through the configuration entry by entry.
LEMMA ConfigureSteps ==
  ASSUME NEW s \in Seq(ServiceConfig)
  PROVE  \E f : /\ f[0] = Unregistered
                /\ \A i \in 1..Len(s) : f[i] = Registered(f[i - 1], s[i])
                /\ Configure(s) = f[Len(s)]
<1> DEFINE n == Len(s)
           Iterates(f) ==
             f = [T \in SUBSET (DOMAIN s) |->
                    IF T = {} THEN Unregistered
                    ELSE Registered(f[T \ {Max(T)}], s[Max(T)])]
           iter == CHOOSE f : Iterates(f)
<1>1. Configure(s) = iter[DOMAIN s]
  BY DEF Configure, FoldLeft, MapThenFoldSet, Registered, Unregistered
<1>2. DOMAIN s = 1..n /\ n \in Nat
  OBVIOUS
<1>3. \E f : Iterates(f)
  <2> DEFINE A == [services  : MapsFrom(Names, ServiceConfig),
                   hostIndex : MapsFrom(Hosts, Names)]
             step == [p \in A \X (1..n) |-> Registered(p[1], s[p[2]])]
  <2>1. ASSUME NEW m \in A, NEW c \in ServiceConfig
        PROVE  Registered(m, c) \in A
    <3>1. /\ DOMAIN m.services \subseteq Names /\ c.name \in Names
          /\ \A x \in DOMAIN m.services : m.services[x] \in ServiceConfig
          /\ DOMAIN m.hostIndex \subseteq Hosts /\ c.host \in Hosts
          /\ \A x \in DOMAIN m.hostIndex : m.hostIndex[x] \in Names
      BY DEF MapsFrom, ServiceConfig
    <3>2. With(m.services, c.name, c) \in MapsFrom(Names, ServiceConfig)
      <4>1. With(m.services, c.name, c)
              \in [DOMAIN m.services \union {c.name} -> ServiceConfig]
        BY <3>1 DEF With
      <4> QED
        BY <3>1, <4>1 DEF MapsFrom
    <3>3. With(m.hostIndex, c.host, c.name) \in MapsFrom(Hosts, Names)
      <4>1. With(m.hostIndex, c.host, c.name)
              \in [DOMAIN m.hostIndex \union {c.host} -> Names]
        BY <3>1 DEF With
      <4> QED
        BY <3>1, <4>1 DEF MapsFrom
    <3> QED
      BY <3>2, <3>3 DEF Registered
  <2>2. Unregistered \in A
    <3>1. /\ Empty \in [{} -> ServiceConfig] /\ {} \in SUBSET Names
          /\ Empty \in [{} -> Names] /\ {} \in SUBSET Hosts
      BY DEF Empty
    <3>2. /\ Empty \in MapsFrom(Names, ServiceConfig)
          /\ Empty \in MapsFrom(Hosts, Names)
      BY <3>1 DEF MapsFrom
    <3> QED
      BY <3>2 DEF Unregistered
  <2>3. n \in Nat /\ \A i \in 1..n : s[i] \in ServiceConfig
    OBVIOUS
  <2> HIDE DEF A
  <2>4. step \in [A \X (1..n) -> A]
    BY <2>1, <2>3
  <2> HIDE DEF step, n
  <2>5. PICK f : IsFold(f, n, A, Unregistered, step)
    BY <2>2, <2>3, <2>4, FoldExists
  <2>6. ASSUME NEW T \in SUBSET (1..n), T # {}
        PROVE  f[T] = Registered(f[T \ {Max(T)}], s[Max(T)])
    <3>1. Max(T) \in 1..n
      <4>1. T \in SUBSET (0..n)
        OBVIOUS
      <4> QED
        BY <2>3, <2>6, <4>1, GreatestElement
    <3>2. f[T \ {Max(T)}] \in A
      BY <2>5 DEF IsFold
    <3> QED
      BY <2>5, <2>6, <3>1, <3>2 DEF step, IsFold
  <2>7. Iterates(f)
    BY <1>2, <2>5, <2>6 DEF IsFold
  <2> QED
    BY <2>7
<1>4. Iterates(iter)
  BY <1>3
<1> HIDE DEF iter
<1> DEFINE g == [i \in 0..n |-> iter[1..i]]
<1>5. g[0] = Unregistered
  BY <1>2, <1>4
<1>6. ASSUME NEW i \in 1..n
      PROVE  g[i] = Registered(g[i - 1], s[i])
  <2>1. Max(1..i) = i /\ (1..i) \ {i} = 1..(i - 1)
    BY GreatestOfInterval
  <2>2. 1..i \in SUBSET (DOMAIN s) /\ 1..i # {}
    <3>1. i \in 1..i /\ 1..i \subseteq 1..n
      BY <1>2
    <3> QED
      BY <1>2, <3>1
  <2>3. iter[1..i] = Registered(iter[1..(i - 1)], s[i])
    BY <1>4, <2>1, <2>2
  <2> QED
    BY <2>3
<1>7. iter[DOMAIN s] = g[n]
  BY <1>2
<1> HIDE DEF g
<1> QED
  BY <1>1, <1>5, <1>6, <1>7

\* Whatever is configured, the maps NewManager makes are maps; if the
\* configuration repeats nothing, they are inverses.
LEMMA ConfiguredMaps ==
  ASSUME NEW s \in Seq(ServiceConfig)
  PROVE  /\ Maps(Configure(s).services, Configure(s).hostIndex)
         /\ (\A i, j \in DOMAIN s :
               i # j => s[i].name # s[j].name /\ s[i].host # s[j].host)
              => Inverses(Configure(s).services, Configure(s).hostIndex)
<1> DEFINE Distinct == \A i, j \in DOMAIN s :
                         i # j => s[i].name # s[j].name /\ s[i].host # s[j].host
<1>1. PICK f : /\ f[0] = Unregistered
               /\ \A i \in 1..Len(s) : f[i] = Registered(f[i - 1], s[i])
               /\ Configure(s) = f[Len(s)]
  BY ConfigureSteps
<1> DEFINE P == {n \in Nat : n <= Len(s) =>
             /\ Maps(f[n].services, f[n].hostIndex)
             /\ \A x \in DOMAIN f[n].services :
                  \E i \in 1..n : s[i].name = x
             /\ \A x \in DOMAIN f[n].hostIndex :
                  \E i \in 1..n : s[i].host = x
             /\ Distinct => Inverses(f[n].services, f[n].hostIndex)}
<1>2. 0 \in P
  <2>1. f[0].services = Empty /\ f[0].hostIndex = Empty
    BY <1>1 DEF Unregistered
  <2>2. /\ DOMAIN Empty = {} /\ Empty \in [{} -> ServiceConfig]
        /\ Empty \in [{} -> Names]
    BY DEF Empty
  <2>3. Maps(Empty, Empty) /\ Inverses(Empty, Empty)
    BY <2>2 DEF Maps, Inverses
  <2> QED
    BY <2>1, <2>2, <2>3
<1>3. ASSUME NEW n \in Nat, n \in P
      PROVE  n + 1 \in P
  <2> SUFFICES ASSUME n + 1 <= Len(s)
               PROVE
             /\ Maps(f[n + 1].services, f[n + 1].hostIndex)
             /\ \A x \in DOMAIN f[n + 1].services :
                  \E i \in 1..(n + 1) : s[i].name = x
             /\ \A x \in DOMAIN f[n + 1].hostIndex :
                  \E i \in 1..(n + 1) : s[i].host = x
             /\ Distinct => Inverses(f[n + 1].services, f[n + 1].hostIndex)
    OBVIOUS
  <2> DEFINE c == s[n + 1]
             m == f[n]
  <2>1. c \in ServiceConfig /\ f[n + 1] = Registered(m, c)
    BY <1>1
  <2>2. /\ Maps(m.services, m.hostIndex)
        /\ \A x \in DOMAIN m.services : \E i \in 1..n : s[i].name = x
        /\ \A x \in DOMAIN m.hostIndex : \E i \in 1..n : s[i].host = x
        /\ Distinct => Inverses(m.services, m.hostIndex)
    BY <1>3
  <2>3. /\ f[n + 1].services = With(m.services, c.name, c)
        /\ f[n + 1].hostIndex = With(m.hostIndex, c.host, c.name)
    BY <2>1 DEF Registered
  <2>4. Distinct => /\ c.name \notin DOMAIN m.services
                    /\ c.host \notin DOMAIN m.hostIndex
    BY <2>2
  <2>5. /\ DOMAIN f[n + 1].services = DOMAIN m.services \union {c.name}
        /\ DOMAIN f[n + 1].hostIndex = DOMAIN m.hostIndex \union {c.host}
    BY <2>3 DEF With
  <2>6. /\ \A x \in DOMAIN f[n + 1].services :
             \E i \in 1..(n + 1) : s[i].name = x
        /\ \A x \in DOMAIN f[n + 1].hostIndex :
             \E i \in 1..(n + 1) : s[i].host = x
    BY <2>2, <2>5
  <2> HIDE DEF c, m, Distinct
  <2> QED
    BY <2>1, <2>2, <2>3, <2>4, <2>6, AddedToMaps
<1>4. Len(s) \in Nat /\ Len(s) \in P
  <2>1. Len(s) \in Nat
    OBVIOUS
  <2> HIDE DEF P
  <2> QED
    BY <1>2, <1>3, <2>1, SetInduction
<1> HIDE DEF Distinct
<1>5. /\ Maps(Configure(s).services, Configure(s).hostIndex)
      /\ Distinct => Inverses(Configure(s).services, Configure(s).hostIndex)
  BY <1>1, <1>4
<1> QED
  BY <1>5 DEF Distinct

-----------------------------------------------------------------------------
\* What AddService has checked before it takes the lock: the host is given.
Validated ==
    \A r \in Requests :
        /\ pc[r] = "validate" => arg[r].op \in {"create", "malformed"}
        /\ pc[r] \in {"lock", "check", "write"} =>
             arg[r].op = "create" /\ arg[r].host # NoName

\* A request that has been validated completes to a service's configuration.
LEMMA CompletedType ==
  ASSUME NEW o \in Operations, o.op = "create", o.host # NoName
  PROVE  Completed(o) \in ServiceConfig
<1>1. o.host \in Hosts /\ o.name \in Names \union {NoName}
  BY DEF Operations
<1> QED
  BY <1>1, NamesAssumption DEF Completed, ServiceConfig

\* The variables keep their types and only validated requests reach the lock.
THEOREM TypeCorrect == Spec => [](TypeOK /\ Validated)
<1>1. Init => TypeOK /\ Validated
  <2> SUFFICES ASSUME Init
               PROVE  TypeOK /\ Validated
    OBVIOUS
  <2>1. configured \in Seq(ServiceConfig)
    BY BoundedIsSeq DEF Init
  <2>2. Maps(services, hostIndex)
    BY <2>1, ConfiguredMaps DEF Init
  <2> QED
    BY <2>1, <2>2 DEF Init, TypeOK, Validated, Maps, Locations
<1>2. TypeOK /\ Validated /\ [Next]_vars => TypeOK' /\ Validated'
  <2> SUFFICES ASSUME TypeOK, Validated, [Next]_vars
               PROVE  TypeOK' /\ Validated'
    OBVIOUS
  <2> USE DEF TypeOK, Validated, Locations, Goto, Reply, Unlock, mu, maps
  <2>1. ASSUME NEW r \in Requests, Arrive(r)
        PROVE  TypeOK' /\ Validated'
    <3>1. PICK o \in Operations :
            arg' = [arg EXCEPT ![r] = o] /\ Goto(r, Entry(o))
      BY <2>1 DEF Arrive
    <3>2. /\ Entry(o) \in {"validate", "rlock", "readUnlocked"}
          /\ Entry(o) = "validate" => o.op \in {"create", "malformed"}
      BY DEF Entry, Operations
    <3>3. TypeOK'
      BY <2>1, <3>1, <3>2 DEF Arrive
    <3>4. Validated'
      BY <2>1, <3>1, <3>2 DEF Arrive
    <3> QED
      BY <3>3, <3>4
  <2>2. ASSUME NEW r \in Requests, Validate(r)
        PROVE  TypeOK' /\ Validated'
    <3>1. TypeOK'
      BY <2>2 DEF Validate
    <3>2. Validated'
      BY <2>2 DEF Validate
    <3> QED
      BY <3>1, <3>2
  <2>3. ASSUME NEW r \in Requests, Lock(r)
        PROVE  TypeOK' /\ Validated'
    BY <2>3 DEF Lock
  <2>4. ASSUME NEW r \in Requests, Check(r)
        PROVE  TypeOK' /\ Validated'
    BY <2>4 DEF Check
  <2>5. ASSUME NEW r \in Requests, Write(r)
        PROVE  TypeOK' /\ Validated'
    <3> DEFINE c == Completed(arg[r])
    <3>1. c \in ServiceConfig
      <4>1. /\ arg[r] \in Operations /\ arg[r].op = "create"
            /\ arg[r].host # NoName
        BY <2>5 DEF Write, NoOperation
      <4> QED
        BY <4>1, CompletedType
    <3>2. c.name \in Names /\ c.host \in Hosts /\ c.host = arg[r].host
      BY <3>1 DEF ServiceConfig, Completed
    <3>3. /\ services' = With(services, c.name, c)
          /\ hostIndex' = With(hostIndex, c.host, c.name)
      BY <2>5, <3>2 DEF Write, Add
    <3> HIDE DEF c
    <3>4. /\ DOMAIN services' \subseteq Names
          /\ \A n \in DOMAIN services' : services'[n] \in ServiceConfig
          /\ DOMAIN hostIndex' \subseteq Hosts
          /\ \A h \in DOMAIN hostIndex' : hostIndex'[h] \in Names
      BY <3>1, <3>2, <3>3 DEF With
    <3> QED
      BY <2>5, <3>4 DEF Write
  <2>6. ASSUME NEW r \in Requests, RLock(r) \/ Read(r)
        PROVE  TypeOK' /\ Validated'
    BY <2>6 DEF RLock, Read
  <2>7. ASSUME NEW r \in Requests, Toggle(r)
        PROVE  TypeOK' /\ Validated'
    BY <2>7 DEF Toggle
  <2>8. ASSUME NEW r \in Requests, Abort(r)
        PROVE  TypeOK' /\ Validated'
    BY <2>8 DEF Abort
  <2>9. CASE UNCHANGED vars
    BY <2>9 DEF vars
  <2> QED
    BY <2>1, <2>2, <2>3, <2>4, <2>5, <2>6, <2>7, <2>8, <2>9 DEF Next, Step
<1> QED
  BY <1>1, <1>2, PTL DEF Spec

\* What NewManager configures and AddService extends are maps, and inverses
\* unless the configuration repeats a name or a host.
MapsInvariant ==
    /\ Maps(services, hostIndex)
    /\ NoDuplicates => Inverses(services, hostIndex)

\* A registered host always leads to a service; unless the configuration repeats
\* a name or a host, to the one registered for it, and every service is reached.
THEOREM HostsServed == Spec => []HostsLeadToServices
<1>1. Init => MapsInvariant
  <2> SUFFICES ASSUME Init
               PROVE  MapsInvariant
    OBVIOUS
  <2>1. configured \in Seq(ServiceConfig)
    BY BoundedIsSeq DEF Init
  <2> QED
    BY <2>1, ConfiguredMaps DEF Init, MapsInvariant, NoDuplicates
<1>2. /\ TypeOK /\ Validated /\ StillFree
      /\ MapsInvariant /\ [Next]_vars
      => MapsInvariant'
  <2> SUFFICES ASSUME TypeOK, Validated, StillFree, MapsInvariant, [Next]_vars
               PROVE  MapsInvariant'
    OBVIOUS
  <2>1. ASSUME UNCHANGED <<services, hostIndex, configured>>
        PROVE  MapsInvariant'
    BY <2>1 DEF MapsInvariant, NoDuplicates
  <2>2. ASSUME NEW r \in Requests, Write(r)
        PROVE  MapsInvariant'
    <3> DEFINE c == Completed(arg[r])
    <3>1. c \in ServiceConfig
      <4>1. /\ arg[r] \in Operations /\ arg[r].op = "create"
            /\ arg[r].host # NoName
        BY <2>2 DEF Write, NoOperation, Validated, TypeOK
      <4> QED
        BY <4>1, CompletedType
    <3>2. c.name \notin DOMAIN services /\ c.host \notin DOMAIN hostIndex
      BY <2>2 DEF Write, StillFree, Taken
    <3>3. /\ services' = With(services, c.name, c)
          /\ hostIndex' = With(hostIndex, c.host, c.name)
          /\ configured' = configured
      BY <2>2 DEF Write, Add, Completed
    <3> HIDE DEF c
    <3> QED
      BY <3>1, <3>2, <3>3, AddedToMaps DEF MapsInvariant, NoDuplicates
  <2>3. ASSUME NEW r \in Requests,
               \/ Arrive(r) \/ Validate(r) \/ Lock(r) \/ Check(r) \/ RLock(r)
               \/ Read(r) \/ Toggle(r) \/ Abort(r)
        PROVE  MapsInvariant'
    BY <2>1, <2>3 DEF Arrive, Validate, Lock, Check, RLock, Read, Toggle,
       Abort, maps
  <2>4. CASE UNCHANGED vars
    BY <2>1, <2>4 DEF vars, maps
  <2> QED
    BY <2>2, <2>3, <2>4 DEF Next, Step
<1>3. MapsInvariant => HostsLeadToServices
  BY DEF MapsInvariant, Maps, Inverses, HostsLeadToServices
<1> QED
  BY <1>1, <1>2, <1>3, TypeCorrect, CreationInvariant, PTL DEF Spec
=============================================================================
